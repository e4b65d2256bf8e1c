-------------------------- MODULE RealtimeHubProofs --------------------------
(***************************************************************************)
(* Proofs about RealtimeHub for every number of rooms, members and sockets.  *)
(* IInv is the inductive invariant: the safety invariants the runs check,    *)
(* the invariant of the registry, and three facts they rest on.              *)
(***************************************************************************)
EXTENDS RealtimeHub, RoomStoreProofs, FiniteSetTheorems

\* A socket that is not idle belongs to a room that was created, an
\* authenticated one to a member of that room, and only authenticated ones are
\* ever replaced.
SocketsBelong ==
    \A c \in Conns :
        /\ conn[c].phase # "idle" =>
               conn[c].room \in Rooms /\ room[conn[c].room].host # NoMember
        /\ conn[c].member # NoMember =>
               /\ conn[c].phase # "idle"
               /\ conn[c].member \in room[conn[c].room].members
        /\ conn[c].replacing => conn[c].member # NoMember

\* A member id that is still to be drawn has left nothing anywhere.
NewcomersAreClean ==
    \A m \in Members : m \notin Drawn =>
        reg[m] = NoConn /\ loc[m] = "none" /\ m \notin voice \cup hot

\* The code keeps these maps inside the room's state, RealtimeHub as functions on
\* members: where there is no state, the functions are empty.
NoResidue ==
    \A r \in Rooms : r \notin states =>
        /\ floor[r] = NoMember
        /\ \A m \in room[r].members :
               reg[m] = NoConn /\ loc[m] = "none" /\ m \notin voice \cup hot

FiniteVoice == IsFiniteSet(voice)

\* The three groups of the invariant: sockets and their registration, the maps
\* of members without state or still to be drawn, and the voice channel.
SocketsInv == SocketsBelong /\ RegisteredIsCurrent /\ OpenIsRegistered
ResidueInv == NewcomersAreClean /\ NoResidue
VoiceInv == FloorHolderIsPeer /\ VoiceWithinLimit /\ FiniteVoice

IInv == StoreInv /\ TypeOK /\ SocketsInv /\ ResidueInv /\ VoiceInv

-----------------------------------------------------------------------------
(* The hub and the registry *)

\* Pruning alone is a lookup of the registry, or nothing.
LEMMA PruneIsStoreStep ==
    ASSUME StoreTypeOK, Pruned, UNCHANGED <<room, expired, lapsed>>
    PROVE  [StoreNext]_storeVars
<1>1. CASE stored \cap expired = {}
  <2>1. stored' = stored
    BY <1>1 DEF Pruned, Live
  <2>2. codes' = codes
    BY <1>1 DEF Pruned, PrunedCodes, CodesWithout, StoreTypeOK
  <2> QED BY <2>1, <2>2 DEF storeVars
<1>2. CASE stored \cap expired # {}
  BY <1>2 DEF Lookup, StoreNext
<1> QED BY <1>1, <1>2

\* Every step of the hub is a step of the registry or leaves it alone: no
\* handler writes to the rooms but through the operations of rooms.js.
LEMMA HubStepIsStoreStep ==
    ASSUME IInv, [Next]_vars
    PROVE  [StoreNext]_storeVars
<1>0. StoreTypeOK
  BY DEF IInv, StoreInv
<1>1. CASE Http
  BY <1>1 DEF Http, StoreNext
<1>2. CASE Clock
  BY <1>2 DEF Clock, RoomDeadline, TokenDeadline, GoStale, IntervalElapses, StoreNext
<1>3. ASSUME NEW c \in Conns, Message(c) \/ Refuse(c) \/ Disconnect(c)
      PROVE  [StoreNext]_storeVars
  <2>1. CASE Disconnect(c)
    BY <1>0, <2>1, PruneIsStoreStep DEF Disconnect, Pruned, storeVars
  <2>2. ASSUME NEW b \in BOOLEAN, RoomLock(c, b) PROVE [StoreNext]_storeVars
    <3>1. HostLocks(conn[c].room, b) /\ conn[c].room \in Rooms
      BY <1>0, <2>2 DEF RoomLock, HostLocks, SetLocked, Live, StoreTypeOK
    <3> QED BY <3>1 DEF StoreNext
  <2>3. CASE RoomLockRefused(c)
    BY <1>0, <2>3, PruneIsStoreStep DEF RoomLockRefused
  <2>4. CASE RoomEnd(c)
    <3>1. HostEnds(conn[c].room) /\ conn[c].room \in Rooms
      BY <1>0, <2>4 DEF RoomEnd, HostEnds, End, Live, StoreTypeOK
    <3> QED BY <3>1 DEF StoreNext
  <2>5. CASE RoomEndThrows(c)
    BY <2>5 DEF RoomEndThrows, StoreNext
  <2>6. CASE \/ \E m \in Members : Authenticate(c, m)
             \/ Ping(c) \/ Pong(c) \/ StateGet(c) \/ Refuse(c)
             \/ LocationUpdate(c) \/ LocationRejected(c) \/ LocationStop(c)
             \/ VoiceJoin(c) \/ VoiceJoinRefused(c) \/ VoiceLeave(c)
             \/ TalkStart(c) \/ TalkStop(c) \/ RoomEndRefused(c)
    BY <2>6 DEF Authenticate, Ping, Pong, StateGet, Refuse, LocationUpdate, LocationRejected,
        LocationStop, VoiceJoin, VoiceJoinRefused, VoiceLeave, TalkStart, TalkStop,
        RoomEndRefused
  <2> QED BY <1>3, <2>1, <2>2, <2>3, <2>4, <2>5, <2>6 DEF Message
<1>4. ASSUME NEW c \in Conns, NEW r \in Rooms, Upgrade(c, r) PROVE [StoreNext]_storeVars
  BY <1>0, <1>4, PruneIsStoreStep DEF Upgrade
<1>5. CASE Heartbeat
  BY <1>0, <1>5, PruneIsStoreStep DEF Heartbeat
<1>6. CASE Restart
  BY <1>6 DEF Restart, StoreNext
<1>7. CASE UNCHANGED vars
  BY <1>7 DEF vars
<1> QED BY <1>1, <1>2, <1>3, <1>4, <1>5, <1>6, <1>7 DEF Next

\* What any step does to the rooms: hosts and modes are settled once, members
\* only come, and whoever comes was in no room before.
RoomsGrow ==
    \A r \in Rooms :
        /\ room[r].host # NoMember =>
               room'[r].host = room[r].host /\ room'[r].mode = room[r].mode
        /\ room[r].members \subseteq room'[r].members
        /\ \A m \in room'[r].members \ room[r].members : m \notin Drawn

LEMMA StepsGrowRooms ==
    ASSUME IInv, [Next]_vars
    PROVE  RoomsGrow
<1>1. [StoreNext]_storeVars /\ StoreTypeOK /\ Membership
  BY HubStepIsStoreStep DEF IInv, StoreInv
<1>2. ASSUME NEW r \in Rooms, NEW m \in Members, NEW k \in Codes, NEW mode \in Modes,
             Create(r, m, k, mode)
      PROVE  RoomsGrow
  BY <1>1, <1>2 DEF Create, RoomsGrow, StoreTypeOK, RoomRecord, Membership
<1>3. ASSUME NEW ref \in Rooms \cup Codes, NEW m \in Members, Join(ref, m)
      PROVE  RoomsGrow
  BY <1>1, <1>3 DEF Join, RoomsGrow, StoreTypeOK, RoomRecord
<1>4. ASSUME NEW r \in Rooms, NEW b \in BOOLEAN, HostLocks(r, b)
      PROVE  RoomsGrow
  BY <1>1, <1>4 DEF HostLocks, SetLocked, RoomsGrow, StoreTypeOK, RoomRecord
<1>5. CASE UNCHANGED room
  BY <1>5 DEF RoomsGrow
<1> QED
  BY <1>1, <1>2, <1>3, <1>4, <1>5 DEF StoreNext, storeVars, Lookup, HostEnds, End,
      ExpireRoom, LapseToken, StoreReset

\* The member behind a message belongs to the room of its socket.
LEMMA ReceiverBelongs ==
    ASSUME IInv, NEW c \in Conns, NEW type, Receives(c, type)
    PROVE  /\ conn[c].member \in Members
           /\ conn[c].room \in Rooms
           /\ conn[c].member \in room[conn[c].room].members
BY DEF IInv, TypeOK, ConnRecord, SocketsInv, SocketsBelong, Receives

\* A member id names one room.
LEMMA OneRoom ==
    ASSUME IInv, NEW r \in Rooms, NEW s \in Rooms, NEW m,
           m \in room[r].members, m \in room[s].members
    PROVE  r = s
BY DEF IInv, StoreInv, Membership

-----------------------------------------------------------------------------
(* Sockets and their registration *)

\* Sockets may close or be destroyed, but keep their member and room.
SocketsKept ==
    \A c \in Conns :
        /\ conn'[c].room = conn[c].room
        /\ conn'[c].member = conn[c].member
        /\ conn'[c].replacing = conn[c].replacing
        /\ conn'[c].phase = "idle" <=> conn[c].phase = "idle"
        /\ conn'[c].phase = "open" => conn[c].phase = "open"

LEMMA BelongsKept ==
    ASSUME IInv, RoomsGrow, SocketsKept
    PROVE  SocketsBelong'
BY DEF IInv, SocketsInv, SocketsBelong, RoomsGrow, SocketsKept

LEMMA SocketsFrame ==
    ASSUME IInv, RoomsGrow, SocketsKept, UNCHANGED reg, states \subseteq states'
    PROVE  SocketsInv'
<1> USE DEF IInv, SocketsInv, TypeOK
<1>1. SocketsBelong'
  BY BelongsKept
<1>2. RegisteredIsCurrent'
  BY DEF RegisteredIsCurrent, SocketsBelong, SocketsKept, RoomsGrow
<1>3. OpenIsRegistered'
  BY DEF OpenIsRegistered, SocketsKept
<1> QED BY <1>1, <1>2, <1>3

\* Ending and expiry: the registrations of the rooms in gone are dropped, and
\* their sockets closed.
LEMMA SocketsDrop ==
    ASSUME IInv, RoomsGrow, SocketsKept, NEW gone \in SUBSET Rooms, NEW stale,
           DropState(gone, stale), UNCHANGED room,
           \A c \in Conns : (\E r \in gone : RegisteredIn(c, r)) => conn'[c].phase # "open"
    PROVE  SocketsInv'
<1> USE DEF IInv, SocketsInv, TypeOK
<1> DEFINE members == UNION {room[r].members : r \in gone}
<1>0. /\ states' = states \ gone
      /\ reg' = [m \in Members |-> IF m \in members THEN NoConn ELSE reg[m]]
  BY DEF DropState
<1>1. SocketsBelong'
  BY BelongsKept
<1>2. RegisteredIsCurrent'
  <2> SUFFICES ASSUME NEW m \in Members, reg'[m] # NoConn
               PROVE  /\ conn'[reg'[m]].phase # "idle"
                      /\ conn'[reg'[m]].member = m
                      /\ conn'[reg'[m]].room \in states'
                      /\ m \in room'[conn'[reg'[m]].room].members
                      /\ ~conn'[reg'[m]].replacing
    BY DEF RegisteredIsCurrent
  <2>1. reg'[m] = reg[m] /\ reg[m] \in Conns /\ \A r \in gone : m \notin room[r].members
    BY <1>0
  <2>2. /\ conn[reg[m]].room \in states /\ m \in room[conn[reg[m]].room].members
        /\ conn[reg[m]].phase # "idle" /\ conn[reg[m]].member = m /\ ~conn[reg[m]].replacing
    BY <2>1 DEF RegisteredIsCurrent
  <2> QED BY <1>0, <2>1, <2>2 DEF SocketsKept
<1>3. OpenIsRegistered'
  <2> SUFFICES ASSUME NEW c \in Conns, conn'[c].phase = "open", conn'[c].member # NoMember
               PROVE  reg'[conn'[c].member] = c
    BY DEF OpenIsRegistered
  <2> DEFINE m == conn[c].member
  <2>1. conn'[c].member = m /\ m \in Members /\ reg[m] = c
    BY DEF SocketsKept, OpenIsRegistered, ConnRecord
  <2>2. \A r \in gone : m \notin room[r].members
    BY <2>1 DEF RegisteredIn
  <2> QED BY <1>0, <2>1, <2>2
<1> QED BY <1>1, <1>2, <1>3

\* #authenticate() hands the registration over: the new socket takes it, and
\* the one before is closed and marked, whatever state it was in.
LEMMA AuthenticateSockets ==
    ASSUME IInv, NEW c \in Conns, NEW m \in Members, Authenticate(c, m)
    PROVE  SocketsInv'
<1> DEFINE r == conn[c].room
<1> USE HubAssumption, IdsAssumption DEF IInv, SocketsInv, TypeOK
<1>0. /\ r \in Rooms /\ m \in room[r].members /\ conn[c].member = NoMember
      /\ conn[c].phase # "idle" /\ ~conn[c].replacing /\ m # NoMember
  BY DEF Authenticate, Reading, SocketsBelong
<1>1. /\ conn'[c].member = m /\ conn'[c].room = r /\ ~conn'[c].replacing
      /\ conn'[c].phase # "idle"
  <2>1. conn'[c] = [conn[c] EXCEPT !.member = m, !.alive = TRUE,
                       !.phase = IF @ = "open" /\ ~SnapshotFits(r) THEN "destroyed" ELSE @]
    BY DEF Authenticate
  <2> QED BY <1>0, <2>1 DEF ConnRecord
<1>2. \A d \in Conns : d # c =>
          /\ conn'[d].member = conn[d].member /\ conn'[d].room = conn[d].room
          /\ conn'[d].phase = "idle" <=> conn[d].phase = "idle"
          /\ conn'[d].phase = "open" => conn[d].phase = "open" /\ d # reg[m]
          /\ conn'[d].replacing => conn[d].replacing \/ d = reg[m]
  <2> SUFFICES ASSUME NEW d \in Conns, d # c
               PROVE  /\ conn'[d].member = conn[d].member /\ conn'[d].room = conn[d].room
                      /\ conn'[d].phase = "idle" <=> conn[d].phase = "idle"
                      /\ conn'[d].phase = "open" => conn[d].phase = "open" /\ d # reg[m]
                      /\ conn'[d].replacing => conn[d].replacing \/ d = reg[m]
    OBVIOUS
  <2>1. conn'[d] = IF d = reg[m] THEN Replaced(conn[d]) ELSE conn[d]
    BY DEF Authenticate
  <2>2. conn[d] \in ConnRecord
    OBVIOUS
  <2> QED BY <2>1, <2>2 DEF Replaced, Closed, ConnRecord
<1>3. /\ reg' = [reg EXCEPT ![m] = c] /\ states' = states \cup {r} /\ room' = room
  BY DEF Authenticate, Touch, storeVars
<1>4. \A d \in Conns : d = reg[m] => conn[d].member = m
  BY DEF RegisteredIsCurrent
<1>5. SocketsBelong'
  <2> SUFFICES ASSUME NEW d \in Conns
               PROVE  /\ conn'[d].phase # "idle" =>
                             conn'[d].room \in Rooms /\ room[conn'[d].room].host # NoMember
                      /\ conn'[d].member # NoMember =>
                             /\ conn'[d].phase # "idle"
                             /\ conn'[d].member \in room[conn'[d].room].members
                      /\ conn'[d].replacing => conn'[d].member # NoMember
    BY <1>3 DEF SocketsBelong
  <2>1. CASE d = c
    BY <1>0, <1>1, <2>1 DEF SocketsBelong
  <2>2. CASE d # c
    BY <1>0, <1>2, <1>4, <2>2 DEF SocketsBelong
  <2> QED BY <2>1, <2>2
<1>6. RegisteredIsCurrent'
  <2> SUFFICES ASSUME NEW n \in Members, reg'[n] # NoConn
               PROVE  /\ conn'[reg'[n]].phase # "idle"
                      /\ conn'[reg'[n]].member = n
                      /\ conn'[reg'[n]].room \in states'
                      /\ n \in room[conn'[reg'[n]].room].members
                      /\ ~conn'[reg'[n]].replacing
    BY <1>3 DEF RegisteredIsCurrent
  <2>1. CASE n = m
    BY <1>0, <1>1, <1>3, <2>1
  <2>2. CASE n # m
    <3>1. reg'[n] = reg[n] /\ reg[n] \in Conns
      BY <1>3, <2>2
    <3>2. reg[n] # c /\ reg[n] # reg[m]
      BY <1>0, <1>4, <2>2, <3>1 DEF RegisteredIsCurrent
    <3> QED BY <1>2, <1>3, <3>1, <3>2 DEF RegisteredIsCurrent
  <2> QED BY <2>1, <2>2
<1>7. OpenIsRegistered'
  <2> SUFFICES ASSUME NEW d \in Conns, conn'[d].phase = "open", conn'[d].member # NoMember
               PROVE  reg'[conn'[d].member] = d
    BY DEF OpenIsRegistered
  <2>1. CASE d = c
    BY <1>1, <1>3, <2>1
  <2>2. CASE d # c
    BY <1>2, <1>3, <2>2 DEF OpenIsRegistered, ConnRecord
  <2> QED BY <2>1, <2>2
<1> QED BY <1>5, <1>6, <1>7

\* #disconnect(): a late close takes out its own registration or none.
LEMMA DisconnectSockets ==
    ASSUME IInv, NEW c \in Conns, Disconnect(c)
    PROVE  SocketsInv'
<1> USE HubAssumption, IdsAssumption DEF IInv, SocketsInv, TypeOK
<1>1. /\ conn'[c] = IdleConn /\ \A d \in Conns : d # c => conn'[d] = conn[d]
      /\ room' = room /\ states' = states
  BY DEF Disconnect
<1>2. reg' \in [Members -> Conns \cup {NoConn}]
  BY DEF Disconnect
<1>3. \A m \in Members : /\ reg[m] = c => reg'[m] = NoConn
                         /\ reg[m] # c => reg'[m] = reg[m]
  BY DEF Disconnect, IsRegistered, RegisteredIsCurrent
<1>4. SocketsBelong'
  BY <1>1 DEF SocketsBelong, IdleConn
<1>5. RegisteredIsCurrent'
  BY <1>1, <1>2, <1>3 DEF RegisteredIsCurrent
<1>6. OpenIsRegistered'
  BY <1>1, <1>3 DEF OpenIsRegistered, IdleConn, ConnRecord
<1> QED BY <1>4, <1>5, <1>6

\* A socket that opens is not authenticated yet.
LEMMA UpgradeSockets ==
    ASSUME IInv, NEW c \in Conns, NEW r \in Rooms, Upgrade(c, r)
    PROVE  SocketsInv'
<1> USE IdsAssumption DEF IInv, SocketsInv, TypeOK
<1>1. /\ conn'[c].phase = "open" /\ conn'[c].room = r /\ conn'[c].member = NoMember
      /\ ~conn'[c].replacing
      /\ \A d \in Conns : d # c => conn'[d] = conn[d]
      /\ UNCHANGED <<room, states, reg>>
  BY DEF Upgrade, IdleConn
<1>2. conn[c].phase = "idle" /\ room[r].host # NoMember
  BY DEF Upgrade, Live, StoreInv, StoredWasCreated
<1>3. SocketsBelong'
  BY <1>1, <1>2 DEF SocketsBelong
<1>4. RegisteredIsCurrent'
  BY <1>1, <1>2 DEF RegisteredIsCurrent
<1>5. OpenIsRegistered'
  BY <1>1 DEF OpenIsRegistered
<1> QED BY <1>3, <1>4, <1>5

\* The empty process.
LEMMA ResetSockets ==
    ASSUME IInv, HubReset, UNCHANGED room
    PROVE  SocketsInv'
BY HubAssumption, IdsAssumption
   DEF HubReset, IdleConn, SocketsInv, SocketsBelong, RegisteredIsCurrent, OpenIsRegistered

\* Handlers that write to no socket's state.
LEMMA QuietSockets ==
    ASSUME IInv, RoomsGrow, UNCHANGED <<conn, reg>>, states \subseteq states'
    PROVE  SocketsInv'
BY SocketsFrame DEF SocketsKept

LEMMA SocketsStep ==
    ASSUME IInv, [Next]_vars
    PROVE  SocketsInv'
<1>0. RoomsGrow
  BY StepsGrowRooms
<1> USE DEF IInv, TypeOK, ConnRecord
<1>1. CASE Http
  BY <1>0, <1>1, QuietSockets DEF Http, hubVars
<1>2. CASE Clock
  BY <1>0, <1>2, QuietSockets DEF Clock, RoomDeadline, TokenDeadline, GoStale, IntervalElapses,
      hubVars
<1>3. ASSUME NEW c \in Conns, Message(c) \/ Refuse(c) \/ Disconnect(c) PROVE SocketsInv'
  <2>1. CASE Disconnect(c)
    BY <2>1, DisconnectSockets
  <2>2. ASSUME NEW m \in Members, Authenticate(c, m) PROVE SocketsInv'
    BY <2>2, AuthenticateSockets
  <2>3. CASE Ping(c) \/ Pong(c) \/ StateGet(c) \/ Refuse(c)
    <3>1. SocketsKept
      BY <2>3 DEF Ping, Pong, StateGet, Refuse, Receives, Reading, Closed, SocketsKept
    <3>2. UNCHANGED reg /\ states \subseteq states'
      BY <2>3 DEF Ping, Pong, StateGet, Refuse, Touch
    <3> QED BY <1>0, <3>1, <3>2, SocketsFrame
  <2>4. CASE RoomEnd(c)
    <3> DEFINE gone == {conn[c].room}
    <3>1. /\ gone \in SUBSET Rooms /\ DropState(gone, {}) /\ UNCHANGED room
          /\ conn' = HangUp(gone)
      BY <2>4, ReceiverBelongs DEF RoomEnd, End
    <3> HIDE DEF gone
    <3>2. SocketsKept
      BY <3>1 DEF HangUp, Closed, SocketsKept
    <3>3. \A d \in Conns : (\E r \in gone : RegisteredIn(d, r)) => conn'[d].phase # "open"
      BY <3>1 DEF HangUp, Closed
    <3> QED BY <1>0, <3>1, <3>2, <3>3, SocketsDrop
  <2>5. CASE RoomEndThrows(c)
    BY <2>5, ResetSockets DEF RoomEndThrows, StoreReset
  <2>6. CASE \/ LocationUpdate(c) \/ LocationRejected(c) \/ LocationStop(c)
             \/ VoiceJoin(c) \/ VoiceJoinRefused(c) \/ VoiceLeave(c)
             \/ TalkStart(c) \/ TalkStop(c) \/ RoomEndRefused(c) \/ RoomLockRefused(c)
             \/ \E b \in BOOLEAN : RoomLock(c, b)
    BY <1>0, <2>6, QuietSockets
       DEF LocationUpdate, LocationRejected, LocationStop, VoiceJoin, VoiceJoinRefused,
           VoiceLeave, TalkStart, TalkStop, RoomEndRefused, RoomLockRefused, RoomLock, Touch
  <2> QED BY <1>3, <2>1, <2>2, <2>3, <2>4, <2>5, <2>6 DEF Message
<1>4. ASSUME NEW c \in Conns, NEW r \in Rooms, Upgrade(c, r) PROVE SocketsInv'
  BY <1>4, UpgradeSockets
<1>5. CASE Heartbeat
  <2>1. DropState(Abandoned, Stale) /\ UNCHANGED room /\ Abandoned \in SUBSET Rooms
    BY <1>5 DEF Heartbeat, Abandoned
  <2>2. \A c \in Conns :
           \/ conn'[c] = Beat(conn[c]) /\ \E r \in states \cap Live : RegisteredIn(c, r)
           \/ /\ conn'[c] = HangUp(Abandoned)[c]
              /\ ~\E r \in states \cap Live : RegisteredIn(c, r)
    BY <1>5 DEF Heartbeat
  <2>3. \A c \in Conns : (\E r \in states \cap Live : RegisteredIn(c, r)) =>
           conn[c].phase # "idle" /\ ~\E r \in Abandoned : RegisteredIn(c, r)
    <3> SUFFICES ASSUME NEW c \in Conns, NEW r \in states \cap Live, RegisteredIn(c, r)
                 PROVE  conn[c].phase # "idle" /\ ~\E s \in Abandoned : RegisteredIn(c, s)
      OBVIOUS
    <3>1. PICK m \in room[r].members : reg[m] = c
      BY DEF RegisteredIn
    <3>2. m \in Members /\ conn[c].member = m /\ conn[c].phase # "idle"
      BY <3>1, HubAssumption DEF StoreInv, StoreTypeOK, RoomRecord, SocketsInv, RegisteredIsCurrent
    <3>3. ASSUME NEW s \in Abandoned, RegisteredIn(c, s) PROVE FALSE
      <4>1. PICK n \in room[s].members : reg[n] = c
        BY <3>3 DEF RegisteredIn
      <4>2. s \in Rooms /\ n \in Members /\ n = m
        BY <3>2, <4>1, HubAssumption
           DEF Abandoned, StoreInv, StoreTypeOK, RoomRecord, SocketsInv, RegisteredIsCurrent
      <4>3. s = r
        BY <3>1, <4>1, <4>2, OneRoom
      <4> QED BY <4>3 DEF Abandoned
    <3> QED BY <3>2, <3>3
  <2>4. SocketsKept
    <3> SUFFICES ASSUME NEW c \in Conns
                 PROVE  /\ conn'[c].room = conn[c].room
                        /\ conn'[c].member = conn[c].member
                        /\ conn'[c].replacing = conn[c].replacing
                        /\ conn'[c].phase = "idle" <=> conn[c].phase = "idle"
                        /\ conn'[c].phase = "open" => conn[c].phase = "open"
      BY DEF SocketsKept
    <3>1. conn[c] \in ConnRecord
      OBVIOUS
    <3>2. CASE conn'[c] = Beat(conn[c]) /\ \E r \in states \cap Live : RegisteredIn(c, r)
      BY <2>3, <3>1, <3>2 DEF Beat
    <3>3. CASE conn'[c] = HangUp(Abandoned)[c]
      BY <3>1, <3>3 DEF HangUp, Closed
    <3> QED BY <2>2, <3>2, <3>3
  <2>5. \A c \in Conns : (\E r \in Abandoned : RegisteredIn(c, r)) => conn'[c].phase # "open"
    BY <2>2, <2>3 DEF HangUp, Closed
  <2> QED BY <1>0, <2>1, <2>4, <2>5, SocketsDrop
<1>6. CASE Restart
  BY <1>6, ResetSockets DEF Restart, StoreReset
<1>7. CASE UNCHANGED vars
  BY <1>0, <1>7, QuietSockets DEF vars, hubVars
<1> QED BY <1>1, <1>2, <1>3, <1>4, <1>5, <1>6, <1>7 DEF Next

-----------------------------------------------------------------------------
(* Types *)

MemberEvents == {"member.online", "member.offline", "location.member", "location.cleared",
                 "voice.peer.joined", "voice.peer.left"}

Views == [Conns -> ViewRecord]

LEMMA BroadcastMemberType ==
    ASSUME NEW vs \in Views, NEW to, NEW t \in MemberEvents, NEW m \in Members
    PROVE  Broadcast(vs, to, Event(t, m)) \in Views
<1>1. \A v \in ViewRecord : Fold(v, Event(t, m)) \in ViewRecord
  BY DEF Fold, Event, MemberEvents, ViewRecord
<1> QED BY <1>1 DEF Broadcast, Views

LEMMA BroadcastFloorType ==
    ASSUME NEW vs \in Views, NEW to, NEW m \in Members \cup {NoMember}
    PROVE  Broadcast(vs, to, Event("voice.floor", m)) \in Views
<1>1. \A v \in ViewRecord : Fold(v, Event("voice.floor", m)) \in ViewRecord
  BY DEF Fold, Event, ViewRecord
<1> QED BY <1>1 DEF Broadcast, Views

LEMMA BroadcastLockedType ==
    ASSUME NEW vs \in Views, NEW r, NEW b \in BOOLEAN
    PROVE  ToldLocked(vs, r, b) \in Views
<1> DEFINE e == [type |-> "room.locked", locked |-> b]
<1>1. \A v \in ViewRecord : Fold(v, e) \in ViewRecord
  BY DEF Fold, ViewRecord
<1> HIDE DEF e
<1>2. Broadcast(vs, room[r].members, e) \in Views
  BY <1>1 DEF Broadcast, Views
<1> QED BY <1>2 DEF ToldLocked, e

LEMMA ToldLeftType ==
    ASSUME NEW vs \in Views, NEW to, NEW r, NEW m \in Members
    PROVE  ToldLeft(vs, to, r, m) \in Views
BY BroadcastFloorType, BroadcastMemberType DEF ToldLeft, MemberEvents

LEMMA ToldClearedType ==
    ASSUME NEW vs \in Views, NEW to, NEW m \in Members
    PROVE  ToldCleared(vs, to, m) \in Views
BY BroadcastMemberType DEF ToldCleared, MemberEvents

LEMMA SnapshotType ==
    ASSUME IInv, NEW r \in Rooms, NEW online \in SUBSET Members
    PROVE  Snapshot(r, online) \in ViewRecord
BY DEF IInv, StoreInv, StoreTypeOK, RoomRecord, Snapshot, BlankView, ViewRecord, Located

\* The part of TypeOK that is the hub's own.
HubTypeOK ==
    /\ up \in BOOLEAN
    /\ states \subseteq Rooms
    /\ conn \in [Conns -> ConnRecord]
    /\ reg \in [Members -> Conns \cup {NoConn}]
    /\ loc \in [Members -> Ages]
    /\ hot \subseteq Members
    /\ voice \subseteq Members
    /\ floor \in [Rooms -> Members \cup {NoMember}]
    /\ view \in Views

LEMMA ResetTypes == ASSUME HubReset, up' \in BOOLEAN PROVE HubTypeOK'
BY DEF HubReset, HubTypeOK, IdleConn, BlankView, ConnRecord, ViewRecord, Phases, Ages, Views

LEMMA DropTypesHub ==
    ASSUME HubTypeOK, NEW gone, NEW stale, DropState(gone, stale)
    PROVE  /\ states' \subseteq Rooms
           /\ reg' \in [Members -> Conns \cup {NoConn}]
           /\ loc' \in [Members -> Ages]
           /\ hot' \subseteq Members
           /\ voice' \subseteq Members
           /\ floor' \in [Rooms -> Members \cup {NoMember}]
BY DEF HubTypeOK, DropState, Ages

\* A change of one socket's phase keeps the types of the others.
LEMMA ClosedType == \A k \in ConnRecord : /\ Closed(k) \in ConnRecord
                                           /\ Replaced(k) \in ConnRecord
                                           /\ Beat(k) \in ConnRecord
BY DEF Closed, Replaced, Beat, ConnRecord, Phases

LEMMA SocketTypes ==
    ASSUME IInv, HubTypeOK, NEW c \in Conns,
           \/ \E m \in Members : Authenticate(c, m)
           \/ Ping(c) \/ Pong(c) \/ StateGet(c) \/ Refuse(c)
    PROVE  HubTypeOK'
<1> USE DEF HubTypeOK
<1>0. conn[c] \in ConnRecord /\ (Reading(c) => conn[c].room \in Rooms)
  BY DEF IInv, SocketsInv, SocketsBelong, Reading
<1>1. CASE Ping(c) \/ Pong(c) \/ Refuse(c)
  <2>1. /\ [conn[c] EXCEPT !.alive = TRUE] \in ConnRecord
        /\ Closed(conn[c]) \in ConnRecord
    BY <1>0, ClosedType DEF ConnRecord
  <2>2. conn' \in [Conns -> ConnRecord]
    BY <1>1, <2>1 DEF Ping, Pong, Refuse
  <2>3. states' \subseteq Rooms
    BY <1>0, <1>1 DEF Ping, Pong, Refuse, Touch, Receives
  <2> QED BY <1>1, <2>2, <2>3 DEF Ping, Pong, Refuse
<1>2. CASE StateGet(c)
  <2>1. Snapshot(conn[c].room, Online(conn[c].room)) \in ViewRecord
    BY <1>0, <1>2, SnapshotType
       DEF StateGet, Receives, Online, IInv, StoreInv, StoreTypeOK, RoomRecord
  <2>2. conn' \in [Conns -> ConnRecord]
    <3>1. [conn[c] EXCEPT !.phase = "destroyed"] \in ConnRecord
      BY <1>0 DEF ConnRecord, Phases
    <3>2. \/ conn' = conn
          \/ conn' = [conn EXCEPT ![c] = [conn[c] EXCEPT !.phase = "destroyed"]]
      BY <1>2 DEF StateGet
    <3> QED BY <3>1, <3>2
  <2>3. view' \in Views
    <3> DEFINE snap == [Snapshot(conn[c].room, Online(conn[c].room)) EXCEPT
                 !.joined = view[c].joined, !.peers = view[c].peers,
                 !.floor = view[c].floor]
    <3>1. snap \in ViewRecord
      BY <2>1 DEF Views, ViewRecord
    <3>2. view' = view \/ view' = [view EXCEPT ![c] = snap]
      BY <1>2 DEF StateGet
    <3> HIDE DEF snap
    <3> QED BY <3>1, <3>2 DEF Views
  <2>4. states' \subseteq Rooms
    BY <1>0, <1>2 DEF StateGet, Touch, Receives
  <2> QED BY <1>2, <2>2, <2>3, <2>4 DEF StateGet
<1>3. ASSUME NEW m \in Members, Authenticate(c, m) PROVE HubTypeOK'
  <2> DEFINE r == conn[c].room
             told == Broadcast(view, room[r].members \ {m}, Event("member.online", m))
             snap == Snapshot(r, Online(r) \cup {m})
  <2>1. r \in Rooms
    BY <1>0, <1>3 DEF Authenticate
  <2>2. snap \in ViewRecord
    BY <2>1, SnapshotType DEF Online, IInv, StoreInv, StoreTypeOK, RoomRecord
  <2>3. told \in Views
    BY BroadcastMemberType DEF MemberEvents
  <2>4. view' = [told EXCEPT ![c] = snap]
    BY <1>3 DEF Authenticate
  <2>5. view' \in Views
    <3> HIDE DEF told, snap
    <3> QED BY <2>2, <2>3, <2>4 DEF Views
  <2>6. conn' \in [Conns -> ConnRecord]
    <3> DEFINE mine == [conn[c] EXCEPT !.member = m, !.alive = TRUE,
                   !.phase = IF @ = "open" /\ ~SnapshotFits(r) THEN "destroyed" ELSE @]
    <3>1. mine \in ConnRecord
      BY <1>0 DEF ConnRecord, Phases
    <3>2. conn' = [d \in Conns |-> IF d = c THEN mine
                                  ELSE IF d = reg[m] THEN Replaced(conn[d]) ELSE conn[d]]
      BY <1>3 DEF Authenticate
    <3> HIDE DEF mine
    <3> QED BY <3>1, <3>2, ClosedType
  <2> QED BY <1>3, <2>1, <2>5, <2>6 DEF Authenticate, Touch
<1> QED BY <1>1, <1>2, <1>3

LEMMA MemberTypes ==
    ASSUME IInv, HubTypeOK, NEW c \in Conns,
           \/ LocationUpdate(c) \/ LocationRejected(c) \/ LocationStop(c)
           \/ VoiceJoin(c) \/ VoiceJoinRefused(c) \/ VoiceLeave(c)
           \/ TalkStart(c) \/ TalkStop(c)
           \/ \E b \in BOOLEAN : RoomLock(c, b)
           \/ RoomLockRefused(c) \/ RoomEndRefused(c)
    PROVE  HubTypeOK'
<1> DEFINE m == conn[c].member
           r == conn[c].room
<1>0. m \in Members /\ r \in Rooms /\ m \in room[r].members
  BY ReceiverBelongs
     DEF LocationUpdate, LocationRejected, LocationStop, VoiceJoin, VoiceJoinRefused,
         VoiceLeave, TalkStart, TalkStop, RoomLock, RoomLockRefused, RoomEndRefused
<1> USE DEF HubTypeOK
<1>1. CASE LocationUpdate(c) \/ LocationStop(c)
  <2>1. view' \in Views
    <3>1. CASE LocationUpdate(c)
      <4>1. view' = Broadcast(view, room[r].members, Event("location.member", m))
        BY <3>1 DEF LocationUpdate
      <4>2. view \in Views /\ "location.member" \in MemberEvents
        BY DEF MemberEvents
      <4> QED BY <1>0, <4>1, <4>2, BroadcastMemberType
    <3>2. CASE LocationStop(c)
      <4>1. view' = ToldCleared(view, room[r].members, m)
        BY <3>2 DEF LocationStop
      <4> QED BY <1>0, <4>1, ToldClearedType
    <3> QED BY <1>1, <3>1, <3>2
  <2> QED BY <1>0, <1>1, <2>1 DEF LocationUpdate, LocationStop, Touch, Ages
<1>2. CASE LocationRejected(c) \/ VoiceJoinRefused(c) \/ RoomEndRefused(c) \/ RoomLockRefused(c)
  BY <1>0, <1>2
     DEF LocationRejected, VoiceJoinRefused, RoomEndRefused, RoomLockRefused, Touch
<1>3. CASE VoiceJoin(c)
  <2> DEFINE told == IF m \in voice THEN view
                     ELSE Broadcast(view, room[r].members \ {m}, Event("voice.peer.joined", m))
             mine == [told[c] EXCEPT !.joined = TRUE, !.floor = floor[r],
                                     !.peers = (Peers(r) \cup {m}) \ {m}]
  <2>1. told \in Views
    BY <1>0, BroadcastMemberType DEF MemberEvents
  <2>2. mine \in ViewRecord
    <3> HIDE DEF told
    <3> QED BY <1>0, <2>1 DEF Views, ViewRecord, Peers
  <2>3. view' = told \/ view' = [told EXCEPT ![c] = mine]
    <3>1. view' = IF conn[c].phase = "open"
                  THEN [told EXCEPT ![c].joined = TRUE, ![c].floor = floor[r],
                                    ![c].peers = (Peers(r) \cup {m}) \ {m}]
                  ELSE told
      BY <1>3 DEF VoiceJoin
    <3> HIDE DEF told
    <3> QED BY <2>1, <3>1 DEF Views
  <2>4. view' \in Views
    <3> HIDE DEF told, mine
    <3> QED BY <2>1, <2>2, <2>3 DEF Views
  <2> QED BY <1>0, <1>3, <2>4 DEF VoiceJoin, Touch
<1>4. CASE VoiceLeave(c)
  <2> DEFINE told == ToldLeft(view, room[r].members, r, m)
             mine == [told[c] EXCEPT !.joined = FALSE]
  <2>1. told \in Views
    BY <1>0, ToldLeftType
  <2>2. view' = [told EXCEPT ![c].joined = FALSE]
    BY <1>4 DEF VoiceLeave
  <2>3. view' \in Views
    <3>1. mine \in ViewRecord
      <4> HIDE DEF told
      <4> QED BY <2>1 DEF Views, ViewRecord
    <3>2. view' = [told EXCEPT ![c] = mine]
      <4> HIDE DEF told
      <4> QED BY <2>1, <2>2 DEF Views
    <3> HIDE DEF told, mine
    <3> QED BY <2>1, <3>1, <3>2 DEF Views
  <2> QED BY <1>0, <1>4, <2>3 DEF VoiceLeave, FloorWithout
<1>5. CASE TalkStart(c) \/ TalkStop(c)
  <2>1. view' \in Views
    BY <1>0, <1>5, BroadcastFloorType DEF TalkStart, TalkStop
  <2> QED BY <1>0, <1>5, <2>1 DEF TalkStart, TalkStop, Touch
<1>6. ASSUME NEW b \in BOOLEAN, RoomLock(c, b) PROVE HubTypeOK'
  <2>1. view' \in Views
    BY <1>6, BroadcastLockedType DEF RoomLock
  <2> QED BY <1>0, <1>6, <2>1 DEF RoomLock, Touch
<1> QED BY <1>1, <1>2, <1>3, <1>4, <1>5, <1>6

\* Closing, ending, beating, the clock.
LEMMA DisconnectTypes ==
    ASSUME IInv, HubTypeOK, NEW c \in Conns, Disconnect(c)
    PROVE  HubTypeOK'
<1> DEFINE m == conn[c].member
           r == conn[c].room
           others == room[r].members \ {m}
<1> USE DEF HubTypeOK
<1>1. IdleConn \in ConnRecord /\ BlankView \in ViewRecord
  BY DEF IdleConn, BlankView, ConnRecord, ViewRecord, Phases
<1>2. conn' \in [Conns -> ConnRecord]
  BY <1>1 DEF Disconnect
<1>3. view' \in Views
  <2>1. CASE IsRegistered(c)
    <3> DEFINE cleared == ToldCleared(ToldLeft(view, others, r, m), others, m)
               offline == IF r \in Live THEN Broadcast(cleared, others, Event("member.offline", m))
                          ELSE cleared
    <3>1. m \in Members
      BY <2>1 DEF IsRegistered, ConnRecord
    <3>2. offline \in Views
      BY <3>1, ToldLeftType, ToldClearedType, BroadcastMemberType DEF MemberEvents
    <3>3. view' = [offline EXCEPT ![c] = BlankView]
      BY <2>1 DEF Disconnect
    <3> HIDE DEF offline
    <3> QED BY <1>1, <3>2, <3>3 DEF Views
  <2>2. CASE ~IsRegistered(c)
    BY <1>1, <2>2 DEF Disconnect, Views
  <2> QED BY <2>1, <2>2
<1> QED
  BY <1>2, <1>3 DEF Disconnect, FloorWithout, Ages

LEMMA HeartbeatTypes == ASSUME IInv, HubTypeOK, Heartbeat PROVE HubTypeOK'
<1> USE DEF HubTypeOK
<1>1. \A c \in Conns : HangUp(Abandoned)[c] \in ConnRecord /\ Beat(conn[c]) \in ConnRecord
  BY ClosedType DEF HangUp
<1>2. conn' \in [Conns -> ConnRecord]
  BY <1>1 DEF Heartbeat
<1>3. view' \in Views
  <2>1. \A c \in Conns : view'[c] = view[c] \/ view'[c] = [view[c] EXCEPT !.located = @ \ Stale]
    BY DEF Heartbeat
  <2>2. \A v \in ViewRecord : [v EXCEPT !.located = @ \ Stale] \in ViewRecord
    BY DEF ViewRecord
  <2>3. \A c \in Conns : view'[c] \in ViewRecord
    BY <2>1, <2>2 DEF Views
  <2> QED BY <2>3 DEF Heartbeat, Views
<1>4. DropState(Abandoned, Stale) /\ up' = up
  BY DEF Heartbeat
<1> QED BY <1>2, <1>3, <1>4, DropTypesHub

LEMMA TypesStep ==
    ASSUME IInv, [Next]_vars
    PROVE  TypeOK'
<1>0. HubTypeOK
  BY DEF IInv, TypeOK, HubTypeOK, Views
<1>s. StoreTypeOK'
  BY HubStepIsStoreStep, StoreInvStep DEF IInv, StoreInv
<1>t. SUFFICES HubTypeOK'
  BY <1>s DEF TypeOK, HubTypeOK, Views
<1>1. CASE Http \/ UNCHANGED vars
  BY <1>0, <1>1 DEF Http, vars, hubVars, HubTypeOK
<1>2. CASE Clock
  BY <1>0, <1>2 DEF Clock, RoomDeadline, TokenDeadline, GoStale, IntervalElapses, hubVars,
      HubTypeOK, Ages
<1>3. ASSUME NEW c \in Conns, Message(c) \/ Refuse(c) \/ Disconnect(c) PROVE HubTypeOK'
  <2>1. CASE RoomEnd(c)
    <3>1. conn' \in [Conns -> ConnRecord]
      BY <1>0, <2>1, ClosedType DEF RoomEnd, HangUp, HubTypeOK
    <3>2. DropState({conn[c].room}, {}) /\ UNCHANGED <<up, view>>
      BY <2>1 DEF RoomEnd
    <3>3. /\ states' \subseteq Rooms
          /\ reg' \in [Members -> Conns \cup {NoConn}]
          /\ loc' \in [Members -> Ages]
          /\ hot' \subseteq Members
          /\ voice' \subseteq Members
          /\ floor' \in [Rooms -> Members \cup {NoMember}]
      BY <1>0, <3>2, DropTypesHub
    <3> QED BY <1>0, <3>1, <3>2, <3>3 DEF HubTypeOK
  <2>2. CASE RoomEndThrows(c)
    BY <2>2, ResetTypes DEF RoomEndThrows
  <2>3. CASE Disconnect(c)
    BY <1>0, <2>3, DisconnectTypes
  <2> QED BY <1>0, <1>3, <2>1, <2>2, <2>3, SocketTypes, MemberTypes DEF Message
<1>4. ASSUME NEW c \in Conns, NEW r \in Rooms, Upgrade(c, r) PROVE HubTypeOK'
  <2>1. [IdleConn EXCEPT !.phase = "open", !.room = r, !.alive = TRUE] \in ConnRecord
    BY DEF IdleConn, ConnRecord, Phases
  <2>2. conn' \in [Conns -> ConnRecord]
    BY <1>0, <1>4, <2>1 DEF Upgrade, HubTypeOK
  <2> QED BY <1>0, <1>4, <2>2 DEF Upgrade, HubTypeOK
<1>5. CASE Heartbeat
  BY <1>0, <1>5, HeartbeatTypes
<1>6. CASE Restart
  BY <1>6, ResetTypes DEF Restart
<1> QED BY <1>1, <1>2, <1>3, <1>4, <1>5, <1>6 DEF Next

-----------------------------------------------------------------------------
(* What a room keeps of its members *)

Dirty(m) == reg[m] # NoConn \/ loc[m] # "none" \/ m \in voice \cup hot

\* A step may add something of a member only to a room that has a state.
LEMMA ResidueGrows ==
    ASSUME IInv, RoomsGrow, StoreTypeOK', states \subseteq states',
           \A m \in Members : Dirty(m)' =>
               Dirty(m) \/ \E r \in Rooms \cap states' : m \in room[r].members,
           \A r \in Rooms : floor'[r] # NoMember => floor[r] # NoMember \/ r \in states'
    PROVE  ResidueInv'
<1> USE DEF IInv, ResidueInv
<1>1. \A m \in Members : m \notin Drawn => ~Dirty(m)'
  BY DEF NewcomersAreClean, Dirty, Drawn
<1>2. NewcomersAreClean'
  <2> SUFFICES ASSUME NEW m \in Members, m \notin Drawn'
               PROVE  ~Dirty(m)'
    BY DEF NewcomersAreClean, Dirty
  <2>1. m \notin Drawn
    BY DEF Drawn, RoomsGrow
  <2> QED BY <1>1, <2>1
<1>3. NoResidue'
  <2> SUFFICES ASSUME NEW r \in Rooms, r \notin states'
               PROVE  floor'[r] = NoMember /\ \A m \in room'[r].members : ~Dirty(m)'
    BY DEF NoResidue, Dirty
  <2>1. r \notin states /\ floor'[r] = NoMember
    BY DEF NoResidue
  <2>2. ASSUME NEW m \in room'[r].members PROVE ~Dirty(m)'
    <3>1. m \in Members
      BY DEF StoreTypeOK, RoomRecord
    <3>2. CASE m \in room[r].members
      <4>1. ~Dirty(m)
        BY <2>1, <3>2 DEF NoResidue, Dirty
      <4>2. \A s \in Rooms \cap states' : m \notin room[s].members
        BY <3>2, OneRoom
      <4> QED BY <3>1, <4>1, <4>2
    <3>3. CASE m \notin room[r].members
      BY <1>1, <3>1, <3>3 DEF RoomsGrow
    <3> QED BY <3>2, <3>3
  <2> QED BY <2>1, <2>2
<1> QED BY <1>2, <1>3

\* Dropping a state takes everything of its members along.
LEMMA ResidueDrops ==
    ASSUME IInv, UNCHANGED room, NEW gone \in SUBSET Rooms, NEW stale, DropState(gone, stale)
    PROVE  ResidueInv'
<1> USE DEF IInv, StoreInv, StoreTypeOK, RoomRecord, ResidueInv, DropState
<1>1. NewcomersAreClean'
  BY DEF NewcomersAreClean, Drawn
<1>2. NoResidue'
  <2> SUFFICES ASSUME NEW r \in Rooms, r \notin states'
               PROVE  /\ floor'[r] = NoMember
                      /\ \A m \in room[r].members :
                            reg'[m] = NoConn /\ loc'[m] = "none" /\ m \notin voice' \cup hot'
    BY DEF NoResidue
  <2>1. CASE r \in gone
    BY <2>1
  <2>2. CASE r \notin gone
    BY <2>2 DEF NoResidue
  <2> QED BY <2>1, <2>2
<1> QED BY <1>1, <1>2

LEMMA ResetResidue ==
    ASSUME HubReset, StoreTypeOK' PROVE ResidueInv'
BY DEF HubReset, ResidueInv, NewcomersAreClean, NoResidue, StoreTypeOK, RoomRecord

LEMMA ResidueStep ==
    ASSUME IInv, [Next]_vars
    PROVE  ResidueInv'
<1>0. RoomsGrow /\ StoreTypeOK'
  BY StepsGrowRooms, TypesStep DEF TypeOK
<1> USE DEF IInv, TypeOK
<1>1. ASSUME UNCHANGED <<reg, loc, hot, voice, floor>>, states \subseteq states'
      PROVE  ResidueInv'
  BY <1>0, <1>1, ResidueGrows DEF Dirty
<1>2. CASE Http \/ UNCHANGED vars
  BY <1>1, <1>2 DEF Http, vars, hubVars
<1>3. CASE Clock
  <2>1. ASSUME NEW m \in Members, GoStale(m) \/ IntervalElapses(m) PROVE ResidueInv'
    <3>1. \A n \in Members : Dirty(n)' => Dirty(n)
      BY <2>1 DEF GoStale, IntervalElapses, Dirty
    <3>2. UNCHANGED <<states, floor>>
      BY <2>1 DEF GoStale, IntervalElapses
    <3> QED BY <1>0, <3>1, <3>2, ResidueGrows
  <2> QED BY <1>1, <1>3, <2>1 DEF Clock, RoomDeadline, TokenDeadline, hubVars
<1>4. ASSUME NEW c \in Conns, Message(c) \/ Refuse(c) \/ Disconnect(c) PROVE ResidueInv'
  <2> DEFINE m == conn[c].member
             r == conn[c].room
  <2>1. CASE \/ Ping(c) \/ Pong(c) \/ StateGet(c) \/ Refuse(c) \/ LocationRejected(c)
             \/ VoiceJoinRefused(c) \/ RoomEndRefused(c) \/ RoomLockRefused(c)
             \/ \E b \in BOOLEAN : RoomLock(c, b)
    BY <1>1, <2>1 DEF Ping, Pong, StateGet, Refuse, LocationRejected, VoiceJoinRefused,
        RoomEndRefused, RoomLockRefused, RoomLock, Touch
  <2>2. ASSUME NEW n \in Members, Authenticate(c, n) PROVE ResidueInv'
    <3>1. r \in Rooms /\ r \in states' /\ n \in room[r].members /\ states \subseteq states'
      BY <2>2 DEF Authenticate, Reading, Touch, SocketsInv, SocketsBelong
    <3>2. \A k \in Members : Dirty(k)' => Dirty(k) \/ k = n
      BY <2>2 DEF Authenticate, Dirty
    <3>3. UNCHANGED floor
      BY <2>2 DEF Authenticate
    <3> QED BY <1>0, <3>1, <3>2, <3>3, ResidueGrows
  <2>3. CASE LocationUpdate(c) \/ VoiceJoin(c) \/ TalkStart(c)
    <3>1. m \in Members /\ r \in Rooms /\ m \in room[r].members
      BY <2>3, ReceiverBelongs DEF LocationUpdate, VoiceJoin, TalkStart
    <3>2. r \in states' /\ states \subseteq states'
      BY <2>3 DEF LocationUpdate, VoiceJoin, TalkStart, Touch
    <3>3. \A k \in Members : Dirty(k)' => Dirty(k) \/ k = m
      BY <2>3 DEF LocationUpdate, VoiceJoin, TalkStart, Dirty
    <3>4. \A s \in Rooms : floor'[s] # NoMember => floor[s] # NoMember \/ s \in states'
      BY <2>3, <3>2 DEF LocationUpdate, VoiceJoin, TalkStart
    <3> QED BY <1>0, <3>1, <3>2, <3>3, <3>4, ResidueGrows
  <2>4. CASE LocationStop(c) \/ VoiceLeave(c) \/ TalkStop(c) \/ Disconnect(c)
    <3>1. states \subseteq states'
      BY <2>4 DEF LocationStop, VoiceLeave, TalkStop, Disconnect, Touch
    <3>2. \A k \in Members : Dirty(k)' => Dirty(k)
      BY <2>4 DEF LocationStop, VoiceLeave, TalkStop, Disconnect, Dirty
    <3>3. \A s \in Rooms : floor'[s] # NoMember => floor[s] # NoMember
      BY <2>4 DEF LocationStop, VoiceLeave, TalkStop, Disconnect, FloorWithout
    <3> QED BY <1>0, <3>1, <3>2, <3>3, ResidueGrows
  <2>5. CASE RoomEnd(c)
    <3>1. r \in Rooms /\ DropState({r}, {}) /\ UNCHANGED room
      BY <2>5, ReceiverBelongs DEF RoomEnd, End
    <3>2. {r} \in SUBSET Rooms
      BY <3>1
    <3> QED BY <3>1, <3>2, ResidueDrops
  <2>6. CASE RoomEndThrows(c)
    BY <1>0, <2>6, ResetResidue DEF RoomEndThrows
  <2> QED BY <1>4, <2>1, <2>2, <2>3, <2>4, <2>5, <2>6 DEF Message
<1>5. ASSUME NEW c \in Conns, NEW r \in Rooms, Upgrade(c, r) PROVE ResidueInv'
  BY <1>1, <1>5 DEF Upgrade
<1>6. CASE Heartbeat
  BY <1>6, ResidueDrops DEF Heartbeat, Abandoned
<1>7. CASE Restart
  BY <1>0, <1>7, ResetResidue DEF Restart
<1> QED BY <1>2, <1>3, <1>4, <1>5, <1>6, <1>7 DEF Next

-----------------------------------------------------------------------------
(* The voice channel *)

LEMMA PeersKept ==
    ASSUME IInv, RoomsGrow
    PROVE  \A r \in Rooms : voice \cap room'[r].members = Peers(r)
BY DEF IInv, ResidueInv, NewcomersAreClean, RoomsGrow, Peers, TypeOK

\* Peers go, and the floor goes with its holder or is given back.
LEMMA VoiceShrinks ==
    ASSUME IInv, RoomsGrow, voice' \subseteq voice,
           \A r \in Rooms : floor'[r] # NoMember => floor'[r] = floor[r] /\ floor[r] \in voice'
    PROVE  VoiceInv'
<1> USE DEF IInv, VoiceInv
<1>1. \A r \in Rooms : Peers(r)' = voice' \cap Peers(r)
  BY PeersKept DEF Peers
<1>2. FloorHolderIsPeer'
  <2> SUFFICES ASSUME NEW r \in Rooms, floor'[r] # NoMember
               PROVE  floor'[r] \in Peers(r)' /\ MayUseVoice(r, floor[r])'
    BY DEF FloorHolderIsPeer
  <2>1. floor[r] \in Peers(r) /\ MayUseVoice(r, floor[r])
    BY DEF FloorHolderIsPeer
  <2>2. room[r].host # NoMember
    BY <2>1 DEF Peers, StoreInv, Membership
  <2> QED BY <1>1, <2>1, <2>2 DEF MayUseVoice, RoleOf, RoomsGrow
<1>3. VoiceWithinLimit'
  <2> SUFFICES ASSUME NEW r \in Rooms PROVE Cardinality(Peers(r)') <= MaxPeers
    BY DEF VoiceWithinLimit
  <2>1. IsFiniteSet(Peers(r))
    BY FS_Subset DEF FiniteVoice, Peers
  <2>2. Cardinality(Peers(r)') <= Cardinality(Peers(r)) /\ Cardinality(Peers(r)') \in Nat
        /\ Cardinality(Peers(r)) \in Nat
    BY <1>1, <2>1, FS_Subset, FS_CardinalityType
  <2> QED BY <2>2, HubAssumption DEF VoiceWithinLimit
<1>4. FiniteVoice'
  BY FS_Subset DEF FiniteVoice
<1> QED BY <1>2, <1>3, <1>4

\* #voiceJoin(): a newcomer only enters below the limit.
LEMMA VoiceJoinKeeps ==
    ASSUME IInv, RoomsGrow, NEW c \in Conns, VoiceJoin(c)
    PROVE  VoiceInv'
<1> DEFINE m == conn[c].member
           r == conn[c].room
<1> USE DEF IInv, VoiceInv
<1>1. m \in Members /\ r \in Rooms /\ m \in room[r].members
  BY ReceiverBelongs DEF VoiceJoin
<1>2. /\ voice' = voice \cup {m} /\ room' = room /\ floor' = floor
      /\ m \in voice \/ Cardinality(Peers(r)) < MaxPeers
  BY DEF VoiceJoin, HasPlace, storeVars
<1>3. FloorHolderIsPeer'
  BY <1>2 DEF FloorHolderIsPeer, Peers, MayUseVoice, RoleOf
<1>4. FiniteVoice'
  BY <1>2, FS_AddElement DEF FiniteVoice
<1>5. VoiceWithinLimit'
  <2> SUFFICES ASSUME NEW s \in Rooms PROVE Cardinality(Peers(s)') <= MaxPeers
    BY DEF VoiceWithinLimit
  <2>1. CASE s = r /\ m \notin voice
    <3>1. Peers(s)' = Peers(s) \cup {m} /\ m \notin Peers(s)
      BY <1>1, <1>2, <2>1 DEF Peers
    <3>2. IsFiniteSet(Peers(s))
      BY FS_Subset DEF FiniteVoice, Peers
    <3>3. Cardinality(Peers(s)') = Cardinality(Peers(s)) + 1
      BY <3>1, <3>2, FS_AddElement
    <3>4. Cardinality(Peers(s)) \in Nat
      BY <3>2, FS_CardinalityType
    <3> QED BY <1>2, <2>1, <3>3, <3>4, HubAssumption
  <2>2. CASE s # r \/ m \in voice
    <3>1. Peers(s)' = Peers(s)
      BY <1>1, <1>2, <2>2, OneRoom DEF Peers
    <3> QED BY <3>1 DEF VoiceWithinLimit
  <2> QED BY <2>1, <2>2
<1> QED BY <1>3, <1>4, <1>5

\* #voiceTalkStart(): only a peer that may speak takes the floor.
LEMMA TalkStartKeeps ==
    ASSUME IInv, RoomsGrow, NEW c \in Conns, TalkStart(c)
    PROVE  VoiceInv'
<1> DEFINE m == conn[c].member
           r == conn[c].room
<1> USE DEF IInv, VoiceInv, TypeOK
<1>1. m \in Members /\ r \in Rooms /\ m \in room[r].members
  BY ReceiverBelongs DEF TalkStart
<1>2. /\ UNCHANGED <<voice, room>>
      /\ \/ floor' = floor
         \/ MayTakeFloor(r, m) /\ floor' = [floor EXCEPT ![r] = m]
  BY DEF TalkStart, storeVars
<1>3. \A s \in Rooms : Peers(s)' = Peers(s)
  BY <1>2 DEF Peers
<1>4. FloorHolderIsPeer'
  BY <1>1, <1>2 DEF FloorHolderIsPeer, MayTakeFloor, Peers, MayUseVoice, RoleOf
<1>5. VoiceWithinLimit'
  BY <1>3 DEF VoiceWithinLimit
<1> QED BY <1>2, <1>4, <1>5 DEF FiniteVoice

\* A member that leaves the channel takes its floor along, in the only room it
\* belongs to.
LEMMA LeavingFreesFloor ==
    ASSUME IInv, NEW r \in Rooms, NEW m \in Members, m \in room[r].members,
           voice' = voice \ {m}, floor' = FloorWithout(r, m)
    PROVE  \A s \in Rooms : floor'[s] # NoMember => floor'[s] = floor[s] /\ floor[s] \in voice'
<1> USE DEF IInv, VoiceInv, TypeOK
<1> SUFFICES ASSUME NEW s \in Rooms, floor'[s] # NoMember
             PROVE  floor'[s] = floor[s] /\ floor[s] \in voice'
  OBVIOUS
<1>1. floor'[s] = floor[s]
  BY DEF FloorWithout
<1>2. floor[s] \in voice /\ floor[s] \in room[s].members
  BY <1>1 DEF FloorHolderIsPeer, Peers
<1>3. floor[s] # m
  <2>1. CASE s = r
    BY <1>1, <1>2, <2>1 DEF FloorWithout
  <2>2. CASE s # r
    BY <1>2, <2>2, OneRoom
  <2> QED BY <2>1, <2>2
<1> QED BY <1>1, <1>2, <1>3

\* Dropping states takes the floors of their rooms along.
LEMMA DropFreesFloors ==
    ASSUME IInv, NEW gone \in SUBSET Rooms, NEW stale, DropState(gone, stale)
    PROVE  /\ voice' \subseteq voice
           /\ \A r \in Rooms : floor'[r] # NoMember =>
                 floor'[r] = floor[r] /\ floor[r] \in voice'
<1> USE DEF IInv, VoiceInv
<1>1. voice' \subseteq voice
  BY DEF DropState
<1>2. ASSUME NEW r \in Rooms, floor'[r] # NoMember
      PROVE  floor'[r] = floor[r] /\ floor[r] \in voice'
  <2>1. r \notin gone /\ floor'[r] = floor[r]
    BY <1>2 DEF DropState
  <2>2. floor[r] \in voice /\ floor[r] \in room[r].members
    BY <1>2, <2>1 DEF FloorHolderIsPeer, Peers
  <2>3. \A s \in gone : floor[r] \notin room[s].members
    BY <2>1, <2>2, OneRoom
  <2> QED BY <2>1, <2>2, <2>3 DEF DropState
<1> QED BY <1>1, <1>2

LEMMA VoiceStep ==
    ASSUME IInv, [Next]_vars
    PROVE  VoiceInv'
<1>0. RoomsGrow
  BY StepsGrowRooms
<1> USE DEF IInv, TypeOK
<1>1. ASSUME UNCHANGED <<voice, floor>> PROVE VoiceInv'
  <2>1. \A r \in Rooms : floor[r] # NoMember => floor[r] \in voice
    BY DEF VoiceInv, FloorHolderIsPeer, Peers
  <2> QED BY <1>0, <1>1, <2>1, VoiceShrinks
<1>2. ASSUME HubReset PROVE VoiceInv'
  BY <1>0, <1>2, VoiceShrinks DEF HubReset
<1>3. CASE Http \/ Clock \/ UNCHANGED vars
  BY <1>1, <1>3 DEF Http, Clock, RoomDeadline, TokenDeadline, GoStale, IntervalElapses,
      vars, hubVars
<1>4. ASSUME NEW c \in Conns, Message(c) \/ Refuse(c) \/ Disconnect(c) PROVE VoiceInv'
  <2> DEFINE m == conn[c].member
             r == conn[c].room
  <2>1. CASE VoiceJoin(c)
    BY <1>0, <2>1, VoiceJoinKeeps
  <2>2. CASE TalkStart(c)
    BY <1>0, <2>2, TalkStartKeeps
  <2>3. CASE VoiceLeave(c)
    <3>1. m \in Members /\ r \in Rooms /\ m \in room[r].members
      BY <2>3, ReceiverBelongs DEF VoiceLeave
    <3>2. voice' = voice \ {m} /\ floor' = FloorWithout(r, m)
      BY <2>3 DEF VoiceLeave
    <3> QED BY <1>0, <3>1, <3>2, LeavingFreesFloor, VoiceShrinks
  <2>4. CASE Disconnect(c)
    <3>1. CASE IsRegistered(c)
      <4>1. m \in Members /\ r \in Rooms /\ m \in room[r].members
        BY <3>1 DEF IsRegistered, ConnRecord, SocketsInv, SocketsBelong
      <4>2. voice' = voice \ {m} /\ floor' = FloorWithout(r, m)
        BY <2>4, <3>1 DEF Disconnect
      <4> QED BY <1>0, <4>1, <4>2, LeavingFreesFloor, VoiceShrinks
    <3>2. CASE ~IsRegistered(c)
      BY <1>1, <2>4, <3>2 DEF Disconnect
    <3> QED BY <3>1, <3>2
  <2>5. CASE TalkStop(c)
    <3>1. voice' = voice /\ \A s \in Rooms : floor'[s] # NoMember => floor'[s] = floor[s]
      BY <2>5 DEF TalkStop
    <3> QED BY <1>0, <3>1, VoiceShrinks DEF VoiceInv, FloorHolderIsPeer, Peers
  <2>6. CASE RoomEnd(c)
    <3>1. r \in Rooms /\ DropState({r}, {})
      BY <2>6, ReceiverBelongs DEF RoomEnd
    <3>2. {r} \in SUBSET Rooms
      BY <3>1
    <3> QED BY <1>0, <3>1, <3>2, DropFreesFloors, VoiceShrinks
  <2>7. CASE RoomEndThrows(c)
    BY <1>2, <2>7 DEF RoomEndThrows
  <2>8. CASE \/ Ping(c) \/ Pong(c) \/ StateGet(c) \/ Refuse(c) \/ LocationUpdate(c)
             \/ LocationRejected(c) \/ LocationStop(c) \/ VoiceJoinRefused(c)
             \/ RoomEndRefused(c) \/ RoomLockRefused(c)
             \/ \E b \in BOOLEAN : RoomLock(c, b)
             \/ \E n \in Members : Authenticate(c, n)
    BY <1>1, <2>8 DEF Ping, Pong, StateGet, Refuse, LocationUpdate, LocationRejected,
        LocationStop, VoiceJoinRefused, RoomEndRefused, RoomLockRefused, RoomLock, Authenticate
  <2> QED BY <1>4, <2>1, <2>2, <2>3, <2>4, <2>5, <2>6, <2>7, <2>8 DEF Message
<1>5. ASSUME NEW c \in Conns, NEW r \in Rooms, Upgrade(c, r) PROVE VoiceInv'
  BY <1>1, <1>5 DEF Upgrade
<1>6. CASE Heartbeat
  <2>1. DropState(Abandoned, Stale) /\ Abandoned \in SUBSET Rooms
    BY <1>6 DEF Heartbeat, Abandoned
  <2> QED BY <1>0, <2>1, DropFreesFloors, VoiceShrinks
<1>7. CASE Restart
  BY <1>2, <1>7 DEF Restart
<1> QED BY <1>3, <1>4, <1>5, <1>6, <1>7 DEF Next

-----------------------------------------------------------------------------
(* Theorems *)

LEMMA InvInit == Init => IInv
<1> SUFFICES ASSUME Init PROVE IInv
  OBVIOUS
<1> USE IdsAssumption, HubAssumption DEF Init
<1>1. StoreInv
  BY StoreInvInit
<1>2. TypeOK
  BY <1>1 DEF StoreInv, TypeOK, IdleConn, BlankView, ConnRecord, ViewRecord, Phases, Ages
<1>3. SocketsInv
  BY DEF SocketsInv, SocketsBelong, RegisteredIsCurrent, OpenIsRegistered, IdleConn
<1>4. ResidueInv
  BY <1>1 DEF ResidueInv, NewcomersAreClean, NoResidue, StoreInit, UnusedRoom
<1>5. VoiceInv
  <2>1. \A r \in Rooms : Peers(r) = {}
    BY DEF Peers
  <2> QED
    BY <2>1, FS_EmptySet DEF VoiceInv, FloorHolderIsPeer, VoiceWithinLimit, FiniteVoice
<1> QED BY <1>1, <1>2, <1>3, <1>4, <1>5 DEF IInv

LEMMA InvStep == IInv /\ [Next]_vars => IInv'
<1> SUFFICES ASSUME IInv, [Next]_vars PROVE IInv'
  OBVIOUS
<1>1. StoreInv'
  BY HubStepIsStoreStep, StoreInvStep DEF IInv
<1> QED
  BY <1>1, TypesStep, SocketsStep, ResidueStep, VoiceStep DEF IInv

\* The whole inductive invariant of the hub.
THEOREM HubInvariance == Spec => []IInv
BY InvInit, InvStep, PTL DEF Spec

\* Every variable of the hub keeps its type under every handler and timer.
THEOREM TypeCorrect == Spec => []TypeOK
<1>1. IInv => TypeOK
  BY DEF IInv
<1> QED BY <1>1, HubInvariance, PTL

\* The registered connection of a member is its newest one, and every open,
\* authenticated socket is registered: late closes, takeovers, ends, expiry and
\* restarts never leave one that the heartbeat cannot reach.
THEOREM RegistrationCorrect == Spec => []OneConnection
<1>1. IInv => OneConnection
  BY DEF IInv, SocketsInv, OneConnection
<1> QED BY <1>1, HubInvariance, PTL

\* The floor is only ever held by a peer that may speak.
THEOREM FloorCorrect == Spec => []FloorHolderIsPeer
<1>1. IInv => FloorHolderIsPeer
  BY DEF IInv, VoiceInv
<1> QED BY <1>1, HubInvariance, PTL

\* No room ever has more voice peers than maxPeers.
THEOREM MeshBounded == Spec => []VoiceWithinLimit
<1>1. IInv => VoiceWithinLimit
  BY DEF IInv, VoiceInv
<1> QED BY <1>1, HubInvariance, PTL

\* The hub drives the registry through the registry's own operations only, so
\* what is proved of the registry alone holds of it inside the hub.
THEOREM HubUsesRegistry == Spec => StoreSpec
<1>1. Init => StoreInit
  BY DEF Init
<1>2. IInv /\ [Next]_vars => [StoreNext]_storeVars
  BY HubStepIsStoreStep
<1> QED BY <1>1, <1>2, HubInvariance, PTL DEF Spec, StoreSpec

\* The late close of a socket takes nothing from the connection that came
\* after it, nor from any other member.
THEOREM LateCloseCorrect == Spec => LateCloseHarmless
<1> DEFINE Harmless ==
      \A c \in Conns : conn'[c] # conn[c] /\ Disconnect(c) =>
          \A m \in Members : reg[m] # c =>
              /\ reg'[m] = reg[m]
              /\ loc'[m] = loc[m]
              /\ m \in voice => m \in voice'
              /\ \A r \in Rooms : floor[r] = m => floor'[r] = m
<1>1. ASSUME IInv PROVE Harmless
  <2> SUFFICES ASSUME NEW c \in Conns, Disconnect(c), NEW m \in Members, reg[m] # c
               PROVE  /\ reg'[m] = reg[m]
                      /\ loc'[m] = loc[m]
                      /\ m \in voice => m \in voice'
                      /\ \A r \in Rooms : floor[r] = m => floor'[r] = m
    OBVIOUS
  <2> USE <1>1 DEF IInv, TypeOK
  <2>1. CASE IsRegistered(c)
    BY <2>1 DEF IsRegistered, Disconnect, FloorWithout
  <2>2. CASE ~IsRegistered(c)
    BY <2>2 DEF Disconnect
  <2> QED BY <2>1, <2>2
<1>2. IInv /\ [Next]_vars => [Harmless]_vars
  BY <1>1
<1> HIDE DEF Harmless
<1>3. Spec => [][Harmless]_vars
  BY <1>2, HubInvariance, PTL DEF Spec
<1> QED BY <1>3 DEF LateCloseHarmless, Harmless

-----------------------------------------------------------------------------
(* Refinement: each room's channel *)

LEMMA ChannelInit == ASSUME Init, NEW r \in Rooms PROVE Channel(r)!Init
BY DEF Init, Channel!Init, Peers

\* One step of room r's channel, or none.
ChannelStep(r) == Channel(r)!Next \/ UNCHANGED <<Peers(r), floor[r]>>

LEMMA ChannelStutters ==
    ASSUME IInv, RoomsGrow, UNCHANGED <<voice, floor>>, NEW r \in Rooms
    PROVE  ChannelStep(r)
BY PeersKept DEF ChannelStep, Peers

\* voice.leave and the close of the registered socket: Leave in the member's
\* own room, nothing in the others.
LEMMA LeaveMaps ==
    ASSUME IInv, UNCHANGED room, NEW r \in Rooms, NEW m \in Members, m \in room[r].members,
           voice' = voice \ {m}, floor' = FloorWithout(r, m), NEW s \in Rooms
    PROVE  ChannelStep(s)
<1> USE DEF IInv, TypeOK
<1>1. CASE s = r /\ m \in voice
  <2>1. /\ m \in Peers(s) /\ Peers(s)' = Peers(s) \ {m}
        /\ floor'[s] = IF floor[s] = m THEN NoMember ELSE floor[s]
    BY <1>1 DEF Peers, FloorWithout
  <2> QED BY <2>1 DEF ChannelStep, Channel!Next, Channel!Leave
<1>2. CASE s # r \/ m \notin voice
  <2>1. Peers(s)' = Peers(s)
    BY <1>2, OneRoom DEF Peers
  <2>2. floor'[s] = floor[s]
    BY <1>2 DEF FloorWithout
  <2> QED BY <2>1, <2>2 DEF ChannelStep
<1> QED BY <1>1, <1>2

\* End, expiry and restart dissolve the channels of the rooms concerned.
LEMMA DropMaps ==
    ASSUME IInv, UNCHANGED room, NEW gone \in SUBSET Rooms, NEW stale, DropState(gone, stale),
           NEW s \in Rooms
    PROVE  ChannelStep(s)
<1>1. CASE s \in gone
  <2>1. Peers(s)' = {} /\ floor'[s] = NoMember
    BY <1>1 DEF DropState, Peers
  <2> QED BY <2>1 DEF ChannelStep, Channel!Next, Channel!Dissolve
<1>2. CASE s \notin gone
  <2>1. Peers(s)' = Peers(s) /\ floor'[s] = floor[s]
    BY <1>2, OneRoom DEF DropState, Peers
  <2> QED BY <2>1 DEF ChannelStep
<1> QED BY <1>1, <1>2

LEMMA ResetMaps == ASSUME HubReset, NEW s \in Rooms PROVE ChannelStep(s)
<1>1. Peers(s)' = {} /\ floor'[s] = NoMember
  BY DEF HubReset, Peers
<1> QED BY <1>1 DEF ChannelStep, Channel!Next, Channel!Dissolve

\* The channel counts its members as the hub does.
LEMMA SameCardinality ==
    ASSUME NEW r, NEW S PROVE Channel(r)!Cardinality(S) = Cardinality(S)
BY DEF Channel!Cardinality, Cardinality

\* voice.join: Enter for a newcomer, nothing for a rejoin.
LEMMA JoinMaps ==
    ASSUME IInv, NEW c \in Conns, VoiceJoin(c), NEW s \in Rooms
    PROVE  ChannelStep(s)
<1> DEFINE m == conn[c].member
           r == conn[c].room
<1>1. m \in Members /\ r \in Rooms /\ m \in room[r].members
  BY ReceiverBelongs DEF VoiceJoin
<1>2. /\ voice' = voice \cup {m} /\ room' = room /\ floor' = floor
      /\ m \in voice \/ Cardinality(Peers(r)) < MaxPeers
  BY DEF VoiceJoin, HasPlace, storeVars
<1>3. CASE s = r /\ m \notin voice
  <2>1. /\ m \notin Peers(s) /\ Peers(s)' = Peers(s) \cup {m} /\ floor'[s] = floor[s]
        /\ Cardinality(Peers(s)) < MaxPeers
    BY <1>1, <1>2, <1>3 DEF Peers
  <2> QED BY <1>1, <2>1, SameCardinality DEF ChannelStep, Channel!Next, Channel!Enter
<1>4. CASE s # r \/ m \in voice
  <2>1. Peers(s)' = Peers(s)
    BY <1>1, <1>2, <1>4, OneRoom DEF Peers
  <2> QED BY <1>2, <2>1 DEF ChannelStep
<1> QED BY <1>3, <1>4

\* voice.talk.start and voice.talk.stop: the floor is taken from nobody, and
\* given back by its holder.
LEMMA TalkMaps ==
    ASSUME IInv, NEW c \in Conns, TalkStart(c) \/ TalkStop(c), NEW s \in Rooms
    PROVE  ChannelStep(s)
<1> DEFINE m == conn[c].member
           r == conn[c].room
<1> USE DEF IInv, TypeOK
<1>1. m \in Members /\ r \in Rooms /\ m \in room[r].members
  BY ReceiverBelongs DEF TalkStart, TalkStop
<1>2. UNCHANGED <<voice, room>>
  BY DEF TalkStart, TalkStop, storeVars
<1>3. Peers(s)' = Peers(s)
  BY <1>2 DEF Peers
<1>4. CASE floor' = floor
  BY <1>3, <1>4 DEF ChannelStep
<1>5. CASE MayTakeFloor(r, m) /\ floor' = [floor EXCEPT ![r] = m]
  <2>1. CASE s = r
    <3>1. m \in Peers(s) /\ floor[s] = NoMember /\ floor'[s] = m
      BY <1>1, <1>5, <2>1 DEF MayTakeFloor, Peers
    <3> QED BY <1>1, <1>3, <3>1 DEF ChannelStep, Channel!Next, Channel!TakeFloor
  <2>2. CASE s # r
    BY <1>3, <1>5, <2>2 DEF ChannelStep
  <2> QED BY <2>1, <2>2
<1>6. CASE floor[r] = m /\ floor' = [floor EXCEPT ![r] = NoMember]
  <2>1. CASE s = r
    <3>1. floor[s] # NoMember /\ floor'[s] = NoMember
      BY <1>1, <1>6, <2>1, IdsAssumption
    <3> QED BY <1>3, <3>1 DEF ChannelStep, Channel!Next, Channel!ReleaseFloor
  <2>2. CASE s # r
    BY <1>3, <1>6, <2>2 DEF ChannelStep
  <2> QED BY <2>1, <2>2
<1> QED BY <1>4, <1>5, <1>6 DEF TalkStart, TalkStop

LEMMA EveryStepMaps ==
    ASSUME IInv, [Next]_vars, NEW s \in Rooms
    PROVE  ChannelStep(s)
<1>0. RoomsGrow
  BY StepsGrowRooms
<1> USE DEF IInv, TypeOK
<1>1. ASSUME UNCHANGED <<voice, floor>> PROVE ChannelStep(s)
  BY <1>0, <1>1, ChannelStutters
<1>2. CASE Http \/ Clock \/ UNCHANGED vars
  BY <1>1, <1>2 DEF Http, Clock, RoomDeadline, TokenDeadline, GoStale, IntervalElapses,
      vars, hubVars
<1>3. ASSUME NEW c \in Conns, Message(c) \/ Refuse(c) \/ Disconnect(c) PROVE ChannelStep(s)
  <2> DEFINE m == conn[c].member
             r == conn[c].room
  <2>1. CASE VoiceJoin(c)
    BY <2>1, JoinMaps
  <2>2. CASE TalkStart(c) \/ TalkStop(c)
    BY <2>2, TalkMaps
  <2>3. CASE VoiceLeave(c)
    <3>1. m \in Members /\ r \in Rooms /\ m \in room[r].members
      BY <2>3, ReceiverBelongs DEF VoiceLeave
    <3>2. voice' = voice \ {m} /\ floor' = FloorWithout(r, m) /\ UNCHANGED room
      BY <2>3 DEF VoiceLeave, storeVars
    <3> QED BY <3>1, <3>2, LeaveMaps
  <2>4. CASE Disconnect(c)
    <3>1. CASE IsRegistered(c)
      <4>1. m \in Members /\ r \in Rooms /\ m \in room[r].members
        BY <3>1 DEF IsRegistered, ConnRecord, SocketsInv, SocketsBelong
      <4>2. voice' = voice \ {m} /\ floor' = FloorWithout(r, m) /\ UNCHANGED room
        BY <2>4, <3>1 DEF Disconnect
      <4> QED BY <4>1, <4>2, LeaveMaps
    <3>2. CASE ~IsRegistered(c)
      BY <1>1, <2>4, <3>2 DEF Disconnect
    <3> QED BY <3>1, <3>2
  <2>5. CASE RoomEnd(c)
    <3>1. r \in Rooms /\ DropState({r}, {}) /\ UNCHANGED room
      BY <2>5, ReceiverBelongs DEF RoomEnd, End
    <3>2. {r} \in SUBSET Rooms
      BY <3>1
    <3> QED BY <3>1, <3>2, DropMaps
  <2>6. CASE RoomEndThrows(c)
    BY <2>6, ResetMaps DEF RoomEndThrows
  <2>7. CASE \/ Ping(c) \/ Pong(c) \/ StateGet(c) \/ Refuse(c) \/ LocationUpdate(c)
             \/ LocationRejected(c) \/ LocationStop(c) \/ VoiceJoinRefused(c)
             \/ RoomEndRefused(c) \/ RoomLockRefused(c)
             \/ \E b \in BOOLEAN : RoomLock(c, b)
             \/ \E n \in Members : Authenticate(c, n)
    BY <1>1, <2>7 DEF Ping, Pong, StateGet, Refuse, LocationUpdate, LocationRejected,
        LocationStop, VoiceJoinRefused, RoomEndRefused, RoomLockRefused, RoomLock, Authenticate
  <2> QED BY <1>3, <2>1, <2>2, <2>3, <2>4, <2>5, <2>6, <2>7 DEF Message
<1>4. ASSUME NEW c \in Conns, NEW r \in Rooms, Upgrade(c, r) PROVE ChannelStep(s)
  BY <1>1, <1>4 DEF Upgrade
<1>5. CASE Heartbeat
  BY <1>5, DropMaps DEF Heartbeat, Abandoned
<1>6. CASE Restart
  BY <1>6, ResetMaps DEF Restart
<1> QED BY <1>2, <1>3, <1>4, <1>5, <1>6 DEF Next

\* The hub implements the push-to-talk channel of VoiceChannel in every room,
\* whatever joins, leaves, reconnects, ends, expires or crashes.
THEOREM HubImplementsVoiceChannel == Spec => ImplementsVoiceChannel
<1> DEFINE AllChannels == \A r \in Rooms : ChannelStep(r)
           AllInit == \A r \in Rooms : Channel(r)!Init
<1>1. Init => AllInit
  BY ChannelInit
<1>2. IInv /\ [Next]_vars => [AllChannels]_vars
  BY EveryStepMaps
<1> HIDE DEF AllChannels, AllInit
<1>3. Spec => AllInit /\ [][AllChannels]_vars
  BY <1>1, <1>2, HubInvariance, PTL DEF Spec
<1> QED BY <1>3 DEF ImplementsVoiceChannel, AllChannels, AllInit, ChannelStep

-----------------------------------------------------------------------------
(* What the sockets have been told *)

\* A socket whose view has to be right: open, authenticated, of a live room.
Watching(c) ==
    conn[c].phase = "open" /\ conn[c].member # NoMember /\ conn[c].room \in Live

\* The view v of member m of room r tells the truth.
Truthful(v, m, r) ==
    /\ v.online = Online(r)
    /\ v.located = Located(r)
    /\ v.locked = room[r].locked
    /\ v.joined => v.floor = floor[r] /\ v.peers \ {m} = Peers(r) \ {m}

Informed(c) == Truthful(view[c], conn[c].member, conn[c].room)

LEMMA ViewsAreInformed == ViewsConverge <=> \A c \in Conns : Watching(c) => Informed(c)
BY DEF ViewsConverge, Watching, Informed, Truthful

\* A watching socket is the one on record for its member.
LEMMA WatcherRegistered ==
    ASSUME IInv, NEW c \in Conns, Watching(c)
    PROVE  /\ conn[c].member \in Members
           /\ conn[c].room \in Rooms
           /\ conn[c].member \in room[conn[c].room].members
           /\ reg[conn[c].member] = c
           /\ conn[c].room \in states
           /\ room[conn[c].room].host # NoMember
           /\ view[c] \in ViewRecord
<1> USE DEF IInv, TypeOK, SocketsInv
<1>1. conn[c] \in ConnRecord /\ view[c] \in ViewRecord
  OBVIOUS
<1>2. conn[c].member \in Members
  BY <1>1 DEF ConnRecord, Watching
<1>3. reg[conn[c].member] = c /\ c # NoConn
  BY HubAssumption DEF Watching, OpenIsRegistered
<1>4. conn[c].room \in states
  BY <1>2, <1>3 DEF RegisteredIsCurrent
<1> QED BY <1>1, <1>2, <1>3, <1>4 DEF Watching, SocketsBelong

\* No other member of any room is registered with it.
LEMMA WatchesForOne ==
    ASSUME IInv, NEW c \in Conns, Watching(c), NEW s \in Rooms, NEW n \in room[s].members,
           reg[n] = c
    PROVE  n = conn[c].member /\ s = conn[c].room
<1>1. n \in Members
  BY DEF IInv, StoreInv, StoreTypeOK, RoomRecord
<1>2. conn[c].member = n
  BY <1>1, HubAssumption DEF IInv, SocketsInv, RegisteredIsCurrent
<1> QED BY <1>2, WatcherRegistered, OneRoom

\* An event to members of room s reaches the watching sockets of those members
\* and no other.
LEMMA BroadcastReaches ==
    ASSUME IInv, NEW c \in Conns, Watching(c), NEW vs, NEW e,
           NEW s \in Rooms, NEW to \in SUBSET room[s].members
    PROVE  Broadcast(vs, to, e)[c] =
               IF conn[c].room = s /\ conn[c].member \in to THEN Fold(vs[c], e) ELSE vs[c]
<1>1. (\E n \in to : reg[n] = c) <=> conn[c].room = s /\ conn[c].member \in to
  BY WatchesForOne, WatcherRegistered
<1>2. conn[c].phase = "open"
  BY DEF Watching
<1> QED BY <1>1, <1>2 DEF Broadcast

\* A live room was live before, but for the one that is being created.
LiveShrinks == \A r \in Rooms : room[r].host # NoMember /\ r \in Live' => r \in Live

LEMMA StepsShrinkLive ==
    ASSUME IInv, [Next]_vars
    PROVE  LiveShrinks
<1>1. [StoreNext]_storeVars /\ StoreTypeOK
  BY HubStepIsStoreStep DEF IInv, StoreInv
<1>2. ASSUME NEW r \in Rooms, NEW m \in Members, NEW k \in Codes, NEW mode \in Modes,
             Create(r, m, k, mode)
      PROVE  LiveShrinks
  BY <1>2 DEF Create, LiveShrinks, Live
<1>3. CASE stored' \subseteq stored /\ expired \subseteq expired'
  BY <1>3 DEF LiveShrinks, Live
<1> QED
  BY <1>1, <1>2, <1>3 DEF StoreNext, storeVars, Lookup, Join, HostLocks, SetLocked, HostEnds,
      End, Pruned, Live, ExpireRoom, LapseToken, StoreReset

\* Whoever watches after a step watched before it, if the step opens no socket
\* and authenticates none.
LEMMA WatchedBefore ==
    ASSUME IInv, LiveShrinks, SocketsKept, NEW c \in Conns, Watching(c)'
    PROVE  /\ Watching(c)
           /\ conn'[c].room = conn[c].room
           /\ conn'[c].member = conn[c].member
BY DEF IInv, SocketsInv, SocketsBelong, SocketsKept, Watching, LiveShrinks

\* The truth about room r is what it was.
TruthKept(r) ==
    /\ Online(r)' = Online(r)
    /\ Located(r)' = Located(r)
    /\ room'[r].locked = room[r].locked
    /\ floor'[r] = floor[r]
    /\ Peers(r)' = Peers(r)

\* What is to be shown of a socket after a step, spelled out.
InformedAfter(c, r, m) ==
    /\ view'[c].online = Online(r)'
    /\ view'[c].located = Located(r)'
    /\ view'[c].locked = room'[r].locked
    /\ view'[c].joined =>
           view'[c].floor = floor'[r] /\ view'[c].peers \ {m} = Peers(r)' \ {m}

LEMMA InformedNext ==
    ASSUME NEW c \in Conns, NEW r, NEW m, conn'[c].room = r, conn'[c].member = m
    PROVE  Informed(c)' <=> InformedAfter(c, r, m)
BY DEF Informed, Truthful, InformedAfter, Online, Located, Peers

LEMMA InformedStays ==
    ASSUME NEW c \in Conns, Informed(c), NEW r, conn[c].room = r, TruthKept(r),
           view'[c] = view[c], conn'[c].room = conn[c].room, conn'[c].member = conn[c].member
    PROVE  Informed(c)'
<1>1. Informed(c)' <=> InformedAfter(c, r, conn[c].member)
  BY InformedNext
<1> QED BY <1>1 DEF Informed, Truthful, InformedAfter, TruthKept

\* A step that tells nobody anything and after which there is nothing to tell.
LEMMA ViewsFrame ==
    ASSUME IInv, ViewsConverge, LiveShrinks, SocketsKept,
           \A c \in Conns : Watching(c) => view'[c] = view[c] \/ ~Watching(c)',
           \A c \in Conns, r \in Rooms :
               Watching(c) /\ Watching(c)' /\ conn[c].room = r => TruthKept(r)
    PROVE  ViewsConverge'
<1> SUFFICES ASSUME NEW c \in Conns, Watching(c)'
             PROVE  Informed(c)'
  BY DEF ViewsConverge, Watching, Informed, Truthful
<1>1. Watching(c) /\ conn'[c].room = conn[c].room /\ conn'[c].member = conn[c].member
  BY WatchedBefore
<1>2. PICK r \in Rooms : conn[c].room = r
  BY <1>1, WatcherRegistered
<1>3. TruthKept(r) /\ view'[c] = view[c] /\ Informed(c)
  BY <1>1, <1>2, ViewsAreInformed
<1> QED BY <1>1, <1>2, <1>3, InformedStays

\* Newcomers to a room are nowhere yet, so that growing alone changes nothing.
LEMMA TruthFrame ==
    ASSUME IInv, RoomsGrow, NEW r \in Rooms, UNCHANGED <<reg, voice, floor>>,
           \A m \in Members : loc'[m] = "none" <=> loc[m] = "none",
           room'[r].locked = room[r].locked, room' \in [Rooms -> RoomRecord]
    PROVE  TruthKept(r)
<1> USE DEF IInv, TypeOK, StoreTypeOK, RoomRecord
<1>1. /\ room[r].members \subseteq room'[r].members
      /\ room'[r].members \subseteq Members
  BY DEF RoomsGrow
<1>2. \A m \in room'[r].members \ room[r].members :
          reg[m] = NoConn /\ loc[m] = "none" /\ m \notin voice
  BY <1>1 DEF RoomsGrow, ResidueInv, NewcomersAreClean
<1>3. Online(r)' = Online(r)
  BY <1>1, <1>2 DEF Online
<1>4. Located(r)' = Located(r)
  BY <1>1, <1>2 DEF Located
<1>5. Peers(r)' = Peers(r)
  BY <1>1, <1>2 DEF Peers
<1> QED BY <1>3, <1>4, <1>5 DEF TruthKept

\* No operation of the registry but setLocked changes the lock of a room.
LEMMA LockKept ==
    ASSUME StoreTypeOK, Membership, Http \/ Clock, NEW r \in Rooms, room[r].host # NoMember
    PROVE  room'[r].locked = room[r].locked
<1>1. ASSUME NEW s \in Rooms, NEW m \in Members, NEW k \in Codes, NEW mode \in Modes,
             Create(s, m, k, mode)
      PROVE  room'[r].locked = room[r].locked
  <2>1. room[s].host = NoMember /\ \A t \in Rooms : t # s => room'[t] = room[t]
    BY <1>1 DEF Create, StoreTypeOK
  <2> QED BY <2>1
<1>2. ASSUME NEW ref \in Rooms \cup Codes, NEW m \in Members, Join(ref, m)
      PROVE  room'[r].locked = room[r].locked
  BY <1>2 DEF Join, StoreTypeOK, RoomRecord
<1>3. CASE Lookup \/ UNCHANGED room
  BY <1>3 DEF Lookup
<1> QED BY <1>1, <1>2, <1>3 DEF Http, Clock, RoomDeadline, TokenDeadline, ExpireRoom, LapseToken,
        GoStale, IntervalElapses, storeVars

\* What changes neither the sockets nor what there is to tell.
LEMMA QuietViews ==
    ASSUME IInv, IInv', ViewsConverge, [Next]_vars, UNCHANGED view,
           \/ Http \/ Clock \/ UNCHANGED vars
           \/ \E c \in Conns : \/ Ping(c) \/ Pong(c) \/ Refuse(c) \/ LocationRejected(c)
                               \/ VoiceJoinRefused(c) \/ RoomLockRefused(c)
                               \/ RoomEndRefused(c)
    PROVE  ViewsConverge'
<1> USE DEF IInv, TypeOK
<1>1. RoomsGrow /\ LiveShrinks
  BY StepsGrowRooms, StepsShrinkLive
<1>2. SocketsKept /\ UNCHANGED reg
  <2>1. \A k \in ConnRecord : /\ Closed(k).phase = "open" => k.phase = "open"
                              /\ Closed(k).phase = "idle" <=> k.phase = "idle"
                              /\ Closed(k).room = k.room /\ Closed(k).member = k.member
                              /\ Closed(k).replacing = k.replacing
    BY DEF Closed, ConnRecord
  <2>2. CASE \E c \in Conns : Ping(c) \/ Pong(c) \/ Refuse(c)
    BY <2>1, <2>2 DEF Ping, Pong, Refuse, ConnRecord, SocketsKept
  <2>3. CASE UNCHANGED <<conn, reg>>
    BY <2>3 DEF SocketsKept
  <2> QED BY <2>2, <2>3 DEF Http, Clock, RoomDeadline, TokenDeadline, GoStale, IntervalElapses,
          vars, hubVars, LocationRejected, VoiceJoinRefused, RoomLockRefused, RoomEndRefused
<1>3. ASSUME NEW c \in Conns, Watching(c), NEW r \in Rooms, conn[c].room = r
      PROVE  TruthKept(r)
  <2>1. room[r].host # NoMember
    BY <1>3, WatcherRegistered
  <2>2. room'[r].locked = room[r].locked
    <3>1. CASE Http \/ Clock
      BY <2>1, <3>1, LockKept DEF StoreInv
    <3>2. CASE UNCHANGED room
      BY <3>2
    <3> QED BY <3>1, <3>2 DEF vars, storeVars, Ping, Pong, Refuse, LocationRejected,
            VoiceJoinRefused, RoomLockRefused, RoomEndRefused
  <2>3. /\ UNCHANGED <<voice, floor>>
        /\ \A m \in Members : loc'[m] = "none" <=> loc[m] = "none"
    BY DEF Http, Clock, RoomDeadline, TokenDeadline, GoStale, IntervalElapses, vars, hubVars,
           Ping, Pong, Refuse, LocationRejected, VoiceJoinRefused, RoomLockRefused,
           RoomEndRefused
  <2> QED BY <1>1, <1>2, <2>1, <2>2, <2>3, TruthFrame DEF StoreInv, StoreTypeOK
<1> QED BY <1>1, <1>2, <1>3, ViewsFrame


\* A step that is about one member of one room.
OnlyAbout(r, m) ==
    /\ \A n \in Members \ {m} : /\ reg'[n] = NoConn <=> reg[n] = NoConn
                                /\ loc'[n] = "none" <=> loc[n] = "none"
                                /\ n \in voice' <=> n \in voice
    /\ \A s \in Rooms \ {r} : floor'[s] = floor[s] /\ room'[s] = room[s]

LEMMA TruthElsewhere ==
    ASSUME IInv, NEW r \in Rooms, NEW m \in room[r].members, OnlyAbout(r, m),
           NEW s \in Rooms, s # r
    PROVE  TruthKept(s)
<1>1. room[s].members \subseteq Members /\ m \notin room[s].members
  BY OneRoom DEF IInv, StoreInv, StoreTypeOK, RoomRecord
<1>2. \A n \in room[s].members : /\ reg'[n] = NoConn <=> reg[n] = NoConn
                                 /\ loc'[n] = "none" <=> loc[n] = "none"
                                 /\ n \in voice' <=> n \in voice
  BY <1>1 DEF OnlyAbout
<1>3. floor'[s] = floor[s] /\ room'[s] = room[s]
  BY DEF OnlyAbout
<1>4. Peers(s)' = Peers(s)
  BY <1>2, <1>3 DEF Peers
<1> QED BY <1>2, <1>3, <1>4 DEF TruthKept, Online, Located

\* A handler that keeps the sockets as they are and tells the room r: only the
\* sockets of that room have to be looked at.
LEMMA RoomIsTold ==
    ASSUME IInv, ViewsConverge, LiveShrinks, SocketsKept,
           NEW r \in Rooms, NEW m \in room[r].members, OnlyAbout(r, m),
           \A c \in Conns : Watching(c) /\ conn[c].room # r => view'[c] = view[c],
           \A c \in Conns :
               Watching(c) /\ Watching(c)' /\ Informed(c) /\ conn[c].room = r => Informed(c)'
    PROVE  ViewsConverge'
<1> SUFFICES ASSUME NEW c \in Conns, Watching(c)'
             PROVE  Informed(c)'
  BY DEF ViewsConverge, Watching, Informed, Truthful
<1>1. Watching(c) /\ conn'[c].room = conn[c].room /\ conn'[c].member = conn[c].member
  BY WatchedBefore
<1>2. PICK s \in Rooms : Informed(c) /\ conn[c].room = s
  BY <1>1, ViewsAreInformed, WatcherRegistered
<1>3. CASE conn[c].room = r
  BY <1>1, <1>2, <1>3
<1>4. CASE conn[c].room # r
  <2>1. TruthKept(s)
    BY <1>2, <1>4, TruthElsewhere
  <2> QED BY <1>1, <1>2, <1>4, <2>1, InformedStays
<1> QED BY <1>3, <1>4

LEMMA RoomHears ==
    ASSUME IInv, NEW c \in Conns, Watching(c), NEW vs, NEW e, NEW s \in Rooms
    PROVE  Broadcast(vs, room[s].members, e)[c] =
               IF conn[c].room = s THEN Fold(vs[c], e) ELSE vs[c]
BY BroadcastReaches, WatcherRegistered

\* The room and the member behind a message, as names that no step changes.
LEMMA Sender ==
    ASSUME IInv, NEW c \in Conns, NEW type, Receives(c, type)
    PROVE  \E r \in Rooms : \E m \in Members :
               m \in room[r].members /\ conn[c].room = r /\ conn[c].member = m
BY ReceiverBelongs

\* What a watching socket hears of a coordinate that is cleared and of a peer
\* that leaves, when the ones in `to' are told.
LEMMA HearsCleared ==
    ASSUME IInv, NEW d \in Conns, Watching(d), NEW vs, vs[d] \in ViewRecord, NEW r \in Rooms,
           NEW to \in SUBSET room[r].members, NEW m, conn[d].room = r => conn[d].member \in to
    PROVE  ToldCleared(vs, to, m)[d] =
               IF conn[d].room = r /\ loc[m] # "none"
               THEN [vs[d] EXCEPT !.located = vs[d].located \ {m}] ELSE vs[d]
<1>1. Broadcast(vs, to, Event("location.cleared", m))[d] =
          IF conn[d].room = r THEN Fold(vs[d], Event("location.cleared", m)) ELSE vs[d]
  BY BroadcastReaches
<1>2. Fold(vs[d], Event("location.cleared", m)) =
          [vs[d] EXCEPT !.located = vs[d].located \ {m}]
  BY DEF Fold, Event
<1> QED BY <1>1, <1>2 DEF ToldCleared

\* The view `new' is `old' without peer m of room r, seen from room `here'.
HeardLeft(new, old, here, r, m) ==
    /\ new.online = old.online /\ new.located = old.located
    /\ new.locked = old.locked /\ new.joined = old.joined
    /\ new.peers = IF here = r /\ m \in voice THEN old.peers \ {m} ELSE old.peers
    /\ new.floor = IF here = r /\ m \in voice /\ floor[r] = m THEN NoMember ELSE old.floor
    /\ here # r => new = old

LEMMA HearsLeft ==
    ASSUME IInv, NEW d \in Conns, Watching(d), NEW vs, vs[d] \in ViewRecord, NEW r \in Rooms,
           NEW to \in SUBSET room[r].members, NEW m, conn[d].room = r => conn[d].member \in to
    PROVE  HeardLeft(ToldLeft(vs, to, r, m)[d], vs[d], conn[d].room, r, m)
<1> DEFINE freed == Broadcast(vs, to, Event("voice.floor", NoMember))
           heard == IF floor[r] = m THEN freed ELSE vs
<1>1. freed[d] = IF conn[d].room = r THEN [vs[d] EXCEPT !.floor = NoMember] ELSE vs[d]
  <2>1. freed[d] =
            IF conn[d].room = r THEN Fold(vs[d], Event("voice.floor", NoMember)) ELSE vs[d]
    BY BroadcastReaches
  <2>2. Fold(vs[d], Event("voice.floor", NoMember)) = [vs[d] EXCEPT !.floor = NoMember]
    BY DEF Fold, Event
  <2> QED BY <2>1, <2>2
<1> HIDE DEF freed
<1>2. heard[d] = IF conn[d].room = r /\ floor[r] = m
                 THEN [vs[d] EXCEPT !.floor = NoMember] ELSE vs[d]
  BY <1>1
<1>3. ToldLeft(vs, to, r, m) =
          IF m \in voice THEN Broadcast(heard, to, Event("voice.peer.left", m)) ELSE vs
  BY DEF ToldLeft, freed
<1> HIDE DEF heard
<1>4. Broadcast(heard, to, Event("voice.peer.left", m))[d] =
          IF conn[d].room = r THEN Fold(heard[d], Event("voice.peer.left", m)) ELSE heard[d]
  BY BroadcastReaches
<1>5. Fold(heard[d], Event("voice.peer.left", m)) =
          [heard[d] EXCEPT !.peers = heard[d].peers \ {m}]
  BY DEF Fold, Event
<1>6. CASE conn[d].room = r /\ m \in voice
  <2>1. ToldLeft(vs, to, r, m)[d] = [heard[d] EXCEPT !.peers = heard[d].peers \ {m}]
    BY <1>3, <1>4, <1>5, <1>6
  <2>2. heard[d] = IF floor[r] = m THEN [vs[d] EXCEPT !.floor = NoMember] ELSE vs[d]
    BY <1>2, <1>6
  <2> QED BY <1>6, <2>1, <2>2 DEF ViewRecord, HeardLeft
<1>7. CASE ~(conn[d].room = r /\ m \in voice)
  <2>1. ToldLeft(vs, to, r, m)[d] = vs[d]
    BY <1>2, <1>3, <1>4, <1>7
  <2> QED BY <1>7, <2>1 DEF HeardLeft
<1> QED BY <1>6, <1>7

\* location.update and location.stop.
LEMMA LocationUpdateTold ==
    ASSUME IInv, ViewsConverge, LiveShrinks, NEW c \in Conns, LocationUpdate(c)
    PROVE  ViewsConverge'
<1>1. PICK r \in Rooms, m \in Members :
          m \in room[r].members /\ conn[c].room = r /\ conn[c].member = m
  BY Sender DEF LocationUpdate
<1>2. /\ UNCHANGED <<room, reg, voice, floor, conn>>
      /\ loc' = [loc EXCEPT ![m] = "fresh"]
      /\ view' = Broadcast(view, room[r].members, Event("location.member", m))
  BY <1>1 DEF LocationUpdate, storeVars
<1>3. SocketsKept /\ OnlyAbout(r, m)
  BY <1>1, <1>2 DEF SocketsKept, OnlyAbout, IInv, TypeOK
<1>4. ASSUME NEW d \in Conns, Watching(d)
      PROVE  view'[d] = IF conn[d].room = r
                        THEN [view[d] EXCEPT !.located = view[d].located \cup {m}] ELSE view[d]
  <2>1. view'[d] = IF conn[d].room = r THEN Fold(view[d], Event("location.member", m))
                   ELSE view[d]
    BY <1>2, <1>4, RoomHears
  <2>2. view[d] \in ViewRecord
    BY <1>4, WatcherRegistered
  <2>3. Fold(view[d], Event("location.member", m))
          = [view[d] EXCEPT !.located = view[d].located \cup {m}]
    BY DEF Fold, Event
  <2> QED BY <2>1, <2>3
<1>5. Located(r)' = Located(r) \cup {m}
  BY <1>1, <1>2 DEF Located, IInv, TypeOK
<1>6. Online(r)' = Online(r) /\ Peers(r)' = Peers(r)
  BY <1>2 DEF Online, Peers
<1>7. ASSUME NEW d \in Conns, Watching(d), Informed(d), conn[d].room = r PROVE Informed(d)'
  <2>1. view[d] \in ViewRecord
    BY <1>7, WatcherRegistered
  <2>2. conn'[d].room = r /\ conn'[d].member = conn[d].member
    BY <1>2, <1>7
  <2>3. view'[d] = [view[d] EXCEPT !.located = view[d].located \cup {m}]
    BY <1>4, <1>7
  <2>4. Informed(d)' <=> InformedAfter(d, r, conn[d].member)
    BY <2>2, InformedNext
  <2> QED BY <1>2, <1>5, <1>6, <1>7, <2>1, <2>3, <2>4
         DEF Informed, Truthful, InformedAfter, ViewRecord
<1> QED BY <1>1, <1>3, <1>4, <1>7, RoomIsTold

LEMMA LocationStopTold ==
    ASSUME IInv, ViewsConverge, LiveShrinks, NEW c \in Conns, LocationStop(c)
    PROVE  ViewsConverge'
<1>1. PICK r \in Rooms, m \in Members :
          m \in room[r].members /\ conn[c].room = r /\ conn[c].member = m
  BY Sender DEF LocationStop
<1>2. /\ UNCHANGED <<room, reg, voice, floor, conn>>
      /\ loc' = [loc EXCEPT ![m] = "none"]
      /\ view' = ToldCleared(view, room[r].members, m)
  BY <1>1 DEF LocationStop, storeVars
<1>3. SocketsKept /\ OnlyAbout(r, m)
  BY <1>1, <1>2 DEF SocketsKept, OnlyAbout, IInv, TypeOK
<1>4. ASSUME NEW d \in Conns, Watching(d)
      PROVE  view'[d] = IF conn[d].room = r /\ loc[m] # "none"
                        THEN [view[d] EXCEPT !.located = view[d].located \ {m}] ELSE view[d]
  <2>1. view[d] \in ViewRecord /\ (conn[d].room = r => conn[d].member \in room[r].members)
    BY <1>4, WatcherRegistered
  <2>2. room[r].members \in SUBSET room[r].members
    OBVIOUS
  <2>3. ToldCleared(view, room[r].members, m)[d] =
            IF conn[d].room = r /\ loc[m] # "none"
            THEN [view[d] EXCEPT !.located = view[d].located \ {m}] ELSE view[d]
    BY <1>4, <2>1, <2>2, HearsCleared
  <2> QED BY <1>2, <2>3
<1>5. Located(r)' = Located(r) \ {m} /\ (loc[m] = "none" => m \notin Located(r))
  BY <1>1, <1>2 DEF Located, IInv, TypeOK
<1>6. Online(r)' = Online(r) /\ Peers(r)' = Peers(r)
  BY <1>2 DEF Online, Peers
<1>7. ASSUME NEW d \in Conns, Watching(d), Informed(d), conn[d].room = r PROVE Informed(d)'
  <2>1. view[d] \in ViewRecord
    BY <1>7, WatcherRegistered
  <2>2. conn'[d].room = r /\ conn'[d].member = conn[d].member
    BY <1>2, <1>7
  <2>3. view'[d] = IF loc[m] # "none"
                   THEN [view[d] EXCEPT !.located = view[d].located \ {m}] ELSE view[d]
    BY <1>4, <1>7
  <2>4. Informed(d)' <=> InformedAfter(d, r, conn[d].member)
    BY <2>2, InformedNext
  <2> QED BY <1>2, <1>5, <1>6, <1>7, <2>1, <2>3, <2>4
         DEF Informed, Truthful, InformedAfter, ViewRecord
<1> QED BY <1>1, <1>3, <1>4, <1>7, RoomIsTold


\* voice.join: the ones in the room hear of the peer, and an open newcomer is
\* told who is there and who has the floor.
LEMMA VoiceJoinTold ==
    ASSUME IInv, ViewsConverge, LiveShrinks, NEW c \in Conns, VoiceJoin(c)
    PROVE  ViewsConverge'
<1>1. PICK r \in Rooms, m \in Members :
          m \in room[r].members /\ conn[c].room = r /\ conn[c].member = m
  BY Sender DEF VoiceJoin
<1> DEFINE heard == Broadcast(view, room[r].members \ {m}, Event("voice.peer.joined", m))
           told == IF m \in voice THEN view ELSE heard
<1>2. /\ UNCHANGED <<room, reg, loc, floor, conn>>
      /\ voice' = voice \cup {m}
      /\ view' = IF conn[c].phase = "open"
                 THEN [told EXCEPT ![c].joined = TRUE, ![c].floor = floor[r],
                                   ![c].peers = (Peers(r) \cup {m}) \ {m}]
                 ELSE told
  BY <1>1 DEF VoiceJoin, storeVars
<1>3. SocketsKept /\ OnlyAbout(r, m)
  BY <1>1, <1>2 DEF SocketsKept, OnlyAbout, IInv, TypeOK
<1>4. ASSUME NEW d \in Conns, Watching(d)
      PROVE  told[d] = IF conn[d].room = r /\ conn[d].member # m /\ m \notin voice
                       THEN [view[d] EXCEPT !.peers = view[d].peers \cup {m}] ELSE view[d]
  <2>1. room[r].members \ {m} \in SUBSET room[r].members
    OBVIOUS
  <2>2. heard[d] = IF conn[d].room = r /\ conn[d].member \in room[r].members \ {m}
                   THEN Fold(view[d], Event("voice.peer.joined", m)) ELSE view[d]
    BY <1>4, <2>1, BroadcastReaches
  <2>3. Fold(view[d], Event("voice.peer.joined", m))
          = [view[d] EXCEPT !.peers = view[d].peers \cup {m}]
    BY DEF Fold, Event
  <2>4. conn[d].room = r => conn[d].member \in room[r].members
    BY <1>4, WatcherRegistered
  <2> QED BY <2>2, <2>3, <2>4
<1> HIDE DEF heard
<1>6. DOMAIN told = Conns
  BY DEF IInv, TypeOK, heard, Broadcast
<1> HIDE DEF told
<1>7. Peers(r)' = Peers(r) \cup {m} /\ Online(r)' = Online(r) /\ Located(r)' = Located(r)
  BY <1>1, <1>2 DEF Peers, Online, Located
<1>8. ASSUME NEW d \in Conns, d # c \/ conn[c].phase # "open" PROVE view'[d] = told[d]
  BY <1>2, <1>6, <1>8
<1>9. ASSUME NEW d \in Conns, Watching(d), Informed(d), conn[d].room = r PROVE Informed(d)'
  <2>1. view[d] \in ViewRecord
    BY <1>9, WatcherRegistered
  <2>2. conn'[d].room = r /\ conn'[d].member = conn[d].member
    BY <1>2, <1>9
  <2>3. Informed(d)' <=> InformedAfter(d, r, conn[d].member)
    BY <2>2, InformedNext
  <2>4. told[d].online = view[d].online /\ told[d].located = view[d].located
        /\ told[d].locked = view[d].locked /\ told[d].joined = view[d].joined
        /\ told[d].floor = view[d].floor
    BY <1>4, <1>9, <2>1 DEF ViewRecord
  <2>5. CASE d = c
    <3>1. conn[c].phase = "open"
      BY <1>9, <2>5 DEF Watching
    <3>2. view'[d] = [told[d] EXCEPT !.joined = TRUE, !.floor = floor[r],
                                     !.peers = (Peers(r) \cup {m}) \ {m}]
      BY <1>2, <1>6, <2>5, <3>1
    <3>3. told[d] = view[d]
      BY <1>1, <1>4, <1>9, <2>5
    <3>4. /\ view'[d].online = view[d].online /\ view'[d].located = view[d].located
          /\ view'[d].locked = view[d].locked /\ view'[d].floor = floor[r]
          /\ view'[d].peers = (Peers(r) \cup {m}) \ {m}
      BY <2>1, <3>2, <3>3 DEF ViewRecord
    <3> QED BY <1>1, <1>2, <1>7, <1>9, <2>3, <2>5, <3>4 DEF Informed, Truthful, InformedAfter
  <2>6. CASE d # c
    <3>1. view'[d] = told[d]
      BY <1>8, <2>6
    <3>2. told[d].peers = IF conn[d].member # m /\ m \notin voice
                          THEN view[d].peers \cup {m} ELSE view[d].peers
      BY <1>4, <1>9, <2>1 DEF ViewRecord
    <3>3. m \in voice => m \in Peers(r)
      BY <1>1 DEF Peers
    <3> QED BY <1>2, <1>7, <1>9, <2>3, <2>4, <3>1, <3>2, <3>3 DEF Informed, Truthful, InformedAfter
  <2> QED BY <2>5, <2>6
<1>10. ASSUME NEW d \in Conns, Watching(d), conn[d].room # r PROVE view'[d] = view[d]
  BY <1>1, <1>4, <1>8, <1>10
<1> QED BY <1>1, <1>3, <1>9, <1>10, RoomIsTold

\* voice.leave: those that stay hear of the peer and of the floor it gives up.
LEMMA VoiceLeaveTold ==
    ASSUME IInv, ViewsConverge, LiveShrinks, NEW c \in Conns, VoiceLeave(c)
    PROVE  ViewsConverge'
<1>1. PICK r \in Rooms, m \in Members :
          m \in room[r].members /\ conn[c].room = r /\ conn[c].member = m
  BY Sender DEF VoiceLeave
<1> DEFINE told == ToldLeft(view, room[r].members, r, m)
<1>2. /\ UNCHANGED <<room, reg, loc, conn>>
      /\ voice' = voice \ {m}
      /\ floor' = [floor EXCEPT ![r] = IF m \in voice /\ @ = m THEN NoMember ELSE @]
      /\ view' = [told EXCEPT ![c].joined = FALSE]
  BY <1>1 DEF VoiceLeave, FloorWithout, storeVars
<1>3. SocketsKept /\ OnlyAbout(r, m)
  BY <1>1, <1>2 DEF SocketsKept, OnlyAbout, IInv, TypeOK
<1>4. ASSUME NEW d \in Conns, Watching(d)
      PROVE  HeardLeft(told[d], view[d], conn[d].room, r, m)
  <2>1. view[d] \in ViewRecord /\ (conn[d].room = r => conn[d].member \in room[r].members)
    BY <1>4, WatcherRegistered
  <2>2. room[r].members \in SUBSET room[r].members
    OBVIOUS
  <2> QED BY <1>4, <2>1, <2>2, HearsLeft
<1>5. told \in [Conns -> ViewRecord]
  BY ToldLeftType DEF IInv, TypeOK, Views
<1> HIDE DEF told
<1>6. /\ Peers(r)' = Peers(r) \ {m} /\ Online(r)' = Online(r) /\ Located(r)' = Located(r)
      /\ floor'[r] = IF m \in voice /\ floor[r] = m THEN NoMember ELSE floor[r]
  BY <1>1, <1>2 DEF Peers, Online, Located, IInv, TypeOK
<1>7. ASSUME NEW d \in Conns
      PROVE  view'[d] = IF d = c THEN [told[d] EXCEPT !.joined = FALSE] ELSE told[d]
  BY <1>2, <1>5
<1>8. ASSUME NEW d \in Conns, Watching(d), Informed(d), conn[d].room = r PROVE Informed(d)'
  <2>1. view[d] \in ViewRecord
    BY <1>8, WatcherRegistered
  <2>2. conn'[d].room = r /\ conn'[d].member = conn[d].member
    BY <1>2, <1>8
  <2>3. Informed(d)' <=> InformedAfter(d, r, conn[d].member)
    BY <2>2, InformedNext
  <2>4. /\ told[d].online = view[d].online /\ told[d].located = view[d].located
        /\ told[d].locked = view[d].locked /\ told[d].joined = view[d].joined
        /\ told[d].floor = IF m \in voice /\ floor[r] = m THEN NoMember ELSE view[d].floor
        /\ told[d].peers = IF m \in voice THEN view[d].peers \ {m} ELSE view[d].peers
    BY <1>4, <1>8 DEF HeardLeft
  <2>5. /\ view'[d].online = view[d].online /\ view'[d].located = view[d].located
        /\ view'[d].locked = view[d].locked
        /\ view'[d].joined => view[d].joined /\ view'[d] = told[d]
    BY <1>5, <1>7, <2>4 DEF ViewRecord
  <2>6. m \notin voice => m \notin Peers(r)
    BY DEF Peers
  <2> QED BY <1>2, <1>6, <1>8, <2>3, <2>4, <2>5, <2>6 DEF Informed, Truthful, InformedAfter
<1>9. ASSUME NEW d \in Conns, Watching(d), conn[d].room # r PROVE view'[d] = view[d]
  <2>1. d # c
    BY <1>1, <1>9
  <2> QED BY <1>4, <1>7, <1>9, <2>1 DEF HeardLeft
<1> QED BY <1>1, <1>3, <1>8, <1>9, RoomIsTold


\* voice.talk.start and voice.talk.stop: the room hears who has the floor.
LEMMA FloorTold ==
    ASSUME IInv, ViewsConverge, LiveShrinks, NEW r \in Rooms, NEW m \in room[r].members, NEW h,
           UNCHANGED <<room, reg, loc, voice, conn>>, floor' = [floor EXCEPT ![r] = h],
           view' = Broadcast(view, room[r].members, Event("voice.floor", h))
    PROVE  ViewsConverge'
<1>1. SocketsKept /\ OnlyAbout(r, m)
  BY DEF SocketsKept, OnlyAbout, IInv, TypeOK
<1>2. ASSUME NEW d \in Conns, Watching(d)
      PROVE  view'[d] = IF conn[d].room = r THEN [view[d] EXCEPT !.floor = h] ELSE view[d]
  <2>1. view'[d] = IF conn[d].room = r THEN Fold(view[d], Event("voice.floor", h)) ELSE view[d]
    BY <1>2, RoomHears
  <2>2. Fold(view[d], Event("voice.floor", h)) = [view[d] EXCEPT !.floor = h]
    BY DEF Fold, Event
  <2> QED BY <2>1, <2>2
<1>3. /\ Peers(r)' = Peers(r) /\ Online(r)' = Online(r) /\ Located(r)' = Located(r)
      /\ floor'[r] = h
  BY DEF Peers, Online, Located, IInv, TypeOK
<1>4. ASSUME NEW d \in Conns, Watching(d), Informed(d), conn[d].room = r PROVE Informed(d)'
  <2>1. view[d] \in ViewRecord /\ view'[d] = [view[d] EXCEPT !.floor = h]
    BY <1>2, <1>4, WatcherRegistered
  <2>2. conn'[d].room = r /\ conn'[d].member = conn[d].member
    BY <1>4
  <2>3. Informed(d)' <=> InformedAfter(d, r, conn[d].member)
    BY <2>2, InformedNext
  <2> QED BY <1>3, <1>4, <2>1, <2>3 DEF Informed, Truthful, InformedAfter, ViewRecord
<1> QED BY <1>1, <1>2, <1>4, RoomIsTold

LEMMA TalkTold ==
    ASSUME IInv, ViewsConverge, LiveShrinks, NEW c \in Conns, TalkStart(c) \/ TalkStop(c)
    PROVE  ViewsConverge'
<1>1. PICK r \in Rooms, m \in Members :
          m \in room[r].members /\ conn[c].room = r /\ conn[c].member = m
  BY Sender DEF TalkStart, TalkStop
<1>2. UNCHANGED <<room, reg, loc, voice, conn>>
  BY DEF TalkStart, TalkStop, storeVars
<1>3. CASE UNCHANGED <<floor, view>>
  <2>1. SocketsKept
    BY <1>2 DEF SocketsKept
  <2>2. \A s \in Rooms : TruthKept(s)
    BY <1>2, <1>3 DEF TruthKept, Online, Located, Peers
  <2> QED BY <1>3, <2>1, <2>2, ViewsFrame, WatcherRegistered
<1>4. CASE /\ floor' = [floor EXCEPT ![r] = m]
           /\ view' = Broadcast(view, room[r].members, Event("voice.floor", m))
  BY <1>1, <1>2, <1>4, FloorTold
<1>5. CASE /\ floor' = [floor EXCEPT ![r] = NoMember]
           /\ view' = Broadcast(view, room[r].members, Event("voice.floor", NoMember))
  BY <1>1, <1>2, <1>5, FloorTold
<1> QED BY <1>1, <1>3, <1>4, <1>5 DEF TalkStart, TalkStop

\* room.lock.set by the host.
LEMMA RoomLockTold ==
    ASSUME IInv, ViewsConverge, LiveShrinks, NEW c \in Conns, NEW b \in BOOLEAN, RoomLock(c, b)
    PROVE  ViewsConverge'
<1>1. PICK r \in Rooms, m \in Members :
          m \in room[r].members /\ conn[c].room = r /\ conn[c].member = m
  BY Sender DEF RoomLock
<1> DEFINE e == [type |-> "room.locked", locked |-> b]
<1>2. /\ UNCHANGED <<reg, loc, voice, floor, conn>>
      /\ room' = [room EXCEPT ![r].locked = b]
      /\ view' = Broadcast(view, room[r].members, e)
  BY <1>1 DEF RoomLock, SetLocked, ToldLocked
<1>3. room[r] \in RoomRecord /\ room \in [Rooms -> RoomRecord]
  BY DEF IInv, StoreInv, StoreTypeOK
<1>4. /\ room'[r].members = room[r].members /\ room'[r].locked = b
      /\ \A s \in Rooms \ {r} : room'[s] = room[s]
  BY <1>2, <1>3 DEF RoomRecord
<1>5. SocketsKept /\ OnlyAbout(r, m)
  BY <1>1, <1>2, <1>4 DEF SocketsKept, OnlyAbout, IInv, TypeOK
<1>6. ASSUME NEW d \in Conns, Watching(d)
      PROVE  view'[d] = IF conn[d].room = r THEN [view[d] EXCEPT !.locked = b] ELSE view[d]
  <2>1. view'[d] = IF conn[d].room = r THEN Fold(view[d], e) ELSE view[d]
    BY <1>2, <1>6, RoomHears
  <2>2. Fold(view[d], e) = [view[d] EXCEPT !.locked = b]
    BY DEF Fold
  <2> QED BY <2>1, <2>2
<1>7. Peers(r)' = Peers(r) /\ Online(r)' = Online(r) /\ Located(r)' = Located(r)
  BY <1>2, <1>4 DEF Peers, Online, Located
<1>8. ASSUME NEW d \in Conns, Watching(d), Informed(d), conn[d].room = r PROVE Informed(d)'
  <2>1. view[d] \in ViewRecord /\ view'[d] = [view[d] EXCEPT !.locked = b]
    BY <1>6, <1>8, WatcherRegistered
  <2>2. conn'[d].room = r /\ conn'[d].member = conn[d].member
    BY <1>2, <1>8
  <2>3. Informed(d)' <=> InformedAfter(d, r, conn[d].member)
    BY <2>2, InformedNext
  <2> QED BY <1>2, <1>4, <1>7, <1>8, <2>1, <2>3 DEF Informed, Truthful, InformedAfter, ViewRecord
<1> QED BY <1>1, <1>5, <1>6, <1>8, RoomIsTold

\* room.state.get: a fresh snapshot that keeps what is known of the channel.
LEMMA StateGetTold ==
    ASSUME IInv, ViewsConverge, LiveShrinks, NEW c \in Conns, StateGet(c)
    PROVE  ViewsConverge'
<1>1. PICK r \in Rooms, m \in Members :
          m \in room[r].members /\ conn[c].room = r /\ conn[c].member = m
  BY Sender DEF StateGet
<1>2. UNCHANGED <<room, reg, loc, voice, floor>>
  BY DEF StateGet, storeVars
<1>3. \/ conn' = [conn EXCEPT ![c].phase = "destroyed"] /\ view' = view
      \/ /\ conn' = conn
         /\ view' = [view EXCEPT ![c] = [Snapshot(r, Online(r)) EXCEPT
                 !.joined = view[c].joined, !.peers = view[c].peers, !.floor = view[c].floor]]
  BY <1>1 DEF StateGet
<1>4. conn[c].phase # "idle"
  BY DEF StateGet, Receives, Reading
<1>5. SocketsKept /\ OnlyAbout(r, m)
  BY <1>1, <1>2, <1>3, <1>4 DEF SocketsKept, OnlyAbout, IInv, TypeOK, ConnRecord
<1>6. ASSUME NEW d \in Conns, d # c PROVE view'[d] = view[d]
  BY <1>3, <1>6 DEF IInv, TypeOK
<1>7. Peers(r)' = Peers(r) /\ Online(r)' = Online(r) /\ Located(r)' = Located(r)
  BY <1>2 DEF Peers, Online, Located
<1>8. ASSUME NEW d \in Conns, Watching(d), Watching(d)', Informed(d), conn[d].room = r
      PROVE  Informed(d)'
  <2>1. view[d] \in ViewRecord
    BY <1>8, WatcherRegistered
  <2>2. conn'[d].room = r /\ conn'[d].member = conn[d].member
    BY <1>5, <1>8 DEF SocketsKept
  <2>3. Informed(d)' <=> InformedAfter(d, r, conn[d].member)
    BY <2>2, InformedNext
  <2>4. /\ view'[d].joined = view[d].joined /\ view'[d].floor = view[d].floor
        /\ view'[d].peers = view[d].peers /\ view'[d].online = Online(r)
        /\ view'[d].located = Located(r) /\ view'[d].locked = room[r].locked
    <3>1. CASE d # c \/ view' = view
      BY <1>6, <1>8, <3>1 DEF Informed, Truthful
    <3>2. CASE d = c /\ view' # view
      <4>1. view'[d] = [Snapshot(r, Online(r)) EXCEPT
                 !.joined = view[c].joined, !.peers = view[c].peers, !.floor = view[c].floor]
        BY <1>3, <3>2 DEF IInv, TypeOK
      <4> QED BY <3>2, <4>1 DEF Snapshot, BlankView
    <3> QED BY <3>1, <3>2
  <2> QED BY <1>2, <1>7, <1>8, <2>3, <2>4 DEF Informed, Truthful, InformedAfter
<1> QED BY <1>1, <1>5, <1>6, <1>8, RoomIsTold


\* Ending and expiry take nothing from the rooms that stay, but the stale
\* coordinates.
LEMMA DropTruth ==
    ASSUME IInv, NEW gone \in SUBSET Rooms, NEW stale, DropState(gone, stale), UNCHANGED room,
           NEW s \in Rooms, s \notin gone
    PROVE  /\ Online(s)' = Online(s) /\ Located(s)' = Located(s) \ stale
           /\ Peers(s)' = Peers(s) /\ floor'[s] = floor[s]
<1> DEFINE members == UNION {room[r].members : r \in gone}
<1>1. room[s].members \subseteq Members /\ room[s].members \cap members = {}
  BY OneRoom DEF IInv, StoreInv, StoreTypeOK, RoomRecord
<1>2. \A n \in room[s].members : /\ reg'[n] = reg[n] /\ (n \in voice' <=> n \in voice)
                                 /\ loc'[n] = IF n \in stale THEN "none" ELSE loc[n]
  BY <1>1 DEF DropState
<1>3. Online(s)' = Online(s) /\ Peers(s)' = Peers(s)
  BY <1>2 DEF Online, Peers
<1>4. Located(s)' = Located(s) \ stale
  BY <1>2 DEF Located
<1> QED BY <1>3, <1>4 DEF DropState

\* room.end by the host: the other rooms are left alone.
LEMMA RoomEndTold ==
    ASSUME IInv, ViewsConverge, LiveShrinks, NEW c \in Conns, RoomEnd(c)
    PROVE  ViewsConverge'
<1>1. PICK r \in Rooms, m \in Members :
          m \in room[r].members /\ conn[c].room = r /\ conn[c].member = m
  BY Sender DEF RoomEnd
<1>2. /\ UNCHANGED <<room, view>> /\ conn' = HangUp({r}) /\ DropState({r}, {}) /\ r \notin Live'
  BY <1>1 DEF RoomEnd, End, Live
<1>3. SocketsKept
  BY <1>2 DEF HangUp, Closed, SocketsKept, IInv, TypeOK, ConnRecord
<1>4. ASSUME NEW s \in Rooms, s # r PROVE TruthKept(s)
  <2>1. {r} \in SUBSET Rooms /\ s \notin {r}
    BY <1>4
  <2>2. /\ Online(s)' = Online(s) /\ Located(s)' = Located(s) \ {}
        /\ Peers(s)' = Peers(s) /\ floor'[s] = floor[s]
    BY <1>2, <2>1, DropTruth
  <2> QED BY <1>2, <2>2 DEF TruthKept
<1>5. ASSUME NEW d \in Conns, Watching(d), Watching(d)', NEW s \in Rooms, conn[d].room = s
      PROVE  TruthKept(s)
  <2>1. conn[d].room # r
    BY <1>2, <1>3, <1>5 DEF Watching, SocketsKept
  <2> QED BY <1>4, <1>5, <2>1
<1> QED BY <1>2, <1>3, <1>5, ViewsFrame

\* setInterval(#heartbeat): stale coordinates are cleared and told.
LEMMA HeartbeatTold ==
    ASSUME IInv, ViewsConverge, LiveShrinks, Heartbeat
    PROVE  ViewsConverge'
<1> DEFINE kept(d) == \E s \in states \cap Live : RegisteredIn(d, s)
<1>1. /\ UNCHANGED room /\ DropState(Abandoned, Stale)
      /\ conn' = [d \in Conns |-> IF kept(d) THEN Beat(conn[d]) ELSE HangUp(Abandoned)[d]]
      /\ view' = [d \in Conns |-> IF conn[d].phase = "open" /\ kept(d)
                                  THEN [view[d] EXCEPT !.located = @ \ Stale] ELSE view[d]]
  BY DEF Heartbeat
<1>2. Abandoned \in SUBSET Rooms
  BY DEF Abandoned, IInv, TypeOK
<1>3. SocketsKept
  <2>1. ASSUME NEW d \in Conns
        PROVE  /\ conn'[d].room = conn[d].room /\ conn'[d].member = conn[d].member
               /\ conn'[d].replacing = conn[d].replacing
               /\ conn'[d].phase = "idle" <=> conn[d].phase = "idle"
               /\ conn'[d].phase = "open" => conn[d].phase = "open"
    <3>1. conn'[d] = Beat(conn[d]) \/ conn'[d] = Closed(conn[d]) \/ conn'[d] = conn[d]
      BY <1>1 DEF HangUp
    <3>2. conn[d].phase = "idle" => conn'[d] # Beat(conn[d]) \/ conn'[d].phase = "idle"
      <4>1. SUFFICES ASSUME conn[d].phase = "idle" PROVE ~kept(d)
        BY <1>1 DEF HangUp, Closed, IInv, TypeOK, ConnRecord
      <4>2. \A n \in Members : reg[n] # d
        BY <4>1, HubAssumption DEF IInv, SocketsInv, RegisteredIsCurrent
      <4> QED BY <4>2 DEF RegisteredIn, IInv, TypeOK, StoreInv, StoreTypeOK, RoomRecord
    <3> QED BY <3>1, <3>2 DEF Beat, Closed, IInv, TypeOK, ConnRecord
  <2> QED BY <2>1 DEF SocketsKept
<1> SUFFICES ASSUME NEW d \in Conns, Watching(d)'
             PROVE  Informed(d)'
  BY DEF ViewsConverge, Watching, Informed, Truthful
<1>4. Watching(d) /\ conn'[d].room = conn[d].room /\ conn'[d].member = conn[d].member
  BY <1>3, WatchedBefore
<1>5. Informed(d) /\ view[d] \in ViewRecord
  BY <1>4, ViewsAreInformed, WatcherRegistered
<1>6. PICK r \in Rooms : conn[d].room = r
  BY <1>4, WatcherRegistered
<1>7. r \in states \cap Live /\ kept(d)
  BY <1>4, <1>6, WatcherRegistered DEF Watching, RegisteredIn
<1>8. view'[d] = [view[d] EXCEPT !.located = view[d].located \ Stale]
  BY <1>1, <1>4, <1>7 DEF Watching
<1>9. /\ Online(r)' = Online(r) /\ Located(r)' = Located(r) \ Stale
      /\ Peers(r)' = Peers(r) /\ floor'[r] = floor[r]
  BY <1>1, <1>2, <1>7, DropTruth DEF Abandoned
<1>10. Informed(d)' <=> InformedAfter(d, r, conn[d].member)
  BY <1>4, <1>6, InformedNext
<1> QED BY <1>1, <1>5, <1>6, <1>8, <1>9, <1>10 DEF Informed, Truthful, InformedAfter, ViewRecord

\* #authenticate(): the newcomer gets a snapshot in which it is online, and the
\* others of the room hear of it.
LEMMA AuthenticateTold ==
    ASSUME IInv, ViewsConverge, NEW c \in Conns, NEW m \in Members, Authenticate(c, m)
    PROVE  ViewsConverge'
<1>1. PICK r \in Rooms : conn[c].room = r
  BY DEF Authenticate, Reading, IInv, SocketsInv, SocketsBelong
<1>2. m \in room[r].members /\ conn[c].member = NoMember /\ m # NoMember
  BY <1>1, IdsAssumption DEF Authenticate
<1> DEFINE heard == Broadcast(view, room[r].members \ {m}, Event("member.online", m))
<1>3. /\ UNCHANGED <<storeVars, loc, voice, floor>>
      /\ reg' = [reg EXCEPT ![m] = c]
      /\ view' = [heard EXCEPT ![c] = Snapshot(r, Online(r) \cup {m})]
  BY <1>1 DEF Authenticate
<1>4. /\ UNCHANGED room /\ Live' = Live
      /\ DOMAIN heard = Conns
  BY <1>3 DEF storeVars, Live, Broadcast
<1>5. ASSUME NEW d \in Conns, d # c
      PROVE  /\ conn'[d] = IF d = reg[m] THEN Replaced(conn[d]) ELSE conn[d]
             /\ view'[d] = heard[d]
  BY <1>3, <1>4, <1>5 DEF Authenticate
<1>6. conn'[c].room = r /\ conn'[c].member = m
  BY <1>1 DEF Authenticate, IInv, TypeOK, ConnRecord
<1>7. OnlyAbout(r, m)
  BY <1>2, <1>3, <1>4 DEF OnlyAbout, IInv, TypeOK
<1>8. /\ Online(r)' = Online(r) \cup {m} /\ Located(r)' = Located(r) /\ Peers(r)' = Peers(r)
  <2>1. c # NoConn
    BY HubAssumption
  <2> QED BY <1>2, <1>3, <1>4, <2>1 DEF Online, Located, Peers, IInv, TypeOK
<1> HIDE DEF heard
<1> SUFFICES ASSUME NEW d \in Conns, Watching(d)'
             PROVE  Informed(d)'
  BY DEF ViewsConverge, Watching, Informed, Truthful
<1>9. CASE d = c
  <2>1. view'[d] = Snapshot(r, Online(r) \cup {m})
    BY <1>3, <1>4, <1>9
  <2>2. /\ view'[d].online = Online(r) \cup {m} /\ view'[d].located = Located(r)
        /\ view'[d].locked = room[r].locked /\ view'[d].joined = FALSE
    BY <2>1 DEF Snapshot, BlankView
  <2>3. Informed(d)' <=> InformedAfter(d, r, m)
    BY <1>6, <1>9, InformedNext
  <2> QED BY <1>4, <1>8, <2>2, <2>3 DEF InformedAfter
<1>10. CASE d # c
  <2>1. d # reg[m] /\ conn'[d] = conn[d]
    BY <1>5, <1>10 DEF Watching, Replaced, Closed, IInv, TypeOK, ConnRecord
  <2>2. Watching(d)
    BY <1>4, <2>1 DEF Watching
  <2>3. /\ conn[d].member # m /\ conn[d].room \in Rooms /\ view[d] \in ViewRecord
        /\ conn[d].member \in room[conn[d].room].members
    BY <2>1, <2>2, WatcherRegistered
  <2>4. view'[d] = IF conn[d].room = r
                   THEN [view[d] EXCEPT !.online = view[d].online \cup {m}] ELSE view[d]
    <3>1. room[r].members \ {m} \in SUBSET room[r].members
      OBVIOUS
    <3>2. heard[d] = IF conn[d].room = r /\ conn[d].member \in room[r].members \ {m}
                     THEN Fold(view[d], Event("member.online", m)) ELSE view[d]
      BY <2>2, <3>1, BroadcastReaches DEF heard
    <3>3. Fold(view[d], Event("member.online", m))
            = [view[d] EXCEPT !.online = view[d].online \cup {m}]
      BY DEF Fold, Event
    <3> QED BY <1>5, <1>10, <2>3, <3>2, <3>3
  <2>5. Informed(d)
    BY <2>2, ViewsAreInformed
  <2>6. CASE conn[d].room # r
    <3>1. PICK s \in Rooms : conn[d].room = s
      BY <2>3
    <3>2. TruthKept(s)
      BY <1>2, <1>7, <2>6, <3>1, TruthElsewhere
    <3> QED BY <2>1, <2>4, <2>5, <2>6, <3>1, <3>2, InformedStays
  <2>7. CASE conn[d].room = r
    <3>1. Informed(d)' <=> InformedAfter(d, r, conn[d].member)
      BY <2>1, <2>7, InformedNext
    <3> QED BY <1>3, <1>4, <1>8, <2>3, <2>4, <2>5, <2>7, <3>1
           DEF Informed, Truthful, InformedAfter, ViewRecord
  <2> QED BY <2>6, <2>7
<1> QED BY <1>9, <1>10


\* #disconnect(): the sockets that stay in the room hear all that goes with the
\* member, and a connection that is not on record takes nothing along.
LEMMA DisconnectTold ==
    ASSUME IInv, ViewsConverge, NEW c \in Conns, Disconnect(c)
    PROVE  ViewsConverge'
<1>1. /\ UNCHANGED <<room, expired>> /\ conn'[c].phase = "idle"
      /\ \A d \in Conns \ {c} : conn'[d] = conn[d]
  BY DEF Disconnect, IdleConn, IInv, TypeOK
<1>2. Live' \subseteq Live
  BY <1>1 DEF Disconnect, Pruned, Live
<1> SUFFICES ASSUME NEW d \in Conns, Watching(d)'
             PROVE  Informed(d)'
  BY DEF ViewsConverge, Watching, Informed, Truthful
<1>3. d # c /\ conn'[d] = conn[d]
  BY <1>1 DEF Watching
<1>4. Watching(d)
  BY <1>2, <1>3 DEF Watching
<1>5. PICK s \in Rooms : Informed(d) /\ conn[d].room = s /\ view[d] \in ViewRecord
  BY <1>4, ViewsAreInformed, WatcherRegistered
<1>6. CASE ~IsRegistered(c)
  <2>1. view'[d] = view[d] /\ UNCHANGED <<reg, voice, floor, loc>>
    BY <1>3, <1>6 DEF Disconnect, IInv, TypeOK
  <2>2. TruthKept(s)
    BY <1>1, <2>1 DEF TruthKept, Online, Located, Peers
  <2> QED BY <1>3, <1>5, <2>1, <2>2, InformedStays
<1>7. CASE IsRegistered(c)
  <2>1. PICK r \in Rooms, m \in Members :
            m \in room[r].members /\ conn[c].room = r /\ conn[c].member = m /\ reg[m] = c
    BY <1>7 DEF IsRegistered, IInv, TypeOK, ConnRecord, SocketsInv, SocketsBelong
  <2> DEFINE others == room[r].members \ {m}
             left == ToldLeft(view, others, r, m)
             cleared == ToldCleared(left, others, m)
             gone == IF r \in Live THEN Broadcast(cleared, others, Event("member.offline", m))
                     ELSE cleared
  <2>2. /\ reg' = [reg EXCEPT ![m] = NoConn]
        /\ voice' = voice \ {m}
        /\ floor' = [floor EXCEPT ![r] = IF m \in voice /\ @ = m THEN NoMember ELSE @]
        /\ loc' = [loc EXCEPT ![m] = "none"]
        /\ view' = [gone EXCEPT ![c] = BlankView]
    BY <1>7, <2>1 DEF Disconnect, FloorWithout
  <2>3. OnlyAbout(r, m)
    BY <1>1, <2>2 DEF OnlyAbout, IInv, TypeOK
  <2>4. conn[d].member # m /\ (conn[d].room = r => conn[d].member \in others /\ r \in Live)
    BY <1>3, <1>4, <2>1, WatcherRegistered DEF Watching
  <2>5. others \in SUBSET room[r].members
    OBVIOUS
  <2>6. HeardLeft(left[d], view[d], conn[d].room, r, m)
    <3> HIDE DEF others
    <3>1. view[d] \in ViewRecord /\ (conn[d].room = r => conn[d].member \in others)
      BY <1>5, <2>4
    <3> QED BY <1>4, <2>5, <3>1, HearsLeft
  <2>7. left \in Views /\ left[d] \in ViewRecord
    BY ToldLeftType DEF IInv, TypeOK, Views
  <2>8. cleared \in Views /\ cleared[d] \in ViewRecord
    <3> HIDE DEF left, others
    <3> QED BY <2>7, ToldClearedType DEF Views
  <2>9. cleared[d] = IF conn[d].room = r /\ loc[m] # "none"
                     THEN [left[d] EXCEPT !.located = left[d].located \ {m}] ELSE left[d]
    <3> HIDE DEF left, others
    <3>1. left[d] \in ViewRecord /\ (conn[d].room = r => conn[d].member \in others)
      BY <2>4, <2>7
    <3> QED BY <1>4, <2>5, <3>1, HearsCleared
  <2>10. gone[d] = IF conn[d].room = r
                   THEN [cleared[d] EXCEPT !.online = cleared[d].online \ {m}] ELSE cleared[d]
    <3> HIDE DEF cleared, others
    <3>1. Broadcast(cleared, others, Event("member.offline", m))[d] =
              IF conn[d].room = r /\ conn[d].member \in others
              THEN Fold(cleared[d], Event("member.offline", m)) ELSE cleared[d]
      BY <1>4, <2>5, BroadcastReaches
    <3>2. Fold(cleared[d], Event("member.offline", m))
            = [cleared[d] EXCEPT !.online = cleared[d].online \ {m}]
      BY DEF Fold, Event
    <3> QED BY <2>4, <3>1, <3>2
  <2>11. view'[d] = gone[d]
    <3>1. DOMAIN gone = Conns
      BY <2>8 DEF Broadcast, Views
    <3> HIDE DEF gone
    <3> QED BY <1>3, <2>2, <3>1
  <2> HIDE DEF left, cleared, gone, others
  <2>12. CASE conn[d].room # r
    <3>1. view'[d] = view[d]
      BY <2>6, <2>9, <2>10, <2>11, <2>12 DEF HeardLeft
    <3>2. TruthKept(s)
      BY <1>5, <2>1, <2>3, <2>12, TruthElsewhere
    <3> QED BY <1>3, <1>5, <3>1, <3>2, InformedStays
  <2>13. CASE conn[d].room = r
    <3>1. /\ Online(r)' = Online(r) \ {m} /\ Located(r)' = Located(r) \ {m}
          /\ Peers(r)' = Peers(r) \ {m} /\ (loc[m] = "none" => m \notin Located(r))
          /\ (m \notin voice => m \notin Peers(r))
          /\ floor'[r] = IF m \in voice /\ floor[r] = m THEN NoMember ELSE floor[r]
      BY <1>1, <2>1, <2>2 DEF Online, Located, Peers, IInv, TypeOK
    <3>2. /\ view'[d].online = view[d].online \ {m}
          /\ view'[d].located = IF loc[m] # "none" THEN view[d].located \ {m}
                                ELSE view[d].located
          /\ view'[d].locked = view[d].locked /\ view'[d].joined = view[d].joined
          /\ view'[d].peers = IF m \in voice THEN view[d].peers \ {m} ELSE view[d].peers
          /\ view'[d].floor = IF m \in voice /\ floor[r] = m THEN NoMember ELSE view[d].floor
      BY <1>5, <2>6, <2>7, <2>8, <2>9, <2>10, <2>11, <2>13 DEF ViewRecord, HeardLeft
    <3>3. Informed(d)' <=> InformedAfter(d, r, conn[d].member)
      BY <1>3, <2>13, InformedNext
    <3> QED BY <1>1, <1>5, <2>13, <3>1, <3>2, <3>3 DEF Informed, Truthful, InformedAfter
  <2> QED BY <2>12, <2>13
<1> QED BY <1>6, <1>7

LEMMA UpgradeTold ==
    ASSUME IInv, ViewsConverge, NEW c \in Conns, NEW r \in Rooms, Upgrade(c, r)
    PROVE  ViewsConverge'
<1>1. /\ UNCHANGED <<room, expired, reg, loc, voice, floor, view>> /\ conn'[c].member = NoMember
      /\ \A d \in Conns \ {c} : conn'[d] = conn[d]
      /\ Live' \subseteq Live
  BY DEF Upgrade, IdleConn, IInv, TypeOK, Pruned, Live
<1> SUFFICES ASSUME NEW d \in Conns, Watching(d)'
             PROVE  Informed(d)'
  BY DEF ViewsConverge, Watching, Informed, Truthful
<1>2. d # c /\ conn'[d] = conn[d] /\ Watching(d)
  BY <1>1 DEF Watching
<1>3. PICK s \in Rooms : conn[d].room = s /\ Informed(d)
  BY <1>2, ViewsAreInformed, WatcherRegistered
<1>4. TruthKept(s)
  BY <1>1 DEF TruthKept, Online, Located, Peers
<1> QED BY <1>1, <1>2, <1>3, <1>4, InformedStays

LEMMA ViewsStep ==
    ASSUME IInv, IInv', ViewsConverge, [Next]_vars
    PROVE  ViewsConverge'
<1>1. LiveShrinks
  BY StepsShrinkLive
<1>2. CASE Http \/ Clock \/ UNCHANGED vars
  BY <1>2, QuietViews DEF Http, Clock, RoomDeadline, TokenDeadline, GoStale, IntervalElapses,
      vars, hubVars
<1>3. ASSUME NEW c \in Conns, Message(c) \/ Refuse(c) \/ Disconnect(c) PROVE ViewsConverge'
  <2>1. CASE \/ Ping(c) \/ Pong(c) \/ Refuse(c) \/ LocationRejected(c)
             \/ VoiceJoinRefused(c) \/ RoomLockRefused(c) \/ RoomEndRefused(c)
    BY <2>1, QuietViews DEF Ping, Pong, Refuse, LocationRejected, VoiceJoinRefused,
        RoomLockRefused, RoomEndRefused
  <2>2. ASSUME HubReset PROVE ViewsConverge'
    BY <2>2 DEF HubReset, IdleConn, ViewsConverge
  <2> QED BY <1>1, <1>3, <2>1, <2>2, AuthenticateTold, StateGetTold, LocationUpdateTold,
          LocationStopTold, VoiceJoinTold, VoiceLeaveTold, TalkTold, RoomLockTold, RoomEndTold,
          DisconnectTold DEF Message, RoomEndThrows
<1>4. CASE Restart
  BY <1>4 DEF Restart, HubReset, IdleConn, ViewsConverge
<1> QED BY <1>1, <1>2, <1>3, <1>4, UpgradeTold, HeartbeatTold DEF Next

\* The snapshot and the events after it tell every open client the whole truth,
\* for any number of rooms, members and sockets.
THEOREM ViewsAreTrue == Spec => []ViewsConverge
<1>1. Init => ViewsConverge
  BY DEF Init, IdleConn, ViewsConverge
<1>2. IInv /\ IInv' /\ ViewsConverge /\ [Next]_vars => ViewsConverge'
  BY ViewsStep
<1> QED BY <1>1, <1>2, HubInvariance, PTL DEF Spec

=============================================================================
