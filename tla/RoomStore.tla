------------------------------ MODULE RoomStore ------------------------------
(***************************************************************************)
(* The registry of Rydes kept by apps/api/lib/rooms.js, with the role       *)
(* rules of apps/api/lib/permissions.js and the lifetime of the member      *)
(* tokens of apps/api/lib/room-token.js.                                    *)
(*                                                                          *)
(* A Ryde that leaves `this.rooms' is not forgotten at once: an upgraded    *)
(* socket keeps the room object in its closure.  The model therefore keeps  *)
(* the record of a room for ever and lets `stored' be the keys of           *)
(* `this.rooms'.  Room, member and code names are drawn at random by the    *)
(* code; here each name is drawn at most once for rooms and members, and a  *)
(* code may be drawn again as soon as `this.codes' no longer holds it.      *)
(*                                                                          *)
(* Time is a set of deadlines that have passed: `expired' are the rooms     *)
(* with expiresAt <= now, `lapsed' the members whose token has exp <= now.  *)
(* Both TTLs are configured independently, so no order between the two      *)
(* deadlines is assumed.                                                    *)
(***************************************************************************)
EXTENDS FiniteSets

CONSTANTS
    Rooms,      \* room ids the process can draw
    Members,    \* member ids the process can draw
    Codes,      \* join codes the process can draw
    Modes       \* the room modes riders may create

ModeNames == {"group_ride", "listening_party", "classroom", "band_practice", "campaign"}
Roles == {"host", "co_host", "rider", "speaker", "listener"}

ASSUME ModesAssumption == Modes \subseteq ModeNames

\* Absent values, distinct from every id.
NoRoom == "no room"
NoMember == "no member"
NoCode == "no code"
NoMode == "no mode"

ASSUME IdsAssumption == /\ NoRoom \notin Rooms
                        /\ NoMember \notin Members
                        /\ NoCode \notin Codes

VARIABLES
    stored,     \* keys of this.rooms
    codes,      \* this.codes: join code -> room id
    room,       \* the room objects, also those no longer stored
    expired,    \* rooms whose expiresAt has passed
    lapsed      \* members whose token has run out

storeVars == <<stored, codes, room, expired, lapsed>>

RoomRecord ==
    [mode : ModeNames \cup {NoMode}, host : Members \cup {NoMember},
     members : SUBSET Members, locked : BOOLEAN, code : Codes \cup {NoCode}]

UnusedRoom ==
    [mode |-> NoMode, host |-> NoMember, members |-> {}, locked |-> FALSE, code |-> NoCode]

StoreTypeOK ==
    /\ stored \subseteq Rooms
    /\ codes \in [Codes -> Rooms \cup {NoRoom}]
    /\ room \in [Rooms -> RoomRecord]
    /\ expired \subseteq Rooms
    /\ lapsed \subseteq Members

StoreInit ==
    /\ stored = {}
    /\ codes = [k \in Codes |-> NoRoom]
    /\ room = [r \in Rooms |-> UnusedRoom]
    /\ expired = {}
    /\ lapsed = {}

-----------------------------------------------------------------------------
(* Roles and permissions *)

\* The role given to whoever joins after the host, by room mode.
DefaultRole(m) ==
    CASE m = "group_ride" -> "rider"
      [] m = "band_practice" -> "speaker"
      [] OTHER -> "listener"

RoleOf(r, m) == IF m = room[r].host THEN "host" ELSE DefaultRole(room[r].mode)

CanUseVoice(mode, role) ==
    \/ role \in {"host", "co_host"}
    \/ role = "speaker" /\ mode \in ModeNames
    \/ role = "rider" /\ mode \in {"group_ride", "listening_party"}
    \/ role = "listener" /\ mode = "listening_party"

-----------------------------------------------------------------------------
(* Operations *)

Drawn == UNION {room[r].members : r \in Rooms}

\* What prune leaves: every operation below starts with it.
LiveUnpruned == stored
Live == stored \ expired

\* this.codes after the rooms in gone have had their join code deleted.
CodesKept(gone) == codes
CodesWithout(gone) ==
    [k \in Codes |-> IF \E r \in gone : room[r].code = k THEN NoRoom ELSE codes[k]]

PrunedCodes == CodesWithout(stored \cap expired)

Pruned == /\ stored' = Live
          /\ codes' = PrunedCodes

\* resolve(): the room a link or a join code leads to after pruning.
Resolved(ref) ==
    IF ref \in Live THEN ref
    ELSE IF ref \in Codes THEN PrunedCodes[ref] ELSE NoRoom

\* POST /v1/rooms.
Create(r, m, k, mode) ==
    /\ room[r].host = NoMember
    /\ m \notin Drawn
    /\ PrunedCodes[k] = NoRoom
    /\ room' = [room EXCEPT ![r] = [mode |-> mode, host |-> m, members |-> {m},
                                    locked |-> FALSE, code |-> k]]
    /\ stored' = Live \cup {r}
    /\ codes' = [PrunedCodes EXCEPT ![k] = r]
    /\ UNCHANGED <<expired, lapsed>>

\* POST /v1/rooms/:ref/join, by room id or by code; a locked room refuses.
Join(ref, m) ==
    LET r == Resolved(ref) IN
    /\ r \in Live
    /\ ~room[r].locked
    /\ m \notin Drawn
    /\ room' = [room EXCEPT ![r].members = @ \cup {m}]
    /\ Pruned
    /\ UNCHANGED <<expired, lapsed>>

\* Any lookup that changes nothing else: GET /v1/rooms/:ref, a refused join.
Lookup ==
    /\ stored \cap expired # {}
    /\ Pruned
    /\ UNCHANGED <<room, expired, lapsed>>

\* setLocked() on a room that resolves, called by its host.
SetLocked(r, b) ==
    /\ r \in Live
    /\ room' = [room EXCEPT ![r].locked = b]
    /\ Pruned

\* end() on a room that resolves, called by its host.
End(r) ==
    /\ r \in Live
    /\ stored' = Live \ {r}
    /\ codes' = CodesWithout((stored \cap expired) \cup {r})
    /\ UNCHANGED room

\* The clock reaches a room's expiresAt.
ExpireRoom(r) ==
    /\ room[r].host # NoMember
    /\ r \notin expired
    /\ expired' = expired \cup {r}
    /\ UNCHANGED <<stored, codes, room, lapsed>>

\* The clock reaches the exp of a member's token.
LapseToken(m) ==
    /\ m \in Drawn \ lapsed
    /\ lapsed' = lapsed \cup {m}
    /\ UNCHANGED <<stored, codes, room, expired>>

\* A new process starts with empty maps.
StoreReset ==
    /\ stored' = {}
    /\ codes' = [k \in Codes |-> NoRoom]
    /\ UNCHANGED <<room, expired, lapsed>>

-----------------------------------------------------------------------------
(* The registry on its own, for the host and the riders of each room.  The  *)
(* hub of RealtimeHub drives SetLocked and End with its own conditions.     *)

HostLocks(r, b) == SetLocked(r, b) /\ UNCHANGED <<expired, lapsed>>
HostEnds(r) == End(r) /\ UNCHANGED <<expired, lapsed>>

StoreNext ==
    \/ \E r \in Rooms, m \in Members, k \in Codes, mode \in Modes : Create(r, m, k, mode)
    \/ \E ref \in Rooms \cup Codes, m \in Members : Join(ref, m)
    \/ Lookup
    \/ \E r \in Rooms, b \in BOOLEAN : HostLocks(r, b)
    \/ \E r \in Rooms : HostEnds(r)
    \/ \E r \in Rooms : ExpireRoom(r)
    \/ \E m \in Members : LapseToken(m)
    \/ StoreReset

StoreSpec == StoreInit /\ [][StoreNext]_storeVars

-----------------------------------------------------------------------------
(* Properties *)

\* The code index and the room map never disagree: a code leads to a stored
\* room that carries this very code, and every stored room is reached by its
\* code (rooms.js keeps the two maps by hand in create, prune and end).
CodeIndex ==
    /\ \A r \in stored : room[r].code \in Codes /\ codes[room[r].code] = r
    /\ \A k \in Codes : codes[k] # NoRoom =>
           codes[k] \in stored /\ room[codes[k]].code = k

\* A member id belongs to one room, so that a token names one membership, and
\* the host of a room is one of its members (create and join).
Membership ==
    /\ \A r, s \in Rooms : r # s => room[r].members \cap room[s].members = {}
    /\ \A r \in Rooms : room[r].host = NoMember => room[r].members = {}
    /\ \A r \in Rooms : room[r].host # NoMember => room[r].host \in room[r].members

\* Only rooms that were created are stored or expire.
StoredWasCreated == \A r \in stored \cup expired : room[r].host # NoMember

\* Whoever enters a room through an invite code enters the room that carries
\* that code now, and it has not expired: a code freed by an expired or ended
\* room never leads back to it (resolve and join).
\* The join is seen as the one member added to one room.
CodeLeadsToLiveRoom ==
    [][\A r \in Rooms : room[r].host # NoMember /\ room'[r].members # room[r].members
          => r \in stored' /\ r \notin expired /\ codes'[room[r].code] = r]_storeVars
=============================================================================
