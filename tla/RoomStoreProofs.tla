--------------------------- MODULE RoomStoreProofs ---------------------------
(***************************************************************************)
(* Proofs about the registry of RoomStore, for every set of rooms, members,  *)
(* codes and modes.  StoreInv is inductive; the hub proofs use StoreInvStep  *)
(* again, since every step of the hub is a step of the registry or leaves it *)
(* alone.                                                                    *)
(***************************************************************************)
EXTENDS RoomStore, TLAPS

\* The inductive invariant of the registry.  CodeIndex needs StoredWasCreated
\* (a fresh room id is not in the map yet), and Membership needs the types.
StoreInv == StoreTypeOK /\ Membership /\ StoredWasCreated /\ CodeIndex

\* Nothing is in the registry when the process starts: every part of the
\* invariant holds of the empty maps of the RoomStore constructor.
LEMMA StoreInvInit == StoreInit => StoreInv
BY IdsAssumption
   DEF StoreInit, StoreInv, StoreTypeOK, Membership, StoredWasCreated, CodeIndex,
       RoomRecord, UnusedRoom

\* Dropping the rooms of gone from both maps (prune, end) keeps the types of
\* the two maps.
LEMMA DropTypes ==
    ASSUME StoreTypeOK, NEW gone \in SUBSET Rooms
    PROVE  CodesWithout(gone) \in [Codes -> Rooms \cup {NoRoom}]
BY DEF StoreTypeOK, CodesWithout

\* Dropping rooms from both maps at once keeps the code index exact: the only
\* codes deleted are those of the rooms dropped (prune and end).
LEMMA DropKeepsIndex ==
    ASSUME StoreInv, NEW gone \in SUBSET stored,
           stored' = stored \ gone, codes' = CodesWithout(gone),
           \A r \in Rooms : room'[r].code = room[r].code
    PROVE  CodeIndex'
<1> USE IdsAssumption DEF StoreInv, StoreTypeOK
<1>1. ASSUME NEW r \in stored'
      PROVE  room'[r].code \in Codes /\ codes'[room'[r].code] = r
  <2>1. r \in stored /\ r \notin gone /\ r \in Rooms
    OBVIOUS
  <2>2. room[r].code \in Codes /\ codes[room[r].code] = r
    BY <2>1 DEF CodeIndex
  <2>3. \A g \in gone : room[g].code # room[r].code
    BY <2>1, <2>2 DEF CodeIndex
  <2> QED
    BY <2>1, <2>2, <2>3 DEF CodesWithout
<1>2. ASSUME NEW k \in Codes, codes'[k] # NoRoom
      PROVE  codes'[k] \in stored' /\ room'[codes'[k]].code = k
  <2>1. codes'[k] = codes[k] /\ \A g \in gone : room[g].code # k
    BY <1>2 DEF CodesWithout
  <2>2. codes[k] \in stored /\ room[codes[k]].code = k
    BY <1>2, <2>1 DEF CodeIndex
  <2> QED
    BY <2>1, <2>2
<1> QED
  BY <1>1, <1>2 DEF CodeIndex

\* What every operation starts with: prune keeps the invariant when nothing
\* else of the registry changes.
LEMMA PruneKeepsInv ==
    ASSUME StoreInv, Pruned, UNCHANGED <<room, expired, lapsed>>
    PROVE  StoreInv'
<1> DEFINE gone == stored \cap expired
<1>1. gone \in SUBSET stored /\ stored' = stored \ gone /\ codes' = CodesWithout(gone)
  BY DEF Pruned, Live, PrunedCodes
<1>2. CodeIndex'
  BY <1>1, DropKeepsIndex
<1>3. StoreTypeOK'
  BY <1>1, DropTypes DEF StoreInv, StoreTypeOK
<1> QED
  BY <1>1, <1>2, <1>3 DEF StoreInv, Membership, StoredWasCreated

\* The code of every room that is not pruned still leads to it.
LEMMA PrunedIndex ==
    ASSUME StoreInv, NEW r \in Live
    PROVE  room[r].code \in Codes /\ PrunedCodes[room[r].code] = r
<1>1. r \in stored /\ r \in Rooms /\ room[r].code \in Codes /\ codes[room[r].code] = r
  BY DEF StoreInv, StoreTypeOK, CodeIndex, Live
<1>2. \A g \in stored \cap expired : room[g].code # room[r].code
  BY <1>1 DEF StoreInv, StoreTypeOK, CodeIndex, Live
<1> QED
  BY <1>1, <1>2 DEF PrunedCodes, CodesWithout

\* create(): a room with an unused id and a free code extends both maps.
LEMMA CreateKeepsInv ==
    ASSUME StoreInv, NEW r \in Rooms, NEW m \in Members, NEW k \in Codes,
           NEW mode \in Modes, Create(r, m, k, mode)
    PROVE  StoreInv'
<1> USE IdsAssumption, ModesAssumption DEF StoreInv
<1>1. PrunedCodes \in [Codes -> Rooms \cup {NoRoom}]
  BY DropTypes DEF PrunedCodes, StoreTypeOK
<1>2. r \notin stored /\ r \notin expired
  BY DEF Create, StoredWasCreated
<1>3. /\ room'[r] = [mode |-> mode, host |-> m, members |-> {m}, locked |-> FALSE, code |-> k]
      /\ \A s \in Rooms : s # r => room'[s] = room[s]
      /\ room' \in [Rooms -> RoomRecord]
  BY DEF Create, StoreTypeOK, RoomRecord
<1>4. StoreTypeOK'
  BY <1>1, <1>3 DEF Create, StoreTypeOK, Live
<1>5. Membership'
  BY <1>3 DEF Create, Membership, Drawn, StoreTypeOK, RoomRecord
<1>6. StoredWasCreated'
  BY <1>2, <1>3 DEF Create, StoredWasCreated, Live, StoreTypeOK
<1>7. CodeIndex'
  <2>1. \A s \in Live : room[s].code # k
    BY PrunedIndex DEF Create, Live, StoreTypeOK
  <2>2. ASSUME NEW s \in stored'
        PROVE  room'[s].code \in Codes /\ codes'[room'[s].code] = s
    <3>1. CASE s = r
      BY <1>1, <1>3, <3>1 DEF Create
    <3>2. CASE s # r
      <4>1. s \in Live /\ s \in Rooms
        BY <3>2 DEF Create, Live, StoreTypeOK
      <4> QED
        BY <1>1, <1>3, <2>1, <3>2, <4>1, PrunedIndex DEF Create
    <3> QED BY <3>1, <3>2
  <2>3. ASSUME NEW j \in Codes, codes'[j] # NoRoom
        PROVE  codes'[j] \in stored' /\ room'[codes'[j]].code = j
    <3>1. CASE j = k
      BY <1>1, <1>3, <3>1 DEF Create
    <3>2. CASE j # k
      <4>1. codes'[j] = PrunedCodes[j]
        BY <1>1, <3>2 DEF Create
      <4>2. codes'[j] = codes[j] /\ \A g \in stored \cap expired : room[g].code # j
        BY <2>3, <4>1 DEF PrunedCodes, CodesWithout
      <4>3. codes[j] \in Live /\ room[codes[j]].code = j
        BY <2>3, <4>2 DEF CodeIndex, Live
      <4> QED
        BY <1>2, <1>3, <4>2, <4>3 DEF Create, Live, StoreTypeOK
    <3> QED BY <3>1, <3>2
  <2> QED BY <2>2, <2>3 DEF CodeIndex
<1> QED BY <1>4, <1>5, <1>6, <1>7

\* join(): a new member id in one stored room.
LEMMA JoinKeepsInv ==
    ASSUME StoreInv, NEW ref, NEW m \in Members, Join(ref, m)
    PROVE  StoreInv'
<1> DEFINE r == Resolved(ref)
<1> USE DEF StoreInv
<1>1. r \in Live /\ r \in Rooms /\ Pruned /\ UNCHANGED <<expired, lapsed>> /\ m \notin Drawn
  BY DEF Join, Live, StoreTypeOK
<1>2. /\ room'[r] = [room[r] EXCEPT !.members = @ \cup {m}]
      /\ \A s \in Rooms : s # r => room'[s] = room[s]
      /\ room' \in [Rooms -> RoomRecord]
  BY <1>1 DEF Join, StoreTypeOK, RoomRecord
<1>3. StoreTypeOK'
  BY <1>1, <1>2, DropTypes DEF StoreTypeOK, Pruned, PrunedCodes, Live
<1>4. \A s \in Rooms : room'[s].code = room[s].code /\ room'[s].host = room[s].host
  BY <1>2 DEF StoreTypeOK, RoomRecord
<1>5. Membership'
  <2>1. \A s \in Rooms : m \notin room[s].members
    BY <1>1 DEF Drawn
  <2>2. room'[r].members = room[r].members \cup {m}
    BY <1>1, <1>2 DEF StoreTypeOK, RoomRecord
  <2>3. room[r].host # NoMember
    BY <1>1 DEF StoredWasCreated, Live
  <2>4. ASSUME NEW s \in Rooms, NEW t \in Rooms, s # t
        PROVE  room'[s].members \cap room'[t].members = {}
    <3>1. room[s].members \cap room[t].members = {}
      BY <2>4 DEF Membership
    <3>2. \A u \in Rooms : room'[u].members \subseteq room[u].members \cup {m}
      BY <1>2, <2>2
    <3>3. ~(m \in room'[s].members /\ m \in room'[t].members)
      BY <1>2, <2>1, <2>4
    <3> QED BY <3>1, <3>2, <3>3
  <2>5. ASSUME NEW s \in Rooms, room'[s].host = NoMember
        PROVE  room'[s].members = {}
    BY <1>1, <1>2, <1>4, <2>3, <2>5 DEF Membership
  <2>6. ASSUME NEW s \in Rooms, room'[s].host # NoMember
        PROVE  room'[s].host \in room'[s].members
    BY <1>1, <1>2, <1>4, <2>2, <2>6 DEF Membership
  <2> QED BY <2>4, <2>5, <2>6 DEF Membership
<1>6. StoredWasCreated'
  BY <1>1, <1>4 DEF StoredWasCreated, Pruned, Live, StoreTypeOK
<1>7. CodeIndex'
  BY <1>1, <1>4, DropKeepsIndex DEF Pruned, PrunedCodes, Live
<1> QED BY <1>3, <1>5, <1>6, <1>7

\* setLocked(): no id and no code changes.
LEMMA LockKeepsInv ==
    ASSUME StoreInv, NEW r \in Rooms, NEW b \in BOOLEAN, HostLocks(r, b)
    PROVE  StoreInv'
<1> USE DEF StoreInv
<1>1. Pruned /\ UNCHANGED <<expired, lapsed>>
  BY DEF HostLocks, SetLocked
<1>2. /\ \A s \in Rooms : /\ room'[s].code = room[s].code
                          /\ room'[s].host = room[s].host
                          /\ room'[s].members = room[s].members
      /\ room' \in [Rooms -> RoomRecord]
  BY DEF HostLocks, SetLocked, StoreTypeOK, RoomRecord
<1>3. StoreTypeOK'
  BY <1>1, <1>2, DropTypes DEF StoreTypeOK, Pruned, PrunedCodes, Live
<1>4. Membership'
  BY <1>2 DEF Membership
<1>5. StoredWasCreated'
  BY <1>1, <1>2 DEF StoredWasCreated, Pruned, Live, StoreTypeOK
<1>6. CodeIndex'
  BY <1>1, <1>2, DropKeepsIndex DEF Pruned, PrunedCodes, Live
<1> QED BY <1>3, <1>4, <1>5, <1>6

\* end(): prune and the ended room leave both maps together.
LEMMA EndKeepsInv ==
    ASSUME StoreInv, NEW r \in Rooms, HostEnds(r)
    PROVE  StoreInv'
<1> DEFINE gone == (stored \cap expired) \cup {r}
<1> USE DEF StoreInv
<1>1. /\ gone \in SUBSET stored
      /\ stored' = stored \ gone
      /\ codes' = CodesWithout(gone)
      /\ UNCHANGED <<room, expired, lapsed>>
  BY DEF HostEnds, End, Live
<1>2. CodeIndex'
  BY <1>1, DropKeepsIndex
<1>3. StoreTypeOK'
  BY <1>1, DropTypes DEF StoreTypeOK
<1> QED BY <1>1, <1>2, <1>3 DEF Membership, StoredWasCreated

\* Every operation of the registry keeps the invariant.
LEMMA StoreInvStep == StoreInv /\ [StoreNext]_storeVars => StoreInv'
<1> SUFFICES ASSUME StoreInv, [StoreNext]_storeVars PROVE StoreInv'
  OBVIOUS
<1>1. ASSUME NEW r \in Rooms, NEW m \in Members, NEW k \in Codes, NEW mode \in Modes,
             Create(r, m, k, mode)
      PROVE  StoreInv'
  BY <1>1, CreateKeepsInv
<1>2. ASSUME NEW ref \in Rooms \cup Codes, NEW m \in Members, Join(ref, m)
      PROVE  StoreInv'
  BY <1>2, JoinKeepsInv
<1>3. ASSUME Lookup PROVE StoreInv'
  BY <1>3, PruneKeepsInv DEF Lookup
<1>4. ASSUME NEW r \in Rooms, NEW b \in BOOLEAN, HostLocks(r, b) PROVE StoreInv'
  BY <1>4, LockKeepsInv
<1>5. ASSUME NEW r \in Rooms, HostEnds(r) PROVE StoreInv'
  BY <1>5, EndKeepsInv
<1>6. ASSUME NEW r \in Rooms, ExpireRoom(r) PROVE StoreInv'
  BY <1>6 DEF ExpireRoom, StoreInv, StoreTypeOK, Membership, StoredWasCreated, CodeIndex
<1>7. ASSUME NEW m \in Members, LapseToken(m) PROVE StoreInv'
  BY <1>7 DEF LapseToken, StoreInv, StoreTypeOK, Membership, StoredWasCreated, CodeIndex
<1>8. ASSUME StoreReset PROVE StoreInv'
  BY <1>8, IdsAssumption
     DEF StoreReset, StoreInv, StoreTypeOK, Membership, StoredWasCreated, CodeIndex
<1>9. CASE UNCHANGED storeVars
  BY <1>9 DEF storeVars, StoreInv, StoreTypeOK, Membership, StoredWasCreated, CodeIndex
<1> QED
  BY <1>1, <1>2, <1>3, <1>4, <1>5, <1>6, <1>7, <1>8, <1>9 DEF StoreNext

-----------------------------------------------------------------------------

\* The registry keeps its types, one room per member, and an exact code index.
THEOREM StoreInvariance == StoreSpec => []StoreInv
<1>1. StoreInit => StoreInv
  BY StoreInvInit
<1>2. StoreInv /\ [StoreNext]_storeVars => StoreInv'
  BY StoreInvStep
<1> QED BY <1>1, <1>2, PTL DEF StoreSpec

\* The code index and the room map never disagree, however rooms are created,
\* pruned, ended and their codes drawn again (rooms.js keeps both by hand).
THEOREM CodeIndexHolds == StoreSpec => []CodeIndex
<1>1. StoreInv => CodeIndex
  BY DEF StoreInv
<1> QED BY <1>1, StoreInvariance, PTL

\* Whoever joins lands in a room that is stored, not expired, and is the one
\* its code leads to (resolve and join).
THEOREM CodeLeadsToLiveRoomHolds == StoreSpec => CodeLeadsToLiveRoom
<1> DEFINE Safe == \A r \in Rooms :
              room[r].host # NoMember /\ room'[r].members # room[r].members
              => r \in stored' /\ r \notin expired /\ codes'[room[r].code] = r
<1>1. ASSUME StoreInv, StoreNext PROVE Safe
  <2> SUFFICES ASSUME NEW r \in Rooms, room[r].host # NoMember,
                      room'[r].members # room[r].members
               PROVE  r \in stored' /\ r \notin expired /\ codes'[room[r].code] = r
    OBVIOUS
  <2> USE <1>1
  <2>1. PICK ref \in Rooms \cup Codes, m \in Members : Join(ref, m)
    <3>1. ASSUME NEW s \in Rooms, NEW m \in Members, NEW k \in Codes, NEW mode \in Modes,
                 Create(s, m, k, mode)
          PROVE  FALSE
      BY <3>1 DEF Create, StoreInv, StoreTypeOK
    <3>2. ASSUME NEW s \in Rooms, NEW b \in BOOLEAN, HostLocks(s, b) PROVE FALSE
      BY <3>2 DEF HostLocks, SetLocked, StoreInv, StoreTypeOK, RoomRecord
    <3> QED
      BY <3>1, <3>2 DEF StoreNext, Lookup, HostEnds, End, ExpireRoom, LapseToken, StoreReset
  <2>2. r = Resolved(ref) /\ r \in Live
    BY <2>1 DEF Join, StoreInv, StoreTypeOK, RoomRecord
  <2>3. stored' = Live /\ codes' = PrunedCodes
    BY <2>1 DEF Join, Pruned
  <2> QED BY <2>2, <2>3, PrunedIndex DEF Live
<1>2. StoreInv /\ [StoreNext]_storeVars => [Safe]_storeVars
  BY <1>1
<1> QED BY <1>2, StoreInvariance, PTL DEF StoreSpec, CodeLeadsToLiveRoom

=============================================================================
