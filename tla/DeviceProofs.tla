------------------------------ MODULE DeviceProofs ------------------------------
(***************************************************************************)
(* Proofs about the parts of MCDevice: the list of rooms (SavedRooms, for    *)
(* any rooms and any limit of the list), the live location (LocationShare,   *)
(* for all intervals and limits and any number of frames on their way) and   *)
(* the playlist queue (PlaylistQueue, for any playlist and any number of     *)
(* taps, commands of others, lost sockets and grants that wait or fail).     *)
(*                                                                          *)
(* HostPlaceIsSaved: whatever writes to the list queues a rendering, and the *)
(* one that writes nothing has read a list with the host's room in it.       *)
(*                                                                          *)
(* StoppedIsGone speaks of the moment when everything has been read.  What   *)
(* holds all the way there is that a stop is the last word on its way        *)
(* (StopIsLast), and that it is on one socket only (OneWay).                 *)
(*                                                                          *)
(* EndMovesOnlyItsSong speaks of the moment a command is obeyed.  What holds *)
(* all the way there is that the command carries the epoch of a state at     *)
(* the very select whose end it follows (OwnSong), and that two states of    *)
(* one epoch are at the same select (WasShared).                             *)
(***************************************************************************)
EXTENDS MCDevice, SequenceTheorems, WellFoundedInduction, TLAPS

-----------------------------------------------------------------------------
(* The location *)

Frames == [type : {"location.update", "location.stop"}, age : Nat, wait : Nat]

FramesOK == frames \in Seq(Frames) /\ strays \in Seq(Frames)

EndsWithStop(fs) == fs # <<>> => fs[Len(fs)].type = "location.stop"

StopIsLast ==
    held => /\ ~sharing
            /\ EndsWithStop(frames) /\ EndsWithStop(strays)

OneWay == held => frames = <<>> \/ strays = <<>>

LocationInv ==
    /\ LocationTypeOK
    /\ FramesOK
    /\ StopIsLast
    /\ OneWay
    /\ StoppedIsGone

-----------------------------------------------------------------------------
\* The constants are numbers.
LEMMA ConstantsAreNat ==
    /\ MinInterval \in Nat /\ StillInterval \in Nat /\ MaxClientAge \in Nat
    /\ StaleAfter \in Nat /\ MaxDelay \in Nat /\ LongAgo \in Nat
BY LocationAssumption DEF LongAgo

\* None is an age of every range, and zero is too.
LEMMA NoneAndZero ==
    /\ None \in None .. MaxClientAge + 1 /\ 0 \in None .. MaxClientAge + 1
    /\ None \in None .. LongAgo /\ 0 \in None .. LongAgo
    /\ None \in None .. StaleAfter + 1
BY ConstantsAreNat DEF None

\* An age grows by one up to where it stops growing, and none stays none.
LEMMA OlderStays ==
    ASSUME NEW limit \in Nat, NEW age \in None .. limit
    PROVE  /\ Older(age, limit) \in None .. limit
           /\ Older(age, limit) = None <=> age = None
BY DEF Older, None

\* Time changes the ages of frames, and neither their number nor their order.
LEMMA AgedKeeps ==
    ASSUME NEW fs \in Seq(Frames)
    PROVE  /\ Aged(fs) \in Seq(Frames)
           /\ Len(Aged(fs)) = Len(fs)
           /\ \A i \in 1 .. Len(fs) : Aged(fs)[i].type = fs[i].type
<1>1. Len(fs) \in Nat /\ DOMAIN fs = 1 .. Len(fs)
  BY LenProperties
<1>2. ASSUME NEW f \in Frames
      PROVE  [f EXCEPT !.age = Older(@, MaxClientAge + 1), !.wait = Older(@, MaxDelay)] \in Frames
  <2>1. f.age \in Nat /\ f.wait \in Nat
    BY DEF Frames
  <2>2. Older(f.age, MaxClientAge + 1) \in Nat /\ Older(f.wait, MaxDelay) \in Nat
    BY <2>1, ConstantsAreNat DEF Older, None
  <2> QED BY <2>2 DEF Frames
<1>3. ASSUME NEW i \in 1 .. Len(fs)
      PROVE  fs[i] \in Frames
  BY ElementOfSeq
<1>4. Aged(fs) \in [1 .. Len(fs) -> Frames]
  BY <1>1, <1>2, <1>3 DEF Aged
<1>5. Aged(fs) \in Seq(Frames)
  BY <1>1, <1>4, SeqDef
<1>6. Len(Aged(fs)) = Len(fs)
  BY <1>1, <1>4, <1>5
<1>7. ASSUME NEW i \in 1 .. Len(fs)
      PROVE  Aged(fs)[i].type = fs[i].type
  BY <1>1, <1>3 DEF Aged, Frames
<1> QED BY <1>5, <1>6, <1>7

\* What is left after the first frame ends as before.
LEMMA TailKeeps ==
    ASSUME NEW fs \in Seq(Frames), fs # <<>>
    PROVE  /\ Head(fs) \in Frames /\ Tail(fs) \in Seq(Frames)
           /\ EndsWithStop(fs) => EndsWithStop(Tail(fs))
           /\ EndsWithStop(fs) /\ Tail(fs) = <<>> => Head(fs).type = "location.stop"
<1>1. /\ Len(fs) \in Nat \ {0} /\ Head(fs) = fs[1]
      /\ Head(fs) \in Frames /\ Tail(fs) \in Seq(Frames)
      /\ Len(Tail(fs)) = Len(fs) - 1
      /\ \A i \in 1 .. Len(Tail(fs)) : Tail(fs)[i] = fs[i + 1]
  BY HeadTailProperties, EmptySeq
<1>2. ASSUME Tail(fs) # <<>>
      PROVE  Tail(fs)[Len(Tail(fs))] = fs[Len(fs)]
  <2>1. Len(Tail(fs)) \in Nat \ {0}
    BY <1>1, <1>2, EmptySeq
  <2> QED BY <1>1, <2>1
<1>3. ASSUME Tail(fs) = <<>>
      PROVE  Head(fs) = fs[Len(fs)]
  BY <1>1, <1>3, EmptySeq
<1> QED BY <1>1, <1>2, <1>3 DEF EndsWithStop

\* What the server makes of a frame is a coordinate or none, and none of a stop.
LEMMA SpotAfterTyped ==
    ASSUME NEW f \in Frames, spot \in None .. StaleAfter + 1
    PROVE  /\ SpotAfter(f) \in None .. StaleAfter + 1
           /\ f.type = "location.stop" => SpotAfter(f) = None
BY ConstantsAreNat DEF SpotAfter, Stored, None

\* At the start nothing is shared and nothing is on its way.
LEMMA LocationInitInv == LocationInit => LocationInv
<1> SUFFICES ASSUME LocationInit
             PROVE  LocationInv
  OBVIOUS
<1>1. LocationTypeOK
  BY NoneAndZero DEF LocationInit, LocationTypeOK
<1>2. FramesOK
  BY EmptySeq DEF LocationInit, FramesOK
<1>3. ~held /\ StoppedIsGone
  BY DEF LocationInit, StoppedIsGone
<1> QED BY <1>1, <1>2, <1>3 DEF LocationInv, StopIsLast, OneWay

-----------------------------------------------------------------------------
\* The page's own steps: start, sample and stop.
LEMMA PageSteps ==
    ASSUME LocationInv,
           Start \/ Stop \/ (\E moved \in BOOLEAN : Sample(moved))
    PROVE  LocationInv'
<1> USE DEF LocationInv
<1>1. CASE Start
  BY <1>1 DEF Start, LocationTypeOK, FramesOK, StopIsLast, OneWay, StoppedIsGone
<1>2. CASE Stop
  <2>1. sharing' = FALSE /\ fix' = None /\ sent' = None /\ UNCHANGED <<line, strays, spot>>
    BY <1>2 DEF Stop, Off
  <2>2. held' = (line = "on" /\ strays = <<>>)
    BY <1>2 DEF Stop
  <2> DEFINE f == [type |-> "location.stop", age |-> 0, wait |-> 0]
  <2>3. f \in Frames
    BY DEF Frames
  <2>4. frames' = frames \/ frames' = Append(frames, f)
    BY <1>2 DEF Stop, Sends
  <2>5. line = "on" => frames' = Append(frames, f)
    BY <1>2 DEF Stop, Sends, Signed
  <2>6. /\ Append(frames, f) \in Seq(Frames) /\ Append(frames, f) # <<>>
        /\ Append(frames, f)[Len(Append(frames, f))].type = "location.stop"
    BY <2>3, AppendProperties DEF FramesOK
  <2>7. LocationTypeOK'
    <3>1. held' \in BOOLEAN
      BY <2>2
    <3> QED BY <2>1, <3>1, NoneAndZero DEF LocationTypeOK
  <2>8. FramesOK'
    BY <2>1, <2>4, <2>6 DEF FramesOK
  <2>9. StopIsLast' /\ OneWay' /\ StoppedIsGone'
    BY <2>1, <2>2, <2>5, <2>6 DEF StopIsLast, OneWay, StoppedIsGone, EndsWithStop
  <2> QED BY <2>7, <2>8, <2>9
<1>3. ASSUME NEW moved \in BOOLEAN, Sample(moved)
      PROVE  LocationInv'
  <2>1. sharing /\ fix' = 0 /\ UNCHANGED <<sharing, line, strays, spot, held>>
    BY <1>3 DEF Sample
  <2>2. sent' \in {0, sent}
    BY <1>3 DEF Sample
  <2> DEFINE f == [type |-> "location.update", age |-> 0, wait |-> 0]
  <2>3. f \in Frames
    BY DEF Frames
  <2>4. frames' = frames \/ frames' = Append(frames, f)
    BY <1>3 DEF Sample, Sends
  <2>5. LocationTypeOK'
    BY <2>1, <2>2, ConstantsAreNat DEF LocationTypeOK, None
  <2>6. FramesOK'
    BY <2>1, <2>3, <2>4, AppendProperties DEF FramesOK
  <2>7. ~held'
    BY <2>1 DEF StopIsLast
  <2> QED BY <2>5, <2>6, <2>7 DEF StopIsLast, OneWay, StoppedIsGone
<1> QED BY <1>1, <1>2, <1>3

\* The next socket takes the frames of the one before it along as strays.
LEMMA NextSocketStep == LocationInv /\ NextSocket => LocationInv'
<1> SUFFICES ASSUME LocationInv, NextSocket
             PROVE  LocationInv'
  OBVIOUS
<1> USE DEF LocationInv
<1>1. /\ line' = "on" /\ strays' = strays \o frames
      /\ UNCHANGED <<sharing, fix, spot, held>>
  BY DEF NextSocket
<1>2. /\ frames' = <<>> \/ (sharing /\ fix # None
                            /\ frames' = <<[type |-> "location.update", age |-> fix, wait |-> 0]>>)
      /\ sent' \in {0, sent}
  BY DEF NextSocket
<1>3. LocationTypeOK'
  BY <1>1, <1>2, ConstantsAreNat DEF LocationTypeOK, None
<1>4. FramesOK'
  <2>1. strays' \in Seq(Frames)
    BY <1>1, ConcatProperties DEF FramesOK
  <2>2. fix # None => fix \in Nat
    BY ConstantsAreNat DEF LocationTypeOK, None
  <2>3. fix # None => [type |-> "location.update", age |-> fix, wait |-> 0] \in Frames
    BY <2>2 DEF Frames
  <2>4. frames' \in Seq(Frames)
    <3>1. <<>> \in Seq(Frames)
      BY EmptySeq
    <3>2. \A f \in Frames : <<f>> \in Seq(Frames)
      OBVIOUS
    <3> QED BY <1>2, <2>3, <3>1, <3>2
  <2> QED BY <2>1, <2>4 DEF FramesOK
<1>5. ASSUME held
      PROVE  frames' = <<>> /\ strays' \in {frames, strays}
  BY <1>1, <1>2, <1>5, ConcatEmptySeq DEF StopIsLast, OneWay, FramesOK
<1>6. StopIsLast' /\ OneWay'
  BY <1>1, <1>5 DEF StopIsLast, OneWay, EndsWithStop
<1>7. StoppedIsGone'
  <2>1. ASSUME held, strays' = <<>>
        PROVE  frames = <<>> /\ strays = <<>>
    <3>1. Len(strays \o frames) = Len(strays) + Len(frames)
      BY ConcatProperties DEF FramesOK
    <3>2. Len(strays \o frames) = 0
      BY <1>1, <2>1, EmptySeq
    <3>3. Len(strays) \in Nat /\ Len(frames) \in Nat
      BY LenProperties DEF FramesOK
    <3>4. Len(strays) = 0 /\ Len(frames) = 0
      BY <3>1, <3>2, <3>3
    <3> QED BY <3>4, EmptySeq DEF FramesOK
  <2> QED BY <1>1, <2>1 DEF StoppedIsGone
<1> QED BY <1>3, <1>4, <1>6, <1>7

\* The page is reloaded or replaced: nothing has been promised.
LEMMA TakenOverStep == LocationInv /\ TakenOver => LocationInv'
<1> SUFFICES ASSUME LocationInv, TakenOver
             PROVE  LocationInv'
  OBVIOUS
<1> USE DEF LocationInv
<1>1. FramesOK'
  BY ConcatProperties, EmptySeq DEF TakenOver, FramesOK
<1>2. LocationTypeOK'
  BY NoneAndZero DEF TakenOver, Off, LocationTypeOK
<1>3. ~held'
  BY DEF TakenOver
<1> QED BY <1>1, <1>2, <1>3 DEF StopIsLast, OneWay, StoppedIsGone

\* The server reads a frame of the present socket, or of one before it.
LEMMA ReadSteps == LocationInv /\ (Receive \/ ReceiveStray) => LocationInv'
<1> SUFFICES ASSUME LocationInv, Receive \/ ReceiveStray
             PROVE  LocationInv'
  OBVIOUS
<1> USE DEF LocationInv
<1>1. UNCHANGED <<sharing, fix, sent, line, held>>
  BY DEF Receive, ReceiveStray
<1>2. CASE Receive
  <2>1. /\ frames # <<>> /\ frames' = Tail(frames) /\ strays' = strays
        /\ spot' = SpotAfter(Head(frames))
    BY <1>2 DEF Receive
  <2>2. /\ Head(frames) \in Frames /\ Tail(frames) \in Seq(Frames)
        /\ EndsWithStop(frames) => EndsWithStop(Tail(frames))
        /\ EndsWithStop(frames) /\ Tail(frames) = <<>> => Head(frames).type = "location.stop"
    BY <2>1, TailKeeps DEF FramesOK
  <2>3. /\ spot' \in None .. StaleAfter + 1
        /\ Head(frames).type = "location.stop" => spot' = None
    BY <2>1, <2>2, SpotAfterTyped DEF LocationTypeOK
  <2>4. LocationTypeOK'
    BY <1>1, <2>3 DEF LocationTypeOK
  <2>5. FramesOK' /\ StopIsLast'
    BY <1>1, <2>1, <2>2 DEF FramesOK, StopIsLast, EndsWithStop
  <2>6. OneWay' /\ StoppedIsGone'
    BY <1>1, <2>1, <2>2, <2>3 DEF OneWay, StoppedIsGone, StopIsLast
  <2> QED BY <2>4, <2>5, <2>6
<1>3. CASE ReceiveStray
  <2>1. /\ strays # <<>> /\ strays' = Tail(strays) /\ frames' = frames
        /\ spot' = SpotAfter(Head(strays))
    BY <1>3 DEF ReceiveStray
  <2>2. /\ Head(strays) \in Frames /\ Tail(strays) \in Seq(Frames)
        /\ EndsWithStop(strays) => EndsWithStop(Tail(strays))
        /\ EndsWithStop(strays) /\ Tail(strays) = <<>> => Head(strays).type = "location.stop"
    BY <2>1, TailKeeps DEF FramesOK
  <2>3. /\ spot' \in None .. StaleAfter + 1
        /\ Head(strays).type = "location.stop" => spot' = None
    BY <2>1, <2>2, SpotAfterTyped DEF LocationTypeOK
  <2>4. LocationTypeOK'
    BY <1>1, <2>3 DEF LocationTypeOK
  <2>5. FramesOK' /\ StopIsLast'
    BY <1>1, <2>1, <2>2 DEF FramesOK, StopIsLast, EndsWithStop
  <2>6. OneWay' /\ StoppedIsGone'
    BY <1>1, <2>1, <2>2, <2>3 DEF OneWay, StoppedIsGone, StopIsLast
  <2> QED BY <2>4, <2>5, <2>6
<1> QED BY <1>2, <1>3

\* Either end loses the socket, or the heartbeat clears the coordinate.
LEMMA LossSteps == LocationInv /\ (ClearStale \/ ServerLoses \/ PageLoses) => LocationInv'
<1> SUFFICES ASSUME LocationInv, ClearStale \/ ServerLoses \/ PageLoses
             PROVE  LocationInv'
  OBVIOUS
<1> USE DEF LocationInv
<1>1. CASE ClearStale
  BY <1>1, ConstantsAreNat
     DEF ClearStale, LocationTypeOK, FramesOK, StopIsLast, OneWay, StoppedIsGone, None
<1>2. CASE ServerLoses
  <2>1. LocationTypeOK'
    BY <1>2, ConstantsAreNat DEF ServerLoses, LocationTypeOK, None
  <2>2. FramesOK'
    BY <1>2, EmptySeq DEF ServerLoses, FramesOK
  <2>3. StopIsLast' /\ OneWay' /\ StoppedIsGone'
    BY <1>2 DEF ServerLoses, StopIsLast, OneWay, StoppedIsGone, EndsWithStop
  <2> QED BY <2>1, <2>2, <2>3
<1>3. CASE PageLoses
  <2>1. PICK n \in 0 .. Len(frames) :
           /\ frames' = SubSeq(frames, 1, n)
           /\ held' = (held /\ n = Len(frames))
    BY <1>3 DEF PageLoses
  <2>2. UNCHANGED <<sharing, fix, sent, strays, spot>> /\ line' \in {"ghost", "off"}
    BY <1>3 DEF PageLoses
  <2>3. Len(frames) \in Nat
    BY LenProperties DEF FramesOK
  <2>4. frames' \in Seq(Frames)
    <3>1. ASSUME NEW i \in 1 .. n
          PROVE  frames[i] \in Frames
      BY <2>3, ElementOfSeq DEF FramesOK
    <3> QED BY <2>1, <2>3, <3>1, SubSeqProperties DEF FramesOK
  <2>5. held' => held /\ frames' = frames
    BY <2>1, <2>3, SubSeqFull DEF FramesOK
  <2>6. LocationTypeOK'
    BY <2>1, <2>2 DEF LocationTypeOK
  <2>7. FramesOK'
    BY <2>2, <2>4 DEF FramesOK
  <2>8. StopIsLast' /\ OneWay' /\ StoppedIsGone'
    BY <2>2, <2>5 DEF StopIsLast, OneWay, StoppedIsGone, EndsWithStop
  <2> QED BY <2>6, <2>7, <2>8
<1> QED BY <1>1, <1>2, <1>3

\* Time passes.
LEMMA TickStep == LocationInv /\ LocationTick => LocationInv'
<1> SUFFICES ASSUME LocationInv, LocationTick
             PROVE  LocationInv'
  OBVIOUS
<1> USE DEF LocationInv
<1>1. /\ UNCHANGED <<sharing, line, held>>
      /\ fix' = Older(fix, MaxClientAge + 1) /\ sent' = Older(sent, LongAgo)
      /\ spot' = Older(spot, StaleAfter + 1)
      /\ frames' = Aged(frames) /\ strays' = Aged(strays)
  BY DEF LocationTick
<1>2. /\ fix' \in None .. MaxClientAge + 1 /\ (fix' = None <=> fix = None)
      /\ sent' \in None .. LongAgo
      /\ spot' \in None .. StaleAfter + 1 /\ (spot' = None <=> spot = None)
  <2>1. MaxClientAge + 1 \in Nat /\ StaleAfter + 1 \in Nat /\ LongAgo \in Nat
    BY ConstantsAreNat
  <2>2. /\ fix \in None .. MaxClientAge + 1 /\ sent \in None .. LongAgo
        /\ spot \in None .. StaleAfter + 1
    BY DEF LocationTypeOK
  <2> QED BY <1>1, <2>1, <2>2, OlderStays
<1>3. LocationTypeOK'
  BY <1>1, <1>2 DEF LocationTypeOK
<1>4. ASSUME NEW fs \in Seq(Frames)
      PROVE  /\ Aged(fs) \in Seq(Frames)
             /\ Aged(fs) = <<>> <=> fs = <<>>
             /\ EndsWithStop(fs) => EndsWithStop(Aged(fs))
  <2>1. /\ Aged(fs) \in Seq(Frames) /\ Len(Aged(fs)) = Len(fs)
        /\ \A i \in 1 .. Len(fs) : Aged(fs)[i].type = fs[i].type
    BY AgedKeeps
  <2>2. Aged(fs) = <<>> <=> fs = <<>>
    BY <2>1, EmptySeq
  <2>3. fs # <<>> => Len(fs) \in 1 .. Len(fs)
    BY EmptySeq
  <2> QED BY <2>1, <2>2, <2>3 DEF EndsWithStop
<1>5. FramesOK' /\ StopIsLast' /\ OneWay' /\ StoppedIsGone'
  BY <1>1, <1>2, <1>4 DEF FramesOK, StopIsLast, OneWay, StoppedIsGone
<1> QED BY <1>3, <1>5

-----------------------------------------------------------------------------
\* Types, and a stop that stays the last word, in every reachable state.
THEOREM LocationInvariance == LocationSpec => []LocationInv
<1>1. LocationInv /\ [LocationNext]_locationVars => LocationInv'
  <2>1. LocationInv /\ UNCHANGED locationVars => LocationInv'
    BY DEF LocationInv, locationVars, LocationTypeOK, FramesOK, StopIsLast, OneWay,
           StoppedIsGone, EndsWithStop
  <2> QED BY <2>1, PageSteps, NextSocketStep, TakenOverStep, ReadSteps, LossSteps, TickStep
          DEF LocationNext
<1> QED BY <1>1, LocationInitInv, PTL DEF LocationSpec

\* A coordinate whose rider pressed Stop on a working connection is gone once
\* the server has read what the page sent, for every throttle, age limit and
\* delay, and with any number of samples on their way.
THEOREM StopClearsForGood == LocationSpec => []StoppedIsGone
<1>1. LocationInv => StoppedIsGone
  BY DEF LocationInv
<1> QED BY <1>1, LocationInvariance, PTL

-----------------------------------------------------------------------------
(* The queue *)

\* Another controller may be the first to select, also in an empty playlist.
Tracks == {SongAt(i) : i \in 1 .. Len(Songs)} \cup {Silence, SongAt(1)}
Shows == [track : Tracks, status : {"idle", "playing", "paused"}, epoch : Nat, take : Nat]
Notes == [state : Shows, error : BOOLEAN]
QueueOrders == [type : {"select", "clear", "play"}, track : Tracks, expected : Nat, heard : Nat]

Elements == [src : Tracks, take : Nat, sound : {"on", "off", "over"}, ended : Nat]
Calls == [state : Shows, button : BOOLEAN]

QueueTypes ==
    /\ shared \in Shows /\ shown \in Shows
    /\ notices \in Seq(Notes) /\ orders \in Seq(QueueOrders)
    /\ element \in Elements /\ calls \subseteq Calls
    /\ armed \in BOOLEAN /\ wired \in BOOLEAN
    /\ queue \in 0 .. Len(Songs)

\* p is a state the room was in: with the epoch it has now, it is at the same
\* select.
WasShared(p, now) == p.epoch <= now.epoch /\ (p.epoch = now.epoch => p.take = now.take)

\* A command that the end of the song shown caused goes with the state that was
\* shown then.
OwnSong(o, now) ==
    o.heard # 0 => o.expected <= now.epoch /\ (o.expected = now.epoch => o.heard = now.take)

QueueInv ==
    /\ QueueTypes
    /\ WasShared(shown, shared)
    /\ \A i \in 1 .. Len(notices) : WasShared(notices[i].state, shared)
    /\ \A i \in 1 .. Len(orders) : OwnSong(orders[i], shared)

-----------------------------------------------------------------------------
LEMMA TracksKnown == /\ Silence \in Tracks
                     /\ \A i \in 1 .. Len(Songs) : SongAt(i) \in Tracks
                     /\ Len(Songs) \in Nat /\ DOMAIN Songs = 1 .. Len(Songs)
<1>1. PICK S : S = STRING \ {Silence}
  OBVIOUS
<1>2. Songs \in Seq(S)
  BY <1>1, QueueAssumption
<1>3. Len(Songs) \in Nat /\ DOMAIN Songs = 1 .. Len(Songs)
  BY <1>2, LenProperties
<1> QED BY <1>3 DEF Tracks

\* A command of the page goes with the state it shows.
LEMMA OrderKeeps ==
    ASSUME QueueInv, NEW type \in {"select", "clear", "play"}, NEW track \in Tracks,
           NEW heard \in Nat, Order(type, track, heard),
           heard # 0 => heard = shown.take
    PROVE  /\ orders' \in Seq(QueueOrders)
           /\ \A i \in 1 .. Len(orders') : OwnSong(orders'[i], shared)
<1> DEFINE o == [type |-> type, track |-> track, expected |-> shown.epoch, heard |-> heard]
<1>1. orders \in Seq(QueueOrders) /\ \A i \in 1 .. Len(orders) : OwnSong(orders[i], shared)
  BY DEF QueueInv, QueueTypes
<1>2. o \in QueueOrders /\ OwnSong(o, shared)
  BY DEF QueueInv, QueueTypes, Shows, QueueOrders, WasShared, OwnSong
<1>3. orders' = orders \/ orders' = Append(orders, o)
  BY DEF Order
<1> HIDE DEF o
<1>4. CASE orders' = Append(orders, o)
  <2>1. /\ Append(orders, o) \in Seq(QueueOrders) /\ Len(Append(orders, o)) = Len(orders) + 1
        /\ \A i \in 1 .. Len(orders) + 1 :
               Append(orders, o)[i] = IF i = Len(orders) + 1 THEN o ELSE orders[i]
    BY <1>1, <1>2, AppendProperties, LenProperties
  <2> QED BY <1>1, <1>2, <1>4, <2>1, LenProperties
<1> QED BY <1>1, <1>3, <1>4

\* What apply() makes of the element, for whatever was shown.
LEMMA SettledFits ==
    ASSUME NEW e \in Elements, NEW p \in Shows, NEW on \in BOOLEAN
    PROVE  Settled(e, p, on) \in Elements
<1>1. Sounding(p) \in {"on", "off", "over"} /\ p.track \in Tracks /\ p.take \in Nat
  BY DEF Sounding, Shows
<1>2. CASE p.track = Silence
  BY <1>2, TracksKnown DEF Settled, Unloaded, Elements
<1>3. CASE p.track # Silence /\ ~on
  BY <1>3 DEF Settled
<1>4. CASE p.track # Silence /\ on /\ p.track = e.src
  <2>1. PICK take \in Nat, sound \in {"on", "off", "over"} : take = p.take /\ sound = Sounding(p)
    BY <1>1
  <2>2. Settled(e, p, on) = [e EXCEPT !.take = take, !.sound = sound]
    BY <1>4, <2>1 DEF Settled
  <2> QED BY <2>2 DEF Elements
<1>5. CASE p.track # Silence /\ on /\ p.track # e.src
  <2>1. Settled(e, p, on) = Loaded(p)
    BY <1>5 DEF Settled
  <2> QED BY <1>1, <2>1 DEF Loaded, Elements
<1> QED BY <1>2, <1>3, <1>4, <1>5

\* An element that is silenced is an element.
LEMMA SilencedFits ==
    ASSUME NEW e \in Elements
    PROVE  [e EXCEPT !.sound = "off"] \in Elements
BY DEF Elements

LEMMA CallsKnown == FromButton \in Calls /\ \A p \in Shows, b \in BOOLEAN : Call(p, b) \in Calls
<1>1. PlaybackOf(Silence, "idle", 0, 0) \in Shows
  BY TracksKnown DEF PlaybackOf, Shows
<1> QED BY <1>1 DEF FromButton, Call, Calls

\* At once or after a grant.
LEMMA ApplyFits ==
    ASSUME QueueInv, NEW p \in Shows, Apply(p, armed)
    PROVE  element' \in Elements /\ calls' \subseteq Calls
<1>1. element \in Elements /\ calls \subseteq Calls /\ armed \in BOOLEAN
  BY DEF QueueInv, QueueTypes
<1>2. CASE element' = Settled(element, p, armed) /\ UNCHANGED calls
  BY <1>1, <1>2, SettledFits
<1>3. CASE Waits(Call(p, FALSE), p, armed) /\ UNCHANGED element
  BY <1>1, <1>3, CallsKnown DEF Waits
<1> QED BY <1>2, <1>3 DEF Apply

\* The same for the listen button.
LEMMA ListeningFits ==
    ASSUME QueueInv, NEW e \in Elements,
           \/ Listen(e) \/ Listening(e, ~armed)
           \/ element' = e /\ UNCHANGED <<armed, calls>>
    PROVE  element' \in Elements /\ armed' \in BOOLEAN /\ calls' \subseteq Calls
<1>1. calls \subseteq Calls /\ armed \in BOOLEAN /\ shown \in Shows
  BY DEF QueueInv, QueueTypes
<1>2. CASE element' = e /\ UNCHANGED <<armed, calls>>
  BY <1>1, <1>2
<1>3. ASSUME NEW on \in BOOLEAN, Listening(e, on)
      PROVE  element' \in Elements /\ armed' \in BOOLEAN /\ calls' \subseteq Calls
  <2>1. armed' = on
    BY <1>3 DEF Listening
  <2>2. CASE /\ UNCHANGED calls
             /\ element' = IF on THEN Settled(e, shown, TRUE) ELSE [e EXCEPT !.sound = "off"]
    BY <1>1, <2>1, <2>2, SettledFits, SilencedFits
  <2>3. CASE Waits(FromButton, shown, on) /\ element' = e
    BY <1>1, <2>1, <2>3, CallsKnown DEF Waits
  <2> QED BY <1>3, <2>2, <2>3 DEF Listening
<1>4. \/ element' = e /\ UNCHANGED <<armed, calls>>
      \/ Listening(e, TRUE) \/ Listening(e, ~armed)
  BY DEF Listen
<1>5. (~armed) \in BOOLEAN /\ TRUE \in BOOLEAN
  OBVIOUS
<1>6. CASE Listening(e, TRUE)
  BY <1>3, <1>5, <1>6
<1>7. CASE Listening(e, ~armed)
  BY <1>3, <1>5, <1>7
<1> QED BY <1>2, <1>4, <1>6, <1>7

-----------------------------------------------------------------------------
(* The steps *)

LEMMA QueueInitInv == QueueInit => QueueInv
<1> SUFFICES ASSUME QueueInit
             PROVE  QueueInv
  OBVIOUS
<1>1. /\ shared = [track |-> Silence, status |-> "idle", epoch |-> 0, take |-> 0] /\ shown = shared
      /\ orders = <<>> /\ notices = <<>> /\ wired = TRUE /\ armed = FALSE /\ queue = 0
      /\ element = [src |-> Silence, take |-> 0, sound |-> "off", ended |-> 0] /\ calls = {}
  BY DEF QueueInit, PlaybackOf, Unloaded
<1>2. shared \in Shows /\ element \in Elements /\ calls \subseteq Calls
  BY <1>1, TracksKnown DEF Shows, Elements
<1>3. orders \in Seq(QueueOrders) /\ notices \in Seq(Notes) /\ Len(orders) = 0 /\ Len(notices) = 0
  BY <1>1
<1>4. QueueTypes
  <2>1. 0 \in 0 .. Len(Songs)
    BY TracksKnown
  <2> QED BY <1>1, <1>2, <1>3, <2>1 DEF QueueTypes
<1>5. WasShared(shown, shared)
  BY <1>1, <1>2 DEF WasShared, Shows
<1> QED BY <1>3, <1>4, <1>5 DEF QueueInv

\* At most one command is sent, and one for the end of the song shown names its
\* select.
OrderFits ==
    \/ UNCHANGED orders
    \/ \E type \in {"select", "clear", "play"}, track \in Tracks, heard \in Nat :
           Order(type, track, heard) /\ (heard # 0 => heard = shown.take)

\* What the page itself does leaves alone what it shows.
LEMMA PageStep ==
    ASSUME QueueInv, UNCHANGED <<shared, shown, notices, wired>>, queue' \in 0 .. Len(Songs),
           OrderFits,
           element' \in Elements, calls' \subseteq Calls, armed' \in BOOLEAN
    PROVE  QueueInv'
<1>1. orders' \in Seq(QueueOrders) /\ \A i \in 1 .. Len(orders') : OwnSong(orders'[i], shared)
  <2>1. CASE UNCHANGED orders
    BY <2>1 DEF QueueInv, QueueTypes
  <2> QED BY <2>1, OrderKeeps DEF OrderFits
<1> QED BY <1>1 DEF QueueInv, QueueTypes, WasShared, OwnSong

\* The tick, the grants and the end of the track.
LEMMA ElementStep ==
    ASSUME QueueInv,
           \/ Reapply \/ EndIsReached
           \/ \E c \in calls : GrantReturns(c) \/ GrantFails(c)
    PROVE  QueueInv'
<1>1. /\ UNCHANGED <<shared, shown, orders, notices, wired, queue>>
      /\ element \in Elements /\ calls \subseteq Calls /\ armed \in BOOLEAN
      /\ queue \in 0 .. Len(Songs) /\ shown \in Shows
  BY DEF Reapply, EndIsReached, GrantReturns, GrantFails, QueueInv, QueueTypes
<1>2. element' \in Elements /\ calls' \subseteq Calls /\ armed' \in BOOLEAN
  <2>1. CASE Reapply
    <3>1. UNCHANGED armed /\ armed = TRUE /\ Apply(shown, TRUE)
      BY <2>1, <1>1 DEF Reapply
    <3> QED BY <1>1, <3>1, ApplyFits
  <2>2. CASE EndIsReached
    <3>1. PICK n \in Nat : n = element.take
      BY <1>1 DEF Elements
    <3>2. element' = [element EXCEPT !.sound = "over", !.ended = n] /\ UNCHANGED <<armed, calls>>
      BY <2>2, <3>1 DEF EndIsReached
    <3> QED BY <1>1, <3>2 DEF Elements
  <2>3. ASSUME NEW c \in calls, GrantReturns(c)
        PROVE  element' \in Elements /\ calls' \subseteq Calls /\ armed' \in BOOLEAN
    <3>1. PICK p \in Shows : p = IF c = FromButton THEN shown ELSE c.state
      BY <1>1 DEF Calls
    <3>2. \/ calls' = calls \ {c} /\ element' = Settled(element, p, armed)
          \/ calls' = (calls \ {c}) \cup {Call(p, TRUE)} /\ UNCHANGED element
      BY <2>3, <3>1 DEF GrantReturns
    <3>3. UNCHANGED armed
      BY <2>3 DEF GrantReturns
    <3> QED BY <1>1, <3>2, <3>3, SettledFits, CallsKnown
  <2>4. ASSUME NEW c \in calls, GrantFails(c)
        PROVE  element' \in Elements /\ calls' \subseteq Calls /\ armed' \in BOOLEAN
    <3>1. calls' = calls \ {c}
      BY <2>4 DEF GrantFails
    <3>2. \/ armed' = FALSE /\ element' = [element EXCEPT !.sound = "off"]
          \/ UNCHANGED <<armed, element>>
      BY <2>4 DEF GrantFails
    <3> QED BY <1>1, <3>1, <3>2, SilencedFits
  <2> QED BY <2>1, <2>2, <2>3, <2>4
<1> QED BY <1>1, <1>2, PageStep DEF OrderFits

LEMMA PlaySongFits ==
    ASSUME QueueInv, NEW i \in 1 .. Len(Songs), NEW heard \in Nat, PlaySong(i, heard),
           heard # 0 => heard = shown.take
    PROVE  queue' \in 0 .. Len(Songs) /\ OrderFits
<1>1. queue' = i /\ Order("select", SongAt(i), heard)
  BY DEF PlaySong
<1> QED BY <1>1, TracksKnown DEF OrderFits

LEMMA AdvanceFits ==
    ASSUME QueueInv, NEW by \in {1, -1}, NEW heard \in Nat, Advance(by, heard),
           heard # 0 => heard = shown.take
    PROVE  queue' \in 0 .. Len(Songs) /\ OrderFits
<1>1. queue \in 0 .. Len(Songs) /\ Len(Songs) \in Nat
  BY TracksKnown DEF QueueInv, QueueTypes
<1> DEFINE next == IF queue + by < 1 THEN 1 ELSE queue + by
<1>2. next \in Nat \ {0}
  BY <1>1
<1>3. CASE next <= Len(Songs)
  <2>1. PlaySong(next, heard)
    BY <1>3 DEF Advance
  <2> QED BY <1>1, <1>2, <1>3, <2>1, PlaySongFits
<1>4. CASE ~(next <= Len(Songs))
  <2>1. queue' = 0 /\ (UNCHANGED orders \/ Order("clear", Silence, heard))
    BY <1>4 DEF Advance
  <2> QED BY <1>1, <2>1, TracksKnown DEF OrderFits
<1> QED BY <1>3, <1>4

\* The ended event: of the song shown, or of an older one.
LEMMA SongEndsStep ==
    ASSUME QueueInv, SongEnds
    PROVE  QueueInv'
<1>1. UNCHANGED <<shared, shown, notices, wired>>
  BY DEF SongEnds
<1>2. element \in Elements /\ queue \in 0 .. Len(Songs) /\ shown \in Shows
  BY DEF QueueInv, QueueTypes
<1>3. PICK e \in Elements : e = [element EXCEPT !.ended = 0]
  BY <1>2 DEF Elements
<1>4. element' \in Elements /\ armed' \in BOOLEAN /\ calls' \subseteq Calls
  <2>1. Listen(e) \/ (element' = e /\ UNCHANGED <<armed, calls>>)
    BY <1>3 DEF SongEnds
  <2> QED BY <2>1, ListeningFits
<1>5. queue' \in 0 .. Len(Songs) /\ OrderFits
  <2>1. CASE queue = 0
    BY <1>2, <2>1 DEF SongEnds, OrderFits
  <2>2. CASE queue # 0
    <3>1. PICK heard \in Nat : heard = IF element.ended = shown.take THEN shown.take ELSE 0
      BY <1>2 DEF Shows
    <3>2. heard # 0 => heard = shown.take
      BY <3>1
    <3>3. Advance(1, heard)
      BY <2>2, <3>1 DEF SongEnds
    <3> QED BY <3>2, <3>3, AdvanceFits
  <2> QED BY <2>1, <2>2
<1> QED BY <1>1, <1>4, <1>5, PageStep

\* What the host taps.
LEMMA TapStep ==
    ASSUME QueueInv,
           \/ \E i \in DOMAIN Songs : StartQueue(i)
           \/ Skip(1) \/ Skip(-1) \/ StopQueue \/ TapListen \/ TapTransport \/ TapMiniPlay
    PROVE  QueueInv'
<1>1. UNCHANGED <<shared, shown, notices, wired>> /\ element \in Elements
  BY DEF StartQueue, Skip, StopQueue, TapListen, TapTransport, TapMiniPlay, Tap, QueueInv, QueueTypes
<1>2. element' \in Elements /\ armed' \in BOOLEAN /\ calls' \subseteq Calls
  <2>1. \/ Listen(element) \/ Listening(element, ~armed)
        \/ element' = element /\ UNCHANGED <<armed, calls>>
    BY DEF StartQueue, Skip, StopQueue, TapListen, TapTransport, TapMiniPlay, ToggleListening
  <2> QED BY <1>1, <2>1, ListeningFits
<1>3. queue' \in 0 .. Len(Songs) /\ OrderFits
  <2>1. ASSUME NEW i \in DOMAIN Songs, StartQueue(i) PROVE queue' \in 0 .. Len(Songs) /\ OrderFits
    <3>1. PlaySong(i, 0) /\ i \in 1 .. Len(Songs)
      BY <2>1, TracksKnown DEF StartQueue
    <3> QED BY <3>1, PlaySongFits
  <2>2. CASE Skip(1)
    <3>1. Advance(1, 0)
      BY <2>2 DEF Skip
    <3> QED BY <3>1, AdvanceFits
  <2>3. CASE Skip(-1)
    <3>1. Advance(-1, 0)
      BY <2>3 DEF Skip
    <3> QED BY <3>1, AdvanceFits
  <2>4. CASE StopQueue
    <3>1. queue' = 0 /\ UNCHANGED orders /\ 0 \in 0 .. Len(Songs)
      BY <2>4, TracksKnown DEF StopQueue
    <3> QED BY <3>1 DEF OrderFits
  <2>5. CASE TapListen \/ TapTransport \/ TapMiniPlay
    <3>1. UNCHANGED queue /\ (UNCHANGED orders \/ Order("play", Silence, 0))
      BY <2>5 DEF TapListen, TapTransport, TapMiniPlay
    <3> QED BY <3>1, TracksKnown DEF OrderFits, QueueInv, QueueTypes
  <2> QED BY <2>1, <2>2, <2>3, <2>4, <2>5
<1> QED BY <1>1, <1>2, <1>3, PageStep

\* Whatever moves the room takes a new epoch, which no command has.
LEMMA MovedFits ==
    ASSUME NEW p \in Shows, NEW o, o.type # "select" \/ o.track \in Tracks, p = shared
    PROVE  Moved(o) \in Shows /\ Moved(o).epoch = p.epoch + 1
<1> DEFINE e == p.epoch + 1
<1>1. e \in Nat /\ p.track \in Tracks /\ p.take \in Nat /\ p.epoch \in Nat
  BY DEF Shows
<1>2. \/ Moved(o) = PlaybackOf(o.track, "playing", e, e) /\ o.type = "select"
      \/ Moved(o) = PlaybackOf(Silence, "idle", e, e)
      \/ Moved(o) = PlaybackOf(p.track, "playing", e, p.take)
      \/ Moved(o) = PlaybackOf(p.track, "paused", e, p.take)
  BY DEF Moved
<1>3. ASSUME NEW track \in Tracks, NEW status \in {"idle", "playing", "paused"}, NEW take \in Nat
      PROVE  /\ PlaybackOf(track, status, e, take) \in Shows
             /\ PlaybackOf(track, status, e, take).epoch = e
  BY <1>1 DEF PlaybackOf, Shows
<1>4. \E track \in Tracks, status \in {"idle", "playing", "paused"}, take \in Nat :
          Moved(o) = PlaybackOf(track, status, e, take)
  BY <1>1, <1>2, TracksKnown
<1> QED BY <1>3, <1>4

\* What was sent or shown before stays behind the room.
LEMMA RoomMoves ==
    ASSUME QueueInv, NEW p \in Shows, p = shared \/ p.epoch = shared.epoch + 1
    PROVE  /\ WasShared(p, p) /\ WasShared(shown, p)
           /\ \A i \in 1 .. Len(notices) : WasShared(notices[i].state, p)
           /\ \A i \in 1 .. Len(orders) : OwnSong(orders[i], p)
<1>1. /\ shared \in Shows /\ shown \in Shows
      /\ \A i \in 1 .. Len(notices) : notices[i] \in Notes
      /\ \A i \in 1 .. Len(orders) : orders[i] \in QueueOrders
  BY ElementOfSeq DEF QueueInv, QueueTypes
<1>2. \A q \in Shows : q.epoch \in Nat
  BY DEF Shows
<1>3. \A o \in QueueOrders : o.expected \in Nat
  BY DEF QueueOrders
<1>4. \A n \in Notes : n.state \in Shows
  BY DEF Notes
<1>5. \A q \in Shows : WasShared(q, shared) => WasShared(q, p)
  BY <1>1, <1>2 DEF WasShared
<1> QED BY <1>1, <1>2, <1>3, <1>4, <1>5 DEF QueueInv, WasShared, OwnSong

\* A state or an error is on its way to the page.
LEMMA NoticesFit ==
    ASSUME QueueInv, NEW p \in Shows, p = shared \/ p.epoch = shared.epoch + 1,
           NEW error \in BOOLEAN, Tell([state |-> p, error |-> error])
    PROVE  /\ notices' \in Seq(Notes)
           /\ \A i \in 1 .. Len(notices') : WasShared(notices'[i].state, p)
<1>1. notices \in Seq(Notes) /\ WasShared(p, p)
      /\ \A i \in 1 .. Len(notices) : WasShared(notices[i].state, p)
  BY RoomMoves DEF QueueInv, QueueTypes
<1>2. PICK n \in Notes : n = [state |-> p, error |-> error] /\ n.state = p
  BY DEF Notes
<1>3. notices' = IF wired THEN Append(notices, n) ELSE notices
  BY <1>2 DEF Tell
<1>4. /\ Append(notices, n) \in Seq(Notes) /\ Len(Append(notices, n)) = Len(notices) + 1
      /\ \A i \in 1 .. Len(notices) + 1 :
             Append(notices, n)[i] = IF i = Len(notices) + 1 THEN n ELSE notices[i]
  BY <1>1, AppendProperties, LenProperties
<1> QED BY <1>1, <1>2, <1>3, <1>4, LenProperties

\* A command is read: one with an old epoch does nothing.
LEMMA ObeyStep ==
    ASSUME QueueInv, Obey
    PROVE  QueueInv'
<1>1. /\ orders # <<>> /\ orders' = Tail(orders)
      /\ UNCHANGED <<shown, wired, armed, element, calls, queue>>
  BY DEF Obey
<1>2. PICK o : o = Head(orders)
  OBVIOUS
<1>3. o \in QueueOrders /\ shared \in Shows /\ orders \in Seq(QueueOrders)
  BY <1>1, <1>2, HeadTailProperties DEF QueueInv, QueueTypes
<1>4. PICK p : p = shared'
  OBVIOUS
<1>5. p \in Shows /\ (p = shared \/ p.epoch = shared.epoch + 1)
  <2>1. p = shared \/ p = Moved(o)
    BY <1>2, <1>4 DEF Obey
  <2>2. o.track \in Tracks
    BY <1>3 DEF QueueOrders
  <2> QED BY <1>3, <2>1, <2>2, MovedFits
<1>6. notices' \in Seq(Notes) /\ \A i \in 1 .. Len(notices') : WasShared(notices'[i].state, p)
  <2>1. PICK error \in BOOLEAN : error = ~Takes(Head(orders))
    OBVIOUS
  <2>2. Tell([state |-> p, error |-> error])
    BY <1>4, <2>1 DEF Obey
  <2> QED BY <1>5, <2>2, NoticesFit
<1>7. orders' \in Seq(QueueOrders) /\ \A i \in 1 .. Len(orders') : OwnSong(orders'[i], p)
  <2>1. /\ Tail(orders) \in Seq(QueueOrders) /\ Len(Tail(orders)) = Len(orders) - 1
        /\ \A i \in 1 .. Len(orders) - 1 : Tail(orders)[i] = orders[i + 1]
        /\ Len(orders) \in Nat
    BY <1>1, <1>3, HeadTailProperties, LenProperties
  <2>2. \A i \in 1 .. Len(orders) : OwnSong(orders[i], p)
    BY <1>5, RoomMoves
  <2> QED BY <1>1, <2>1, <2>2
<1>8. WasShared(shown, p)
  BY <1>5, RoomMoves
<1> QED BY <1>1, <1>4, <1>5, <1>6, <1>7, <1>8 DEF QueueInv, QueueTypes

LEMMA OthersMoveStep ==
    ASSUME QueueInv, OthersMove
    PROVE  QueueInv'
<1>1. UNCHANGED <<shown, orders, wired, armed, element, calls, queue>>
  BY DEF OthersMove
<1>2. PICK o \in [type : {"select"}, track : {SongAt(1)}] \cup [type : {"clear", "pause"}] :
          shared' = Moved(o)
  BY DEF OthersMove
<1>3. o.type # "select" \/ o.track \in Tracks
  BY DEF Tracks
<1>4. PICK p : p = shared'
  OBVIOUS
<1>5. p \in Shows /\ p.epoch = shared.epoch + 1
  BY <1>2, <1>3, <1>4, MovedFits DEF QueueInv, QueueTypes
<1>6. notices' \in Seq(Notes) /\ \A i \in 1 .. Len(notices') : WasShared(notices'[i].state, p)
  <2>1. Tell([state |-> p, error |-> FALSE])
    BY <1>4 DEF OthersMove
  <2> QED BY <1>5, <2>1, NoticesFit
<1>7. WasShared(shown, p) /\ \A i \in 1 .. Len(orders) : OwnSong(orders[i], p)
  BY <1>5, RoomMoves
<1> QED BY <1>1, <1>4, <1>5, <1>6, <1>7 DEF QueueInv, QueueTypes

\* The page reads a state; the socket breaks and is opened again.
LEMMA NoticeStep ==
    ASSUME QueueInv, Notice
    PROVE  QueueInv'
<1>1. /\ notices # <<>> /\ notices' = Tail(notices)
      /\ UNCHANGED <<shared, orders, wired, armed, queue>>
  BY DEF Notice
<1>2. PICK n : n = Head(notices)
  OBVIOUS
<1>3. notices \in Seq(Notes) /\ \A i \in 1 .. Len(notices) : WasShared(notices[i].state, shared)
  BY DEF QueueInv, QueueTypes
<1>4. /\ n \in Notes /\ WasShared(n.state, shared)
      /\ Tail(notices) \in Seq(Notes)
      /\ \A i \in 1 .. Len(Tail(notices)) : WasShared(Tail(notices)[i].state, shared)
  <2>1. /\ Tail(notices) \in Seq(Notes) /\ Len(Tail(notices)) = Len(notices) - 1
        /\ \A i \in 1 .. Len(notices) - 1 : Tail(notices)[i] = notices[i + 1]
        /\ Head(notices) = notices[1] /\ Head(notices) \in Notes
        /\ Len(notices) \in Nat /\ Len(notices) > 0
    BY <1>1, <1>3, HeadTailProperties, LenProperties, EmptySeq
  <2> QED BY <1>2, <1>3, <2>1
<1>5. PICK p \in Shows : p = n.state
  BY <1>4 DEF Notes
<1>6. shown' = p /\ (UNCHANGED <<element, calls>> \/ Apply(p, armed))
  BY <1>2, <1>5 DEF Notice
<1>7. element' \in Elements /\ calls' \subseteq Calls
  BY <1>6, ApplyFits DEF QueueInv, QueueTypes
<1> QED BY <1>1, <1>4, <1>5, <1>6, <1>7 DEF QueueInv, QueueTypes

LEMMA SocketsStep ==
    ASSUME QueueInv, Lose \/ Rewire
    PROVE  QueueInv'
<1>1. /\ UNCHANGED <<shared, shown, armed, element, calls, queue>> /\ wired' \in BOOLEAN
      /\ shared \in Shows /\ orders \in Seq(QueueOrders)
  BY DEF Lose, Rewire, QueueInv, QueueTypes
<1>2. /\ notices' \in Seq(Notes) /\ \A i \in 1 .. Len(notices') : WasShared(notices'[i].state, shared)
  <2>1. CASE Lose
    BY <2>1 DEF Lose
  <2>2. CASE Rewire
    <3>1. PICK n : n = [state |-> shared, error |-> FALSE]
      OBVIOUS
    <3>2. n \in Notes /\ n.state = shared
      BY <1>1, <3>1 DEF Notes
    <3>3. notices' = <<n>> /\ WasShared(shared, shared)
      BY <1>1, <2>2, <3>1 DEF Rewire, WasShared, Shows
    <3>4. <<n>> \in Seq(Notes) /\ Len(<<n>>) = 1 /\ <<n>>[1] = n
      BY <3>2
    <3> QED BY <3>2, <3>3, <3>4
  <2> QED BY <2>1, <2>2
<1>3. /\ orders' \in Seq(QueueOrders) /\ \A i \in 1 .. Len(orders') : OwnSong(orders'[i], shared)
  <2>1. CASE Lose
    <3>1. PICK n \in 0 .. Len(orders) : orders' = SubSeq(orders, 1, n)
      BY <2>1 DEF Lose
    <3>2. /\ SubSeq(orders, 1, n) \in Seq(QueueOrders) /\ Len(SubSeq(orders, 1, n)) = n
          /\ \A i \in 1 .. n : SubSeq(orders, 1, n)[i] = orders[i]
      BY <1>1, SubSeqProperties, LenProperties
    <3> QED BY <1>1, <3>1, <3>2, LenProperties DEF QueueInv
  <2>2. CASE Rewire
    BY <2>2 DEF Rewire, QueueInv, QueueTypes
  <2> QED BY <2>1, <2>2
<1> QED BY <1>1, <1>2, <1>3 DEF QueueInv, QueueTypes

LEMMA QueueStep == QueueInv /\ [QueueNext]_queueVars => QueueInv'
<1> SUFFICES ASSUME QueueInv, [QueueNext]_queueVars
             PROVE  QueueInv'
  OBVIOUS
<1>1. CASE UNCHANGED queueVars
  BY <1>1 DEF queueVars, QueueInv, QueueTypes
<1> QED BY <1>1, ElementStep, SongEndsStep, TapStep, ObeyStep, OthersMoveStep, NoticeStep,
        SocketsStep DEF QueueNext

\* The inductive invariant of the queue and its page.
THEOREM QueueInvariance == QueueSpec => []QueueInv
BY QueueInitInv, QueueStep, PTL DEF QueueSpec

\* A command that the end of the song shown caused moves the room away from that
\* very select or not at all, for any playlist, any number of taps and of other
\* controllers' commands, sockets that break and grants that wait or fail
\* (library-ui.js 449-491, with the epoch check of playback.js).
THEOREM EndsMoveOnlyTheirSong == QueueSpec => EndMovesOnlyItsSong
<1>1. QueueInv /\ [QueueNext]_queueVars =>
          [orders # <<>> /\ orders' = Tail(orders) /\ shared' # shared
             /\ Head(orders).heard # 0 => Head(orders).heard = shared.take]_queueVars
  <2> SUFFICES ASSUME QueueInv, QueueNext, orders # <<>>, orders' = Tail(orders), shared' # shared,
                      Head(orders).heard # 0
               PROVE  Head(orders).heard = shared.take
    BY DEF queueVars
  <2>1. orders \in Seq(QueueOrders) /\ Tail(orders) # orders
    <3>1. orders \in Seq(QueueOrders) /\ Len(orders) \in Nat
      BY LenProperties DEF QueueInv, QueueTypes
    <3> QED BY <3>1, HeadTailProperties
  <2>2. Obey
    BY <2>1 DEF QueueNext, Reapply, GrantReturns, GrantFails, EndIsReached, SongEnds, StartQueue, Skip, StopQueue,
       TapListen, TapTransport, TapMiniPlay, Tap, OthersMove, Notice, Lose, Rewire
  <2>3. Head(orders).expected = shared.epoch
    BY <2>2 DEF Obey, Takes
  <2>4. OwnSong(Head(orders), shared)
    <3>1. Head(orders) = orders[1] /\ 1 \in 1 .. Len(orders)
      BY <2>1, LenProperties, EmptySeq, HeadTailProperties
    <3> QED BY <3>1 DEF QueueInv
  <2> QED BY <2>3, <2>4 DEF OwnSong
<1> QED BY <1>1, QueueInvariance, PTL DEF QueueSpec, EndMovesOnlyItsSong

\* How many songs the queue can still end, and the commands that are on their
\* way, to come from those, or to come from the taps that are left: each tap sends
\* one command at most and lets the whole playlist end once more.
Ahead == IF queue = 0 THEN 0 ELSE Len(Songs) + 1 - queue
Round == Len(Songs) + 1
Budget == /\ taps \in 0 .. MaxTaps
          /\ Len(orders) + Ahead + (MaxTaps - taps) * Round <= MaxTaps * Round

LEMMA OrderAddsOne ==
    ASSUME QueueInv, NEW type, NEW track, NEW heard, Order(type, track, heard)
    PROVE  Len(orders') <= Len(orders) + 1
<1>1. orders \in Seq(QueueOrders) /\ Len(orders) \in Nat
  BY LenProperties DEF QueueInv, QueueTypes
<1>2. ASSUME NEW o PROVE Len(Append(orders, o)) = Len(orders) + 1
  <2>1. orders \in Seq(QueueOrders \cup {o})
    BY <1>1
  <2> QED BY <2>1, AppendProperties
<1> QED BY <1>1, <1>2 DEF Order

LEMMA BudgetStep == QueueInv /\ Budget /\ [QueueNext]_queueVars => Budget'
<1> SUFFICES ASSUME QueueInv, Budget, [QueueNext]_queueVars
             PROVE  Budget'
  OBVIOUS
<1>1. QueueInv'
  BY QueueStep
<1>2. PICK L \in Nat, M \in Nat : L = Len(Songs) /\ M = MaxTaps
  BY TracksKnown, QueueAssumption
<1>3. /\ Len(orders) \in Nat /\ Len(orders') \in Nat /\ queue \in 0 .. L /\ queue' \in 0 .. L
      /\ orders \in Seq(QueueOrders)
  BY <1>1, <1>2, LenProperties DEF QueueInv, QueueTypes
<1>4. PICK k \in Nat, t \in Nat : k = L + 1 /\ t = taps /\ t <= M
  BY <1>2 DEF Budget
<1>5. Len(orders) + Ahead + (M - t) * k <= M * k
  BY <1>2, <1>4 DEF Budget, Round
<1>6. Ahead \in 0 .. L /\ Ahead' \in 0 .. L /\ (queue' = queue => Ahead' = Ahead)
  BY <1>2, <1>3 DEF Ahead
<1>7. (M - t) * k \in Int /\ M * k \in Int
  BY <1>4
<1>8. ASSUME Len(orders') + Ahead' <= Len(orders) + Ahead, UNCHANGED taps PROVE Budget'
  <2>1. Len(orders') + Ahead' + (M - t) * k <= M * k
    BY <1>3, <1>5, <1>6, <1>7, <1>8
  <2> QED BY <1>2, <1>4, <1>8, <2>1 DEF Budget, Round
<1>9. ASSUME Tap, Len(orders') <= Len(orders) + 1 PROVE Budget'
  <2>1. taps' = t + 1 /\ t + 1 <= M
    BY <1>2, <1>4, <1>9 DEF Tap
  <2>2. (M - (t + 1)) * k = (M - t) * k - k
    BY <1>4
  <2>3. Len(orders') + Ahead' + (M - (t + 1)) * k <= M * k
    BY <1>3, <1>4, <1>5, <1>6, <1>7, <1>9, <2>2
  <2> QED BY <1>2, <1>4, <2>1, <2>3 DEF Budget, Round
<1>10. CASE \/ Reapply \/ EndIsReached \/ Rewire \/ OthersMove \/ Notice
            \/ \E c \in calls : GrantReturns(c) \/ GrantFails(c)
            \/ UNCHANGED queueVars
  <2>1. UNCHANGED <<orders, queue, taps>>
    BY <1>10 DEF Reapply, EndIsReached, Rewire, OthersMove, Notice, GrantReturns, GrantFails, queueVars
  <2> QED BY <1>3, <1>6, <1>8, <2>1
<1>11. CASE Obey
  <2>1. orders # <<>> /\ orders' = Tail(orders) /\ UNCHANGED <<queue, taps>>
    BY <1>11 DEF Obey
  <2>2. Len(orders') = Len(orders) - 1
    BY <1>3, <2>1, HeadTailProperties
  <2> QED BY <1>3, <1>6, <1>8, <2>1, <2>2
<1>12. CASE Lose
  <2>1. PICK n \in 0 .. Len(orders) : orders' = SubSeq(orders, 1, n)
    BY <1>12 DEF Lose
  <2>2. Len(orders') = n
    BY <1>3, <2>1, SubSeqProperties
  <2> QED BY <1>3, <1>6, <1>8, <1>12, <2>2 DEF Lose
\* The end of a song has the queue move on, or stop.
<1>13. CASE SongEnds
  <2>1. CASE queue = 0
    BY <1>3, <1>6, <1>8, <1>13, <2>1 DEF SongEnds
  <2>2. CASE queue # 0
    <3>1. PICK heard : Advance(1, heard)
      BY <1>13, <2>2 DEF SongEnds
    <3>2. queue' = queue + 1 \/ queue' = 0
      BY <1>3, <3>1 DEF Advance, PlaySong
    <3>3. Len(orders') <= Len(orders) + 1
      BY <1>3, <3>1, OrderAddsOne DEF Advance, PlaySong
    <3>4. Ahead' <= Ahead - 1
      BY <1>2, <1>3, <2>2, <3>2 DEF Ahead
    <3> QED BY <1>3, <1>6, <1>8, <1>13, <3>3, <3>4 DEF SongEnds
  <2> QED BY <2>1, <2>2
<1>14. CASE (\E i \in DOMAIN Songs : StartQueue(i)) \/ Skip(1) \/ Skip(-1)
  <2>1. Tap
    BY <1>14 DEF StartQueue, Skip
  <2>2. UNCHANGED orders \/ \E type, track, heard : Order(type, track, heard)
    BY <1>14 DEF StartQueue, Skip, Advance, PlaySong
  <2> QED BY <1>3, <1>9, <2>1, <2>2, OrderAddsOne
<1>15. CASE StopQueue \/ TapListen \/ TapTransport \/ TapMiniPlay
  <2>1. Tap
    BY <1>15 DEF StopQueue, TapListen, TapTransport, TapMiniPlay
  <2>2. UNCHANGED orders \/ Order("play", Silence, 0)
    BY <1>15 DEF StopQueue, TapListen, TapTransport, TapMiniPlay
  <2> QED BY <1>3, <1>9, <2>1, <2>2, OrderAddsOne
<1> QED BY <1>10, <1>11, <1>12, <1>13, <1>14, <1>15 DEF QueueNext

\* The page does not flood the room: what is on its way at a time is bounded by
\* the rider's taps and the length of the playlist.
LEMMA QueueTypesHold == QueueSpec => []QueueTypeOK
<1>1. QueueInit => Budget
  <2> SUFFICES ASSUME QueueInit
               PROVE  Budget
    OBVIOUS
  <2>1. Len(orders) = 0 /\ taps = 0 /\ queue = 0
    BY DEF QueueInit
  <2>2. MaxTaps * Round \in Int /\ MaxTaps \in Nat
    BY TracksKnown, QueueAssumption DEF Round
  <2>3. (MaxTaps - 0) * Round = MaxTaps * Round
    BY <2>2
  <2> QED BY <2>1, <2>2, <2>3 DEF Budget, Ahead
<1>2. QueueInv /\ Budget => QueueTypeOK
  <2> SUFFICES ASSUME QueueInv, Budget
               PROVE  QueueTypeOK
    OBVIOUS
  <2>0. Len(Songs) \in Nat /\ MaxTaps \in Nat
    BY TracksKnown, QueueAssumption
  <2>1. PICK L \in Nat, M \in Nat, t \in Nat : L = Len(Songs) /\ M = MaxTaps /\ t = taps /\ t <= M
    BY <2>0 DEF Budget
  <2>2. Len(orders) \in Nat /\ Ahead \in Nat
    BY <2>1, LenProperties DEF QueueInv, QueueTypes, Ahead
  <2>3. Len(orders) + Ahead + (M - t) * (L + 1) <= M * (L + 1)
    BY <2>1 DEF Budget, Round
  <2>4. (M - t) * (L + 1) >= 0 /\ M * (L + 1) = M + L * M /\ L * (M + 1) = L * M + L
    BY <2>1
  <2>5. (M - t) * (L + 1) \in Int /\ L * M \in Int /\ L * (M + 1) \in Int
    BY <2>1
  <2>6. Len(orders) <= MaxTaps + Len(Songs) * (MaxTaps + 1)
    BY <2>1, <2>2, <2>3, <2>4, <2>5
  <2>7. shared.epoch \in Nat /\ shown.epoch \in 0 .. shared.epoch
    BY DEF QueueInv, QueueTypes, Shows, WasShared
  <2> QED BY <2>6, <2>7 DEF QueueTypeOK, QueueInv, QueueTypes, Elements
<1> QED BY <1>1, <1>2, BudgetStep, QueueInitInv, QueueStep, PTL DEF QueueSpec

-----------------------------------------------------------------------------
(* What holds of every number *)

\* A set with 0 that has the successor of each of its numbers has them all.
LEMMA EveryNat ==
    ASSUME NEW S, 0 \in S, \A n \in Nat : n \in S => n + 1 \in S
    PROVE  Nat \subseteq S
<1> DEFINE T == Nat \ S
           R == OpToRel(<, Nat)
<1> SUFFICES ASSUME T # {}
             PROVE  FALSE
  OBVIOUS
<1>1. PICK x \in T : \A y \in T : ~(<<y, x>> \in R)
  <2>1. IsWellFoundedOn(R, Nat)
    BY NatLessThanWellFounded
  <2>2. T \subseteq Nat
    OBVIOUS
  <2> HIDE DEF T, R
  <2> QED BY <2>1, <2>2, WFMin
<1>2. x \in Nat /\ x # 0 /\ x - 1 \in Nat /\ x - 1 < x
  OBVIOUS
<1>3. <<x - 1, x>> \in R
  BY <1>2 DEF OpToRel
<1>4. x - 1 \in S
  BY <1>1, <1>2, <1>3
<1>5. (x - 1) + 1 \in S
  BY <1>2, <1>4
<1>6. (x - 1) + 1 = x
  BY <1>2
<1>7. x \notin S
  OBVIOUS
<1> QED BY <1>5, <1>6, <1>7

-----------------------------------------------------------------------------
(* Your rooms *)

\* f is the list that excludes gone from each of the first N parts of q.
Sieves(f, N, q, gone) ==
    f = [n \in 0 .. N |-> IF n = 0 THEN <<>>
                          ELSE IF q[n] \in gone THEN f[n - 1] ELSE Append(f[n - 1], q[n])]

LEMMA SievesExist ==
    ASSUME NEW q, NEW gone, NEW N \in Nat
    PROVE  \E f : Sieves(f, N, q, gone)
<1> DEFINE S == {n \in Nat : \E f : Sieves(f, n, q, gone)}
<1>1. 0 \in S
  <2> DEFINE g == [n \in 0 .. 0 |-> <<>>]
  <2>1. Sieves(g, 0, q, gone)
    <3>1. \A n \in 0 .. 0 : n = 0
      OBVIOUS
    <3>2. g = [n \in 0 .. 0 |-> IF n = 0 THEN <<>>
                 ELSE IF q[n] \in gone THEN g[n - 1] ELSE Append(g[n - 1], q[n])]
      BY <3>1
    <3> QED BY <3>2 DEF Sieves
  <2> QED BY <2>1
<1>2. ASSUME NEW n \in Nat, n \in S PROVE n + 1 \in S
  <2>1. PICK f : Sieves(f, n, q, gone)
    BY <1>2
  <2> DEFINE Next1(h, i) == IF q[i] \in gone THEN h[i - 1] ELSE Append(h[i - 1], q[i])
             g == [i \in 0 .. n + 1 |-> IF i <= n THEN f[i] ELSE Next1(f, i)]
  <2>2. \A i \in 0 .. n : g[i] = f[i]
    OBVIOUS
  <2>3. \A i \in 0 .. n : f[i] = IF i = 0 THEN <<>> ELSE Next1(f, i)
    BY <2>1 DEF Sieves
  <2>4. ASSUME NEW i \in 0 .. n + 1
        PROVE  g[i] = IF i = 0 THEN <<>> ELSE Next1(g, i)
    <3>1. CASE i = 0
      BY <2>2, <2>3, <3>1
    <3>2. CASE i \in 1 .. n
      <4>1. i \in 0 .. n /\ i - 1 \in 0 .. n /\ i # 0
        BY <3>2
      <4>2. g[i] = f[i] /\ g[i - 1] = f[i - 1]
        BY <2>2, <4>1
      <4> QED BY <2>3, <4>1, <4>2
    <3>3. CASE i = n + 1
      <4>1. i - 1 = n /\ i - 1 \in 0 .. n /\ i # 0 /\ ~(i <= n)
        BY <3>3
      <4>2. g[i] = Next1(f, i) /\ g[i - 1] = f[i - 1]
        BY <2>2, <4>1
      <4> QED BY <4>1, <4>2
    <3> QED BY <3>1, <3>2, <3>3
  <2>5. g = [i \in 0 .. n + 1 |-> g[i]]
    OBVIOUS
  <2> HIDE DEF g
  <2>6. Sieves(g, n + 1, q, gone)
    BY <2>4, <2>5 DEF Sieves
  <2> QED BY <2>6
<1> HIDE DEF S
<1>3. Nat \subseteq S
  BY <1>1, <1>2, EveryNat
<1> QED BY <1>3 DEF S

LEMMA AppendedList ==
    ASSUME NEW s \in Seq(Places), NEW x \in Places
    PROVE  /\ Append(s, x) \in Seq(Places) /\ Len(Append(s, x)) = Len(s) + 1
           /\ ToSet(Append(s, x)) = ToSet(s) \cup {x}
           /\ IsInjective(s) /\ x \notin ToSet(s) => IsInjective(Append(s, x))
<1>1. PICK t : t = Append(s, x)
  OBVIOUS
<1>2. Len(s) \in Nat /\ DOMAIN s = 1 .. Len(s)
  BY LenProperties
<1>3. /\ t \in Seq(Places) /\ Len(t) = Len(s) + 1 /\ DOMAIN t = 1 .. Len(s) + 1
      /\ \A i \in 1 .. Len(s) : t[i] = s[i]
      /\ t[Len(s) + 1] = x
  BY <1>1, <1>2, AppendProperties, LenProperties
<1>4. \A i \in DOMAIN t : i \in DOMAIN s \/ i = Len(s) + 1
  BY <1>2, <1>3
<1>5. DOMAIN s \subseteq DOMAIN t /\ Len(s) + 1 \in DOMAIN t
  BY <1>2, <1>3
<1>6. ToSet(t) = ToSet(s) \cup {x}
  BY <1>2, <1>3, <1>4, <1>5 DEF ToSet
<1>7. ASSUME IsInjective(s), x \notin ToSet(s) PROVE IsInjective(t)
  <2>1. \A i \in DOMAIN s : t[i] = s[i] /\ s[i] # x
    BY <1>2, <1>3, <1>7 DEF ToSet
  <2> QED BY <1>3, <1>4, <1>7, <2>1 DEF IsInjective
<1> QED BY <1>1, <1>3, <1>6, <1>7

\* What is left of a list: no more, none that is gone, each of the others, and
\* no room twice if none was.
LEMMA ExcludingFits ==
    ASSUME NEW q \in Seq(Places), NEW gone
    PROVE  /\ Excluding(q, gone) \in Seq(Places) /\ Len(Excluding(q, gone)) <= Len(q)
           /\ ToSet(Excluding(q, gone)) = ToSet(q) \ gone
           /\ IsInjective(q) => IsInjective(Excluding(q, gone))
<1>1. PICK N \in Nat : N = Len(q) /\ DOMAIN q = 1 .. N
  BY LenProperties
<1>2. PICK f : Sieves(f, N, q, gone) /\ Excluding(q, gone) = f[N]
  <2> DEFINE upTo == CHOOSE f : Sieves(f, N, q, gone)
  <2>1. Excluding(q, gone) = upTo[N]
    BY <1>1 DEF Excluding, Sieves
  <2>2. Sieves(upTo, N, q, gone)
    BY SievesExist
  <2> QED BY <2>1, <2>2
<1> DEFINE Fits(n) == /\ f[n] \in Seq(Places) /\ Len(f[n]) <= n
                      /\ ToSet(f[n]) = {q[i] : i \in 1 .. n} \ gone
                      /\ IsInjective(q) => IsInjective(f[n])
           S == {n \in Nat : n <= N => Fits(n)}
<1>3. \A n \in 0 .. N : f[n] = IF n = 0 THEN <<>>
                               ELSE IF q[n] \in gone THEN f[n - 1] ELSE Append(f[n - 1], q[n])
  BY <1>2 DEF Sieves
<1>4. 0 \in S
  <2>1. f[0] = <<>>
    BY <1>3
  <2>2. f[0] \in Seq(Places) /\ Len(f[0]) = 0 /\ DOMAIN f[0] = {}
    BY <2>1
  <2>3. \A i \in 1 .. 0 : FALSE
    OBVIOUS
  <2> QED BY <2>2, <2>3 DEF ToSet, IsInjective
<1>5. ASSUME NEW n \in Nat, n \in S PROVE n + 1 \in S
  <2> SUFFICES ASSUME n + 1 <= N
               PROVE  Fits(n + 1)
    OBVIOUS
  <2>1. n + 1 \in 0 .. N /\ n + 1 \in 1 .. N /\ n + 1 # 0 /\ (n + 1) - 1 = n
    OBVIOUS
  <2>2. Fits(n)
    BY <1>5, <2>1
  <2>3. PICK x \in Places : x = q[n + 1]
    BY <1>1, <2>1
  <2>4. \A i \in 1 .. n + 1 : i \in 1 .. n \/ i = n + 1
    OBVIOUS
  <2>5. {q[i] : i \in 1 .. n + 1} = {q[i] : i \in 1 .. n} \cup {x}
    BY <2>3, <2>4
  <2>6. PICK s : s = f[n]
    OBVIOUS
  <2>7. s \in Seq(Places) /\ Len(s) \in Nat
    BY <2>2, <2>6, LenProperties
  <2>8. CASE x \in gone
    <3>1. f[n + 1] = s
      BY <1>3, <2>1, <2>3, <2>6, <2>8
    <3>2. Len(s) <= n /\ Len(s) <= n + 1
      BY <2>2, <2>6, <2>7
    <3> QED BY <2>2, <2>5, <2>6, <2>8, <3>1, <3>2
  <2>9. CASE x \notin gone
    <3>1. f[n + 1] = Append(s, x)
      BY <1>3, <2>1, <2>3, <2>6, <2>9
    <3>2. Len(s) <= n /\ Len(s) + 1 <= n + 1
      BY <2>2, <2>6, <2>7
    <3>3. IsInjective(q) => x \notin ToSet(s)
      <4> SUFFICES ASSUME IsInjective(q), x \in ToSet(s)
                   PROVE  FALSE
        OBVIOUS
      <4>1. PICK i \in 1 .. n : x = q[i]
        BY <2>2, <2>6
      <4>2. i \in DOMAIN q /\ n + 1 \in DOMAIN q /\ i # n + 1
        BY <1>1, <2>1
      <4> QED BY <2>3, <4>1, <4>2 DEF IsInjective
    <3>4. /\ Append(s, x) \in Seq(Places) /\ Len(Append(s, x)) = Len(s) + 1
          /\ ToSet(Append(s, x)) = ToSet(s) \cup {x}
          /\ IsInjective(s) /\ x \notin ToSet(s) => IsInjective(Append(s, x))
      BY <2>7, AppendedList
    <3> QED BY <2>2, <2>5, <2>6, <2>9, <3>1, <3>2, <3>3, <3>4
  <2> QED BY <2>8, <2>9
<1> HIDE DEF S
<1>6. N \in S
  BY <1>4, <1>5, EveryNat
<1>7. Fits(N)
  BY <1>6 DEF S
<1>8. ToSet(q) = {q[i] : i \in 1 .. N}
  BY <1>1 DEF ToSet
<1> QED BY <1>1, <1>2, <1>7, <1>8

\* A room that is bookmarked is there, at the cost of the oldest of a full list.
LEMMA BookmarkedFits ==
    ASSUME NEW q \in Seq(Places), Len(q) <= MaxSaved, NEW r \in Places
    PROVE  /\ Bookmarked(q, r) \in Seq(Places) /\ Len(Bookmarked(q, r)) <= MaxSaved
           /\ r \in ToSet(Bookmarked(q, r))
           /\ IsInjective(q) => IsInjective(Bookmarked(q, r))
<1>1. PICK s \in Seq(Places) : /\ s = Kept(q) /\ Len(s) <= MaxSaved
                               /\ IsInjective(q) => IsInjective(s)
  <2>1. Len(q) \in Nat /\ MaxSaved \in Nat
    BY LenProperties, SavedAssumption
  <2>2. Kept(q) \in Seq(Places) /\ Len(Kept(q)) <= Len(q) /\ (IsInjective(q) => IsInjective(Kept(q)))
    BY ExcludingFits DEF Kept
  <2>3. Len(Kept(q)) \in Nat
    BY <2>2, LenProperties
  <2> QED BY <2>1, <2>2, <2>3
<1>2. CASE r \in ToSet(s)
  BY <1>1, <1>2 DEF Bookmarked
<1>3. CASE r \notin ToSet(s)
  <2>1. PICK t : t = <<r>> \o s
    OBVIOUS
  <2>2. Len(s) \in Nat /\ DOMAIN s = 1 .. Len(s) /\ MaxSaved \in Nat /\ MaxSaved # 0
    BY LenProperties, SavedAssumption
  <2>3. /\ t \in Seq(Places) /\ Len(t) = Len(s) + 1
        /\ t[1] = r /\ \A i \in 2 .. Len(s) + 1 : t[i] = s[i - 1]
    <3>1. <<r>> \in Seq(Places) /\ Len(<<r>>) = 1
      OBVIOUS
    <3> QED BY <2>1, <2>2, <3>1, ConcatProperties
  <2>4. PICK m \in 1 .. Len(t) : m = (IF Len(t) < MaxSaved THEN Len(t) ELSE MaxSaved) /\ m <= MaxSaved
    BY <2>2, <2>3
  <2>5. PICK u : u = SubSeq(t, 1, m)
    OBVIOUS
  <2>6. Bookmarked(q, r) = u
    BY <1>1, <1>3, <2>1, <2>4, <2>5 DEF Bookmarked, FirstOf
  <2>7. /\ u \in Seq(Places) /\ Len(u) = m /\ DOMAIN u = 1 .. m
        /\ \A i \in 1 .. m : u[i] = t[i]
    BY <2>3, <2>4, <2>5, SubSeqProperties, LenProperties
  <2>8. r \in ToSet(u)
    BY <2>3, <2>4, <2>7 DEF ToSet
  <2>9. ASSUME IsInjective(s) PROVE IsInjective(u)
    <3> SUFFICES ASSUME NEW i \in 1 .. m, NEW j \in 1 .. m, u[i] = u[j], i < j
                 PROVE  FALSE
      BY <2>7 DEF IsInjective
    <3>1. j \in 2 .. Len(s) + 1 /\ j - 1 \in DOMAIN s
      BY <2>2, <2>3, <2>4
    <3>2. u[j] = s[j - 1]
      BY <2>3, <2>7, <3>1
    <3>3. CASE i = 1
      BY <1>3, <2>3, <2>7, <3>1, <3>2, <3>3 DEF ToSet
    <3>4. CASE i # 1
      <4>1. i \in 2 .. Len(s) + 1 /\ i - 1 \in DOMAIN s /\ i - 1 # j - 1
        BY <2>2, <2>3, <2>4, <3>4
      <4>2. u[i] = s[i - 1]
        BY <2>3, <2>7, <4>1
      <4> QED BY <2>9, <3>1, <3>2, <4>1, <4>2 DEF IsInjective
    <3> QED BY <3>3, <3>4
  <2> QED BY <1>1, <2>4, <2>6, <2>7, <2>8, <2>9
<1> QED BY <1>2, <1>3


SavedInv == SavedTypeOK /\ IsInjective(saved) /\ HostPlaceIsSaved

\* What a list that is read, or loses a room, may be.
ListOK(q) == q \in Seq(Places) /\ Len(q) <= MaxSaved /\ IsInjective(q)

LEMMA ListsStayOK ==
    ASSUME NEW q, ListOK(q), NEW r
    PROVE  /\ ListOK(Kept(q)) /\ ListOK(Without(q, r))
           /\ r \in Places => ListOK(Bookmarked(q, r)) /\ r \in ToSet(Bookmarked(q, r))
<1>1. \A s, gone : ListOK(s) => ListOK(Excluding(s, gone))
  <2> SUFFICES ASSUME NEW s, NEW gone, ListOK(s)
               PROVE  ListOK(Excluding(s, gone))
    OBVIOUS
  <2>1. /\ Excluding(s, gone) \in Seq(Places) /\ Len(Excluding(s, gone)) <= Len(s)
        /\ IsInjective(Excluding(s, gone))
    BY ExcludingFits DEF ListOK
  <2>2. Len(s) \in Nat /\ MaxSaved \in Nat /\ Len(Excluding(s, gone)) \in Nat /\ Len(s) <= MaxSaved
    BY <2>1, LenProperties, SavedAssumption DEF ListOK
  <2> QED BY <2>1, <2>2 DEF ListOK
<1>2. ListOK(Kept(q)) /\ ListOK(Without(q, r))
  BY <1>1 DEF Kept, Without
<1> QED BY <1>2, BookmarkedFits DEF ListOK

LEMMA SavedInitInv == SavedInit => SavedInv
<1> SUFFICES ASSUME SavedInit
             PROVE  SavedInv
  OBVIOUS
<1>1. saved \in Seq(Places) /\ Len(saved) = 0 /\ DOMAIN saved = {}
  BY DEF SavedInit
<1>2. 0 <= MaxSaved
  BY SavedAssumption
<1> QED BY <1>1, <1>2
        DEF SavedInit, SavedInv, SavedTypeOK, HostPlaceIsSaved, NoStay, IsInjective

\* Only a rendering that writes nothing leaves the page idle; it has put the room
\* of a host back on the list.
LEMMA RenderStep ==
    ASSUME SavedInv, Render
    PROVE  SavedInv'
<1> DEFINE picked == Kept(saved)
           carded == IF session.host THEN Bookmarked(picked, session.place) ELSE picked
           left == IF session = NoStay THEN carded ELSE Kept(carded)
<1>1. rendering \in 1 .. 2 /\ UNCHANGED <<overdue, missing, session, checks>>
  BY DEF Render, SavedInv, SavedTypeOK, Idling
<1>2. ListOK(picked)
  BY ListsStayOK DEF SavedInv, SavedTypeOK, ListOK
<1>3. session.host => session.place \in Places
  BY DEF SavedInv, SavedTypeOK, Stays, NoStay
<1>4. ListOK(carded) /\ (session.host => session.place \in ToSet(carded))
  <2> HIDE DEF picked
  <2> QED BY <1>2, <1>3, ListsStayOK
<1>5. /\ saved' = left
      /\ rendering' = IF picked # saved \/ carded # picked \/ left # carded THEN 3 - rendering ELSE 0
      /\ select' = IF select \in ToSet(picked) THEN select ELSE NoPlace
  BY DEF Render
<1> HIDE DEF picked, carded
<1>6. ListOK(left)
  BY <1>4, ListsStayOK
<1> HIDE DEF left
<1>7. rendering' \in 0 .. 2 /\ (rendering' = 0 => left = carded)
  BY <1>1, <1>5
<1>8. select' \in Places \cup {NoPlace}
  BY <1>5 DEF SavedInv, SavedTypeOK
<1> QED BY <1>1, <1>4, <1>5, <1>6, <1>7, <1>8
        DEF SavedInv, SavedTypeOK, HostPlaceIsSaved, ListOK, Idling

LEMMA SavedStep == SavedInv /\ [SavedNext]_savedVars => SavedInv'
<1> SUFFICES ASSUME SavedInv, [SavedNext]_savedVars
             PROVE  SavedInv'
  OBVIOUS
<1>1. ListOK(saved)
  BY DEF SavedInv, SavedTypeOK, ListOK
\* A write queues a rendering: the page is not idle before it has run.
<1>2. ASSUME rendering' = 1, ListOK(saved'), session' \in Stays \cup {NoStay},
             select' \in Places \cup {NoPlace}, checks' \subseteq Places,
             UNCHANGED <<overdue, missing>>
      PROVE  SavedInv'
  BY <1>2 DEF SavedInv, SavedTypeOK, HostPlaceIsSaved, ListOK, Idling
<1>3. ASSUME UNCHANGED <<rendering, saved, session>>, select' \in Places \cup {NoPlace},
             checks' \subseteq Places, overdue' \subseteq missing', missing' \subseteq Places,
             overdue \subseteq overdue'
      PROVE  SavedInv'
  BY <1>3 DEF SavedInv, SavedTypeOK, HostPlaceIsSaved, Idling
<1> DEFINE Types == /\ overdue \subseteq missing /\ missing \subseteq Places
                    /\ session \in Stays \cup {NoStay} /\ select \in Places \cup {NoPlace}
                    /\ checks \subseteq Places
<1>4. Types
  BY DEF SavedInv, SavedTypeOK
<1>5. ASSUME NEW s \in Stays, Enter(s) PROVE SavedInv'
  BY <1>1, <1>2, <1>4, <1>5 DEF Enter
<1>6. CASE LeavePlace
  BY <1>1, <1>2, <1>4, <1>6 DEF LeavePlace
<1>7. CASE PlaceIsGone
  BY <1>1, <1>2, <1>4, <1>7, ListsStayOK DEF PlaceIsGone
<1>8. CASE ToggleSaved
  <2>1. session.place \in Places
    BY <1>4, <1>8 DEF ToggleSaved, Stays
  <2> QED BY <1>1, <1>2, <1>4, <1>8, <2>1, ListsStayOK DEF ToggleSaved
<1>9. ASSUME NEW r \in Places, Choose(r) PROVE SavedInv'
  BY <1>3, <1>4, <1>9 DEF Choose
<1>10. ASSUME NEW r \in Places, Checked(r) PROVE SavedInv'
  <2>1. CASE r \in missing
    BY <1>1, <1>2, <1>4, <1>10, <2>1, ListsStayOK DEF Checked
  <2>2. CASE r \notin missing
    BY <1>3, <1>4, <1>10, <2>2 DEF Checked
  <2> QED BY <2>1, <2>2
<1>11. ASSUME NEW r \in Places, CheckFailed(r) PROVE SavedInv'
  BY <1>3, <1>4, <1>11 DEF CheckFailed
<1>12. CASE Forget
  BY <1>1, <1>2, <1>4, <1>12, ListsStayOK DEF Forget
<1>13. CASE Reopen
  BY <1>1, <1>2, <1>4, <1>13 DEF Reopen
<1>14. ASSUME NEW r \in Places, PlaceEnds(r) \/ PlaceLapses(r) PROVE SavedInv'
  BY <1>3, <1>4, <1>14 DEF PlaceEnds, PlaceLapses
<1>15. CASE UNCHANGED savedVars
  BY <1>3, <1>4, <1>15 DEF savedVars
<1> QED BY <1>5, <1>6, <1>7, <1>8, <1>9, <1>10, <1>11, <1>12, <1>13, <1>14, <1>15, RenderStep
        DEF SavedNext

\* The inductive invariant of the list of rooms.
THEOREM SavedInvariance == SavedSpec => []SavedInv
BY SavedInitInv, SavedStep, PTL DEF SavedSpec

\* "Host-created rooms are kept in Your Rooms": for any number of rooms, any
\* limit of the list and any order of taps, answers, ends and renderings, an idle
\* page has the room its session hosts on the list, unless it has expired, and
\* no room twice (apps/web/catalog-bridge.js).
THEOREM HostPlaceIsKept == SavedSpec => []HostPlaceIsSaved
<1>1. SavedInv => HostPlaceIsSaved
  BY DEF SavedInv
<1> QED BY <1>1, SavedInvariance, PTL

-----------------------------------------------------------------------------
(* The parts together *)

\* A step of the composition is a step of one part, and the others rest.
LEMMA PartsRunAlone ==
    DeviceSpec => SavedSpec /\ QueueSpec /\ LocationSpec
<1>1. DeviceInit => SavedInit /\ QueueInit /\ LocationInit
  BY DEF DeviceInit
<1>2. [DeviceNext]_deviceVars =>
          [SavedNext]_savedVars /\ [QueueNext]_queueVars /\ [LocationNext]_locationVars
  BY DEF DeviceNext, deviceVars
<1> QED BY <1>1, <1>2, PTL DEF DeviceSpec, SavedSpec, QueueSpec, LocationSpec

\* The states of the list of rooms, the queue and the location have their types,
\* for all values of the constants of the three.
THEOREM DeviceTypesHold == DeviceSpec => []DeviceTypeOK
<1>1. SavedInv /\ QueueTypeOK /\ LocationInv => DeviceTypeOK
  BY DEF SavedInv, LocationInv, DeviceTypeOK
<1> QED BY <1>1, PartsRunAlone, SavedInvariance, QueueTypesHold, LocationInvariance, PTL

=============================================================================
