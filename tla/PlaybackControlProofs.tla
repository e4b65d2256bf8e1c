------------------------ MODULE PlaybackControlProofs ------------------------
(***************************************************************************)
(* Proofs about PlaybackControl for every number of controllers, listeners, *)
(* tracks, commands and instants.  ControlInv is the inductive invariant:    *)
(* whatever a client has seen, is being sent or has based a command on is    *)
(* the state of the room or has an older epoch, and the last message on its  *)
(* way to a client is the state of the room.                                *)
(***************************************************************************)
EXTENDS PlaybackControl, SequenceTheorems, TLAPS

-----------------------------------------------------------------------------
(* The inductive invariant *)

\* p is q, or was overtaken.
Behind(p, q) == p.epoch <= q.epoch /\ (p.epoch = q.epoch => p = q)

\* A command carries the epoch its sender saw; a select and a seek say where to.
WellMade(o) ==
    /\ o.cmd.expectedEpoch = IF o.basis = NoPlayback THEN 0 ELSE o.basis.epoch
    /\ o.cmd.type \in {"playback.select", "playback.seek"} => o.cmd.positionMs # NoPosition

SoundOrders(q, p) ==
    \A i \in 1..Len(q) : /\ WellMade(q[i])
                         /\ q[i].basis # NoPlayback => Behind(q[i].basis, p)

SoundNews(q, p) ==
    \A i \in 1..Len(q) : q[i].type = "playback" => Behind(q[i].playback, p)

\* The last thing a client with an open socket hears is the state of the room.
EndsWith(q, p) == q # <<>> /\ q[Len(q)] = State(p)

HearsState(c) ==
    /\ line[c] = "down" => inbox[c] = <<>> /\ out[c] = <<>>
    /\ line[c] = "up" => EndsWith(inbox[c], playback) /\ inbox[c][1].type = "auth.ok"
    /\ line[c] = "ready" =>
          \/ EndsWith(inbox[c], playback)
          \/ inbox[c] = <<>> /\ seen[c] = playback

ClientInv(c) ==
    /\ seen[c] # NoPlayback => Behind(seen[c], playback)
    /\ SoundNews(inbox[c], playback)
    /\ SoundOrders(out[c], playback) /\ SoundOrders(leftover[c], playback)
    /\ HearsState(c)

ControlInv == ControlTypeOK /\ \A c \in Clients : ClientInv(c)

-----------------------------------------------------------------------------
(* The state of the soundtrack *)

LEMMA NoPlaybackIsNoState ==
    ASSUME NEW p \in PlaybackState
    PROVE  p # NoPlayback /\ p.epoch \in Nat
<1>1. p.epoch \in Nat /\ NoPlayback.epoch = -1
  BY DEF PlaybackState, NoPlayback
<1> QED BY <1>1

LEMMA EffectiveIsNat ==
    ASSUME NEW p \in PlaybackState, NEW now \in Nat
    PROVE  EffectivePositionMs(p, now) \in Nat
BY DEF EffectivePositionMs, AtLeastZero, PlaybackState

\* applyPlaybackCommand() makes a state of the next epoch.
LEMMA ApplyWell ==
    ASSUME NEW p \in PlaybackState, NEW msg \in Command, Accepted(p, msg),
           NEW c \in Controllers, NEW now \in Nat
    PROVE  /\ ApplyPlaybackCommand(p, msg, c, now) \in PlaybackState
           /\ ApplyPlaybackCommand(p, msg, c, now).epoch = p.epoch + 1
<1> DEFINE r == ApplyPlaybackCommand(p, msg, c, now)
<1>1. TrackAfter(p, msg) \in Tracks \cup {NoTrack}
  BY DEF TrackAfter, Accepted, Command, CommandTypes, PlaybackState
<1>2. StatusAfter(p, msg) \in Statuses
  <2>1. p.status \in Statuses /\ msg.type \in CommandTypes
    BY DEF PlaybackState, Command
  <2>2. CASE msg.type = "playback.select"
    BY <2>2 DEF StatusAfter, Statuses
  <2>3. CASE msg.type = "playback.play"
    BY <2>3 DEF StatusAfter, Statuses
  <2>4. CASE msg.type = "playback.pause"
    BY <2>4 DEF StatusAfter, Statuses
  <2>5. CASE msg.type = "playback.seek"
    BY <2>1, <2>5 DEF StatusAfter, Statuses
  <2>6. CASE msg.type = "playback.clear"
    BY <2>6 DEF StatusAfter, Statuses
  <2> QED BY <2>1, <2>2, <2>3, <2>4, <2>5, <2>6 DEF CommandTypes
<1>3. PositionAfter(p, msg, now) \in Nat
  BY EffectiveIsNat DEF PositionAfter, Command
<1>4. EpochAfter(p, msg) \in Nat /\ EpochAfter(p, msg) = p.epoch + 1
  BY DEF EpochAfter, PlaybackState
<1>5. r = [trackId |-> TrackAfter(p, msg), status |-> StatusAfter(p, msg),
           positionMs |-> PositionAfter(p, msg, now), anchorServerMs |-> now,
           epoch |-> EpochAfter(p, msg), updatedBy |-> c]
  BY DEF ApplyPlaybackCommand
<1> SUFFICES r \in PlaybackState /\ r.epoch = p.epoch + 1
  OBVIOUS
<1> HIDE DEF r
<1> QED BY <1>1, <1>2, <1>3, <1>4, <1>5 DEF PlaybackState

\* A newer state overtakes whatever was behind the one before it.
LEMMA Overtakes ==
    ASSUME NEW p \in PlaybackState, NEW q \in PlaybackState, NEW r \in PlaybackState,
           Behind(p, q), r.epoch = q.epoch + 1
    PROVE  Behind(p, r)
BY NoPlaybackIsNoState DEF Behind

-----------------------------------------------------------------------------
(* Queues of messages and of commands *)

LEMMA StateIsNews ==
    ASSUME NEW p \in PlaybackState
    PROVE  /\ State(p) \in Sends /\ State(p).type = "playback" /\ State(p).playback = p
           /\ Behind(p, p)
BY NoPlaybackIsNoState DEF State, Sends, Behind

LEMMA NewsAppended ==
    ASSUME NEW q \in Seq(Sends), NEW p \in PlaybackState, SoundNews(q, p)
    PROVE  LET a == Append(q, State(p))
           IN /\ a \in Seq(Sends) /\ SoundNews(a, p) /\ EndsWith(a, p)
              /\ q # <<>> => a[1] = q[1]
<1> DEFINE e == State(p)
           a == Append(q, e)
<1>1. e \in Sends /\ e.playback = p /\ Behind(p, p)
  BY StateIsNews
<1> SUFFICES /\ a \in Seq(Sends) /\ SoundNews(a, p) /\ a # <<>> /\ a[Len(a)] = e
             /\ q # <<>> => a[1] = q[1]
  BY DEF EndsWith
<1> HIDE DEF e
<1>2. /\ a \in Seq(Sends) /\ a # <<>> /\ Len(a) = Len(q) + 1 /\ Len(q) \in Nat
      /\ \A i \in 1..Len(q) : a[i] = q[i]
      /\ a[Len(q) + 1] = e
  BY <1>1, AppendProperties, LenProperties
<1>3. q # <<>> => a[1] = q[1]
  BY <1>2, EmptySeq
<1> HIDE DEF a
<1> QED BY <1>1, <1>2, <1>3 DEF SoundNews

LEMMA NewsRead ==
    ASSUME NEW q \in Seq(Sends), q # <<>>, NEW p, SoundNews(q, p)
    PROVE  /\ Head(q) \in Sends /\ Head(q) = q[1] /\ Tail(q) \in Seq(Sends)
           /\ SoundNews(Tail(q), p)
           /\ Head(q).type = "playback" => Behind(Head(q).playback, p)
           /\ EndsWith(q, p) =>
                 \/ Tail(q) # <<>> /\ EndsWith(Tail(q), p)
                 \/ Tail(q) = <<>> /\ Head(q) = State(p)
<1>1. /\ Head(q) \in Sends /\ Head(q) = q[1] /\ Tail(q) \in Seq(Sends)
      /\ Len(q) \in Nat \ {0} /\ Len(Tail(q)) = Len(q) - 1
      /\ \A i \in 1..Len(Tail(q)) : Tail(q)[i] = q[i + 1]
  BY HeadTailProperties, EmptySeq
<1>2. SoundNews(Tail(q), p)
  <2> SUFFICES ASSUME NEW i \in 1..Len(Tail(q)), Tail(q)[i].type = "playback"
               PROVE  Behind(Tail(q)[i].playback, p)
    BY DEF SoundNews
  <2>1. i + 1 \in 1..Len(q) /\ Tail(q)[i] = q[i + 1]
    BY <1>1
  <2> QED BY <2>1 DEF SoundNews
<1>3. Head(q).type = "playback" => Behind(Head(q).playback, p)
  BY <1>1 DEF SoundNews
<1>4. ASSUME EndsWith(q, p), Tail(q) # <<>>
      PROVE  EndsWith(Tail(q), p)
  <2>1. Len(Tail(q)) \in Nat \ {0}
    BY <1>1, <1>4, EmptySeq
  <2>2. Tail(q)[Len(Tail(q))] = q[Len(q)]
    BY <1>1, <2>1
  <2> QED BY <1>4, <2>2 DEF EndsWith
<1>5. ASSUME EndsWith(q, p), Tail(q) = <<>>
      PROVE  Head(q) = State(p)
  <2>1. Len(Tail(q)) = 0
    BY <1>5, EmptySeq
  <2>2. Len(q) \in Nat /\ Len(q) - 1 = 0
    BY <1>1, <2>1, Zenon
  <2>3. Len(q) = 1
    BY <2>2
  <2> QED BY <1>1, <1>5, <2>3 DEF EndsWith
<1> QED BY <1>1, <1>2, <1>3, <1>4, <1>5

LEMMA NewsOvertaken ==
    ASSUME NEW q \in Seq(Sends), NEW p \in PlaybackState, NEW r \in PlaybackState,
           SoundNews(q, p), r.epoch = p.epoch + 1
    PROVE  SoundNews(q, r)
<1> SUFFICES ASSUME NEW i \in 1..Len(q), q[i].type = "playback"
             PROVE  Behind(q[i].playback, r)
  BY DEF SoundNews
<1>1. q[i].playback \in PlaybackState
  BY ElementOfSeq DEF Sends
<1> QED BY <1>1, Overtakes DEF SoundNews

LEMMA OrdersOvertaken ==
    ASSUME NEW q \in Seq(Orders), NEW p \in PlaybackState, NEW r \in PlaybackState,
           SoundOrders(q, p), r.epoch = p.epoch + 1
    PROVE  SoundOrders(q, r)
<1> SUFFICES ASSUME NEW i \in 1..Len(q), q[i].basis # NoPlayback
             PROVE  Behind(q[i].basis, r)
  BY DEF SoundOrders
<1>1. q[i] \in Orders
  BY ElementOfSeq
<1>2. q[i].basis \in PlaybackState \cup {NoPlayback}
  BY <1>1 DEF Orders
<1> QED BY <1>2, Overtakes DEF SoundOrders

LEMMA OrderTaken ==
    ASSUME NEW q \in Seq(Orders), q # <<>>, NEW p, SoundOrders(q, p)
    PROVE  /\ Head(q) \in Orders /\ Tail(q) \in Seq(Orders)
           /\ WellMade(Head(q))
           /\ Head(q).basis # NoPlayback => Behind(Head(q).basis, p)
           /\ SoundOrders(Tail(q), p)
<1>1. /\ Head(q) \in Orders /\ Head(q) = q[1] /\ Tail(q) \in Seq(Orders)
      /\ Len(q) \in Nat \ {0} /\ Len(Tail(q)) = Len(q) - 1
      /\ \A i \in 1..Len(Tail(q)) : Tail(q)[i] = q[i + 1]
  BY HeadTailProperties, EmptySeq
<1>2. \A i \in 1..Len(Tail(q)) : i + 1 \in 1..Len(q) /\ Tail(q)[i] = q[i + 1]
  BY <1>1
<1>3. SoundOrders(Tail(q), p)
  BY <1>2 DEF SoundOrders
<1>4. 1 \in 1..Len(q)
  BY <1>1
<1> QED BY <1>1, <1>3, <1>4 DEF SoundOrders

LEMMA OrderAppended ==
    ASSUME NEW q \in Seq(Orders), NEW o \in Orders, NEW p, SoundOrders(q, p),
           WellMade(o), o.basis # NoPlayback => Behind(o.basis, p)
    PROVE  Append(q, o) \in Seq(Orders) /\ SoundOrders(Append(q, o), p)
<1> DEFINE a == Append(q, o)
<1>1. /\ a \in Seq(Orders) /\ Len(a) = Len(q) + 1 /\ Len(q) \in Nat
      /\ \A i \in 1..Len(q) : a[i] = q[i]
      /\ a[Len(q) + 1] = o
  BY AppendProperties, LenProperties
<1> HIDE DEF a
<1>2. SoundOrders(a, p)
  <2> SUFFICES ASSUME NEW i \in 1..Len(a)
               PROVE  /\ WellMade(a[i])
                      /\ a[i].basis # NoPlayback => Behind(a[i].basis, p)
    BY DEF SoundOrders
  <2>1. CASE i = Len(q) + 1
    BY <1>1, <2>1
  <2>2. CASE i \in 1..Len(q)
    BY <1>1, <2>2 DEF SoundOrders
  <2> QED BY <1>1, <2>1, <2>2
<1> QED BY <1>1, <1>2 DEF a

LEMMA OrdersCut ==
    ASSUME NEW q \in Seq(Orders), NEW p, SoundOrders(q, p), NEW n \in 0..Len(q)
    PROVE  SubSeq(q, 1, n) \in Seq(Orders) /\ SoundOrders(SubSeq(q, 1, n), p)
<1>1. Len(q) \in Nat /\ \A i \in 1..n : i \in 1..Len(q) /\ q[i] \in Orders
  BY LenProperties, ElementOfSeq
<1>2. /\ SubSeq(q, 1, n) \in Seq(Orders)
      /\ Len(SubSeq(q, 1, n)) = n
      /\ \A i \in 1..n : SubSeq(q, 1, n)[i] = q[i]
  BY <1>1, SubSeqProperties
<1> QED BY <1>1, <1>2 DEF SoundOrders

-----------------------------------------------------------------------------
(* Steps of one client *)

Same(n) ==
    /\ line'[n] = line[n] /\ seen'[n] = seen[n] /\ out'[n] = out[n]
    /\ leftover'[n] = leftover[n] /\ inbox'[n] = inbox[n]

LEMMA OneClientStep ==
    ASSUME ControlInv, NEW c \in Clients, ControlTypeOK', UNCHANGED playback,
           ClientInv(c)', \A n \in Clients \ {c} : Same(n)
    PROVE  ControlInv'
<1>1. ASSUME NEW n \in Clients \ {c}
      PROVE  ClientInv(n)'
  BY DEF ControlInv, Same, ClientInv, HearsState
<1> QED BY <1>1 DEF ControlInv

LEMMA ConnectStep ==
    ASSUME ControlInv, NEW c \in Clients, Connect(c)
    PROVE  ControlInv'
<1> DEFINE q == <<[type |-> "auth.ok"], State(playback)>>
<1>0. playback \in PlaybackState /\ [type |-> "auth.ok"] \in Sends
  BY DEF ControlInv, ControlTypeOK, Sends
<1>1. /\ q \in Seq(Sends) /\ Len(q) = 2 /\ q # <<>>
      /\ q[1].type = "auth.ok" /\ q[2] = State(playback)
  BY <1>0, StateIsNews
<1>2. SoundNews(q, playback) /\ EndsWith(q, playback)
  <2>1. q[2].type = "playback" => Behind(q[2].playback, playback)
    BY <1>0, <1>1, StateIsNews
  <2>2. q[1].type # "playback"
    BY <1>1
  <2> HIDE DEF q
  <2>3. \A i \in 1..Len(q) : i = 1 \/ i = 2
    BY <1>1
  <2> QED BY <1>1, <2>1, <2>2, <2>3 DEF SoundNews, EndsWith
<1>3. inbox' = [inbox EXCEPT ![c] = q] /\ line' = [line EXCEPT ![c] = "up"]
      /\ UNCHANGED <<clock, playback, seen, out, leftover, sent>>
  BY DEF Connect
<1> HIDE DEF q
<1>4. /\ inbox' \in [Clients -> Seq(Sends)] /\ inbox'[c] = q
      /\ line' \in [Clients -> {"down", "up", "ready"}] /\ line'[c] = "up"
      /\ \A n \in Clients \ {c} : inbox'[n] = inbox[n] /\ line'[n] = line[n]
  BY <1>1, <1>3 DEF ControlInv, ControlTypeOK
<1>5. ControlTypeOK'
  BY <1>3, <1>4 DEF ControlInv, ControlTypeOK
<1>6. ClientInv(c)'
  BY <1>1, <1>2, <1>3, <1>4 DEF ControlInv, ClientInv, HearsState
<1>7. \A n \in Clients \ {c} : Same(n)
  BY <1>3, <1>4 DEF Same
<1> QED BY <1>3, <1>5, <1>6, <1>7, OneClientStep

LEMMA BreakStep ==
    ASSUME ControlInv, NEW c \in Clients, Break(c)
    PROVE  ControlInv'
<1>0. out[c] \in Seq(Orders) /\ SoundOrders(out[c], playback)
  BY DEF ControlInv, ControlTypeOK, ClientInv
<1>1. PICK n \in 0..Len(out[c]) : leftover' = [leftover EXCEPT ![c] = SubSeq(out[c], 1, n)]
  BY DEF Break
<1> DEFINE q == SubSeq(out[c], 1, n)
<1>2. q \in Seq(Orders) /\ SoundOrders(q, playback)
  BY <1>0, OrdersCut
<1>3. /\ leftover' = [leftover EXCEPT ![c] = q] /\ out' = [out EXCEPT ![c] = <<>>]
      /\ inbox' = [inbox EXCEPT ![c] = <<>>] /\ line' = [line EXCEPT ![c] = "down"]
      /\ UNCHANGED <<clock, playback, seen, sent>>
  BY <1>1 DEF Break
<1> HIDE DEF q
<1>4. /\ leftover' \in [Clients -> Seq(Orders)] /\ leftover'[c] = q
      /\ out' \in [Clients -> Seq(Orders)] /\ out'[c] = <<>>
      /\ inbox' \in [Clients -> Seq(Sends)] /\ inbox'[c] = <<>>
      /\ line' \in [Clients -> {"down", "up", "ready"}] /\ line'[c] = "down"
  BY <1>2, <1>3, EmptySeq DEF ControlInv, ControlTypeOK
<1>5. \A m \in Clients \ {c} : Same(m)
  BY <1>3 DEF Same, ControlInv, ControlTypeOK
<1>6. ControlTypeOK'
  BY <1>3, <1>4 DEF ControlInv, ControlTypeOK
<1>7. ClientInv(c)'
  <2>1. SoundNews(<<>>, playback) /\ SoundOrders(<<>>, playback)
    BY EmptySeq DEF SoundNews, SoundOrders
  <2> QED BY <1>2, <1>3, <1>4, <2>1 DEF ControlInv, ClientInv, HearsState
<1> QED BY <1>3, <1>5, <1>6, <1>7, OneClientStep

LEMMA ReceiveStep ==
    ASSUME ControlInv, NEW c \in Clients, Receive(c)
    PROVE  ControlInv'
<1> DEFINE e == Head(inbox[c])
           q == Tail(inbox[c])
<1>0. /\ inbox[c] \in Seq(Sends) /\ inbox[c] # <<>> /\ SoundNews(inbox[c], playback)
      /\ ClientInv(c) /\ playback \in PlaybackState /\ line[c] \in {"down", "up", "ready"}
  BY DEF Receive, ControlInv, ControlTypeOK, ClientInv
<1>1. /\ e \in Sends /\ e = inbox[c][1] /\ q \in Seq(Sends) /\ SoundNews(q, playback)
      /\ e.type = "playback" => Behind(e.playback, playback)
      /\ EndsWith(inbox[c], playback) =>
            \/ q # <<>> /\ EndsWith(q, playback)
            \/ q = <<>> /\ e = State(playback)
  BY <1>0, NewsRead
<1>2. line[c] # "down" /\ EndsWith(inbox[c], playback)
  BY <1>0 DEF ClientInv, HearsState
<1>3. /\ inbox' = [inbox EXCEPT ![c] = q]
      /\ \/ /\ e.type = "auth.ok"
            /\ line' = [line EXCEPT ![c] = "ready"]
            /\ UNCHANGED seen
         \/ /\ e.type = "playback"
            /\ seen' = [seen EXCEPT ![c] = e.playback]
            /\ UNCHANGED line
      /\ UNCHANGED <<clock, playback, out, leftover, sent>>
  BY DEF Receive
<1>4. e.type = "playback" => e.playback \in PlaybackState
  BY <1>1 DEF Sends
<1>5. e = State(playback) => e.type = "playback" /\ e.playback = playback
  BY <1>0, StateIsNews
<1>6. line[c] = "up" => e.type = "auth.ok"
  BY <1>0, <1>1 DEF ClientInv, HearsState
<1> HIDE DEF e, q
<1>7. /\ inbox' \in [Clients -> Seq(Sends)] /\ inbox'[c] = q
      /\ \A n \in Clients \ {c} : inbox'[n] = inbox[n]
  BY <1>1, <1>3 DEF ControlInv, ControlTypeOK
<1>8. CASE e.type = "auth.ok"
  <2>1. /\ line' \in [Clients -> {"down", "up", "ready"}] /\ line'[c] = "ready"
        /\ \A n \in Clients \ {c} : line'[n] = line[n]
        /\ UNCHANGED seen
    BY <1>3, <1>8 DEF ControlInv, ControlTypeOK
  <2>2. ControlTypeOK'
    BY <1>3, <1>7, <2>1 DEF ControlInv, ControlTypeOK
  <2>3. EndsWith(q, playback)
    BY <1>1, <1>2, <1>5, <1>8
  <2>4. ClientInv(c)'
    BY <1>0, <1>1, <1>3, <1>7, <2>1, <2>3 DEF ClientInv, HearsState
  <2>5. \A n \in Clients \ {c} : Same(n)
    BY <1>3, <1>7, <2>1 DEF Same
  <2> QED BY <1>3, <2>2, <2>4, <2>5, OneClientStep
<1>9. CASE e.type = "playback"
  <2>1. /\ seen' \in [Clients -> PlaybackState \cup {NoPlayback}] /\ seen'[c] = e.playback
        /\ \A n \in Clients \ {c} : seen'[n] = seen[n]
        /\ UNCHANGED line
    BY <1>3, <1>4, <1>9 DEF ControlInv, ControlTypeOK
  <2>2. ControlTypeOK'
    BY <1>3, <1>7, <2>1 DEF ControlInv, ControlTypeOK
  <2>3. line[c] = "ready"
    BY <1>0, <1>2, <1>6, <1>9
  <2>4. EndsWith(q, playback) \/ (q = <<>> /\ e.playback = playback)
    BY <1>1, <1>2, <1>5
  <2>5. ClientInv(c)'
    BY <1>0, <1>1, <1>3, <1>7, <1>9, <2>1, <2>3, <2>4 DEF ClientInv, HearsState
  <2>6. \A n \in Clients \ {c} : Same(n)
    BY <1>3, <1>7, <2>1 DEF Same
  <2> QED BY <1>3, <2>2, <2>5, <2>6, OneClientStep
<1> QED BY <1>3, <1>8, <1>9

LEMMA SendPlaybackStep ==
    ASSUME ControlInv, NEW c \in Clients, NEW type \in CommandTypes,
           NEW t \in Tracks \cup {NoTrack}, NEW pos \in Nat \cup {NoPosition},
           NEW autoplay \in BOOLEAN,
           type \in {"playback.select", "playback.seek"} => pos # NoPosition,
           SendPlayback(c, type, t, pos, autoplay)
    PROVE  ControlInv'
<1> DEFINE expected == IF seen[c] = NoPlayback THEN 0 ELSE seen[c].epoch
           cmd == [type |-> type, trackId |-> t, positionMs |-> pos,
                   autoplay |-> autoplay, expectedEpoch |-> expected]
           o == [cmd |-> cmd, basis |-> seen[c]]
<1>0. /\ seen[c] \in PlaybackState \cup {NoPlayback}
      /\ out[c] \in Seq(Orders) /\ ClientInv(c)
  BY DEF ControlInv, ControlTypeOK
<1>1. expected \in Nat
  BY <1>0, NoPlaybackIsNoState
<1>2. /\ out' = [out EXCEPT ![c] = Append(@, o)] /\ line[c] = "ready"
      /\ sent < MaxCommands /\ sent' = sent + 1
      /\ UNCHANGED <<clock, playback, line, seen, leftover, inbox>>
  BY DEF SendPlayback
<1>3. /\ o.basis = seen[c] /\ o.cmd.expectedEpoch = expected /\ o.cmd.type = type
      /\ o.cmd.positionMs = pos
  OBVIOUS
<1>4. WellMade(o)
  BY <1>3 DEF WellMade
<1> HIDE DEF expected
<1>5. cmd \in Command
  BY <1>1 DEF Command
<1> HIDE DEF cmd
<1>6. o \in Orders
  BY <1>0, <1>5 DEF Orders
<1> HIDE DEF o
<1>7. Append(out[c], o) \in Seq(Orders) /\ SoundOrders(Append(out[c], o), playback)
  BY <1>0, <1>3, <1>4, <1>6, OrderAppended DEF ClientInv
<1>8. /\ out' \in [Clients -> Seq(Orders)] /\ out'[c] = Append(out[c], o)
      /\ \A n \in Clients \ {c} : out'[n] = out[n]
  BY <1>2, <1>7 DEF ControlInv, ControlTypeOK
<1>9. sent' \in 0 .. MaxCommands
  BY <1>2, ControlAssumption DEF ControlInv, ControlTypeOK
<1>10. ControlTypeOK'
  BY <1>2, <1>8, <1>9 DEF ControlInv, ControlTypeOK
<1>11. ClientInv(c)'
  BY <1>0, <1>2, <1>7, <1>8 DEF ClientInv, HearsState
<1>12. \A n \in Clients \ {c} : Same(n)
  BY <1>2, <1>8 DEF Same
<1> QED BY <1>2, <1>10, <1>11, <1>12, OneClientStep

LEMMA PressStep ==
    ASSUME ControlInv, NEW c \in Clients, Press(c)
    PROVE  ControlInv'
<1>0. NoPosition = -1 /\ 0 \in Nat \cup {NoPosition} /\ NoTrack \in Tracks \cup {NoTrack}
  BY DEF NoPosition
<1>1. ASSUME NEW t \in Tracks, PressSelect(c, t)
      PROVE  ControlInv'
  <2>1. SendPlayback(c, "playback.select", t, 0, TRUE)
    BY <1>1 DEF PressSelect
  <2>2. /\ "playback.select" \in CommandTypes /\ t \in Tracks \cup {NoTrack}
        /\ 0 # NoPosition /\ TRUE \in BOOLEAN
    BY <1>0 DEF CommandTypes
  <2> QED BY <1>0, <2>1, <2>2, SendPlaybackStep
<1>2. ASSUME PressPlay(c) PROVE ControlInv'
  <2>1. SendPlayback(c, "playback.play", NoTrack, NoPosition, FALSE)
    BY <1>2 DEF PressPlay
  <2> QED BY <1>0, <2>1, SendPlaybackStep DEF CommandTypes
<1>3. ASSUME PressPause(c) PROVE ControlInv'
  <2>1. SendPlayback(c, "playback.pause", NoTrack, NoPosition, FALSE)
    BY <1>3 DEF PressPause
  <2> QED BY <1>0, <2>1, SendPlaybackStep DEF CommandTypes
<1>4. ASSUME PressClear(c) PROVE ControlInv'
  <2>1. SendPlayback(c, "playback.clear", NoTrack, NoPosition, FALSE)
    BY <1>4 DEF PressClear
  <2> QED BY <1>0, <2>1, SendPlaybackStep DEF CommandTypes
<1>5. ASSUME NEW by \in {-1, 1}, PressSeek(c, by)
      PROVE  ControlInv'
  <2> DEFINE pos == AtLeastZero(PlaybackTargetMs(seen[c], clock) + by)
  <2>1. SendPlayback(c, "playback.seek", NoTrack, pos, FALSE)
    BY <1>5 DEF PressSeek
  <2>2. seen[c] \in PlaybackState /\ clock \in Nat
    BY <1>5, ControlAssumption DEF PressSeek, Showing, ControlInv, ControlTypeOK
  <2>3. pos \in Nat
    <3>1. PlaybackTargetMs(seen[c], clock) \in Nat
      BY <2>2, EffectiveIsNat DEF PlaybackTargetMs
    <3> QED BY <3>1 DEF AtLeastZero
  <2> HIDE DEF pos
  <2>4. pos \in Nat \cup {NoPosition} /\ pos # NoPosition
    BY <1>0, <2>3
  <2> QED BY <1>0, <2>1, <2>4, SendPlaybackStep DEF CommandTypes
<1> QED BY <1>1, <1>2, <1>3, <1>4, <1>5 DEF Press

-----------------------------------------------------------------------------
(* Steps of the server *)

\* What a broadcast of the state leaves in every inbox.
WellAnnounced ==
    /\ inbox' \in [Clients -> Seq(Sends)]
    /\ \A n \in Clients :
          /\ line[n] = "down" => inbox'[n] = inbox[n]
          /\ line[n] # "down" => /\ EndsWith(inbox'[n], playback')
                                 /\ inbox[n] # <<>> => inbox'[n][1] = inbox[n][1]
          /\ SoundNews(inbox'[n], playback')

LEMMA AnnouncedWell ==
    ASSUME ControlInv, playback' \in PlaybackState,
           \A n \in Clients : SoundNews(inbox[n], playback'), inbox' = Announced(playback')
    PROVE  WellAnnounced
<1>1. ASSUME NEW n \in Clients
      PROVE  /\ inbox'[n] \in Seq(Sends)
             /\ line[n] = "down" => inbox'[n] = inbox[n]
             /\ line[n] # "down" => /\ EndsWith(inbox'[n], playback')
                                    /\ inbox[n] # <<>> => inbox'[n][1] = inbox[n][1]
             /\ SoundNews(inbox'[n], playback')
  <2>1. inbox[n] \in Seq(Sends)
    BY DEF ControlInv, ControlTypeOK
  <2>2. CASE line[n] = "down"
    <3>1. inbox'[n] = inbox[n]
      BY <2>2 DEF Announced
    <3> QED BY <2>1, <2>2, <3>1
  <2>3. CASE line[n] # "down"
    <3>1. inbox'[n] = Append(inbox[n], State(playback'))
      BY <2>3 DEF Announced
    <3> QED BY <2>1, <2>3, <3>1, NewsAppended
  <2> QED BY <2>2, <2>3
<1>2. inbox' \in [Clients -> Seq(Sends)]
  <2>1. inbox' = [n \in Clients |-> inbox'[n]]
    BY DEF Announced
  <2> QED BY <1>1, <2>1
<1> QED BY <1>1, <1>2 DEF WellAnnounced

\* A command that is taken makes a state of the next epoch, which is announced
\* and which overtakes whatever the clients have seen, sent or not yet heard.
LEMMA TakeWell ==
    ASSUME ControlInv, NEW c \in Controllers, NEW msg \in Command, Accepted(playback, msg),
           playback' = ApplyPlaybackCommand(playback, msg, c, clock),
           inbox' = Announced(playback')
    PROVE  /\ playback' \in PlaybackState /\ playback'.epoch = playback.epoch + 1
           /\ WellAnnounced
           /\ \A n \in Clients :
                 /\ seen[n] # NoPlayback => Behind(seen[n], playback')
                 /\ SoundOrders(out[n], playback') /\ SoundOrders(leftover[n], playback')
<1>1. playback \in PlaybackState /\ clock \in Nat
  BY ControlAssumption DEF ControlInv, ControlTypeOK
<1>2. playback' \in PlaybackState /\ playback'.epoch = playback.epoch + 1
  BY <1>1, ApplyWell
<1>3. ASSUME NEW n \in Clients
      PROVE  /\ SoundNews(inbox[n], playback')
             /\ seen[n] # NoPlayback => Behind(seen[n], playback')
             /\ SoundOrders(out[n], playback') /\ SoundOrders(leftover[n], playback')
  <2>1. /\ inbox[n] \in Seq(Sends) /\ seen[n] \in PlaybackState \cup {NoPlayback}
        /\ out[n] \in Seq(Orders) /\ leftover[n] \in Seq(Orders) /\ ClientInv(n)
    BY DEF ControlInv, ControlTypeOK
  <2>2. SoundNews(inbox[n], playback')
    BY <1>1, <1>2, <2>1, NewsOvertaken DEF ClientInv
  <2>3. seen[n] # NoPlayback => Behind(seen[n], playback')
    BY <1>1, <1>2, <2>1, Overtakes DEF ClientInv
  <2>4. SoundOrders(out[n], playback') /\ SoundOrders(leftover[n], playback')
    BY <1>1, <1>2, <2>1, OrdersOvertaken DEF ClientInv
  <2> QED BY <2>2, <2>3, <2>4
<1>4. WellAnnounced
  BY <1>2, <1>3, AnnouncedWell
<1> QED BY <1>2, <1>3, <1>4

LEMMA SyncStep ==
    ASSUME ControlInv, PlaybackSync
    PROVE  ControlInv'
<1>1. /\ playback' = playback /\ inbox' = Announced(playback')
      /\ UNCHANGED <<clock, line, seen, out, leftover, sent>>
  BY DEF PlaybackSync
<1>2. WellAnnounced
  BY <1>1, AnnouncedWell DEF ControlInv, ControlTypeOK, ClientInv
<1>3. ControlTypeOK'
  BY <1>1, <1>2 DEF ControlInv, ControlTypeOK, WellAnnounced
<1>4. ASSUME NEW n \in Clients
      PROVE  ClientInv(n)'
  <2>1. line[n] = "up" => inbox[n] # <<>>
    BY DEF ControlInv, ClientInv, HearsState, EndsWith
  <2> QED BY <1>1, <1>2, <2>1 DEF ControlInv, ControlTypeOK, ClientInv, HearsState, WellAnnounced
<1> QED BY <1>3, <1>4 DEF ControlInv

\* What the server makes of the first command of a queue, whichever queue it is.
WellAnswered ==
    /\ playback' \in PlaybackState
    /\ inbox' \in [Clients -> Seq(Sends)]
    /\ \A n \in Clients :
          /\ seen[n] # NoPlayback => Behind(seen[n], playback')
          /\ SoundOrders(out[n], playback') /\ SoundOrders(leftover[n], playback')
          /\ SoundNews(inbox'[n], playback')
          /\ line[n] = "down" => inbox'[n] = inbox[n]
          /\ line[n] = "up" => EndsWith(inbox'[n], playback') /\ inbox'[n][1].type = "auth.ok"
          /\ line[n] = "ready" =>
                \/ EndsWith(inbox'[n], playback')
                \/ inbox'[n] = <<>> /\ seen[n] = playback'

LEMMA TakeAnswers ==
    ASSUME ControlInv, NEW c \in Controllers, NEW msg \in Command, Accepted(playback, msg),
           playback' = ApplyPlaybackCommand(playback, msg, c, clock),
           inbox' = Announced(playback')
    PROVE  WellAnswered
<1>1. /\ playback' \in PlaybackState /\ WellAnnounced
      /\ \A n \in Clients :
            /\ seen[n] # NoPlayback => Behind(seen[n], playback')
            /\ SoundOrders(out[n], playback') /\ SoundOrders(leftover[n], playback')
  BY TakeWell
<1>2. \A n \in Clients :
         line[n] = "up" => inbox[n] # <<>> /\ inbox[n][1].type = "auth.ok"
  BY DEF ControlInv, ClientInv, HearsState, EndsWith
<1> QED BY <1>1, <1>2 DEF WellAnnounced, WellAnswered

LEMMA RejectAnswers ==
    ASSUME ControlInv, NEW c \in Clients, UNCHANGED playback,
           \/ UNCHANGED inbox
           \/ line[c] # "down" /\ inbox' = [inbox EXCEPT ![c] = Append(@, State(playback))]
    PROVE  WellAnswered
<1>1. CASE UNCHANGED inbox
  BY <1>1 DEF ControlInv, ControlTypeOK, ClientInv, HearsState, WellAnswered
<1>2. CASE line[c] # "down" /\ inbox' = [inbox EXCEPT ![c] = Append(@, State(playback))]
  <2> DEFINE q == Append(inbox[c], State(playback))
  <2>1. /\ q \in Seq(Sends) /\ SoundNews(q, playback) /\ EndsWith(q, playback)
        /\ inbox[c] # <<>> => q[1] = inbox[c][1]
    BY NewsAppended DEF ControlInv, ControlTypeOK, ClientInv
  <2>2. inbox' = [inbox EXCEPT ![c] = q]
    BY <1>2
  <2> HIDE DEF q
  <2>3. /\ inbox' \in [Clients -> Seq(Sends)] /\ inbox'[c] = q
        /\ \A n \in Clients \ {c} : inbox'[n] = inbox[n]
    BY <2>1, <2>2 DEF ControlInv, ControlTypeOK
  <2>4. ASSUME NEW n \in Clients
        PROVE  /\ SoundNews(inbox'[n], playback)
               /\ line[n] = "down" => inbox'[n] = inbox[n]
               /\ line[n] = "up" => /\ EndsWith(inbox'[n], playback)
                                    /\ inbox'[n][1].type = "auth.ok"
               /\ line[n] = "ready" =>
                     \/ EndsWith(inbox'[n], playback)
                     \/ inbox'[n] = <<>> /\ seen[n] = playback
    <3>1. CASE n = c
      BY <1>2, <2>1, <2>3, <3>1 DEF ControlInv, ClientInv, HearsState, EndsWith
    <3>2. CASE n # c
      BY <2>3, <3>2 DEF ControlInv, ClientInv, HearsState
    <3> QED BY <3>1, <3>2
  <2> QED BY <2>3, <2>4 DEF ControlInv, ControlTypeOK, ClientInv, WellAnswered
<1> QED BY <1>1, <1>2

LEMMA PlaybackCommandStep ==
    ASSUME ControlInv, NEW c \in Clients, PlaybackCommand(c)
    PROVE  ControlInv'
<1>1. out[c] # <<>> /\ out[c] \in Seq(Orders) /\ SoundOrders(out[c], playback) /\ line[c] # "down"
  BY DEF PlaybackCommand, Take, Reject, ControlInv, ControlTypeOK, ClientInv, HearsState
<1>2. Head(out[c]) \in Orders /\ Head(out[c]).cmd \in Command /\ Tail(out[c]) \in Seq(Orders)
  BY <1>1, OrderTaken DEF Orders
<1>3. WellAnswered
  <2>1. CASE Take(c, out)
    BY <1>2, <2>1, TakeAnswers DEF Take
  <2>2. CASE Reject(c, out, TRUE)
    BY <1>1, <2>2, RejectAnswers DEF Reject
  <2> QED BY <2>1, <2>2 DEF PlaybackCommand
<1>4. /\ out' = [out EXCEPT ![c] = Tail(@)]
      /\ UNCHANGED <<clock, line, seen, leftover, sent>>
  BY DEF PlaybackCommand
<1>5. /\ out' \in [Clients -> Seq(Orders)] /\ out'[c] = Tail(out[c])
      /\ \A n \in Clients \ {c} : out'[n] = out[n]
  BY <1>2, <1>4 DEF ControlInv, ControlTypeOK
<1>6. ControlTypeOK'
  BY <1>3, <1>4, <1>5 DEF ControlInv, ControlTypeOK, WellAnswered
<1>7. \A n \in Clients : SoundOrders(out'[n], playback')
  <2>1. SoundOrders(out'[c], playback')
    BY <1>1, <1>3, <1>5, OrderTaken DEF WellAnswered
  <2> QED BY <1>3, <1>5, <2>1 DEF WellAnswered
<1>8. \A n \in Clients : line[n] = "down" => out'[n] = <<>> /\ inbox[n] = <<>>
  BY <1>1, <1>5 DEF ControlInv, ClientInv, HearsState
<1>9. ASSUME NEW n \in Clients
      PROVE  ClientInv(n)'
  BY <1>3, <1>4, <1>7, <1>8 DEF WellAnswered, ClientInv, HearsState
<1> QED BY <1>6, <1>9 DEF ControlInv

LEMMA LateCommandStep ==
    ASSUME ControlInv, NEW c \in Clients, LateCommand(c)
    PROVE  ControlInv'
<1>1. leftover[c] # <<>> /\ leftover[c] \in Seq(Orders) /\ SoundOrders(leftover[c], playback)
  BY DEF LateCommand, Take, Reject, ControlInv, ControlTypeOK, ClientInv
<1>2. /\ Head(leftover[c]) \in Orders /\ Head(leftover[c]).cmd \in Command
      /\ Tail(leftover[c]) \in Seq(Orders)
  BY <1>1, OrderTaken DEF Orders
<1>3. WellAnswered
  <2>1. CASE Take(c, leftover)
    BY <1>2, <2>1, TakeAnswers DEF Take
  <2>2. CASE Reject(c, leftover, FALSE)
    BY <2>2, RejectAnswers DEF Reject
  <2> QED BY <2>1, <2>2 DEF LateCommand
<1>4. /\ leftover' = [leftover EXCEPT ![c] = Tail(@)]
      /\ UNCHANGED <<clock, line, seen, out, sent>>
  BY DEF LateCommand
<1>5. /\ leftover' \in [Clients -> Seq(Orders)] /\ leftover'[c] = Tail(leftover[c])
      /\ \A n \in Clients \ {c} : leftover'[n] = leftover[n]
  BY <1>2, <1>4 DEF ControlInv, ControlTypeOK
<1>6. ControlTypeOK'
  BY <1>3, <1>4, <1>5 DEF ControlInv, ControlTypeOK, WellAnswered
<1>7. \A n \in Clients : SoundOrders(leftover'[n], playback')
  <2>1. SoundOrders(leftover'[c], playback')
    BY <1>1, <1>3, <1>5, OrderTaken DEF WellAnswered
  <2> QED BY <1>3, <1>5, <2>1 DEF WellAnswered
<1>8. \A n \in Clients : line[n] = "down" => out[n] = <<>> /\ inbox[n] = <<>>
  BY DEF ControlInv, ClientInv, HearsState
<1>9. ASSUME NEW n \in Clients
      PROVE  ClientInv(n)'
  BY <1>3, <1>4, <1>7, <1>8 DEF WellAnswered, ClientInv, HearsState
<1> QED BY <1>6, <1>9 DEF ControlInv

LEMMA TickStep ==
    ASSUME ControlInv, Tick
    PROVE  ControlInv'
<1>1. ControlTypeOK'
  BY ControlAssumption DEF Tick, ControlInv, ControlTypeOK
<1> QED BY <1>1 DEF Tick, ControlInv, ClientInv, HearsState

-----------------------------------------------------------------------------
(* The invariant *)

LEMMA ControlInitially == ControlInit => ControlInv
<1> SUFFICES ASSUME ControlInit PROVE ControlInv
  OBVIOUS
<1>1. playback \in PlaybackState
  BY DEF ControlInit, CreatePlaybackState, PlaybackState, Statuses
<1>2. ControlTypeOK
  BY <1>1, EmptySeq, ControlAssumption DEF ControlInit, ControlTypeOK
<1>3. ASSUME NEW c \in Clients
      PROVE  ClientInv(c)
  <2>1. /\ seen[c] = NoPlayback /\ line[c] = "down"
        /\ out[c] = <<>> /\ leftover[c] = <<>> /\ inbox[c] = <<>>
    BY DEF ControlInit
  <2>2. SoundNews(<<>>, playback) /\ SoundOrders(<<>>, playback)
    BY EmptySeq DEF SoundNews, SoundOrders
  <2> QED BY <2>1, <2>2 DEF ClientInv, HearsState
<1> QED BY <1>2, <1>3 DEF ControlInv

LEMMA ControlStep == ControlInv /\ [ControlNext]_controlVars => ControlInv'
<1> SUFFICES ASSUME ControlInv, [ControlNext]_controlVars PROVE ControlInv'
  OBVIOUS
<1>1. ASSUME NEW c \in Clients,
             \/ Connect(c) \/ Break(c) \/ Receive(c) \/ Press(c)
             \/ PlaybackCommand(c) \/ LateCommand(c)
      PROVE  ControlInv'
  BY <1>1, ConnectStep, BreakStep, ReceiveStep, PressStep, PlaybackCommandStep, LateCommandStep
<1>2. CASE PlaybackSync
  BY <1>2, SyncStep
<1>3. CASE Tick
  BY <1>3, TickStep
<1>4. CASE UNCHANGED controlVars
  BY <1>4 DEF controlVars, ControlInv, ControlTypeOK, ClientInv, HearsState
<1> QED BY <1>1, <1>2, <1>3, <1>4 DEF ControlNext

\* The state of the room changes only by a command of a controller, which is
\* accepted and applied as it stands at the head of one of its queues.
LEMMA WhoWrites ==
    ASSUME ControlInv, [ControlNext]_controlVars, playback' # playback
    PROVE  \E c \in Controllers, q \in {out, leftover} :
              /\ q[c] # <<>> /\ Head(q[c]) \in Orders /\ WellMade(Head(q[c]))
              /\ Head(q[c]).basis # NoPlayback => Behind(Head(q[c]).basis, playback)
              /\ Accepted(playback, Head(q[c]).cmd)
              /\ playback' = ApplyPlaybackCommand(playback, Head(q[c]).cmd, c, clock)
<1>1. PICK c \in Clients : Take(c, out) \/ Take(c, leftover)
  <2>1. ASSUME NEW c \in Clients, Press(c)
        PROVE  UNCHANGED playback
    BY <2>1 DEF Press, PressSelect, PressPlay, PressPause, PressClear, PressSeek, SendPlayback
  <2>2. ~UNCHANGED controlVars /\ ~Tick /\ ~PlaybackSync
    BY DEF controlVars, Tick, PlaybackSync
  <2>3. \A c \in Clients : ~Connect(c) /\ ~Break(c) /\ ~Receive(c)
    BY DEF Connect, Break, Receive
  <2>4. PICK c \in Clients : PlaybackCommand(c) \/ LateCommand(c)
    BY <2>1, <2>2, <2>3 DEF ControlNext
  <2> QED BY <2>4 DEF PlaybackCommand, LateCommand, Reject
<1>2. /\ out[c] \in Seq(Orders) /\ leftover[c] \in Seq(Orders)
      /\ SoundOrders(out[c], playback) /\ SoundOrders(leftover[c], playback)
  BY DEF ControlInv, ControlTypeOK, ClientInv
<1>3. CASE Take(c, out)
  <2>1. /\ c \in Controllers /\ out[c] # <<>> /\ Accepted(playback, Head(out[c]).cmd)
        /\ playback' = ApplyPlaybackCommand(playback, Head(out[c]).cmd, c, clock)
    BY <1>3 DEF Take
  <2>2. /\ Head(out[c]) \in Orders /\ WellMade(Head(out[c]))
        /\ Head(out[c]).basis # NoPlayback => Behind(Head(out[c]).basis, playback)
    BY <1>2, <2>1, OrderTaken
  <2> QED BY <2>1, <2>2
<1>4. CASE Take(c, leftover)
  <2>1. /\ c \in Controllers /\ leftover[c] # <<>> /\ Accepted(playback, Head(leftover[c]).cmd)
        /\ playback' = ApplyPlaybackCommand(playback, Head(leftover[c]).cmd, c, clock)
    BY <1>4 DEF Take
  <2>2. /\ Head(leftover[c]) \in Orders /\ WellMade(Head(leftover[c]))
        /\ Head(leftover[c]).basis # NoPlayback => Behind(Head(leftover[c]).basis, playback)
    BY <1>2, <2>1, OrderTaken
  <2> QED BY <2>1, <2>2
<1> QED BY <1>1, <1>3, <1>4

\* Types, epochs and queues hold together through breaks, reconnects, commands
\* left over and refusals.
THEOREM ControlInvariance == ControlSpec => []ControlInv
BY ControlInitially, ControlStep, PTL DEF ControlSpec

\* The state of the room, what the clients have seen of it, and the messages and
\* commands in transit have their types.
THEOREM ControlTypeCorrect == ControlSpec => []ControlTypeOK
<1>1. ControlInv => ControlTypeOK
  BY DEF ControlInv
<1> QED BY <1>1, ControlInvariance, PTL

\* checkEpoch() may compare epochs alone: two states that clients of a room get
\* to see with the epoch of the room are the state of the room.
THEOREM EpochIdentifies == ControlSpec => []EpochIdentifiesState
<1>1. ControlInv => EpochIdentifiesState
  <2> SUFFICES ASSUME ControlInv, NEW c \in Clients, NEW p \in Known(c)
               PROVE  Behind(p, playback)
    BY DEF EpochIdentifiesState, Behind
  <2>1. CASE p \in InFlight(c)
    <3>1. DOMAIN inbox[c] = 1..Len(inbox[c])
      BY LenProperties DEF ControlInv, ControlTypeOK
    <3>2. PICK i \in 1..Len(inbox[c]) : inbox[c][i].type = "playback" /\ p = inbox[c][i].playback
      BY <2>1, <3>1 DEF InFlight
    <3> QED BY <3>2 DEF ControlInv, ClientInv, SoundNews
  <2>2. CASE p = seen[c] /\ p # NoPlayback
    BY <2>2 DEF ControlInv, ClientInv
  <2> QED BY <2>1, <2>2 DEF Known
<1> QED BY <1>1, ControlInvariance, PTL

\* A client whose socket is ready and who has heard everything shows the state
\* of the room: refusals, hints and reconnects never leave an older one.
THEOREM ClientsCatchUp == ControlSpec => []CaughtUp
<1>1. ControlInv => CaughtUp
  BY DEF CaughtUp, ControlInv, ClientInv, HearsState, EndsWith
<1> QED BY <1>1, ControlInvariance, PTL

\* A command takes effect only over the state its sender was looking at, however
\* late it comes and on whichever socket.
THEOREM WritesAreInformed == ControlSpec => NoBlindWrite
<1>1. ASSUME ControlInv, [ControlNext]_controlVars, playback' # playback
      PROVE  \E c \in Controllers, q \in {out, leftover} :
                /\ q[c] # <<>>
                /\ \/ Head(q[c]).basis = playback
                   \/ Head(q[c]).basis = NoPlayback /\ playback.epoch = 0
  <2>1. PICK c \in Controllers, q \in {out, leftover} :
              /\ q[c] # <<>> /\ Head(q[c]) \in Orders /\ WellMade(Head(q[c]))
              /\ Head(q[c]).basis # NoPlayback => Behind(Head(q[c]).basis, playback)
              /\ Accepted(playback, Head(q[c]).cmd)
    BY <1>1, WhoWrites
  <2> DEFINE o == Head(q[c])
  <2>2. /\ o \in Orders /\ WellMade(o) /\ EpochMatches(playback, o.cmd)
        /\ o.basis # NoPlayback => Behind(o.basis, playback)
    BY <2>1 DEF Accepted
  <2> HIDE DEF o
  <2>3. o.basis = NoPlayback => o.cmd.expectedEpoch = 0
    BY <2>2 DEF WellMade
  <2>4. o.basis # NoPlayback => o.cmd.expectedEpoch = o.basis.epoch /\ o.basis.epoch \in Nat
    BY <2>2, NoPlaybackIsNoState DEF WellMade, Orders
  <2>5. o.cmd.expectedEpoch = playback.epoch
    BY <2>2, <2>3, <2>4 DEF EpochMatches, NoEpoch
  <2>6. o.basis = playback \/ (o.basis = NoPlayback /\ playback.epoch = 0)
    BY <2>2, <2>3, <2>4, <2>5 DEF Behind
  <2> QED BY <2>1, <2>6 DEF o
<1>2. ControlInv /\ [ControlNext]_controlVars =>
        [playback' # playback => \E c \in Controllers, q \in {out, leftover} :
            /\ q[c] # <<>>
            /\ \/ Head(q[c]).basis = playback
               \/ Head(q[c]).basis = NoPlayback /\ playback.epoch = 0]_controlVars
  BY <1>1
<1> QED BY <1>2, ControlInvariance, PTL DEF ControlSpec, NoBlindWrite

\* A command without a position that leaves the track alone starts where the
\* music was.
LEMMA KeepsPlace ==
    ASSUME NEW p \in PlaybackState, NEW msg \in Command, Accepted(p, msg), NEW c, NEW now \in Nat,
           msg.positionMs = NoPosition, msg.type \notin {"playback.select", "playback.seek"},
           ApplyPlaybackCommand(p, msg, c, now).trackId = p.trackId
    PROVE  EffectivePositionMs(ApplyPlaybackCommand(p, msg, c, now), now)
             = EffectivePositionMs(p, now)
<1> DEFINE r == ApplyPlaybackCommand(p, msg, c, now)
<1>1. /\ r.trackId = p.trackId /\ r.trackId = TrackAfter(p, msg)
      /\ r.positionMs = PositionAfter(p, msg, now) /\ r.anchorServerMs = now
  BY DEF ApplyPlaybackCommand
<1> SUFFICES EffectivePositionMs(r, now) = EffectivePositionMs(p, now)
  OBVIOUS
<1> HIDE DEF r
<1>2. CASE msg.type = "playback.clear"
  <2>1. p.trackId = NoTrack
    BY <1>1, <1>2 DEF TrackAfter
  <2> QED BY <1>1, <2>1 DEF EffectivePositionMs
<1>3. CASE msg.type \in {"playback.play", "playback.pause"}
  <2>1. p.trackId # NoTrack
    BY <1>3 DEF Accepted
  <2>2. r.positionMs = EffectivePositionMs(p, now)
    BY <1>1, <1>3 DEF PositionAfter
  <2>3. r.positionMs \in Nat /\ AtLeastZero(now - r.anchorServerMs) = 0
    BY <1>1, <2>2, EffectiveIsNat DEF AtLeastZero
  <2>4. EffectivePositionMs(r, now) = r.positionMs
    BY <1>1, <2>1, <2>3 DEF EffectivePositionMs
  <2> QED BY <2>2, <2>4
<1>4. msg.type \in CommandTypes
  BY DEF Command
<1> QED BY <1>2, <1>3, <1>4 DEF CommandTypes

\* Play, pause and the periodic hint never move the position every listener
\* projects: applyPlaybackCommand() anchors the effective one.
THEOREM PlaceIsKept == ControlSpec => NoJump
<1>1. ASSUME ControlInv, [ControlNext]_controlVars,
             playback'.trackId = playback.trackId, playback'.epoch > playback.epoch,
             \A c \in Controllers : \A q \in {out, leftover} :
                q[c] # <<>> => Head(q[c]).cmd.positionMs = NoPosition
      PROVE  EffectivePositionMs(playback', clock) = EffectivePositionMs(playback, clock)
  <2>1. playback \in PlaybackState /\ clock \in Nat
    BY <1>1, ControlAssumption DEF ControlInv, ControlTypeOK
  <2>2. playback' # playback
    BY <1>1, <2>1, NoPlaybackIsNoState
  <2>3. PICK c \in Controllers, q \in {out, leftover} :
              /\ q[c] # <<>> /\ Head(q[c]) \in Orders /\ WellMade(Head(q[c]))
              /\ Accepted(playback, Head(q[c]).cmd)
              /\ playback' = ApplyPlaybackCommand(playback, Head(q[c]).cmd, c, clock)
    BY <1>1, <2>2, WhoWrites
  <2> DEFINE msg == Head(q[c]).cmd
  <2>4. /\ msg \in Command /\ Accepted(playback, msg) /\ msg.positionMs = NoPosition
        /\ playback' = ApplyPlaybackCommand(playback, msg, c, clock)
        /\ msg.type \notin {"playback.select", "playback.seek"}
    BY <1>1, <2>3 DEF Orders, WellMade
  <2> HIDE DEF msg
  <2> QED BY <1>1, <2>1, <2>4, KeepsPlace
<1>2. ControlInv /\ [ControlNext]_controlVars =>
        [/\ playback'.trackId = playback.trackId
         /\ playback'.epoch > playback.epoch
         /\ \A c \in Controllers : \A q \in {out, leftover} :
               q[c] # <<>> => Head(q[c]).cmd.positionMs = NoPosition
         => EffectivePositionMs(playback', clock) = EffectivePositionMs(playback, clock)]_controlVars
  BY <1>1
<1> QED BY <1>2, ControlInvariance, PTL DEF ControlSpec, NoJump

=============================================================================
