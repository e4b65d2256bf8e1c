--------------------------- MODULE TalkFloorProofs ---------------------------
(***************************************************************************)
(* Proofs about TalkFloor for every number of riders, frames in transit and *)
(* breaks.  TalkInv is the inductive invariant: the types, the rule of the  *)
(* microphone, and what the frames on their way to a rider say of the floor. *)
(***************************************************************************)
EXTENDS TalkFloor, SequenceTheorems, TLAPS

-----------------------------------------------------------------------------
(* The inductive invariant *)

CarriesFloor(e) == e.type \in {"voice.joined", "voice.floor", "voice.floor.denied"}

\* No broadcast of the floor is in q.
Quiet(q) == \A i \in 1..Len(q) : q[i].type # "voice.floor"

\* A frame of q that names the holder, and that no broadcast follows, names h.
TellsLast(q, h) ==
    \A i \in 1..Len(q) :
        CarriesFloor(q[i]) /\ (\A j \in i+1..Len(q) : q[j].type # "voice.floor")
            => q[i].holder = h

\* On a live socket a joined client is about to hear of the floor, or knows it.
Informed(m) ==
    link[m] = "on" =>
        /\ TellsLast(down[m], floor)
        /\ client[m].joined /\ Quiet(down[m]) => client[m].floorMember = floor

\* A client without a socket is not joined.
OutWhenGone(m) == link[m] \in {"ghost", "off"} => ~client[m].joined

MicHeld(m, k) == k.mic => k.joined /\ k.floorMember = m /\ k.pressActive

TalkInv ==
    /\ TypeOK
    /\ \A m \in Riders : Informed(m) /\ OutWhenGone(m) /\ MicHeld(m, client[m])

-----------------------------------------------------------------------------
(* Frames on their way to a client *)

LEMMA AnswerTells ==
    ASSUME NEW q \in Seq(Replies), NEW e \in Replies, NEW h,
           TellsLast(q, h), CarriesFloor(e) => e.holder = h
    PROVE  TellsLast(Append(q, e), h)
<1> SUFFICES ASSUME NEW i \in 1..Len(Append(q, e)), CarriesFloor(Append(q, e)[i]),
                    \A j \in i+1..Len(Append(q, e)) : Append(q, e)[j].type # "voice.floor"
             PROVE  Append(q, e)[i].holder = h
  BY DEF TellsLast
<1>1. Len(q) \in Nat /\ Len(Append(q, e)) = Len(q) + 1
  BY LenProperties, AppendProperties
<1>2. CASE i = Len(q) + 1
  BY <1>2, AppendProperties
<1>3. CASE i \in 1..Len(q)
  <2>1. Append(q, e)[i] = q[i] /\ \A j \in i+1..Len(q) : Append(q, e)[j] = q[j]
    BY <1>1, <1>3, AppendProperties
  <2>2. \A j \in i+1..Len(q) : q[j].type # "voice.floor"
    BY <1>1, <2>1
  <2> QED BY <1>3, <2>1, <2>2 DEF TellsLast
<1> QED BY <1>1, <1>2, <1>3

LEMMA AnswerQuiet ==
    ASSUME NEW q \in Seq(Replies), NEW e \in Replies
    PROVE  Quiet(Append(q, e)) <=> Quiet(q) /\ e.type # "voice.floor"
BY LenProperties, AppendProperties DEF Quiet

\* After a broadcast nothing before it counts.
LEMMA BroadcastTells ==
    ASSUME NEW q \in Seq(Replies), NEW h \in Riders \cup {NoRider}
    PROVE  LET e == [type |-> "voice.floor", holder |-> h]
           IN e \in Replies /\ TellsLast(Append(q, e), h) /\ ~Quiet(Append(q, e))
<1> DEFINE e == [type |-> "voice.floor", holder |-> h]
<1>1. e \in Replies
  BY DEF Replies
<1>2. Len(q) \in Nat /\ Len(Append(q, e)) = Len(q) + 1 /\ Append(q, e)[Len(q) + 1] = e
  BY <1>1, LenProperties, AppendProperties
<1>3. e.type = "voice.floor" /\ e.holder = h
  OBVIOUS
<1>4. ~Quiet(Append(q, e))
  BY <1>2, <1>3 DEF Quiet
<1>5. ASSUME NEW i \in 1..Len(Append(q, e)),
             \A j \in i+1..Len(Append(q, e)) : Append(q, e)[j].type # "voice.floor"
      PROVE  Append(q, e)[i].holder = h
  <2>1. ~(Len(q) + 1 \in i+1..Len(Append(q, e)))
    BY <1>2, <1>3, <1>5
  <2>2. i = Len(q) + 1
    BY <1>2, <2>1
  <2> QED BY <1>2, <1>3, <2>2
<1> QED BY <1>1, <1>4, <1>5 DEF TellsLast

LEMMA ReadTells ==
    ASSUME NEW q \in Seq(Replies), q # <<>>, NEW h, TellsLast(q, h)
    PROVE  /\ TellsLast(Tail(q), h)
           /\ Quiet(Tail(q)) /\ CarriesFloor(Head(q)) => Head(q).holder = h
           /\ Quiet(Tail(q)) /\ ~CarriesFloor(Head(q)) => Quiet(q)
<1>1. /\ Len(q) \in Nat /\ Len(q) >= 1
      /\ Tail(q) \in Seq(Replies) /\ Len(Tail(q)) = Len(q) - 1
      /\ \A i \in 1..Len(Tail(q)) : Tail(q)[i] = q[i + 1]
      /\ Head(q) = q[1]
  BY LenProperties, HeadTailProperties, EmptySeq
<1>2. TellsLast(Tail(q), h)
  <2> SUFFICES ASSUME NEW i \in 1..Len(Tail(q)), CarriesFloor(Tail(q)[i]),
                      \A j \in i+1..Len(Tail(q)) : Tail(q)[j].type # "voice.floor"
               PROVE  Tail(q)[i].holder = h
    BY DEF TellsLast
  <2>1. ASSUME NEW j \in (i+1)+1..Len(q)
        PROVE  q[j].type # "voice.floor"
    <3>1. j - 1 \in i+1..Len(Tail(q)) /\ j - 1 \in 1..Len(Tail(q)) /\ (j - 1) + 1 = j
      BY <1>1
    <3>2. Tail(q)[j - 1] = q[j]
      BY <1>1, <3>1
    <3> QED BY <3>1, <3>2
  <2>2. i + 1 \in 1..Len(q) /\ Tail(q)[i] = q[i + 1]
    BY <1>1
  <2> QED BY <2>1, <2>2 DEF TellsLast
<1>3. ASSUME Quiet(Tail(q)), NEW j \in 2..Len(q)
      PROVE  q[j].type # "voice.floor"
  <2>1. j - 1 \in 1..Len(Tail(q)) /\ Tail(q)[j - 1] = q[j]
    BY <1>1
  <2> QED BY <1>3, <2>1 DEF Quiet
<1>4. Quiet(Tail(q)) /\ CarriesFloor(Head(q)) => Head(q).holder = h
  BY <1>1, <1>3 DEF TellsLast
<1>5. Quiet(Tail(q)) /\ ~CarriesFloor(Head(q)) => Quiet(q)
  <2> SUFFICES ASSUME Quiet(Tail(q)), ~CarriesFloor(Head(q)), NEW j \in 1..Len(q)
               PROVE  q[j].type # "voice.floor"
    BY DEF Quiet
  <2>1. CASE j = 1
    BY <1>1, <2>1 DEF CarriesFloor
  <2>2. CASE j \in 2..Len(q)
    BY <1>3, <2>2
  <2> QED BY <1>1, <2>1, <2>2
<1> QED BY <1>2, <1>4, <1>5

-----------------------------------------------------------------------------
(* A step of a client *)

LEMMA SentTyped ==
    ASSUME TypeOK, NEW m \in Riders, NEW frames \in Seq(Requests),
           MaySend(m, Len(frames)), Sent(m, frames)
    PROVE  up' \in [Riders -> Seq(Requests)] /\ \A n \in Riders : Len(up'[n]) <= Cap
<1>1. up[m] \in Seq(Requests) /\ Len(up[m]) + Len(frames) <= Cap
  BY DEF TypeOK, MaySend
<1>2. up[m] \o frames \in Seq(Requests) /\ Len(up[m] \o frames) = Len(up[m]) + Len(frames)
  BY <1>1, ConcatProperties
<1> QED BY <1>1, <1>2 DEF TypeOK, Sent

\* Handlers that neither join the client nor move its belief of the floor, and
\* enable no track, disturb nothing.
LEMMA LocalStep ==
    ASSUME TalkInv, NEW m \in Riders, NEW k \in ClientRecord, MicHeld(m, k),
           k.joined => client[m].joined /\ k.floorMember = client[m].floorMember,
           client' = [client EXCEPT ![m] = k],
           up' \in [Riders -> Seq(Requests)], \A n \in Riders : Len(up'[n]) <= Cap,
           UNCHANGED <<peers, floor, link, late, down, breaks>>
    PROVE  TalkInv'
<1>1. /\ client' \in [Riders -> ClientRecord]
      /\ client'[m] = k
      /\ \A n \in Riders \ {m} : client'[n] = client[n]
  BY DEF TalkInv, TypeOK
<1>2. TypeOK'
  BY <1>1 DEF TalkInv, TypeOK
<1>3. ASSUME NEW n \in Riders
      PROVE  Informed(n)' /\ OutWhenGone(n)' /\ MicHeld(n, client[n])'
  <2>1. CASE n = m
    BY <1>1, <2>1 DEF TalkInv, Informed, OutWhenGone, MicHeld
  <2>2. CASE n # m
    BY <1>1, <2>2 DEF TalkInv, Informed, OutWhenGone, MicHeld
  <2> QED BY <2>1, <2>2
<1> QED BY <1>2, <1>3 DEF TalkInv

LEMMA OneFrame ==
    ASSUME NEW f \in Requests
    PROVE  <<f>> \in Seq(Requests) /\ Len(<<f>>) = 1
OBVIOUS

LEMMA AskForMicrophoneStep ==
    ASSUME TalkInv, NEW m \in Riders, AskForMicrophone(m)
    PROVE  TalkInv'
<1> DEFINE k == [client[m] EXCEPT !.asking = @ + 1]
<1>1. client[m] \in ClientRecord /\ MicHeld(m, client[m])
  BY DEF TalkInv, TypeOK
<1>2. k \in ClientRecord
  BY <1>1, TalkAssumption DEF AskForMicrophone, ClientRecord
<1>3. /\ k.joined = client[m].joined /\ k.floorMember = client[m].floorMember
      /\ k.mic = client[m].mic /\ k.pressActive = client[m].pressActive
  BY <1>1 DEF ClientRecord
<1>4. MicHeld(m, k)
  BY <1>1, <1>3 DEF MicHeld
<1>5. client' = [client EXCEPT ![m] = k]
  BY DEF AskForMicrophone
<1> HIDE DEF k
<1> QED BY <1>2, <1>3, <1>4, <1>5, LocalStep DEF AskForMicrophone, TalkInv, TypeOK

LEMMA MicrophoneGrantedStep ==
    ASSUME TalkInv, NEW m \in Riders, MicrophoneGranted(m)
    PROVE  TalkInv'
<1> DEFINE both == client[m].stray \/ client[m].mic
           k == [client[m] EXCEPT !.asking = @ - 1, !.enabled = TRUE, !.joined = FALSE,
                    !.stray = both, !.mic = FALSE]
<1>1. client[m] \in ClientRecord
  BY DEF TalkInv, TypeOK
<1>2. both \in BOOLEAN
  OBVIOUS
<1>3. client' = [client EXCEPT ![m] = k]
  BY Zenon DEF MicrophoneGranted
<1> HIDE DEF both
<1>4. k \in ClientRecord
  <2>1. [client[m] EXCEPT !.asking = @ - 1] \in ClientRecord
    BY <1>1, TalkAssumption DEF MicrophoneGranted, ClientRecord
  <2> QED BY <1>2, <2>1 DEF ClientRecord
<1>5. ~k.joined /\ ~k.mic
  BY <1>1 DEF ClientRecord
<1>6. up' \in [Riders -> Seq(Requests)] /\ \A n \in Riders : Len(up'[n]) <= Cap
  BY SentTyped, OneFrame DEF MicrophoneGranted, TalkInv, Requests
<1> HIDE DEF k
<1> QED BY <1>4, <1>5, <1>3, <1>6, LocalStep DEF MicrophoneGranted, MicHeld

LEMMA MicrophoneRefusedStep ==
    ASSUME TalkInv, NEW m \in Riders, MicrophoneRefused(m)
    PROVE  TalkInv'
<1> DEFINE k == [client[m] EXCEPT !.asking = @ - 1]
<1>1. client[m] \in ClientRecord /\ MicHeld(m, client[m])
  BY DEF TalkInv, TypeOK
<1>2. k \in ClientRecord
  BY <1>1, TalkAssumption DEF MicrophoneRefused, ClientRecord
<1>3. /\ k.joined = client[m].joined /\ k.floorMember = client[m].floorMember
      /\ k.mic = client[m].mic /\ k.pressActive = client[m].pressActive
  BY <1>1 DEF ClientRecord
<1>4. MicHeld(m, k)
  BY <1>1, <1>3 DEF MicHeld
<1>5. client' = [client EXCEPT ![m] = k]
  BY DEF MicrophoneRefused
<1> HIDE DEF k
<1> QED BY <1>2, <1>3, <1>4, <1>5, LocalStep DEF MicrophoneRefused, TalkInv, TypeOK

LEMMA NoOrOneFrame ==
    ASSUME TypeOK, NEW m \in Riders, NEW f \in Requests, MaySend(m, 1),
           Sent(m, <<f>>) \/ Sent(m, <<>>)
    PROVE  up' \in [Riders -> Seq(Requests)] /\ \A n \in Riders : Len(up'[n]) <= Cap
<1>1. CASE Sent(m, <<f>>)
  BY <1>1, OneFrame, SentTyped
<1>2. CASE Sent(m, <<>>)
  <2>1. <<>> \in Seq(Requests) /\ Len(<<>>) = 0
    BY EmptySeq
  <2>2. MaySend(m, 0)
    BY LenProperties, TalkAssumption DEF MaySend, TypeOK
  <2> QED BY <1>2, <2>1, <2>2, SentTyped
<1> QED BY <1>1, <1>2

LEMMA DisableStep ==
    ASSUME TalkInv, NEW m \in Riders, Disable(m)
    PROVE  TalkInv'
<1> DEFINE k == [Muted(client[m]) EXCEPT !.pressActive = FALSE, !.enabled = FALSE,
                    !.joined = FALSE, !.floorMember = NoRider]
<1>1. client[m] \in ClientRecord
  BY DEF TalkInv, TypeOK
<1>2. k \in ClientRecord
  BY <1>1 DEF Muted, ClientRecord
<1>3. ~k.joined /\ ~k.mic
  BY <1>1 DEF Muted, ClientRecord
<1>4. client' = [client EXCEPT ![m] = k]
  BY DEF Disable
<1>5. up' \in [Riders -> Seq(Requests)] /\ \A n \in Riders : Len(up'[n]) <= Cap
  BY NoOrOneFrame, "voice.leave" \in Requests DEF Disable, TalkInv, Requests
<1> HIDE DEF k
<1> QED BY <1>2, <1>3, <1>4, <1>5, LocalStep DEF Disable, MicHeld

LEMMA PressStartStep ==
    ASSUME TalkInv, NEW m \in Riders, PressStart(m)
    PROVE  TalkInv'
<1> DEFINE k == [client[m] EXCEPT !.pressActive = TRUE]
<1>1. client[m] \in ClientRecord /\ MicHeld(m, client[m])
  BY DEF TalkInv, TypeOK
<1>2. k \in ClientRecord
  BY <1>1 DEF ClientRecord
<1>3. /\ k.joined = client[m].joined /\ k.floorMember = client[m].floorMember
      /\ k.mic = client[m].mic /\ k.pressActive
  BY <1>1 DEF ClientRecord
<1>4. MicHeld(m, k)
  BY <1>1, <1>3 DEF MicHeld
<1>5. client' = [client EXCEPT ![m] = k]
  BY DEF PressStart
<1>6. up' \in [Riders -> Seq(Requests)] /\ \A n \in Riders : Len(up'[n]) <= Cap
  BY SentTyped, OneFrame DEF PressStart, TalkInv, Requests
<1> HIDE DEF k
<1> QED BY <1>2, <1>3, <1>4, <1>5, <1>6, LocalStep DEF PressStart

LEMMA PressStopStep ==
    ASSUME TalkInv, NEW m \in Riders, PressStop(m)
    PROVE  TalkInv'
<1> DEFINE k == [Muted(client[m]) EXCEPT !.pressActive = FALSE]
<1>1. client[m] \in ClientRecord
  BY DEF TalkInv, TypeOK
<1>2. k \in ClientRecord
  BY <1>1 DEF Muted, ClientRecord
<1>3. k.joined = client[m].joined /\ k.floorMember = client[m].floorMember /\ ~k.mic
  BY <1>1 DEF Muted, ClientRecord
<1>4. client' = [client EXCEPT ![m] = k]
  BY DEF PressStop
<1>5. up' \in [Riders -> Seq(Requests)] /\ \A n \in Riders : Len(up'[n]) <= Cap
  BY NoOrOneFrame, "voice.talk.stop" \in Requests DEF PressStop, TalkInv, Requests
<1> HIDE DEF k
<1> QED BY <1>2, <1>3, <1>4, <1>5, LocalStep DEF PressStop, MicHeld

LEMMA RejoinedStep ==
    ASSUME TalkInv, NEW m \in Riders, Rejoined(m)
    PROVE  TalkInv'
<1> DEFINE k == [client[m] EXCEPT !.refreshing = @ - 1]
<1>1. client[m] \in ClientRecord /\ MicHeld(m, client[m])
  BY DEF TalkInv, TypeOK
<1>2. k \in ClientRecord
  BY <1>1, TalkAssumption DEF Rejoined, ClientRecord
<1>3. /\ k.joined = client[m].joined /\ k.floorMember = client[m].floorMember
      /\ k.mic = client[m].mic /\ k.pressActive = client[m].pressActive
  BY <1>1 DEF ClientRecord
<1>4. MicHeld(m, k)
  BY <1>1, <1>3 DEF MicHeld
<1>5. client' = [client EXCEPT ![m] = k]
  BY DEF Rejoined
<1>6. up' \in [Riders -> Seq(Requests)] /\ \A n \in Riders : Len(up'[n]) <= Cap
  BY NoOrOneFrame, "voice.join" \in Requests DEF Rejoined, TalkInv, Requests
<1> HIDE DEF k
<1> QED BY <1>2, <1>3, <1>4, <1>5, <1>6, LocalStep DEF Rejoined

LEMMA MutedWell ==
    ASSUME NEW k \in ClientRecord
    PROVE  /\ Muted(k) \in ClientRecord /\ ~Muted(k).mic
           /\ Muted(k).joined = k.joined /\ Muted(k).floorMember = k.floorMember
           /\ Muted(k).refreshing = k.refreshing
BY DEF Muted, ClientRecord

LEMMA AppliedWell ==
    ASSUME NEW m \in Riders, NEW k \in ClientRecord
    PROVE  /\ Applied(m, k) \in ClientRecord /\ MicHeld(m, Applied(m, k))
           /\ Applied(m, k).joined = k.joined
           /\ Applied(m, k).floorMember = k.floorMember
<1> DEFINE may == k.enabled /\ k.joined /\ k.floorMember = m /\ k.pressActive
<1>1. may \in BOOLEAN /\ Applied(m, k) = [k EXCEPT !.mic = may]
  BY Zenon DEF Applied
<1>2. may => k.joined /\ k.floorMember = m /\ k.pressActive
  OBVIOUS
<1> HIDE DEF may
<1> DEFINE a == [k EXCEPT !.mic = may]
<1>3. /\ a \in ClientRecord /\ a.mic = may
      /\ a.joined = k.joined /\ a.floorMember = k.floorMember
      /\ a.pressActive = k.pressActive
  BY <1>1 DEF ClientRecord
<1>4. MicHeld(m, a)
  BY <1>2, <1>3 DEF MicHeld
<1> QED BY <1>1, <1>3, <1>4

\* What reading one frame does to the microphone and the belief of the floor.
LEMMA HandledWell ==
    ASSUME NEW m \in Riders, NEW k \in ClientRecord, NEW e \in Replies,
           MicHeld(m, k), e.type = "auth.ok" => k.refreshing < Refreshes
    PROVE  /\ Handled(m, k, e) \in ClientRecord /\ MicHeld(m, Handled(m, k, e))
           /\ CarriesFloor(e) => Handled(m, k, e).floorMember = e.holder
           /\ ~CarriesFloor(e) => /\ Handled(m, k, e).floorMember = k.floorMember
                                  /\ Handled(m, k, e).joined => k.joined
<1> DEFINE h == Handled(m, k, e)
<1>0. CarriesFloor(e) => e.holder \in Riders \cup {NoRider}
  BY DEF CarriesFloor, Replies
<1>1. CASE e.type = "auth.ok"
  <2> DEFINE ok == [k EXCEPT !.authenticated = TRUE]
  <2>1. /\ ok \in ClientRecord /\ ok.mic = k.mic /\ ok.joined = k.joined
        /\ ok.floorMember = k.floorMember /\ ok.pressActive = k.pressActive
        /\ ok.enabled = k.enabled /\ ok.refreshing = k.refreshing
    BY DEF ClientRecord
  <2>2. h = IF k.enabled THEN Rejoin(ok) ELSE ok
    BY <1>1, Zenon DEF Handled
  <2> HIDE DEF ok
  <2>3. /\ Rejoin(ok) \in ClientRecord /\ ~Rejoin(ok).mic /\ ~Rejoin(ok).joined
        /\ Rejoin(ok).floorMember = k.floorMember
    <3> DEFINE q == Muted(ok)
    <3>1. q \in ClientRecord /\ ~q.mic /\ q.floorMember = k.floorMember /\ q.refreshing < Refreshes
      BY <1>1, <2>1, MutedWell
    <3>2. Rejoin(ok) = [q EXCEPT !.joined = FALSE, !.refreshing = @ + 1]
      BY DEF Rejoin
    <3> HIDE DEF q
    <3>3. [q EXCEPT !.refreshing = @ + 1] \in ClientRecord
      BY <3>1, TalkAssumption DEF ClientRecord
    <3>4. Rejoin(ok) \in ClientRecord
      BY <3>1, <3>2, <3>3 DEF ClientRecord
    <3>5. ~Rejoin(ok).mic /\ ~Rejoin(ok).joined /\ Rejoin(ok).floorMember = k.floorMember
      BY <3>1, <3>2 DEF ClientRecord
    <3> QED BY <3>4, <3>5
  <2>4. ~CarriesFloor(e)
    BY <1>1 DEF CarriesFloor
  <2>5. CASE k.enabled
    BY <2>2, <2>3, <2>4, <2>5 DEF MicHeld
  <2>6. CASE ~k.enabled
    BY <2>1, <2>2, <2>4, <2>6 DEF MicHeld
  <2> QED BY <2>5, <2>6
<1>2. CASE e.type = "voice.joined"
  <2> DEFINE q == [k EXCEPT !.joined = TRUE, !.floorMember = e.holder]
  <2>1. CarriesFloor(e) /\ h = Applied(m, q)
    BY <1>2 DEF CarriesFloor, Handled
  <2>2. q \in ClientRecord /\ q.floorMember = e.holder
    BY <1>0, <2>1 DEF ClientRecord
  <2> HIDE DEF q
  <2> QED BY <2>1, <2>2, AppliedWell
<1>3. CASE e.type = "voice.floor"
  <2> DEFINE q == [k EXCEPT !.floorMember = e.holder]
  <2>1. CarriesFloor(e) /\ h = Applied(m, q)
    BY <1>3 DEF CarriesFloor, Handled
  <2>2. q \in ClientRecord /\ q.floorMember = e.holder
    BY <1>0, <2>1 DEF ClientRecord
  <2> HIDE DEF q
  <2> QED BY <2>1, <2>2, AppliedWell
<1>4. CASE e.type = "voice.floor.denied"
  <2> DEFINE q == [k EXCEPT !.pressActive = FALSE, !.floorMember = e.holder]
  <2>1. CarriesFloor(e) /\ h = Muted(q)
    BY <1>4 DEF CarriesFloor, Handled
  <2>2. q \in ClientRecord /\ q.floorMember = e.holder
    BY <1>0, <2>1 DEF ClientRecord
  <2> HIDE DEF q
  <2> QED BY <2>1, <2>2, MutedWell DEF MicHeld
<1>5. CASE e.type = "voice.error"
  <2> DEFINE q == [k EXCEPT !.pressActive = FALSE]
  <2>1. ~CarriesFloor(e) /\ h = Muted(q)
    BY <1>5 DEF CarriesFloor, Handled
  <2>2. q \in ClientRecord /\ q.floorMember = k.floorMember /\ q.joined = k.joined
    BY DEF ClientRecord
  <2> HIDE DEF q
  <2> QED BY <2>1, <2>2, MutedWell DEF MicHeld
<1>6. e.type \in {"auth.ok", "voice.error", "voice.joined", "voice.floor", "voice.floor.denied"}
  BY DEF Replies
<1> QED BY <1>1, <1>2, <1>3, <1>4, <1>5, <1>6

LEMMA ClientReadsStep ==
    ASSUME TalkInv, NEW m \in Riders, ClientReads(m)
    PROVE  TalkInv'
<1> DEFINE e == Head(down[m])
           k == Handled(m, client[m], e)
<1>1. /\ down[m] \in Seq(Replies) /\ down[m] # <<>> /\ Len(down[m]) <= Cap
      /\ client[m] \in ClientRecord /\ MicHeld(m, client[m]) /\ link[m] \in {"on", "cut"}
  BY DEF ClientReads, TalkInv, TypeOK
<1>2. /\ e \in Replies /\ Tail(down[m]) \in Seq(Replies)
      /\ Len(Tail(down[m])) <= Cap
  BY <1>1, HeadTailProperties, LenProperties, TalkAssumption
<1>3. /\ k \in ClientRecord /\ MicHeld(m, k)
      /\ CarriesFloor(e) => k.floorMember = e.holder
      /\ ~CarriesFloor(e) => k.floorMember = client[m].floorMember /\ (k.joined => client[m].joined)
  BY <1>1, <1>2, HandledWell DEF ClientReads
<1>4. /\ client' = [client EXCEPT ![m] = k]
      /\ down' = [down EXCEPT ![m] = Tail(down[m])]
      /\ UNCHANGED <<peers, floor, link, up, late, breaks>>
  BY DEF ClientReads
<1>5. link[m] = "on" => /\ TellsLast(Tail(down[m]), floor)
                        /\ k.joined /\ Quiet(Tail(down[m])) => k.floorMember = floor
  BY <1>1, <1>3, ReadTells DEF TalkInv, Informed
<1> HIDE DEF e, k
<1>6. /\ client' \in [Riders -> ClientRecord] /\ client'[m] = k
      /\ \A n \in Riders \ {m} : client'[n] = client[n]
      /\ down' \in [Riders -> Seq(Replies)] /\ down'[m] = Tail(down[m])
      /\ \A n \in Riders \ {m} : down'[n] = down[n]
  BY <1>2, <1>3, <1>4 DEF TalkInv, TypeOK
<1>7. TypeOK'
  BY <1>2, <1>4, <1>6 DEF TalkInv, TypeOK
<1>8. ASSUME NEW n \in Riders
      PROVE  Informed(n)' /\ OutWhenGone(n)' /\ MicHeld(n, client[n])'
  <2>1. CASE n = m
    BY <1>1, <1>3, <1>4, <1>5, <1>6, <2>1 DEF Informed, OutWhenGone, MicHeld
  <2>2. CASE n # m
    BY <1>4, <1>6, <2>2 DEF TalkInv, Informed, OutWhenGone, MicHeld
  <2> QED BY <2>1, <2>2
<1> QED BY <1>7, <1>8 DEF TalkInv

LEMMA ClientDropsStep ==
    ASSUME TalkInv, NEW m \in Riders, ClientDrops(m)
    PROVE  TalkInv'
<1> DEFINE k == Disconnected(client[m])
           l == IF link[m] = "on" THEN "ghost" ELSE "off"
<1>1. k \in ClientRecord /\ ~k.mic /\ ~k.joined
  <2>1. Muted(client[m]) \in ClientRecord /\ ~Muted(client[m]).mic
    BY MutedWell DEF TalkInv, TypeOK
  <2> QED BY <2>1 DEF Disconnected, ClientRecord
<1>2. /\ client' = [client EXCEPT ![m] = k]
      /\ down' = [down EXCEPT ![m] = <<>>]
      /\ link' = [link EXCEPT ![m] = l]
      /\ UNCHANGED <<peers, floor, up, late>>
  BY DEF ClientDrops
<1>3. breaks' \in 0..MaxBreaks
  BY TalkAssumption DEF ClientDrops, Broken, Breaking, TalkInv, TypeOK
<1>4. l \in {"ghost", "off"}
  OBVIOUS
<1> HIDE DEF k, l
<1>5. /\ client' \in [Riders -> ClientRecord] /\ client'[m] = k
      /\ \A n \in Riders \ {m} : client'[n] = client[n]
      /\ link' \in [Riders -> Links] /\ link'[m] = l
      /\ \A n \in Riders \ {m} : link'[n] = link[n]
  BY <1>1, <1>2, <1>4 DEF TalkInv, TypeOK, Links
<1>6. /\ down' \in [Riders -> Seq(Replies)] /\ Len(down'[m]) = 0
      /\ \A n \in Riders \ {m} : down'[n] = down[n]
  BY <1>2, EmptySeq DEF TalkInv, TypeOK
<1>7. TypeOK'
  BY <1>2, <1>3, <1>5, <1>6, TalkAssumption DEF TalkInv, TypeOK
<1>8. ASSUME NEW n \in Riders
      PROVE  Informed(n)' /\ OutWhenGone(n)' /\ MicHeld(n, client[n])'
  <2>1. CASE n = m
    BY <1>1, <1>4, <1>5, <2>1 DEF Informed, OutWhenGone, MicHeld
  <2>2. CASE n # m
    BY <1>2, <1>5, <1>6, <2>2 DEF TalkInv, Informed, OutWhenGone, MicHeld
  <2> QED BY <2>1, <2>2
<1> QED BY <1>7, <1>8 DEF TalkInv

-----------------------------------------------------------------------------
(* A step of the server *)

\* What the server has said keeps every live client informed.
WellSpoken ==
    /\ floor' \in Riders \cup {NoRider}
    /\ down' \in [Riders -> Seq(Replies)]
    /\ \A n \in Riders :
          /\ Len(down'[n]) <= Cap
          /\ link[n] = "on" =>
                /\ TellsLast(down'[n], floor')
                /\ client[n].joined /\ Quiet(down'[n]) => client[n].floorMember = floor'

LEMMA ToldWell ==
    ASSUME TalkInv, Drained, NEW h \in Riders \cup {NoRider}, Told(h), floor' = h
    PROVE  WellSpoken
<1> DEFINE e == [type |-> "voice.floor", holder |-> h]
<1>1. ASSUME NEW n \in Riders
      PROVE  /\ down'[n] \in Seq(Replies) /\ Len(down'[n]) <= Cap
             /\ link[n] = "on" => TellsLast(down'[n], h) /\ ~Quiet(down'[n])
  <2>1. down[n] \in Seq(Replies) /\ Len(down[n]) < Cap
    BY DEF TalkInv, TypeOK, Drained
  <2>2. down'[n] = IF link[n] = "on" THEN Append(down[n], e) ELSE down[n]
    BY DEF Told
  <2>3. e \in Replies /\ TellsLast(Append(down[n], e), h) /\ ~Quiet(Append(down[n], e))
    BY <2>1, BroadcastTells
  <2> HIDE DEF e
  <2>4. Append(down[n], e) \in Seq(Replies) /\ Len(Append(down[n], e)) <= Cap
    BY <2>1, <2>3, AppendProperties, LenProperties, TalkAssumption
  <2> QED BY <2>1, <2>2, <2>3, <2>4, LenProperties, TalkAssumption
<1>2. down' \in [Riders -> Seq(Replies)]
  BY <1>1 DEF Told
<1> QED BY <1>1, <1>2 DEF WellSpoken

LEMMA AnsweredWell ==
    ASSUME TalkInv, Drained, NEW m \in Riders, NEW e \in Replies, e.type # "voice.floor",
           CarriesFloor(e) => e.holder = floor, Answered(m, e), UNCHANGED floor
    PROVE  WellSpoken
<1>1. down[m] \in Seq(Replies) /\ Len(down[m]) < Cap
  BY DEF TalkInv, TypeOK, Drained
<1> DEFINE q == IF link[m] = "on" THEN Append(down[m], e) ELSE down[m]
<1>2. q \in Seq(Replies) /\ Len(q) <= Cap
  BY <1>1, AppendProperties, LenProperties, TalkAssumption
<1>3. link[m] = "on" => TellsLast(q, floor) /\ (Quiet(q) => Quiet(down[m]))
  BY <1>1, AnswerTells, AnswerQuiet DEF TalkInv, Informed
<1>4. down' = [down EXCEPT ![m] = q]
  BY DEF Answered
<1> HIDE DEF q
<1>5. /\ down' \in [Riders -> Seq(Replies)] /\ down'[m] = q
      /\ \A n \in Riders \ {m} : down'[n] = down[n]
  BY <1>2, <1>4 DEF TalkInv, TypeOK
<1> QED BY <1>2, <1>3, <1>5 DEF WellSpoken, TalkInv, TypeOK, Informed

LEMMA SilentWell ==
    ASSUME TalkInv, UNCHANGED <<floor, down>>
    PROVE  WellSpoken
BY DEF WellSpoken, TalkInv, TypeOK, Informed

LEMMA LeftWell ==
    ASSUME TalkInv, Drained, NEW m \in Riders, Left(m)
    PROVE  WellSpoken /\ peers' \subseteq Riders
<1>1. peers' \subseteq Riders
  BY DEF Left, TalkInv, TypeOK
<1>2. CASE m \in peers /\ floor = m
  BY <1>1, <1>2, ToldWell DEF Left
<1>3. CASE ~(m \in peers /\ floor = m)
  BY <1>1, <1>3, SilentWell DEF Left
<1> QED BY <1>2, <1>3

LEMMA TalkStartWell ==
    ASSUME TalkInv, Drained, NEW m \in Riders, NEW asked \in BOOLEAN, TalkStart(m, asked)
    PROVE  WellSpoken
<1>0. floor \in Riders \cup {NoRider}
  BY DEF TalkInv, TypeOK
<1>1. CASE m \in peers /\ floor = NoRider /\ floor' = m /\ Told(m)
  BY <1>1, ToldWell
<1>2. CASE UNCHANGED <<floor, down>>
  BY <1>2, SilentWell
<1>3. CASE /\ m \notin peers \/ floor \notin {NoRider, m}
           /\ asked
           /\ Answered(m, IF m \notin peers THEN [type |-> "voice.error"]
                              ELSE [type |-> "voice.floor.denied", holder |-> floor])
           /\ UNCHANGED floor
  <2> DEFINE e == IF m \notin peers THEN [type |-> "voice.error"]
                  ELSE [type |-> "voice.floor.denied", holder |-> floor]
  <2>1. e \in Replies /\ e.type # "voice.floor" /\ (CarriesFloor(e) => e.holder = floor)
    BY <1>0 DEF Replies, CarriesFloor
  <2>2. Answered(m, e) /\ UNCHANGED floor
    BY <1>3
  <2> HIDE DEF e
  <2> QED BY <2>1, <2>2, AnsweredWell
<1> QED BY <1>1, <1>2, <1>3 DEF TalkStart

LEMMA VoiceJoinWell ==
    ASSUME TalkInv, Drained, NEW m \in Riders, NEW asked \in BOOLEAN, VoiceJoin(m, asked)
    PROVE  WellSpoken
<1>1. CASE asked
  <2> DEFINE e == [type |-> "voice.joined", holder |-> floor]
  <2>1. e \in Replies /\ e.type # "voice.floor" /\ (CarriesFloor(e) => e.holder = floor)
    BY DEF Replies, CarriesFloor, TalkInv, TypeOK
  <2>2. Answered(m, e) /\ UNCHANGED floor
    BY <1>1 DEF VoiceJoin
  <2> HIDE DEF e
  <2> QED BY <2>1, <2>2, AnsweredWell
<1>2. CASE ~asked
  BY <1>2, SilentWell DEF VoiceJoin
<1> QED BY <1>1, <1>2

LEMMA ServeWell ==
    ASSUME TalkInv, Drained, NEW m \in Riders, NEW type \in Requests,
           NEW asked \in BOOLEAN, Serve(m, type, asked)
    PROVE  WellSpoken /\ peers' \subseteq Riders
<1>1. CASE type = "voice.join"
  <2>1. VoiceJoin(m, asked)
    BY <1>1 DEF Serve
  <2> QED BY <2>1, VoiceJoinWell DEF VoiceJoin, TalkInv, TypeOK
<1>2. CASE type = "voice.leave"
  BY <1>2, LeftWell DEF Serve
<1>3. CASE type = "voice.talk.start"
  <2>1. TalkStart(m, asked)
    BY <1>3 DEF Serve
  <2> QED BY <2>1, TalkStartWell DEF TalkStart, TalkInv, TypeOK
<1>4. CASE type = "voice.talk.stop"
  <2>1. TalkStop(m)
    BY <1>4 DEF Serve
  <2>2. peers' \subseteq Riders
    BY <2>1 DEF TalkStop, TalkInv, TypeOK
  <2>3. CASE floor = m
    BY <2>1, <2>2, <2>3, ToldWell DEF TalkStop
  <2>4. CASE floor # m
    BY <2>1, <2>2, <2>4, SilentWell DEF TalkStop
  <2> QED BY <2>3, <2>4
<1> QED BY <1>1, <1>2, <1>3, <1>4 DEF Requests

\* The rest of a server's step concerns one socket.
LEMMA ServerStep ==
    ASSUME TalkInv, WellSpoken, peers' \subseteq Riders,
           up' \in [Riders -> Seq(Requests)], late' \in [Riders -> Seq(Requests)],
           \A n \in Riders : Len(up'[n]) <= Cap /\ Len(late'[n]) <= Cap,
           UNCHANGED <<client, link, breaks>>
    PROVE  TalkInv'
BY DEF TalkInv, TypeOK, WellSpoken, Informed, OutWhenGone, MicHeld

LEMMA TailOfRequests ==
    ASSUME NEW q \in Seq(Requests), q # <<>>, Len(q) <= Cap
    PROVE  Head(q) \in Requests /\ Tail(q) \in Seq(Requests) /\ Len(Tail(q)) <= Cap
BY HeadTailProperties, LenProperties, TalkAssumption

LEMMA ServerReadsStep ==
    ASSUME TalkInv, NEW m \in Riders, ServerReads(m)
    PROVE  TalkInv'
<1>1. /\ Head(up[m]) \in Requests /\ Tail(up[m]) \in Seq(Requests)
      /\ Len(Tail(up[m])) <= Cap
  BY TailOfRequests DEF ServerReads, TalkInv, TypeOK
<1>2. WellSpoken /\ peers' \subseteq Riders
  BY <1>1, ServeWell DEF ServerReads
<1>3. /\ up' \in [Riders -> Seq(Requests)] /\ late' \in [Riders -> Seq(Requests)]
      /\ \A n \in Riders : Len(up'[n]) <= Cap /\ Len(late'[n]) <= Cap
  BY <1>1 DEF ServerReads, TalkInv, TypeOK
<1> QED BY <1>2, <1>3, ServerStep DEF ServerReads

LEMMA ServerReadsLateStep ==
    ASSUME TalkInv, NEW m \in Riders, ServerReadsLate(m)
    PROVE  TalkInv'
<1>1. /\ Head(late[m]) \in Requests /\ Tail(late[m]) \in Seq(Requests)
      /\ Len(Tail(late[m])) <= Cap
  BY TailOfRequests DEF ServerReadsLate, TalkInv, TypeOK
<1>2. WellSpoken /\ peers' \subseteq Riders
  BY <1>1, ServeWell DEF ServerReadsLate
<1>3. /\ up' \in [Riders -> Seq(Requests)] /\ late' \in [Riders -> Seq(Requests)]
      /\ \A n \in Riders : Len(up'[n]) <= Cap /\ Len(late'[n]) <= Cap
  BY <1>1 DEF ServerReadsLate, TalkInv, TypeOK
<1> QED BY <1>2, <1>3, ServerStep DEF ServerReadsLate

LEMMA LateClosedStep ==
    ASSUME TalkInv, NEW m \in Riders, LateClosed(m)
    PROVE  TalkInv'
<1>1. /\ late' \in [Riders -> Seq(Requests)]
      /\ \A n \in Riders : Len(late'[n]) <= Cap
  BY EmptySeq, TalkAssumption DEF LateClosed, TalkInv, TypeOK
<1> QED BY <1>1, SilentWell, ServerStep DEF LateClosed, TalkInv, TypeOK

LEMMA ServerDropsStep ==
    ASSUME TalkInv, NEW m \in Riders, ServerDrops(m)
    PROVE  TalkInv'
<1> DEFINE l == IF link[m] = "on" THEN "cut" ELSE "off"
<1>1. WellSpoken /\ peers' \subseteq Riders
  BY LeftWell DEF ServerDrops
<1>2. /\ up' \in [Riders -> Seq(Requests)]
      /\ \A n \in Riders : Len(up'[n]) <= Cap
  BY EmptySeq, TalkAssumption DEF ServerDrops, TalkInv, TypeOK
<1>3. breaks' \in 0..MaxBreaks
  BY TalkAssumption DEF ServerDrops, Broken, Breaking, TalkInv, TypeOK
<1>4. link' = [link EXCEPT ![m] = l] /\ UNCHANGED <<late, client>>
  BY DEF ServerDrops
<1>5. l \in {"cut", "off"} /\ (l = "off" => link[m] = "ghost")
  BY DEF ServerDrops
<1> HIDE DEF l
<1>6. /\ link' \in [Riders -> Links] /\ link'[m] = l
      /\ \A n \in Riders \ {m} : link'[n] = link[n]
  BY <1>4, <1>5 DEF TalkInv, TypeOK, Links
<1>7. TypeOK'
  BY <1>1, <1>2, <1>3, <1>4, <1>6 DEF TalkInv, TypeOK, WellSpoken
<1>8. ASSUME NEW n \in Riders
      PROVE  Informed(n)' /\ OutWhenGone(n)' /\ MicHeld(n, client[n])'
  <2>1. CASE n = m
    BY <1>4, <1>5, <1>6, <2>1 DEF TalkInv, Informed, OutWhenGone, MicHeld
  <2>2. CASE n # m
    BY <1>1, <1>4, <1>6, <2>2 DEF TalkInv, WellSpoken, Informed, OutWhenGone, MicHeld
  <2> QED BY <2>1, <2>2
<1> QED BY <1>7, <1>8 DEF TalkInv

LEMMA ReconnectStep ==
    ASSUME TalkInv, NEW m \in Riders, Reconnect(m)
    PROVE  TalkInv'
<1> DEFINE ok == <<[type |-> "auth.ok"]>>
<1>1. /\ ok \in Seq(Replies) /\ Len(ok) = 1 /\ Len(ok) <= Cap
      /\ ok[1].type = "auth.ok"
  <2>1. [type |-> "auth.ok"] \in Replies
    BY DEF Replies
  <2> QED BY <2>1, TalkAssumption
<1>2. TellsLast(ok, floor)
  BY <1>1 DEF TellsLast, CarriesFloor
<1>3. /\ link' = [link EXCEPT ![m] = "on"]
      /\ late' = [late EXCEPT ![m] = up[m]]
      /\ up' = [up EXCEPT ![m] = <<>>]
      /\ down' = [down EXCEPT ![m] = ok]
      /\ UNCHANGED <<peers, floor, client, breaks>>
  BY DEF Reconnect
<1> HIDE DEF ok
<1>4. /\ link' \in [Riders -> Links] /\ link'[m] = "on"
      /\ \A n \in Riders \ {m} : link'[n] = link[n]
      /\ down' \in [Riders -> Seq(Replies)] /\ down'[m] = ok
      /\ \A n \in Riders \ {m} : down'[n] = down[n]
  BY <1>1, <1>3 DEF TalkInv, TypeOK, Links
<1>5. /\ up' \in [Riders -> Seq(Requests)] /\ late' \in [Riders -> Seq(Requests)]
      /\ \A n \in Riders : Len(up'[n]) <= Cap /\ Len(late'[n]) <= Cap
  BY <1>3, EmptySeq, TalkAssumption DEF TalkInv, TypeOK
<1>6. TypeOK'
  BY <1>1, <1>3, <1>4, <1>5 DEF TalkInv, TypeOK
<1>7. ~client[m].joined
  BY DEF Reconnect, TalkInv, OutWhenGone
<1>8. ASSUME NEW n \in Riders
      PROVE  Informed(n)' /\ OutWhenGone(n)' /\ MicHeld(n, client[n])'
  <2>1. CASE n = m
    BY <1>2, <1>3, <1>4, <1>7, <2>1 DEF TalkInv, Informed, OutWhenGone, MicHeld
  <2>2. CASE n # m
    BY <1>3, <1>4, <2>2 DEF TalkInv, Informed, OutWhenGone, MicHeld
  <2> QED BY <2>1, <2>2
<1> QED BY <1>6, <1>8 DEF TalkInv

-----------------------------------------------------------------------------
(* The invariant *)

LEMMA TalkInitially == Init => TalkInv
<1> SUFFICES ASSUME Init PROVE TalkInv
  OBVIOUS
<1>1. /\ IdleClient \in ClientRecord /\ ~IdleClient.joined /\ ~IdleClient.mic
  BY TalkAssumption DEF IdleClient, ClientRecord
<1>2. TypeOK
  BY <1>1, EmptySeq, TalkAssumption DEF Init, TypeOK, Links
<1>3. \A m \in Riders : client[m] = IdleClient /\ link[m] = "off"
  BY DEF Init
<1> QED BY <1>1, <1>2, <1>3 DEF TalkInv, Informed, OutWhenGone, MicHeld

LEMMA TalkStep == TalkInv /\ [Next]_vars => TalkInv'
<1> SUFFICES ASSUME TalkInv, [Next]_vars PROVE TalkInv'
  OBVIOUS
<1>1. ASSUME NEW m \in Riders,
             \/ AskForMicrophone(m) \/ MicrophoneGranted(m) \/ MicrophoneRefused(m)
             \/ Disable(m) \/ PressStart(m) \/ PressStop(m) \/ Rejoined(m)
      PROVE  TalkInv'
  BY <1>1, AskForMicrophoneStep, MicrophoneGrantedStep, MicrophoneRefusedStep,
     DisableStep, PressStartStep, PressStopStep, RejoinedStep
<1>2. ASSUME NEW m \in Riders,
             \/ ClientReads(m) \/ ClientDrops(m) \/ ServerReads(m) \/ ServerReadsLate(m)
             \/ LateClosed(m) \/ ServerDrops(m) \/ Reconnect(m)
      PROVE  TalkInv'
  BY <1>2, ClientReadsStep, ClientDropsStep, ServerReadsStep, ServerReadsLateStep,
     LateClosedStep, ServerDropsStep, ReconnectStep
<1>3. CASE UNCHANGED vars
  BY <1>3 DEF vars, TalkInv, TypeOK, Informed, OutWhenGone, MicHeld
<1> QED BY <1>1, <1>2, <1>3 DEF Next

\* The types, the rule of the microphone and what is on its way about the floor
\* hold together, whatever breaks, is replaced or is answered late.
THEOREM TalkInvariance == Spec => []TalkInv
BY TalkInitially, TalkStep, PTL DEF Spec

\* The frames, the clients and the sockets have their types, and no direction
\* of a socket holds more than its bound.
THEOREM TalkTypeCorrect == Spec => []TypeOK
<1>1. TalkInv => TypeOK
  BY DEF TalkInv
<1> QED BY <1>1, TalkInvariance, PTL

\* voice.js enables a track of the present stream only while its client is
\* joined, holds the floor by its own belief, and its button is pressed.
THEOREM MicrophoneIsHeld == Spec => []MicOnlyWhileHeld
<1>1. TalkInv => MicOnlyWhileHeld
  BY DEF TalkInv, MicHeld, MicOnlyWhileHeld
<1> QED BY <1>1, TalkInvariance, PTL

\* A joined client on a live socket that has read everything believes in the
\* floor that realtime.js has.
THEOREM BeliefIsRight == Spec => []BeliefFollowsFloor
<1>1. TalkInv => BeliefFollowsFloor
  <2> SUFFICES ASSUME TalkInv, NEW m \in Riders,
                      link[m] = "on", client[m].joined, down[m] = <<>>
               PROVE  client[m].floorMember = floor
    BY DEF BeliefFollowsFloor
  <2>1. Quiet(down[m])
    BY EmptySeq DEF Quiet
  <2> QED BY <2>1 DEF TalkInv, Informed
<1> QED BY <1>1, TalkInvariance, PTL

\* A microphone that is on without the floor is about to be told so, or its
\* socket is already dead at the server.
THEOREM MicrophoneFollowsFloor == Spec => []MicWithoutFloorIsBrief
<1>1. TalkInv => MicWithoutFloorIsBrief
  <2> SUFFICES ASSUME TalkInv, NEW m \in Riders, client[m].mic, floor # m, link[m] # "cut"
               PROVE  \E i \in DOMAIN down[m] : down[m][i].type = "voice.floor"
    BY DEF MicWithoutFloorIsBrief
  <2>1. client[m].joined /\ client[m].floorMember = m
    BY DEF TalkInv, MicHeld
  <2>2. link[m] = "on"
    BY <2>1 DEF TalkInv, TypeOK, Links, OutWhenGone
  <2>3. ~Quiet(down[m])
    BY <2>1, <2>2 DEF TalkInv, Informed
  <2>4. DOMAIN down[m] = 1..Len(down[m])
    BY LenProperties DEF TalkInv, TypeOK
  <2> QED BY <2>3, <2>4 DEF Quiet
<1> QED BY <1>1, TalkInvariance, PTL

=============================================================================
