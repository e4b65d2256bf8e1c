------------------------------ MODULE TalkFloor ------------------------------
(***************************************************************************)
(* Push-to-talk end to end in one Ryde: the voice handlers of               *)
(* apps/api/lib/realtime.js, one VoiceClient (apps/web/voice.js) per rider  *)
(* with the page around it (apps/web/app.js), and the two directions of the *)
(* WebSocket between them, which can break on either side first.            *)
(*                                                                          *)
(* Every rider here may speak and the mesh is not full; who may join the    *)
(* channel, and how a Ryde ends, is RealtimeHub's subject.  The WebRTC      *)
(* peers of a client are left out: they do not decide whether a microphone  *)
(* track is enabled.                                                        *)
(***************************************************************************)
EXTENDS Naturals, Sequences

CONSTANTS
    Riders,     \* the members of the Ryde
    Cap,        \* frames in transit on one direction of a socket
    Asks,       \* unanswered microphone requests of one page
    Refreshes,  \* unanswered ICE refreshes of one page
    Leavers,    \* the riders who switch PTT off in an instance
    CutOff,     \* the riders whose live sockets the server may lose first
    DropOut,    \* the riders who may lose theirs before the server does
    MaxBreaks   \* how often live sockets break in an instance

NoRider == "no rider"

ASSUME TalkAssumption == /\ NoRider \notin Riders
                         /\ Cap \in Nat \ {0}
                         /\ Asks \in Nat
                         /\ Refreshes \in Nat
                         /\ Leavers \cup CutOff \cup DropOut \subseteq Riders
                         /\ MaxBreaks \in Nat

VARIABLES
    peers,      \* state.voicePeers
    floor,      \* state.voiceFloorMemberId
    link,       \* the socket of a rider, see Links
    up,         \* frames on their way to the server on the present socket
    late,       \* frames that the socket before it had still in transit
    down,       \* frames on their way to the client
    client,     \* the VoiceClient and the page of each rider
    breaks      \* counts the broken sockets

vars == <<peers, floor, link, up, late, down, client, breaks>>

\* on: alive at both ends.  cut: the server has disconnected it, the client
\* does not know.  ghost: the client has lost it, the server does not know.
\* off: gone at both ends.
Links == {"on", "cut", "ghost", "off"}

Requests == {"voice.join", "voice.leave", "voice.talk.start", "voice.talk.stop"}
Replies ==
    [type : {"auth.ok", "voice.error"}]
    \cup [type : {"voice.joined", "voice.floor", "voice.floor.denied"},
          holder : Riders \cup {NoRider}]

\* mic: an audio track of this.stream is enabled.  stray: so is a track of a
\* stream that this.stream no longer refers to.
ClientRecord ==
    [authenticated : BOOLEAN, enabled : BOOLEAN, joined : BOOLEAN,
     pressActive : BOOLEAN, floorMember : Riders \cup {NoRider},
     mic : BOOLEAN, stray : BOOLEAN, asking : 0..Asks, refreshing : 0..Refreshes]

IdleClient ==
    [authenticated |-> FALSE, enabled |-> FALSE, joined |-> FALSE,
     pressActive |-> FALSE, floorMember |-> NoRider, mic |-> FALSE,
     stray |-> FALSE, asking |-> 0, refreshing |-> 0]

Init ==
    /\ peers = {}
    /\ floor = NoRider
    /\ link = [m \in Riders |-> "off"]
    /\ up = [m \in Riders |-> <<>>]
    /\ late = [m \in Riders |-> <<>>]
    /\ down = [m \in Riders |-> <<>>]
    /\ client = [m \in Riders |-> IdleClient]
    /\ breaks = 0

-----------------------------------------------------------------------------
(* The client *)

\* sendRealtime(): frames of a socket that is cut are lost, and nothing is
\* sent before auth.ok or without a socket.
Sent(m, frames) ==
    up' = IF client[m].authenticated /\ link[m] = "on"
          THEN [up EXCEPT ![m] = @ \o frames] ELSE up

MaySend(m, n) == Len(up[m]) + n <= Cap

\* #muteLocal() and #applyFloor().
Muted(k) == [k EXCEPT !.mic = FALSE]
AppliedWhenGained(m, k) ==
    [k EXCEPT !.mic = @ \/ (k.enabled /\ k.joined /\ k.floorMember = m /\ k.pressActive)]
Applied(m, k) ==
    [k EXCEPT !.mic = k.enabled /\ k.joined /\ k.floorMember = m /\ k.pressActive]

\* The Enable button while PTT is off: enable() awaits the microphone.
AskForMicrophone(m) ==
    /\ client[m].authenticated /\ ~client[m].enabled
    /\ client[m].asking < Asks
    /\ client' = [client EXCEPT ![m].asking = @ + 1]
    /\ UNCHANGED <<peers, floor, link, up, late, down, breaks>>

\* getUserMedia() answers, whatever has happened since: a new muted stream
\* takes the place of the one there is.
MicrophoneGranted(m) ==
    /\ client[m].asking > 0
    /\ MaySend(m, 1)
    /\ client' = [client EXCEPT ![m] =
          [@ EXCEPT !.asking = client[m].asking - 1, !.enabled = TRUE, !.joined = FALSE,
                    !.stray = client[m].stray \/ client[m].mic, !.mic = FALSE]]
    /\ Sent(m, <<"voice.join">>)
    /\ UNCHANGED <<peers, floor, link, late, down, breaks>>

MicrophoneRefused(m) ==
    /\ client[m].asking > 0
    /\ client' = [client EXCEPT ![m].asking = @ - 1]
    /\ UNCHANGED <<peers, floor, link, up, late, down, breaks>>

\* disable(): only a client that is joined says that it leaves.
Disable(m) ==
    /\ m \in Leavers
    /\ client[m].enabled
    /\ MaySend(m, 1)
    /\ client' = [client EXCEPT ![m] =
          [Muted(@) EXCEPT !.pressActive = FALSE, !.enabled = FALSE, !.joined = FALSE,
                           !.floorMember = NoRider]]
    /\ Sent(m, IF client[m].joined THEN <<"voice.leave">> ELSE <<>>)
    /\ UNCHANGED <<peers, floor, link, late, down, breaks>>

PressStart(m) ==
    /\ client[m].enabled /\ client[m].joined /\ ~client[m].pressActive
    /\ MaySend(m, 1)
    /\ client' = [client EXCEPT ![m].pressActive = TRUE]
    /\ Sent(m, <<"voice.talk.start">>)
    /\ UNCHANGED <<peers, floor, link, late, down, breaks>>

PressStop(m) ==
    /\ client[m].pressActive \/ client[m].floorMember = m
    /\ MaySend(m, 1)
    /\ client' = [client EXCEPT ![m] = [Muted(@) EXCEPT !.pressActive = FALSE]]
    /\ Sent(m, IF client[m].joined THEN <<"voice.talk.stop">> ELSE <<>>)
    /\ UNCHANGED <<peers, floor, link, late, down, breaks>>

\* rejoin() up to its first await.
RejoinForgotten(k) == [Muted(k) EXCEPT !.joined = FALSE]
Rejoin(k) == [Muted(k) EXCEPT !.joined = FALSE, !.refreshing = @ + 1]

\* The ICE refresh of rejoin() settles.
Rejoined(m) ==
    /\ client[m].refreshing > 0
    /\ MaySend(m, 1)
    /\ client' = [client EXCEPT ![m].refreshing = @ - 1]
    /\ Sent(m, IF client[m].enabled THEN <<"voice.join">> ELSE <<>>)
    /\ UNCHANGED <<peers, floor, link, late, down, breaks>>

\* The message handlers of the page and of VoiceClient.handle().
Handled(m, k, e) ==
    CASE e.type = "auth.ok" ->
             LET ok == [k EXCEPT !.authenticated = TRUE]
             IN IF k.enabled THEN Rejoin(ok) ELSE ok
      [] e.type = "voice.joined" ->
             Applied(m, [k EXCEPT !.joined = TRUE, !.floorMember = e.holder])
      [] e.type = "voice.floor" ->
             Applied(m, [k EXCEPT !.floorMember = e.holder])
      [] e.type = "voice.floor.denied" ->
             Muted([k EXCEPT !.pressActive = FALSE, !.floorMember = e.holder])
      [] e.type = "voice.error" ->
             Muted([k EXCEPT !.pressActive = FALSE])

ClientReads(m) ==
    /\ link[m] \in {"on", "cut"}
    /\ down[m] # <<>>
    /\ Head(down[m]).type = "auth.ok" => client[m].refreshing < Refreshes
    /\ client' = [client EXCEPT ![m] = Handled(m, @, Head(down[m]))]
    /\ down' = [down EXCEPT ![m] = Tail(@)]
    /\ UNCHANGED <<peers, floor, link, up, late, breaks>>

\* realtimeDisconnected(), called by the close listener of the page.
DisconnectedStillLive(k) ==
    [k EXCEPT !.authenticated = FALSE, !.joined = FALSE, !.floorMember = NoRider,
              !.pressActive = FALSE]
Disconnected(k) ==
    [Muted(k) EXCEPT !.authenticated = FALSE, !.joined = FALSE,
                     !.floorMember = NoRider, !.pressActive = FALSE]

\* A live socket breaks; one that is half broken always may.
Breaking(m, riders) == link[m] = "on" => m \in riders /\ breaks < MaxBreaks
Broken(m) == breaks' = IF link[m] = "on" THEN breaks + 1 ELSE breaks

\* The client's close event.  What it sent last may still reach the server.
ClientDrops(m) ==
    /\ link[m] \in {"on", "cut"}
    /\ Breaking(m, DropOut)
    /\ link' = [link EXCEPT ![m] = IF @ = "on" THEN "ghost" ELSE "off"]
    /\ down' = [down EXCEPT ![m] = <<>>]
    /\ client' = [client EXCEPT ![m] = Disconnected(@)]
    /\ Broken(m)
    /\ UNCHANGED <<peers, floor, up, late>>

-----------------------------------------------------------------------------
(* The server *)

\* #send() to the socket of rider m, #broadcast() to every registered one.
Answered(m, e) == down' = [down EXCEPT ![m] = IF link[m] = "on" THEN Append(@, e) ELSE @]
Told(holder) ==
    down' = [m \in Riders |->
                IF link[m] = "on"
                THEN Append(down[m], [type |-> "voice.floor", holder |-> holder])
                ELSE down[m]]

\* #voiceLeave(), also for a socket that the server drops.
LeftUnannounced(m) ==
    /\ peers' = peers \ {m}
    /\ floor' = IF m \in peers /\ floor = m THEN NoRider ELSE floor
    /\ UNCHANGED down
Left(m) ==
    /\ peers' = peers \ {m}
    /\ IF m \in peers /\ floor = m
       THEN floor' = NoRider /\ Told(NoRider)
       ELSE UNCHANGED <<floor, down>>

\* #voiceJoin(), #voiceTalkStart() and #voiceTalkStop() for rider m; `asked'
\* is whether the frame came on the socket that answers go to.
VoiceJoin(m, asked) ==
    /\ peers' = peers \cup {m}
    /\ IF asked THEN Answered(m, [type |-> "voice.joined", holder |-> floor])
                ELSE UNCHANGED down
    /\ UNCHANGED floor

TalkStart(m, asked) ==
    /\ \/ /\ m \in peers /\ floor = NoRider
          /\ floor' = m
          /\ Told(m)
       \/ /\ m \in peers /\ floor = m
          /\ UNCHANGED <<floor, down>>
       \/ /\ m \notin peers \/ floor \notin {NoRider, m}
          /\ IF asked
             THEN Answered(m, IF m \notin peers THEN [type |-> "voice.error"]
                              ELSE [type |-> "voice.floor.denied", holder |-> floor])
             ELSE UNCHANGED down
          /\ UNCHANGED floor
    /\ UNCHANGED peers

TalkStop(m) ==
    /\ IF floor = m THEN floor' = NoRider /\ Told(NoRider)
                    ELSE UNCHANGED <<floor, down>>
    /\ UNCHANGED peers

Serve(m, type, asked) ==
    CASE type = "voice.join" -> VoiceJoin(m, asked)
      [] type = "voice.leave" -> Left(m)
      [] type = "voice.talk.start" -> TalkStart(m, asked)
      [] type = "voice.talk.stop" -> TalkStop(m)

\* The server reads on while every client has a place for what it may say.
Drained == \A m \in Riders : Len(down[m]) < Cap

ServerReads(m) ==
    /\ up[m] # <<>> /\ link[m] \in {"on", "ghost"}
    /\ Drained
    /\ Serve(m, Head(up[m]), TRUE)
    /\ up' = [up EXCEPT ![m] = Tail(@)]
    /\ UNCHANGED <<link, late, client, breaks>>

\* A replaced socket is read until its close, and then no more.
ServerReadsLate(m) ==
    /\ late[m] # <<>>
    /\ Drained
    /\ Serve(m, Head(late[m]), FALSE)
    /\ late' = [late EXCEPT ![m] = Tail(@)]
    /\ UNCHANGED <<link, up, client, breaks>>

LateClosed(m) ==
    /\ late[m] # <<>>
    /\ late' = [late EXCEPT ![m] = <<>>]
    /\ UNCHANGED <<peers, floor, link, up, down, client, breaks>>

\* The close event of the registered socket: #disconnect().
ServerDrops(m) ==
    /\ link[m] \in {"on", "ghost"}
    /\ Breaking(m, CutOff)
    /\ Drained
    /\ link' = [link EXCEPT ![m] = IF @ = "on" THEN "cut" ELSE "off"]
    /\ up' = [up EXCEPT ![m] = <<>>]
    /\ Left(m)
    /\ Broken(m)
    /\ UNCHANGED <<late, client>>

\* A new socket authenticates.  One that the server still held is replaced,
\* and then channel and floor stay as they are.
Reconnect(m) ==
    /\ link[m] \in {"ghost", "off"}
    /\ late[m] = <<>>
    /\ link' = [link EXCEPT ![m] = "on"]
    /\ late' = [late EXCEPT ![m] = up[m]]
    /\ up' = [up EXCEPT ![m] = <<>>]
    /\ down' = [down EXCEPT ![m] = <<[type |-> "auth.ok"]>>]
    /\ UNCHANGED <<peers, floor, client, breaks>>

Next ==
    \E m \in Riders :
        \/ AskForMicrophone(m) \/ MicrophoneGranted(m) \/ MicrophoneRefused(m)
        \/ Disable(m) \/ PressStart(m) \/ PressStop(m) \/ Rejoined(m)
        \/ ClientReads(m) \/ ClientDrops(m)
        \/ ServerReads(m) \/ ServerReadsLate(m) \/ LateClosed(m) \/ ServerDrops(m)
        \/ Reconnect(m)

Spec == Init /\ [][Next]_vars

\* A live socket delivers, and a fetch settles.  Nobody has to touch the page,
\* and no socket has to break.  Fairness is strong where Cap, which the code
\* does not have, can hold a step back every now and then.
TalkFairness ==
    \A m \in Riders :
        /\ SF_vars(ServerReads(m)) /\ SF_vars(Rejoined(m))
        /\ WF_vars(ClientReads(m))

-----------------------------------------------------------------------------
(* Properties *)

TypeOK ==
    /\ peers \subseteq Riders
    /\ floor \in Riders \cup {NoRider}
    /\ breaks \in 0..MaxBreaks
    /\ link \in [Riders -> Links]
    /\ client \in [Riders -> ClientRecord]
    /\ up \in [Riders -> Seq(Requests)] /\ late \in [Riders -> Seq(Requests)]
    /\ down \in [Riders -> Seq(Replies)]
    /\ \A m \in Riders : Len(up[m]) <= Cap /\ Len(late[m]) <= Cap /\ Len(down[m]) <= Cap

\* VOICE_DEPLOYMENT.md: the microphone track is enabled only while the client
\* is joined, believes the floor to be its own and its button is held, whatever
\* the order of disconnects, rejoins, denials and late answers.
MicOnlyWhileHeld ==
    \A m \in Riders : client[m].mic =>
        client[m].joined /\ client[m].floorMember = m /\ client[m].pressActive

\* A joined client that has read all the server sent it believes in the floor
\* that the server has: the answers to its own requests and the broadcasts
\* caused by others, old sockets and drops included, never contradict.
BeliefFollowsFloor ==
    \A m \in Riders : link[m] = "on" /\ client[m].joined /\ down[m] = <<>> =>
        client[m].floorMember = floor

\* A microphone stays on without the floor only while the news is in transit
\* to it, or on a socket whose end has not reached the client yet.
MicWithoutFloorIsBrief ==
    \A m \in Riders : client[m].mic /\ floor # m =>
        link[m] = "cut" \/ \E i \in DOMAIN down[m] : down[m][i].type = "voice.floor"

\* A rider who has the floor on a live socket, after a reconnect that kept it
\* for instance, gets to see so and can give it back.
HolderLearns ==
    LET holds(m) == floor = m /\ client[m].enabled /\ link[m] = "on"
    IN TalkFairness => \A m \in Riders : holds(m) ~> ~holds(m) \/ client[m].floorMember = m

(* What the documents say *)

\* "Releasing PTT or losing the floor mutes the local track immediately": no
\* track is live once the button is up or PTT has been switched off.
ReleaseMutes ==
    \A m \in Riders : ~client[m].pressActive => ~client[m].mic /\ ~client[m].stray
=============================================================================
