----------------------------- MODULE VoiceChannel -----------------------------
(***************************************************************************)
(* What the voice part of one Ryde promises, whatever sockets do: a channel  *)
(* of at most MaxPeers members and a talk floor that is free or held by one   *)
(* of them.  The floor passes from one member to another only through being   *)
(* free, is taken only by a member of the channel, and goes with its holder.  *)
(***************************************************************************)
EXTENDS Naturals, FiniteSets

CONSTANTS Members, MaxPeers, NoMember

VARIABLES channel, holder

channelVars == <<channel, holder>>

Init == channel = {} /\ holder = NoMember

Enter(m) ==
    /\ m \notin channel
    /\ Cardinality(channel) < MaxPeers
    /\ channel' = channel \cup {m}
    /\ UNCHANGED holder

Leave(m) ==
    /\ m \in channel
    /\ channel' = channel \ {m}
    /\ holder' = IF holder = m THEN NoMember ELSE holder

TakeFloor(m) ==
    /\ m \in channel
    /\ holder = NoMember
    /\ holder' = m
    /\ UNCHANGED channel

ReleaseFloor ==
    /\ holder # NoMember
    /\ holder' = NoMember
    /\ UNCHANGED channel

\* The Ryde ends, or the process does.
Dissolve == channel' = {} /\ holder' = NoMember

Next ==
    \/ \E m \in Members : Enter(m) \/ Leave(m) \/ TakeFloor(m)
    \/ ReleaseFloor
    \/ Dissolve

Spec == Init /\ [][Next]_channelVars

=============================================================================
