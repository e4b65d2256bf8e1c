------------------------------- MODULE MCDevice -------------------------------
(***************************************************************************)
(* Parts of a rider's device that do not meet in a step: the list of rooms,  *)
(* the playlist queue, the live location and push-to-talk.  An instance for  *)
(* TLC runs one of them and leaves the others at rest.  Each property speaks *)
(* of one part, and holds at rest.                                           *)
(***************************************************************************)
EXTENDS SavedRooms, PlaylistQueue, LocationShare, TalkFloor

VARIABLE part

deviceVars == <<part, savedVars, queueVars, locationVars, vars>>

MCSongs == <<"s1", "s2">>

DeviceInit ==
    /\ part \in {"saved", "queue", "location", "talk"}
    /\ SavedInit /\ QueueInit /\ LocationInit /\ Init

DeviceNext ==
    /\ UNCHANGED part
    /\ \/ /\ part = "saved" /\ SavedNext
          /\ UNCHANGED <<queueVars, locationVars, vars>>
       \/ /\ part = "queue" /\ QueueNext
          /\ UNCHANGED <<savedVars, locationVars, vars>>
       \/ /\ part = "location" /\ LocationNext
          /\ UNCHANGED <<savedVars, queueVars, vars>>
       \/ /\ part = "talk" /\ Next
          /\ UNCHANGED <<savedVars, queueVars, locationVars>>

DeviceSpec ==
    /\ DeviceInit /\ [][DeviceNext]_deviceVars

\* The states of the list, the queue and the location have their types.
DeviceTypeOK == SavedTypeOK /\ QueueTypeOK /\ LocationTypeOK
=============================================================================
