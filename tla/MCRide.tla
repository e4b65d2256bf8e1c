-------------------------------- MODULE MCRide --------------------------------
(***************************************************************************)
(* Parts of RydeSync that do not meet in a step: the releases of the page,   *)
(* signing in, the registry, the relay credentials, the shared soundtrack    *)
(* and push-to-talk.  An instance for TLC runs one of them and leaves the    *)
(* others at rest.  Each property speaks of one part, and holds at rest.     *)
(***************************************************************************)
EXTENDS Release, SignIn, RoomStore, TurnLease, PlaybackControl, TalkFloor

VARIABLE part

rideVars ==
    <<part, releaseVars, signVars, storeVars, leaseVars, controlVars, vars>>

RideInit ==
    /\ part \in {"release", "sign", "store", "lease", "control", "talk"}
    /\ ReleaseInit /\ SignInit /\ StoreInit /\ LeaseInit /\ ControlInit /\ Init
    /\ part # "release" => storing /\ deployed = CHOOSE r \in Releases : TRUE

RideNext ==
    /\ UNCHANGED part
    /\ \/ /\ part = "release" /\ ReleaseNext
          /\ UNCHANGED <<signVars, storeVars, leaseVars, controlVars, vars>>
       \/ /\ part = "sign" /\ SignNext
          /\ UNCHANGED <<releaseVars, storeVars, leaseVars, controlVars, vars>>
       \/ /\ part = "store" /\ StoreNext
          /\ UNCHANGED <<releaseVars, signVars, leaseVars, controlVars, vars>>
       \/ /\ part = "lease" /\ LeaseNext
          /\ UNCHANGED <<releaseVars, signVars, storeVars, controlVars, vars>>
       \/ /\ part = "control" /\ ControlNext
          /\ UNCHANGED <<releaseVars, signVars, storeVars, leaseVars, vars>>
       \/ /\ part = "talk" /\ Next
          /\ UNCHANGED <<releaseVars, signVars, storeVars, leaseVars, controlVars>>

RideSpec == RideInit /\ [][RideNext]_rideVars

\* The states of the six parts have their types.
RideTypeOK ==
    ReleaseTypeOK /\ SignTypeOK /\ StoreTypeOK /\ LeaseTypeOK /\ ControlTypeOK /\ TypeOK
=============================================================================
