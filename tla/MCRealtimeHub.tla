---------------------------- MODULE MCRealtimeHub ----------------------------
(***************************************************************************)
(* Instances of RealtimeHub for TLC.  Sockets and member ids are drawn at    *)
(* random by the code and never ordered, so both are symmetric.             *)
(***************************************************************************)
EXTENDS RealtimeHub, TLC

Symmetry == Permutations(Conns) \cup Permutations(Members)

=============================================================================
