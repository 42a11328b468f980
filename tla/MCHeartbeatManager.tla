------------------------- MODULE MCHeartbeatManager -------------------------
(***************************************************************************)
(* Instances of HeartbeatManager for TLC.                                  *)
(***************************************************************************)
EXTENDS HeartbeatManager, TLC

MCSymmetry == Permutations(Managers)

=============================================================================
