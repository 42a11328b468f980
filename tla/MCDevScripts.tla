---------------------------- MODULE MCDevScripts ----------------------------
(***************************************************************************)
(* Three process ids: the two services and one more, so that an id can be  *)
(* freed, reused and named by a stale file while both services run.        *)
(***************************************************************************)
EXTENDS DevScripts, TLC

PidSymmetry == Permutations(Pids)
=============================================================================
