--------------------------- MODULE MCOfflineQueue ---------------------------
(* The device's queue for TLC.  Photos are alike: the safety run takes      *)
(* them up to a permutation; the runs with liveness do not.                 *)
EXTENDS OfflineQueue, TLC

PhotoSymmetry == Permutations(Photo)
=============================================================================
