------------------------------ MODULE LmdbSyncMC ------------------------------
(* Model checking of LmdbSync: the cfg files give the constants; daemons are *)
(* interchangeable in the runs without liveness.                             *)
EXTENDS LmdbSync, TLC

DaemonSymmetry == Permutations(Daemons)
===============================================================================
