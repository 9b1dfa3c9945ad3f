--------------------------- MODULE MCStorageRecovery ---------------------------
(***************************************************************************)
(* Instances of StorageRecovery for TLC.                                   *)
(***************************************************************************)
EXTENDS StorageRecovery, TLC

CONSTANTS c1, c2, k1, k2

\* One key or both in a row.
KeyBatches == {[rows |-> 1, keys |-> {k1}], [rows |-> 1, keys |-> {k1, k2}]}

RecoveryPhases == Phases \ {"up", "down"}
ClientSymmetry == Permutations(Clients)
AnyPhase == Phases \ {"down"}
=============================================================================
