-------------------------- MODULE RecoveryRefinement --------------------------
(***************************************************************************)
(* Through crashes StorageRecovery implements PrefixStore, which knows of  *)
(* no process: its view is what the primary manifest describes, whether an *)
(* engine is open, down, or in the middle of recover().                    *)
(***************************************************************************)
EXTENDS StorageRecovery

\* Everything before the oldest accepted call that only memory has is on disk.
PersistedOnDisk ==
    IF InMemoryOnly = {} THEN Len(log)
    ELSE (CHOOSE n \in InMemoryOnly : \A m \in InMemoryOnly : n <= m) - 1

DiskStore == INSTANCE PrefixStore WITH
    persisted <- PersistedOnDisk,
    view <- MergeRuns(primary.tables)

\* At every instant, also between two steps of recover(), the primary manifest
\* describes a prefix of the accepted appends, minus those a crash took from
\* memory; it never goes back, and a crash takes only what was in memory.
DiskImplementsPrefixStore == DiskStore!Spec
=============================================================================
