--------------------------- MODULE StorageRefinement ---------------------------
(***************************************************************************)
(* StorageCore implements PrefixStore: the tables queries read, which are  *)
(* those of the last manifest, always replay a prefix of the appends.      *)
(***************************************************************************)
EXTENDS StorageCore

VersionsOf(run) == UNION {run[k] : k \in Keys}
InFlush == IF FlushInProgress THEN VersionsOf(job.data) ELSE {}
Queued(n) == VersionsOf(pendingFlushes[n].data)

\* Accepted calls that are not in a table yet: in the memtable, in the flush in
\* progress or in the queue.
Outstanding ==
    VersionsOf(memtable.data) \cup InFlush
      \cup UNION {Queued(n) : n \in DOMAIN pendingFlushes}

\* Everything before the oldest outstanding call is accounted for.
Persisted ==
    IF Outstanding = {} THEN Len(log)
    ELSE (CHOOSE n \in Outstanding : \A m \in Outstanding : n <= m) - 1

Store == INSTANCE PrefixStore WITH persisted <- Persisted, view <- MergeRuns(tables)

Loop == INSTANCE MaintenanceLoop WITH
    queued <- Len(pendingFlushes),
    tableCount <- Cardinality(tables),
    draining <- holder # NoClient,
    task <- IF stage \in {"write", "build", "primary", "backup", "commit"}
            THEN job.kind ELSE "none"

\* The tables hold exactly a prefix of the accepted appends, in their order,
\* minus the flushes that raised, and a step only ever extends it: neither the
\* queue, nor the two kinds of jobs, nor a failure reorders, splits or skips
\* what threads appended (core.py 386-502).
ImplementsPrefixStore == Store!Spec

\* A drain is the loop that MaintenanceLoop counts: one task at a time, no
\* compaction while a flush waits, one table left by a compaction, and no return
\* before both are done, whatever the other threads queue meanwhile.
ImplementsMaintenanceLoop == Loop!Spec
=============================================================================
