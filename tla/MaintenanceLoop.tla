---------------------------- MODULE MaintenanceLoop ----------------------------
(***************************************************************************)
(* The loop of _drain_maintenance_locked (core.py) by numbers: how many    *)
(* flushes are queued and how many tables there are.  Without the ids,     *)
(* which grow for ever, a drain that never ends is a cycle of states.      *)
(***************************************************************************)
EXTENDS Naturals

CONSTANT CompactionMinTables   \* any natural number

VARIABLES queued,      \* length of _pending_flushes
          tableCount,  \* length of _tables
          draining,    \* some thread is in _drain_maintenance_locked
          task         \* what it performs

vars == <<queued, tableCount, draining, task>>

Init ==
    /\ queued = 0
    /\ tableCount = 0
    /\ draining = FALSE
    /\ task = "none"

\* append_rows and flush.
Enqueue ==
    /\ queued' = queued + 1
    /\ UNCHANGED <<tableCount, draining, task>>

\* _drain_maintenance, from append_rows, flush or compact.
Start ==
    /\ ~draining
    /\ draining' = TRUE
    /\ UNCHANGED <<queued, tableCount, task>>

\* close() queues the memtable and starts in one step.
CloseStart ==
    /\ ~draining
    /\ draining' = TRUE
    /\ queued' = queued + 1
    /\ UNCHANGED <<tableCount, task>>

\* The flush of an empty snapshot returns at once.
PickFlush ==
    /\ draining /\ task = "none"
    /\ queued > 0
    /\ queued' = queued - 1
    /\ task' \in {"none", "flush"}
    /\ UNCHANGED <<tableCount, draining>>

\* select_candidates: max(1, min_tables) tables are enough.
EnoughTables == tableCount >= 1 /\ tableCount >= CompactionMinTables

PickCompaction ==
    /\ draining /\ task = "none"
    /\ queued = 0
    /\ EnoughTables
    /\ task' = "compaction"
    /\ UNCHANGED <<queued, tableCount, draining>>

FinishFlush ==
    /\ task = "flush"
    /\ tableCount' = tableCount + 1
    /\ task' = "none"
    /\ UNCHANGED <<queued, draining>>

\* All tables were candidates and one replaces them.
FinishCompaction ==
    /\ task = "compaction"
    /\ tableCount' = 1
    /\ task' = "none"
    /\ UNCHANGED <<queued, draining>>

Return ==
    /\ draining /\ task = "none"
    /\ queued = 0
    /\ ~EnoughTables
    /\ draining' = FALSE
    /\ UNCHANGED <<queued, tableCount, task>>

\* The task raises and the exception ends the drain.
Raise ==
    /\ task # "none"
    /\ task' = "none"
    /\ draining' = FALSE
    /\ UNCHANGED <<queued, tableCount>>

Work == PickFlush \/ PickCompaction \/ FinishFlush \/ FinishCompaction \/ Return

Next == Enqueue \/ Start \/ CloseStart \/ Work \/ Raise

Spec == Init /\ [][Next]_vars
=============================================================================
