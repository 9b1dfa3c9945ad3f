------------------------------ MODULE StorageCore ------------------------------
(***************************************************************************)
(* The LSM storage engine of src/core/storage/core.py, open for use:       *)
(* appends to the memtable, flushes, compaction, range queries and close,  *)
(* by several threads at once.                                             *)
(*                                                                         *)
(* A key stands for one (timestamp_ns, parameter_id).  The value of a      *)
(* point is its version: the position in log of the append_rows call that  *)
(* brought it.  A run (a memtable, a snapshot, an SSTable) maps each key   *)
(* to the versions it holds, several until a merge keeps one.              *)
(*                                                                         *)
(* A region of the code under _state_lock is one action, and so is a file  *)
(* operation; what one thread does between two of them, others may see.    *)
(***************************************************************************)
EXTENDS Naturals, Sequences, FiniteSets

CONSTANTS Clients,            \* threads that call append_rows, flush, compact, close
          Readers,            \* threads that call query_range
          NoClient,           \* nobody holds _maintenance_lock
          Keys,               \* (timestamp_ns, parameter_id) pairs
          Batches,            \* what append_rows is called with: rows and their keys
          FlushMaxRows, FlushMaxPoints, FlushMaxBytes,
          CompactionMinTables,
          MaxLog,             \* bound: append_rows calls
          MaxFaults,          \* bound: failing flushes and compactions
          MaxUnlinkFaults     \* bound: failing deletions of a compacted SSTable

ASSUME NoClientAssumption == NoClient \notin Clients
ASSUME BatchesAssumption ==
    \A b \in Batches : b.rows \in Nat \ {0} /\ b.keys \subseteq Keys /\ IsFiniteSet(b.keys)
ASSUME ThresholdsAssumption ==
    /\ FlushMaxRows \in Nat /\ FlushMaxPoints \in Nat /\ FlushMaxBytes \in Nat
    /\ CompactionMinTables \in Nat
ASSUME BoundsAssumption == MaxLog \in Nat /\ MaxFaults \in Nat /\ MaxUnlinkFaults \in Nat

VARIABLES
    memtable,        \* _memtable: its row and point counters and its points
    tables,          \* ids of _tables (a list in the order of the ids)
    nextTableId,     \* _next_table_id
    pendingFlushes,  \* _pending_flushes: reserved id and rotated snapshot
    closed,          \* _closed
    holder,          \* owner of _maintenance_lock
    stage,           \* where the owner is in _drain_maintenance_locked
    job,             \* the flush or compaction it performs
    files,           \* sst_dir: the run of every SSTable file by its id
    primary, backup, \* the two manifest files
    pc,              \* what each client is doing
    query,           \* what each reader is doing
    log,             \* history: the keys of every accepted append_rows call
    lost,            \* history: versions whose flush failed
    faults,          \* failures so far, of tasks and of deletions
    unlinkFaults

lockVars == <<holder, stage, job>>
diskVars == <<files, primary, backup>>
historyVars == <<log, lost, faults, unlinkFaults>>
vars == <<memtable, tables, nextTableId, pendingFlushes, closed, lockVars,
          diskVars, pc, query, historyVars>>

-----------------------------------------------------------------------------
(* Runs and how they are merged.                                           *)

Versions == Nat \ {0}
Runs == [Keys -> SUBSET Versions]
NoPoints == [k \in Keys |-> {}]
PointSizeBytes == 24

Latest(versions) == {i \in versions : \A j \in versions : j <= i}

\* merge_runs over the tables in ids: the highest id that holds a key wins, and
\* within it the point that comes last.
MergeRuns(ids) ==
    [k \in Keys |->
        {i \in UNION {files[t][k] : t \in ids} :
            \E t \in ids : /\ i \in files[t][k]
                           /\ \A u \in ids : \A j \in files[u][k] :
                                 u < t \/ (u = t /\ j <= i)}]

\* What a query that began now would merge: memtable first, then the tables.
SnapshotView ==
    [k \in Keys |-> IF memtable.data[k] # {} THEN Latest(memtable.data[k])
                                             ELSE MergeRuns(tables)[k]]

\* The newest accepted version of each key, failed flushes excepted.
Accepted == [k \in Keys |-> Latest({i \in DOMAIN log : k \in log[i]} \ lost)]

-----------------------------------------------------------------------------
EmptyMemtable == [rows |-> 0, points |-> 0, data |-> NoPoints]
EmptyManifest == [next |-> 1, tables |-> {}]
NoJob == [kind |-> "none", id |-> 0, data |-> NoPoints,
          candidates |-> {}, manifest |-> EmptyManifest]
NoQuery == [pc |-> "idle", todo |-> {}, result |-> NoPoints, want |-> NoPoints,
            seen |-> NoPoints, skipped |-> FALSE, faults |-> 0]

\* The constructor on an empty data_dir.
Init ==
    /\ memtable = EmptyMemtable
    /\ tables = {}
    /\ nextTableId = 1
    /\ pendingFlushes = <<>>
    /\ closed = FALSE
    /\ holder = NoClient
    /\ stage = "free"
    /\ job = NoJob
    /\ files = [t \in {} |-> NoPoints]
    /\ primary = EmptyManifest
    /\ backup = EmptyManifest
    /\ pc = [c \in Clients |-> "idle"]
    /\ query = [r \in Readers |-> NoQuery]
    /\ log = <<>>
    /\ lost = {}
    /\ faults = 0
    /\ unlinkFaults = 0

-----------------------------------------------------------------------------
(* Calls of the clients.                                                   *)

ShouldFlush(mt) ==
    \/ FlushMaxRows > 0 /\ mt.rows >= FlushMaxRows
    \/ FlushMaxPoints > 0 /\ mt.points >= FlushMaxPoints
    \/ FlushMaxBytes > 0 /\ PointSizeBytes * mt.points >= FlushMaxBytes

\* Memtable.append_rows: every key of the batch gets a point of this version.
Appended(b) ==
    [rows |-> memtable.rows + b.rows,
     points |-> memtable.points + Cardinality(b.keys),
     data |-> [k \in Keys |-> IF k \in b.keys
                              THEN memtable.data[k] \cup {Len(log) + 1}
                              ELSE memtable.data[k]]]

\* Mutant: one slot for the rotated memtable instead of a queue.
EnqueueFlushOneSlot(mt) ==
    /\ pendingFlushes' = <<[id |-> nextTableId, data |-> mt.data]>>
    /\ nextTableId' = nextTableId + 1
    /\ memtable' = EmptyMemtable

\* _enqueue_current_memtable_flush_locked for memtable mt.
EnqueueFlush(mt) ==
    /\ pendingFlushes' = Append(pendingFlushes, [id |-> nextTableId, data |-> mt.data])
    /\ nextTableId' = nextTableId + 1
    /\ memtable' = EmptyMemtable

NothingEnqueued == UNCHANGED <<memtable, nextTableId, pendingFlushes>>

\* Mutant: like a try-lock, a busy lock leaves the drain to whoever holds it.
AppendRowsTryLock(c, b) ==
    /\ pc[c] = "idle"
    /\ ~closed
    /\ Len(log) < MaxLog
    /\ log' = Append(log, b.keys)
    /\ IF ShouldFlush(Appended(b))
       THEN /\ EnqueueFlush(Appended(b))
            /\ pc' = IF holder = NoClient THEN [pc EXCEPT ![c] = "waiting"] ELSE pc
       ELSE memtable' = Appended(b) /\ UNCHANGED <<nextTableId, pendingFlushes, pc>>
    /\ UNCHANGED <<tables, closed, lockVars, diskVars, query, lost, faults, unlinkFaults>>

AppendRows(c, b) ==
    /\ pc[c] = "idle"
    /\ ~closed
    /\ Len(log) < MaxLog
    /\ log' = Append(log, b.keys)
    /\ \/ /\ ShouldFlush(Appended(b))
          /\ EnqueueFlush(Appended(b))
          /\ pc' = [pc EXCEPT ![c] = "waiting"]
       \/ /\ ~ShouldFlush(Appended(b))
          /\ memtable' = Appended(b)
          /\ UNCHANGED <<nextTableId, pendingFlushes, pc>>
    /\ UNCHANGED <<tables, closed, lockVars, diskVars, query, lost, faults, unlinkFaults>>

Flush(c) ==
    /\ pc[c] = "idle"
    /\ ~closed
    /\ memtable.points > 0
    /\ EnqueueFlush(memtable)
    /\ pc' = [pc EXCEPT ![c] = "waiting"]
    /\ UNCHANGED <<tables, closed, lockVars, diskVars, query, historyVars>>

Compact(c) ==
    /\ pc[c] = "idle"
    /\ ~closed
    /\ pc' = [pc EXCEPT ![c] = "waiting"]
    /\ UNCHANGED <<memtable, tables, nextTableId, pendingFlushes, closed, lockVars,
                   diskVars, query, historyVars>>

\* Mutant: drains without _maintenance_lock.
TakeLockUnguarded(c) ==
    /\ holder' = c
    /\ stage' = "pick"
    /\ pc' = [pc EXCEPT ![c] = "draining"]

\* A waiting client gets _maintenance_lock and starts to drain.
TakeLock(c) ==
    /\ holder = NoClient
    /\ holder' = c
    /\ stage' = "pick"
    /\ pc' = [pc EXCEPT ![c] = "draining"]

Acquire(c) ==
    /\ pc[c] = "waiting"
    /\ TakeLock(c)
    /\ UNCHANGED <<memtable, tables, nextTableId, pendingFlushes, closed, job,
                   diskVars, query, historyVars>>

Close(c) ==
    /\ pc[c] = "idle"
    /\ pc' = [pc EXCEPT ![c] = "closing"]
    /\ UNCHANGED <<memtable, tables, nextTableId, pendingFlushes, closed, lockVars,
                   diskVars, query, historyVars>>

\* Mutant: close() does not rotate the memtable.
CloseFirstNoFlush(c) ==
    /\ pc[c] = "closing"
    /\ ~closed
    /\ TakeLock(c)
    /\ closed' = TRUE
    /\ NothingEnqueued
    /\ UNCHANGED <<tables, job, diskVars, query, historyVars>>

\* close() with _maintenance_lock held: only the first call does anything.
CloseFirst(c) ==
    /\ pc[c] = "closing"
    /\ ~closed
    /\ TakeLock(c)
    /\ closed' = TRUE
    /\ IF memtable.points > 0 THEN EnqueueFlush(memtable) ELSE NothingEnqueued
    /\ UNCHANGED <<tables, job, diskVars, query, historyVars>>

CloseAgain(c) ==
    /\ pc[c] = "closing"
    /\ holder = NoClient
    /\ closed
    /\ pc' = [pc EXCEPT ![c] = "idle"]
    /\ UNCHANGED <<memtable, tables, nextTableId, pendingFlushes, closed, lockVars,
                   diskVars, query, historyVars>>

-----------------------------------------------------------------------------
(* _drain_maintenance_locked, by the client that holds the lock.           *)

ReleaseLock(c) ==
    /\ holder' = NoClient
    /\ stage' = "free"
    /\ job' = NoJob
    /\ pc' = [pc EXCEPT ![c] = "idle"]

StartFlush(flush) ==
    /\ stage' = "write"
    /\ job' = [NoJob EXCEPT !.kind = "flush", !.id = flush.id, !.data = flush.data]

\* Mutant: a snapshot without points stays in the queue.
PickFlushKeepsEmpty(c) ==
    /\ holder = c
    /\ stage = "pick"
    /\ pendingFlushes # <<>>
    /\ IF Head(pendingFlushes).data = NoPoints
       THEN UNCHANGED <<pendingFlushes, stage, job>>
       ELSE pendingFlushes' = Tail(pendingFlushes) /\ StartFlush(Head(pendingFlushes))
    /\ UNCHANGED <<memtable, tables, nextTableId, closed, holder, diskVars, pc, query,
                   historyVars>>

\* Mutant: pop() instead of popleft().
PickFlushLast(c) ==
    /\ holder = c
    /\ stage = "pick"
    /\ pendingFlushes # <<>>
    /\ LET last == Len(pendingFlushes) IN
         /\ pendingFlushes' = SubSeq(pendingFlushes, 1, last - 1)
         /\ IF pendingFlushes[last].data = NoPoints THEN UNCHANGED <<stage, job>>
                                                    ELSE StartFlush(pendingFlushes[last])
    /\ UNCHANGED <<memtable, tables, nextTableId, closed, holder, diskVars, pc, query,
                   historyVars>>

\* A queued flush comes before any compaction.  _perform_flush returns at once
\* when the snapshot has no points.
PickFlush(c) ==
    /\ holder = c
    /\ stage = "pick"
    /\ pendingFlushes # <<>>
    /\ pendingFlushes' = Tail(pendingFlushes)
    /\ IF Head(pendingFlushes).data = NoPoints THEN UNCHANGED <<stage, job>>
                                               ELSE StartFlush(Head(pendingFlushes))
    /\ UNCHANGED <<memtable, tables, nextTableId, closed, holder, diskVars, pc, query,
                   historyVars>>

\* select_candidates: every table, once there are enough of them.
EnoughTables ==
    Cardinality(tables) >= (IF CompactionMinTables > 1 THEN CompactionMinTables ELSE 1)

StartCompaction ==
    /\ stage' = "write"
    /\ job' = [NoJob EXCEPT !.kind = "compaction", !.id = nextTableId,
                            !.candidates = tables]
    /\ nextTableId' = nextTableId + 1

\* Mutant: compacts while flushes wait with the ids they have reserved.
PickCompactionFirst(c) ==
    /\ holder = c
    /\ stage = "pick"
    /\ EnoughTables
    /\ StartCompaction
    /\ UNCHANGED <<memtable, tables, pendingFlushes, closed, holder, diskVars, pc, query,
                   historyVars>>

PickCompaction(c) ==
    /\ holder = c
    /\ stage = "pick"
    /\ pendingFlushes = <<>>
    /\ EnoughTables
    /\ StartCompaction
    /\ UNCHANGED <<memtable, tables, pendingFlushes, closed, holder, diskVars, pc, query,
                   historyVars>>

DrainDone(c) ==
    /\ holder = c
    /\ stage = "pick"
    /\ pendingFlushes = <<>>
    /\ ~EnoughTables
    /\ ReleaseLock(c)
    /\ UNCHANGED <<memtable, tables, nextTableId, pendingFlushes, closed, diskVars, query,
                   historyVars>>

\* write_snapshot, of the flushed snapshot or of the merge of the candidates.
WriteTable(c) ==
    /\ holder = c
    /\ stage = "write"
    /\ job.candidates \subseteq DOMAIN files
    /\ LET run == IF job.kind = "flush" THEN job.data ELSE MergeRuns(job.candidates) IN
         files' = [t \in DOMAIN files \cup {job.id} |-> IF t = job.id THEN run ELSE files[t]]
    /\ stage' = "build"
    /\ UNCHANGED <<memtable, tables, nextTableId, pendingFlushes, closed, holder, job,
                   primary, backup, pc, query, historyVars>>

\* Mutant: the table becomes visible although no manifest names it.
BuildManifestUnsaved(c) ==
    /\ holder = c
    /\ stage = "build"
    /\ job' = [job EXCEPT !.manifest =
                  [next |-> nextTableId, tables |-> (tables \ job.candidates) \cup {job.id}]]
    /\ stage' = "commit"
    /\ UNCHANGED <<memtable, tables, nextTableId, pendingFlushes, closed, holder, diskVars,
                   pc, query, historyVars>>

BuildManifest(c) ==
    /\ holder = c
    /\ stage = "build"
    /\ job' = [job EXCEPT !.manifest =
                  [next |-> nextTableId, tables |-> (tables \ job.candidates) \cup {job.id}]]
    /\ stage' = "primary"
    /\ UNCHANGED <<memtable, tables, nextTableId, pendingFlushes, closed, holder, diskVars,
                   pc, query, historyVars>>

\* ManifestData.validate for the list that ends with the new table.
ValidManifest(m, id) == id < m.next /\ \A t \in m.tables \ {id} : t < id

SavePrimary(c) ==
    /\ holder = c
    /\ stage = "primary"
    /\ ValidManifest(job.manifest, job.id)
    /\ primary' = job.manifest
    /\ stage' = "backup"
    /\ UNCHANGED <<memtable, tables, nextTableId, pendingFlushes, closed, holder, job,
                   files, backup, pc, query, historyVars>>

\* Mutant: the backup manifest is not written.
SaveBackupSkipped(c) ==
    /\ holder = c
    /\ stage = "backup"
    /\ stage' = "commit"
    /\ UNCHANGED <<memtable, tables, nextTableId, pendingFlushes, closed, holder, job,
                   diskVars, pc, query, historyVars>>

SaveBackup(c) ==
    /\ holder = c
    /\ stage = "backup"
    /\ backup' = job.manifest
    /\ stage' = "commit"
    /\ UNCHANGED <<memtable, tables, nextTableId, pendingFlushes, closed, holder, job,
                   files, primary, pc, query, historyVars>>

\* The new table becomes visible to queries.
CommitFlush(c) ==
    /\ holder = c
    /\ stage = "commit"
    /\ job.kind = "flush"
    /\ tables' = tables \cup {job.id}
    /\ stage' = "pick"
    /\ job' = NoJob
    /\ UNCHANGED <<memtable, nextTableId, pendingFlushes, closed, holder, diskVars, pc,
                   query, historyVars>>

\* Mutant: only the surviving tables stay in _tables.
CommitCompactionSurvivors(c) ==
    /\ holder = c
    /\ stage = "commit"
    /\ job.kind = "compaction"
    /\ tables' = tables \ job.candidates
    /\ stage' = "unlink"
    /\ UNCHANGED <<memtable, nextTableId, pendingFlushes, closed, holder, job, diskVars,
                   pc, query, historyVars>>

CommitCompaction(c) ==
    /\ holder = c
    /\ stage = "commit"
    /\ job.kind = "compaction"
    /\ tables' = job.manifest.tables
    /\ stage' = "unlink"
    /\ UNCHANGED <<memtable, nextTableId, pendingFlushes, closed, holder, job, diskVars,
                   pc, query, historyVars>>

\* Mutant: newest first.
NextUnlinkNewest(t) == t \in job.candidates /\ \A u \in job.candidates : u <= t

\* The candidates are deleted in the order of the list, oldest first.
NextUnlink(t) == t \in job.candidates /\ \A u \in job.candidates : t <= u

UnlinkNext(c) ==
    /\ holder = c
    /\ stage = "unlink"
    /\ \E t \in job.candidates :
         /\ NextUnlink(t)
         /\ job' = [job EXCEPT !.candidates = @ \ {t}]
         /\ \/ /\ files' = [u \in DOMAIN files \ {t} |-> files[u]]
               /\ UNCHANGED unlinkFaults
            \/ /\ unlinkFaults < MaxUnlinkFaults
               /\ unlinkFaults' = unlinkFaults + 1
               /\ UNCHANGED files
    /\ UNCHANGED <<memtable, tables, nextTableId, pendingFlushes, closed, holder, stage,
                   primary, backup, pc, query, log, lost, faults>>

UnlinkDone(c) ==
    /\ holder = c
    /\ stage = "unlink"
    /\ job.candidates = {}
    /\ stage' = "pick"
    /\ job' = NoJob
    /\ UNCHANGED <<memtable, tables, nextTableId, pendingFlushes, closed, holder, diskVars,
                   pc, query, historyVars>>

\* Mutant: a failed flush is queued again, under a new id.
TaskRaisesRequeues(c) ==
    /\ holder = c
    /\ stage \in {"write", "primary", "backup"}
    /\ faults < MaxFaults
    /\ faults' = faults + 1
    /\ IF job.kind = "flush"
       THEN /\ pendingFlushes' = Append(pendingFlushes, [id |-> nextTableId, data |-> job.data])
            /\ nextTableId' = nextTableId + 1
       ELSE UNCHANGED <<pendingFlushes, nextTableId>>
    /\ ReleaseLock(c)
    /\ UNCHANGED <<memtable, tables, closed, diskVars, query, log, lost, unlinkFaults>>

\* An exception leaves _drain_maintenance_locked and reaches the caller that
\* drains: from an input file that is gone or a manifest that is not valid, and
\* otherwise from an I/O error while the table or a manifest is written.  The
\* snapshot of a flush was popped from the queue: nobody holds it any more.
MustRaise ==
    \/ stage = "write" /\ ~(job.candidates \subseteq DOMAIN files)
    \/ stage = "primary" /\ ~ValidManifest(job.manifest, job.id)

TaskRaises(c) ==
    /\ holder = c
    /\ stage \in {"write", "primary", "backup"}
    /\ ~MustRaise => faults < MaxFaults
    /\ faults' = IF MustRaise THEN faults ELSE faults + 1
    /\ lost' = lost \cup UNION {job.data[k] : k \in Keys}
    /\ ReleaseLock(c)
    /\ UNCHANGED <<memtable, tables, nextTableId, pendingFlushes, closed, diskVars, query,
                   log, unlinkFaults>>

-----------------------------------------------------------------------------
(* query_range.  The sources are opened by merge_runs in the order of the  *)
(* list: the memtable snapshot, then the tables by descending id.  A file  *)
(* that is open stays readable after its deletion.                         *)

QueryBegin(r) ==
    /\ query[r].pc = "idle"
    /\ ~closed
    /\ query' = [query EXCEPT ![r] =
          [pc |-> "reading", todo |-> tables,
           result |-> [k \in Keys |-> Latest(memtable.data[k])],
           want |-> SnapshotView, seen |-> Accepted, skipped |-> FALSE,
           faults |-> unlinkFaults]]
    /\ UNCHANGED <<memtable, tables, nextTableId, pendingFlushes, closed, lockVars,
                   diskVars, pc, historyVars>>

\* Mutant: tables in the order of _tables, first source wins.
NextReadOldest(r, t) == t \in query[r].todo /\ \A u \in query[r].todo : t <= u

NextRead(r, t) == t \in query[r].todo /\ \A u \in query[r].todo : u <= t

\* The table adds the keys no source of a higher priority has.
ReadTable(r) ==
    /\ query[r].pc = "reading"
    /\ \E t \in query[r].todo :
         /\ NextRead(r, t)
         /\ t \in DOMAIN files
         /\ query' = [query EXCEPT
               ![r].todo = @ \ {t},
               ![r].result = [k \in Keys |->
                   IF @[k] # {} THEN @[k] ELSE Latest(files[t][k])]]
    /\ UNCHANGED <<memtable, tables, nextTableId, pendingFlushes, closed, lockVars,
                   diskVars, pc, historyVars>>

\* FileNotFoundError; whether the table is still active is asked afterwards.
FileMissing(r) ==
    /\ query[r].pc = "reading"
    /\ \E t \in query[r].todo : NextRead(r, t) /\ t \notin DOMAIN files
    /\ query' = [query EXCEPT ![r].pc = "missing"]
    /\ UNCHANGED <<memtable, tables, nextTableId, pendingFlushes, closed, lockVars,
                   diskVars, pc, historyVars>>

\* Mutant: asks the list the query took, which has every table it reads.
CheckActiveOwnList(r) ==
    /\ query[r].pc = "missing"
    /\ query' = [query EXCEPT ![r].pc = "raised"]
    /\ UNCHANGED <<memtable, tables, nextTableId, pendingFlushes, closed, lockVars,
                   diskVars, pc, historyVars>>

CheckActive(r) ==
    /\ query[r].pc = "missing"
    /\ \E t \in query[r].todo :
         /\ NextRead(r, t)
         /\ query' = [query EXCEPT
               ![r].pc = IF t \in tables THEN "raised" ELSE "reading",
               ![r].todo = @ \ {t},
               ![r].skipped = TRUE]
    /\ UNCHANGED <<memtable, tables, nextTableId, pendingFlushes, closed, lockVars,
                   diskVars, pc, historyVars>>

QueryEnd(r) ==
    /\ query[r].pc \in {"reading", "raised"}
    /\ query[r].pc = "reading" => query[r].todo = {}
    /\ query' = [query EXCEPT ![r] = NoQuery]
    /\ UNCHANGED <<memtable, tables, nextTableId, pendingFlushes, closed, lockVars,
                   diskVars, pc, historyVars>>

-----------------------------------------------------------------------------
Drain(c) ==
    \/ PickFlush(c) \/ PickCompaction(c) \/ DrainDone(c)
    \/ WriteTable(c) \/ BuildManifest(c) \/ SavePrimary(c) \/ SaveBackup(c)
    \/ CommitFlush(c) \/ CommitCompaction(c) \/ UnlinkNext(c) \/ UnlinkDone(c)

LockStep(c) == Acquire(c) \/ CloseFirst(c) \/ CloseAgain(c)

Call(c) == Flush(c) \/ Compact(c) \/ Close(c) \/ \E b \in Batches : AppendRows(c, b)

Read(r) == ReadTable(r) \/ FileMissing(r) \/ CheckActive(r) \/ QueryEnd(r)

Next ==
    \/ \E c \in Clients : Call(c) \/ LockStep(c) \/ Drain(c) \/ TaskRaises(c)
    \/ \E r \in Readers : QueryBegin(r) \/ Read(r)

Spec == Init /\ [][Next]_vars

\* A thread that can run does run, and a free lock is given to someone who
\* waits for it: threading.Lock promises no more (it is not fair between them).
Fairness ==
    /\ WF_vars(\E c \in Clients : LockStep(c))
    /\ \A c \in Clients : WF_vars(Drain(c))
    /\ \A r \in Readers : WF_vars(Read(r))

FairSpec == Spec /\ Fairness

-----------------------------------------------------------------------------
(* Properties.                                                             *)

Manifests == [next : Versions, tables : SUBSET Versions]
Stages == {"free", "pick", "write", "build", "primary", "backup", "commit", "unlink"}
Jobs == [kind : {"none", "flush", "compaction"}, id : Nat, data : Runs,
         candidates : SUBSET Versions, manifest : Manifests]
Queries == [pc : {"idle", "reading", "missing", "raised"}, todo : SUBSET Versions,
            result : Runs, want : Runs, seen : Runs, skipped : BOOLEAN,
            faults : Nat]

\* The shape of the engine in memory and of its files.
EngineTypeOK ==
    /\ memtable \in [rows : Nat, points : Nat, data : Runs]
    /\ tables \subseteq Versions
    /\ nextTableId \in Versions
    /\ pendingFlushes \in Seq([id : Versions, data : Runs])
    /\ closed \in BOOLEAN
    /\ holder \in Clients \cup {NoClient}
    /\ stage \in Stages
    /\ job \in Jobs
    /\ DOMAIN files \subseteq Versions
    /\ \A t \in DOMAIN files : files[t] \in Runs
    /\ pc \in [Clients -> {"idle", "waiting", "closing", "draining"}]
    /\ \A c \in Clients : pc[c] = "draining" <=> holder = c
    /\ holder = NoClient <=> stage = "free"
    /\ query \in [Readers -> Queries]
    /\ log \in Seq(SUBSET Keys)
    /\ lost \subseteq Versions
    /\ faults \in Nat /\ unlinkFaults \in Nat

\* The shape of the state, and who holds _maintenance_lock: the one client that
\* drains, between its Acquire and its return.
TypeOK == EngineTypeOK /\ primary \in Manifests /\ backup \in Manifests

\* The ids of flushes are reserved by the appenders and those of compactions by
\* the drainer, at different moments; still every manifest handed to
\* ManifestStore.save lists strictly increasing ids below next_table_id, so save
\* never raises for it and no id is used twice (core.py 347-375, 398-409).
ManifestAlwaysValid == stage = "primary" => ValidManifest(job.manifest, job.id)

\* Whichever instant the process dies at, both manifest files describe an engine
\* that can be opened and that has everything queries could see: each file they
\* name exists and each key has the version of the current tables or a newer one
\* (manifest.py 73-88, the order of write, save, commit and unlink in core.py).
Covers(newer, older) ==
    \A k \in Keys : \A i \in older[k] : \E j \in newer[k] : i <= j

FilesExist == tables \cup primary.tables \cup backup.tables \subseteq DOMAIN files

CrashSafe ==
    /\ FilesExist
    /\ Covers(MergeRuns(primary.tables), MergeRuns(tables))
    /\ Covers(MergeRuns(backup.tables), MergeRuns(tables))

\* Every place an accepted point can be, by its merge priority: the tables, the
\* flush in progress, the queue and the memtable.
FlushInProgress == stage \in {"write", "build", "primary", "backup", "commit"}
                   /\ job.kind = "flush"
Held ==
    {[id |-> t, data |-> files[t]] : t \in tables}
      \cup (IF FlushInProgress THEN {[id |-> job.id, data |-> job.data]} ELSE {})
      \cup {pendingFlushes[n] : n \in DOMAIN pendingFlushes}
      \cup {[id |-> nextTableId, data |-> memtable.data]}

\* Newest wins is decided by table ids alone, so ids must follow the order of the
\* appends: of two runs that hold a key, the one with the higher id has only
\* newer versions of it, through flushes, compactions and failures
\* (compaction.py 66-73, core.py 367-375).
RunsOrdered ==
    \A x, y \in Held : x.id < y.id =>
        \A k \in Keys : \A i \in x.data[k], j \in y.data[k] : i < j

\* No interleaving of appends, flushes, compactions and close drops an accepted
\* point: it, or a newer version of its key, is in a table, in a flush that is
\* queued or running, or in the memtable.  Only a flush that raised loses points.
NothingLost ==
    \A n \in DOMAIN log : \A k \in log[n] :
        n \in lost \/ \E x \in Held : \E j \in x.data[k] : n <= j

\* When close() has returned and nothing failed, the primary manifest alone
\* yields the newest accepted version of every key: an append that raced with
\* close was either refused or is on disk (core.py 231-256).
CloseIsDurable ==
    closed /\ holder = NoClient /\ faults = 0 => MergeRuns(primary.tables) = Accepted

\* A queued flush always has a thread that will come for it: its enqueuer still
\* waits for the lock, or some client holds it and drains.  A drain that raises
\* leaves the rest of the queue behind, so this needs every enqueuer to drain
\* for itself (core.py 104-107, 215-219, 377-384).
PendingHasDrainer ==
    pendingFlushes # <<>> => holder # NoClient \/ \E c \in Clients : pc[c] = "waiting"

\* A flush or compaction never takes a point out of the tables queries read: no
\* commit replaces a version of a key by an older one or by none.
TablesNeverRegress == [][Covers(MergeRuns(tables)', MergeRuns(tables))]_vars

\* A query whose file was deleted under it finds that the table is no longer
\* active: files go only after the commit, so query_range never raises
\* (core.py 473-487, 695-717).
QueryNeverRaises == \A r \in Readers : query[r].pc # "raised"

\* What a query has for key k is the newest version of its snapshot, or nothing.
ReadsNewest(r, k) == query[r].result[k] \subseteq query[r].want[k]

\* A query over tables that a compaction deletes may miss keys, but never returns an
\* older version of one, because files are deleted oldest first and opened newest
\* first (core.py 478-494, 695-717).  It may if a deletion fails while it runs; one
\* that failed before leaves a file behind that no later query reads.
NoStaleRead ==
    \A r \in Readers :
        query[r].faults = unlinkFaults => \A k \in Keys : ReadsNewest(r, k)

QueryReturns(r) == query[r].pc = "reading" /\ query[r].todo = {}

\* A query that met no deleted file returns its snapshot, newest wins, for every
\* key, whatever ran meanwhile.
CompleteUnlessSkipped ==
    \A r \in Readers :
        QueryReturns(r) /\ ~query[r].skipped => query[r].result = query[r].want

\* Every accepted point is on disk and in a manifest in the end, or its flush
\* raised, once its memtable was rotated: the queue does not strand it.
QueuedEventuallyDurable ==
    \A n \in 1..MaxLog :
        (\E m \in DOMAIN pendingFlushes : \E k \in Keys : n \in pendingFlushes[m].data[k])
          ~> (n \in lost \/ \A k \in Keys : n \in DOMAIN log /\ k \in log[n] =>
                  \E j \in MergeRuns(primary.tables)[k] : n <= j)

\* A drain ends: whoever holds _maintenance_lock gives it back.
LockIsReleased == \A c \in Clients : holder = c ~> holder # c

-----------------------------------------------------------------------------
(* Statements of the documentation the code does not keep.                 *)

\* contract_storage_v2.md section 3: a query reads the memtable snapshot and the
\* active tables, newest wins.
QueryReturnsSnapshot ==
    \A r \in Readers : QueryReturns(r) => query[r].result = query[r].want

\* test_concurrency.py: parallel writes and reads expose the latest value.
QuerySeesAccepted ==
    \A r \in Readers :
        QueryReturns(r) /\ ~query[r].skipped => Covers(query[r].result, query[r].seen)
=============================================================================
