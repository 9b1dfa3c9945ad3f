# A verification project for qar-telemetry-storage

The repository is a Python program that takes frames of flight parameters from
an emulated FDAU (flight data acquisition unit), passes them through a queue
and stores them in a log-structured engine: a memtable, SSTable files, a
manifest in two copies, compaction, range queries and aggregates. Several
threads use the engine at once. This directory holds TLA+ modules that model
it, TLC configurations that check them on small instances, and proofs of their
theorems for TLAPS.

Names of variables and actions follow the code. A definition marked *Mutant* is
a deliberately wrong variant of the definition after it, which no specification
uses; it is there to confirm that a property fails when the code has that bug.

## 1. The system

| Component | State | Operations | Hard behaviour |
|---|---|---|---|
| `StorageCore` (`src/core/storage/core.py`) | memtable, list of tables, next id, queue of rotated snapshots, closed flag, two locks | `append_rows`, `flush`, `compact`, `close`, `recover`, `query_range`, `stats_snapshot` | any thread may become the one that drains; ids are reserved in two places; queries run while files are deleted |
| Manifest store (`manifest.py`) | primary and backup file | `save` (primary, then backup, each by temporary file and rename), `load_*` | a crash between the two renames, a file that is missing or damaged |
| Memtable (`memtable.py`, `config.py`) | rows, points, counters | `append_rows`, `snapshot`, `should_flush` | rows without columns, thresholds that are 0 |
| Compaction (`compaction.py`) | none | `select_candidates`, `merge_runs`, `compact_tables` | newest wins by table id only |
| SSTable format (`sstable.py`, `models.py`) | a file | `write_snapshot`, `inspect`, `scan_range`, the v1 and v2 codecs | block boundaries, varints |
| Aggregates (`analysis.py`) | accumulator | `query_aggregates` | empty ranges |
| Ingest service (`ingest.py`) | bounded queue, worker thread, batch | `start`, `stop`, `on_frame`, the worker's `run` | full queue and drop policies, stop while producers run, an exception of the engine |
| FDAU emulator (`fdau.py`) | schedule (`next_tick_time`), sequence number, stop event, map of parameters to ticks | `run`, `stop` | late ticks, rounding of minor frames to ticks |
| Application (`main.py`) | threads | `fdau_ingest`: start, shutdown | joins with a timeout before `close` |
| Benchmark (`benchmark.py`) | counters | capture benchmark: frames, stop, flush, report | the report is read while a worker may run |
| Export, flight plots, FLT reader, settings, logging | none that matters | | |

The FDAU calls `IngestService.on_frame` for each frame, the service's worker
batches frames and calls `append_rows`, and queries come from other threads or
processes. Inside the engine `_maintenance_lock` serialises flushes and
compactions and `_state_lock` guards the fields in memory; file operations
happen outside of `_state_lock`.

What makes them correct:

* engine: no accepted point is lost or overtaken by an older one; every
  manifest is valid; a crash at any instant leaves manifests that open and that
  cover what queries saw; a query returns newest-wins values of its snapshot;
  what `close` leaves is complete; drains end;
* recovery: what was durable is back, no file with durable points is put aside;
* ingest: each accepted frame is stored once, dropped and counted, or still in
  the queue; stop ends; a producer is not blocked for ever;
* FDAU: the schedule does not drift, and a parameter is emitted once for each of
  its minor frames;
* application: it always ends, and what it took is durable or reported as lost;
* codecs and merges: reading gives what was written, merging is newest-wins.

`PROJECT.json` lists the hazards line by line.

## 2. Modules

| Module | What it is |
|---|---|
| `StorageCore` | the engine while it is open: appends, flushes, compactions, queries and close by several threads |
| `PrefixStore` | what the engine promises about its tables: they replay a growing prefix of the accepted calls |
| `MaintenanceLoop` | the loop of `_drain_maintenance_locked` by numbers |
| `StorageRefinement` | the refinement mappings from `StorageCore` to these two |
| `StorageRecovery` | `StorageCore` through crashes, exits, damaged files and `recover()` |
| `RecoveryRefinement` | the refinement mapping from `StorageRecovery` to `PrefixStore` |
| `SSTableFile` | the SSTable format as operators: blocks, both codecs, index, pruning |
| `ReadPath` | the points of one thread: write, merge, compact, query, aggregate |
| `IngestService` | producers, bounded queue, worker, owner |
| `FdauUnit` | the thread of the FDAU emulator and its clock |
| `Pipeline` | `fdau_ingest` and the capture benchmark: unit, service, engine and main thread from start to end |
| `StorageCoreProofs`, `StorageDataProofs` | theorems about `StorageCore`: ids and files; points, queries and the queue |
| `StorageRefinementProofs` | `StorageCore` implements `PrefixStore` and `MaintenanceLoop`; `close` is durable |
| `StorageRecoveryProofs` | theorems about `StorageRecovery`: file names, durable points and order through restarts, and what damage costs |
| `IngestProofs`, `FdauProofs` | theorems about `IngestService` and `Pipeline`, and about `FdauUnit` |
| `SSTableProofs`, `ReadPathProofs` | theorems about the format of a file, and about `ReadPath` |
| `MC...` | instances for TLC |

`StorageRecovery` composes the engine with its process and its disk: its action
`Running` is the whole `Next` of `StorageCore`. `ReadPath` uses `SSTableFile`
and refines by data what `StorageCore` abstracts: there a run is a set of
versions by key and a merge is one operator, here it is a file of blocks and a
heap. `IngestService` sees the engine as a sequence of rows that `append_rows`
extends, or raises. `Pipeline` extends `IngestService`: in place of any
producer and any owner it has the threads of one program, and of the engine it
also knows how many of the rows are durable, which is the view of
`PrefixStore`.

### StorageCore

A key is a pair (timestamp, parameter), and the value of a point is the number
of the `append_rows` call that brought it, so newest-wins can be told from
oldest-wins. A run (memtable, snapshot, SSTable) maps a key to the versions it
holds; a memtable may have several versions of a key until a merge keeps one.

A region under `_state_lock` is one action and a file operation is one action;
between two of them any other thread may act.

| Code | Model |
|---|---|
| `append_rows` | `AppendRows`: appends, rotates when a threshold is reached, then waits for `_maintenance_lock` |
| `flush`, `compact` | `Flush`, `Compact` |
| `close` | `Close`, then `CloseFirst` or `CloseAgain` once the lock is free |
| `_drain_maintenance` | `Acquire`, ..., `DrainDone` or `TaskRaises` |
| `_drain_maintenance_locked` | `PickFlush`, `PickCompaction` |
| `write_snapshot`, `compact_tables` | `WriteTable` |
| manifest of a task, `ManifestStore.save` | `BuildManifest`, `SavePrimary`, `SaveBackup` |
| last part of `_perform_flush`, `_perform_compaction` | `CommitFlush`, `CommitCompaction`, `UnlinkNext`, `UnlinkDone` |
| an exception of a task | `TaskRaises` |
| `query_range` | `QueryBegin`, `ReadTable`, `FileMissing`, `CheckActive`, `QueryEnd` |

`query_range` opens its sources one after the other (all of them when the heap
is built), which `ReadTable` does; an open file is readable after its deletion,
so the contents are taken at that step. An exception of a flush loses the
snapshot it had popped; `lost` is a history variable that says which points
those were. `log` is the history of accepted calls.

Decisions that shape the model:

* A timestamp and a parameter matter only as a key, because `StorageCore` asks
  who wins and what is lost. Their order, blocks and encodings are in `ReadPath`.
* `append_rows` appends the whole batch in one region of `_state_lock`, so a
  version is a call, not a point.
* `WriteTable`, `SavePrimary` and `SaveBackup` are single steps: each writes a
  temporary file and renames it, so nothing else ever sees half of it.
* `MaxFaults` bounds I/O errors of tasks. A task that the code itself makes fail
  (an input file that is gone, a manifest that does not validate) always fails,
  without a bound: `MustRaise`.
* A task that raises while a manifest is saved leaves its new file behind. If the
  primary does not name it, recovery meets it as an orphan.

### StorageRecovery

| Code | Model |
|---|---|
| a process that dies, an exception out of the constructor | `Crash`, in the engine or between two steps of `recover()` |
| the end of a process after `close` | `Exit` |
| a file that is damaged while no process runs | `Damage`: a manifest becomes `Unreadable`, or an SSTable joins `damaged` |
| the constructor | `Restart` |
| `_load_and_validate_manifest` of primary and backup | `LoadPrimary`, `LoadBackup` with `Valid` |
| `_quarantine_path` of a manifest | `DropPrimary`, `DropBackup` |
| `_rebuild_manifest_from_sstables` | `RebuildNext`, `RebuildDone` |
| `_quarantine_orphan_sstables` | `DropOrphan`, `OrphansDone` |
| the second `ManifestStore.save` | `ResavePrimary`, `ResaveBackup` |
| the assignments at the end of `recover()` | `Open` |

A manifest file that does not exist is `EmptyManifest`, because `_load_path`
returns an empty manifest for it. A quarantine swallows the error of a move that
fails (`Stuck`). Damage to an SSTable means damage `inspect` finds (footer or
index); a damaged block is found by a read only and is in `ReadPath`. A table
that is written in place of a damaged file of its name is whole. Leftover
temporary files are not modelled: recovery moves them away and nothing else
reads them. `recover()` is modelled as the constructor calls it. `promised` is
the history of what any open engine had in its tables, less what damage took.

### IngestService

| Code | Model |
|---|---|
| the FDAU makes a frame and calls `on_frame` | `Produce` |
| `put_nowait`, `put` | `Put` |
| `queue.Full` | `Drop` (drop_newest, or the second try), `FindFull` and `Evict` (drop_oldest) |
| the condition of the loop in `run` | `CheckStop`, then `CheckQueue` |
| `_maybe_flush_by_time` | `FlushByTime`; the clock is `Age`, the limit `batchMaxMs` |
| `get` with a timeout | `GetFrame` (with `_check_seq_gap`, `_frame_to_row`, `_maybe_flush_by_size`), `GetNothing` |
| `_flush` | `FlushRows`, then `Stored` or `StoringRaises` |
| after the loop | `FinalFlush` |
| `start`, `stop`, `storage.close` | `Start`, `Stop`, `CloseStorage` |

* A step is what a thread does between two operations that other threads can
  see: on the queue, the event or the storage. Increments of counters are part of
  such a step. `dropped_frames += 1` has no lock; the project requires CPython
  3.10, which does not switch threads between the load and the store of such a
  statement, so no increment is lost. With an interpreter that does, it could be.
* `stop()` joins the worker with a timeout. The model does not count seconds:
  after `Stop` the owner may go on at any time, also while the worker runs. So
  the storage may be closed under the worker, and `append_rows` raises then.
* `overflow_policy` and `batch_max_ms` are chosen in the initial state
  (`settings`). A `batch_max_ms` of 0 or less switches the flush by time off: a
  batch that does not fill then waits for the stop, and `BatchIsFlushed` promises
  nothing. All other properties hold with and without it.
* A frame's timestamp is a number (`IngestFrame`): one that `float` does not take
  would raise in `_frame_to_row` outside of its handler and end the worker.
* Frames that `drop_oldest` throws out are not counted by `dropped_frames`; they
  are the history variable `evicted`, and `LossIsReported` says that they show
  in `seq_gaps`.
* A frame put after the worker saw an empty queue and left stays in the queue.
  `FramesAccountedFor` counts it there and nothing promises more.
* `start()` while the worker is leaving its loop clears the event but gets no
  new thread. The model has this; `StopDrains` speaks of calls of `stop()` that
  found the worker in its loop, and `WaitingProducerProceeds` of a worker that
  is not leaving.

### FdauUnit

| Code | Model |
|---|---|
| `_build_param_tick_map` | `TickOf`, `ParamTicks` |
| the start of `run` | `Start` |
| the condition of the loop | `CheckStop` |
| the clock read at the top, `time.sleep`, the clock read again | `ReadClock`, `Wake` |
| major frame and tick of the clock | `MajorFrameAt`, `TickAt` |
| the values, the seq, the frame | `MakeFrame` |
| `on_frame` returns, `next_tick_time += period` | `Return` |
| `stop` | `Stop` |
| `perf_counter` | `Advance` |

* The clock counts units; a runtime tick is `Period` units and a major frame any
  number of them. The arithmetic is exact: the code uses floats, so a clock that
  is read within a rounding error of a tick may show its neighbour.
* Time passes between any two steps: a sleep may be too long (never too short,
  as `time.sleep` promises) and `on_frame` may take any time.
* The constructor raises for a minor frame that the FLT does not have, so a
  layout has none (`FdauAssumption`).
* There are `hz` ticks in a major frame and `hz` rounds of the loop in a second.
  `EachMinorFrameOnce` counts both: in a major frame of k seconds a tick lasts k
  rounds, so a parameter appears k times for each tick its minor frames fall on
  (for every tick in stress mode). With `hz` below `minor_frames`, which nothing
  forbids, several minor frames may share a tick and its k frames; with
  `hz` at least `minor_frames` each has a tick of its own. In a major frame
  shorter than a second the clock skips ticks and nothing of the kind holds;
  `major_frame_sec` is an integer in `FLTData`, although a test uses half a second.

### Pipeline

| Code | Model |
|---|---|
| the loop of `FDAUUnit.run`, without the clock | `UnitCheck`, `UnitFrame` |
| `fdau_ingest` | `StartIngest`, `StartUnit`, `StopUnit`, `JoinUnit`, `StopIngest`, `JoinWorker`, `CloseEngine`, `FinalStats` |
| `run_capture_benchmark_harness` | `StartIngest`, `CaptureFrame`, `CaptureDone`, `StopIngest`, `JoinWorker`, `FlushEngine`, `ReadStats`, `CloseEngine` |
| flushes of the engine | `EnginePersists` |

* A join may give up at any time; `timedOut` is the history of those that did.
  The threads are daemons: when main ends, by the end of the program or by an
  exception of `flush` or `close`, nothing else takes a step.
* `ShutdownStoresAll` is about ends without a join that gave up and without a
  worker killed by the engine. After other ends frames may be left in the queue,
  and `points_out` may count rows the engine did not take.
* The printer of statistics reads counters only and is left out.

### SSTableFile and ReadPath

| Code | Model |
|---|---|
| `_iter_snapshot_blocks` | `BlockEnd`, `NextChunk` |
| `_encode_uvarint`, `_decode_uvarints` | `Uvarint`, `DecodeGroup`, `DecodeUvarints` |
| `_encode_block_v1`, `_encode_block_v2` | `Encode`, `EncodedSize` |
| `_iter_block_points_v1`, `_v2` | `Decode`, `TimesFrom`, `ReadBlock` |
| `_validate_index` and the `validate` methods | `ValidIndex` |
| `overlaps_query`, `may_contain_parameter_ids`, `_select_candidate_blocks`, `iter_range` | `Overlaps`, `MayContain`, `CandidateBlocks`, `ScannedBlocks`, `Select`, `Readable`, `Scan` |
| `write_snapshot` | `StartFlush`, `WriteBlock`, `WriteRaises`, `FinishFile` |
| `merge_runs` | `OpenSources`, `MergePop`, `MergeDuplicate`, `MergeYield` |
| `query_range`, `query_aggregates` | `BeginQuery`, `QueryRaises`, `EndQuery`, `Forget` |
| `compact_tables` | `BeginCompact`, `CompactRaises`, `EndCompact` |
| `_AggregateAccumulator`, `aggregate_points` | `AddValue`, `Accumulate`, `Aggregate` |
| a byte of a v2 block header that changes on disk | `DamageBlock` |

The code decodes a block when the merge reaches it; the merge exhausts every
source, so a block that cannot be decoded always raises and what was merged
before is dropped. The model raises at once. A compaction that raises leaves its
candidates as they are, and the next drain tries again.

`struct` and JSON are abstracted to records of fields, but the sizes are those
of the bytes, since offsets, index checks and the reader depend on them. The
bases of the encodings are constants (128 values of a varint group, 10 groups,
256 values of a byte, the largest parameter id), so that small instances reach
their boundaries. `VarintAssumption` relates two of them to the timestamps: ten
groups of 7 bits have room for the difference of any two of 64 bits. Values of
points are integers: NaN and rounding are left out. They number the points in the
order they were accepted (`Stride` keeps those of two snapshots apart), so that
a version is newer when its value is larger.

A source of a merge is named by its priority: a table by its id, the memtable by
a number above all ids. Loops that only fill a list (a scan, the decoder, an
accumulator) are recursive functions over the sequence they read, which TLC
evaluates and the proofs can reason about.

## 3. Runs

| Run | Question | Result |
|---|---|---|
| `core_safety` | Do three threads that append, flush, compact and close, with a failing task, keep ids, files, manifests and points consistent? Does the engine implement `PrefixStore` and `MaintenanceLoop`? | yes |
| `query_snapshot` | What does a query return while flushes and compactions run under it? | never raises; complete unless a file was deleted; no older version unless a deletion fails while the query runs |
| `drain_liveness` | Are queued snapshots written and does every drain end? | yes, once appends stop |
| `recovery_crash` | What is left after two crashes at any steps? | everything that was in the tables, in order |
| `recovery_damage` | What do two damaged files cost after clean exits? | the points of the damaged tables at most |
| `ingest` | Are frames lost unseen, reordered or left waiting? | no, with the limits above |
| `read_path` | Do blocks, codecs, pruning, the heap, compaction and aggregates give the newest points, and what does a damaged block cost? | yes; queries and compactions that read the block raise, nothing else |
| `fdau` | Does the emulator keep its schedule when it is late, and does every undisturbed major frame have each parameter at each of its ticks? | yes |
| `pipeline` | Is every frame durable or accounted for when a program ends, and does it end? | yes |
| `query_drops_keys`, `query_misses_queue`, `crash_in_recovery` | one statement of the documentation each | violated, see section 6 |

What a property says is at its definition; `PROJECT.json` names for each one a
mutant of the code that breaks it.

### Bounds

* `core_safety`: three clients, two keys, four appends, thresholds of two rows
  and three points, one failing task. Three clients are one that drains, one
  that waits and one that appends or closes. Four appends give two rotations by
  rows, which is a queue of two or a compaction of two tables and a flush that
  waits for it. A batch may have both keys, one key or none (the empty snapshot).
  `FlushMaxBytes` is 0 (off) here and 24 in `drain_liveness`.
* `query_snapshot`: two writers and a reader; four appends are two tables, a
  compaction of them, and again a flush, so that a query meets files that are
  deleted between two opens. One deletion may fail, before a query begins or
  while it runs. A deletion that failed before harms no query: the old file is in
  no list any more. One that fails while the query runs (`core.py` 491 only logs
  it) is excepted in `NoStaleRead`: when the deletion of table 1 fails and table
  2 is deleted, a query that had taken both into its list skips table 2 and
  returns the version of table 1, although section 3 of the storage contract
  (lines 70-72) says that the higher `table_id` wins. Without the exception TLC
  finds this trace.
* `drain_liveness`: two clients, a failing task and a failing deletion.
* `recovery_crash`: two crashes, so that the second one hits a recovery or an
  engine that already recovered. Two clients, four appends.
* `recovery_damage`: two damaged files, which can be both manifests (rebuild) or
  a manifest and a table; two exits; a file that cannot be moved and one that
  cannot be deleted.
* `ingest`: two producers whose frames can fill a batch alone (3 points), in two
  (rows), or not at all (no points), a queue of one frame, three frames, two
  starts, one fault. With one place in the queue both producers meet it full.
  Every policy, with and without a limit on the age of a batch, is a choice of
  the initial state.
* `fdau`: three ticks a second of two units each, so that a frame can be on time,
  late within its tick and late by any number of ticks; major frames of half a
  second, one and two seconds; as many minor frames as ticks, fewer, and more.
  The clock runs for two seconds: four major frames, two, or one.
* `pipeline`: three frames with no point, one point or a batch of points, a queue
  of one frame, one fault of the engine (in `append_rows`, `flush` or `close`).
  Three frames are one in the batch, one in the queue and one that finds it full.
* `read_path`: one snapshot of up to three points over nine keys, or two
  snapshots of up to two points and a memtable of up to two over four keys;
  blocks of one and two points; two values of a varint group or a byte. Three
  points and blocks of two give a block that goes on because of equal times and
  a block after it. Gaps of 0, 1, 3 and 4 between times need one, one, two and
  three groups. Intervals begin and end at, between and after the times. One
  parameter is too large to encode, so a flush raises. One block of either table
  may be damaged, before or after queries and compactions.

Clients are interchangeable in the safety runs, so they are symmetric; no run
with a liveness property uses symmetry. Threads stop when the appends of the
bound are used up, but `Compact`, `Close` and, in recovery, the queries of a new
process remain possible, so deadlock is checked in these runs. `fdau` and
`pipeline` end: the thread after its stop, the program after its last step.

### Fairness

`StorageCore`: weak fairness of the step that takes `_maintenance_lock` as a
whole (some waiting thread gets a free lock: `threading.Lock` promises no order
among them), of each thread's drain, and of each query. Callers need not call
anything. Weak fairness of the lock is enough since the appends are bounded;
an unbounded stream of appenders could overtake a waiting one for ever.

`IngestService`: weak fairness of the worker, of time, and of each thread that
is in `on_frame`. Producers need not produce and the owner need not stop.

`Pipeline`: weak fairness of the main thread, of the unit, of the call of
`on_frame` and of the worker. The main thread never waits without a timeout, so
it needs nobody else: `MainEnds` holds although the unit can be stuck in
`on_frame` for ever when the worker is dead and the policy is block.

`FdauUnit` has no liveness property: in `Pipeline` the main thread ends whether
or not the unit does.

## 4. Proofs

### The engine

For any number of threads, keys and tables, any batches and any thresholds
(assumptions `NoClientAssumption`, `BatchesAssumption`, `ThresholdsAssumption`,
`BoundsAssumption`: types of the constants, and that nobody is no client):

| Theorem | Says |
|---|---|
| `TypeCorrect` | `Spec => []TypeOK`, with mutual exclusion of drains |
| `ManifestsAreValid` | `save` never raises for the manifest of a task |
| `QueriesDoNotRaise` | a query never raises because of a compaction |
| `RunsStayOrdered` | newest wins by id, wherever a point is |
| `NoPointIsLost` | only a flush that raised loses points |
| `ManifestsCoverTables` | a crash at any instant leaves both manifests usable and complete |
| `TablesDoNotRegress` | no step takes the newest version of a key out of the tables |
| `QueueHasDrainer` | a queued snapshot has a thread that will come for it |
| `QueriesAreComplete` | a query that met no deleted file returns its snapshot |
| `QueriesAreNotStale` | a query returns no older version, unless a deletion failed while it ran |
| `TablesArePrefix` | the engine implements `PrefixStore` |
| `DrainIsTheLoop` | the drain implements `MaintenanceLoop` |
| `ClosedIsDurable` | after a `close` without failures the primary manifest has everything |

None of these invariants is inductive. The argument has layers, each of which
uses those before it.

`Inv` (`StorageCoreProofs`) is about ids and files. `EngineInv` is the part that
needs nothing of the disk but the engine's own tables: `EngineTypeOK`,
`TablesExist` (every file that `tables` names exists), `IdInv` (the ids of
tables, the running job and the queue increase in this order and are below
`nextTableId`), `JobInv` (what the job has done by its stage: its candidates are
the tables of a compaction, its file exists from stage "build" on, its manifest
is the one to be committed) and `QueryInv` (a table a query has yet
to read has an id below the job's and the queue's, so it cannot become active
again, and a file that was missing stays missing). `PrimaryInv` and `BackupInv`
say of each manifest that the tables it names exist and are below all ids to
come. A manifest is valid because of `IdInv` at the moment it is built, and stays
so because appenders only add ids above. The split is what lets the proofs about
restarts use these layers: a reopened engine has `EngineInv` at once, but
its backup may be stale.

`DataInv` (`StorageDataProofs`) is about versions: `OrderInv` (`RunsOrdered`),
`PastInv` (no run has a version later than the log), `KeptInv` (`NothingLost`),
and `FileInv` (what the file of the job has). It is `PointsInv({})`, where
`PointsInv(gone)` excuses the versions in `gone`: an engine that was
reopened cannot answer for the log of the processes before it. `PrimaryCovers`
and `BackupCovers` say that a manifest has every point of `tables`. A compaction
keeps the newest of each key because its candidates are all tables and
`MergeRuns` is newest-wins; a flush adds the newest run because its id is above
those of all tables and `OrderInv` orders their versions.

Two invariants more are about threads and queries. `DrainerInv` counts: a snapshot is only
queued by a thread that then waits for the lock or takes it, so there are at
most as many snapshots as threads that wait, one more while someone drains. A
drain that raises therefore never strands what it leaves behind. `CourseInv`
says of a query that skipped no table that each key has its answer already, or
gets it from the first table still to be read that has the key. For
`NoStaleRead` also `DeletionInv`: when a file a query needs is gone, so are all
older ones it needs, as files are deleted oldest first. A deletion that fails
breaks exactly this for the queries that run then. `query[r].faults` is the
number of failures at the begin of the query, and the invariant is about the
queries for which it still is `unlinkFaults`; a query that begins later has only
`tables` to read, none of which is obsolete.

`StorageRefinementProofs`: `PrefixInv` says that a run has only versions
of calls that had the key. With `DataInv` it gives `ReplayInv`: the tables are
the replay of the calls before the oldest one that is still in the job, the
queue or the memtable, so only the end of a flush moves this point. `CloseInv`:
once `closed` the memtable is empty; without a failure the lock is not given
back before the queue is empty, and the primary manifest differs from `tables`
only between a save and its commit.

### Restarts

For the same assumptions and any bounds on crashes, exits and the phases a
process may die in:

| Theorem | Says | For |
|---|---|---|
| `RecoveryTyped` | types; recovery goes on only with a manifest that opens, and only the disk outlives a process | everything the model has |
| `NamesAreNotReused` | no table takes the place of a file that is there | `MaxQuarantineFaults = 0` |
| `DurableIsThere` | what an engine had in its tables is in those of every later engine | `MaxDamage = 0` |
| `OrderedWithoutDamage` | newest wins by id in every engine | `MaxDamage = 0` |
| `OrderedThroughRebuilds` | the same through damage, backups and rebuilds | `MaxFaults = 0`, `MaxQuarantineFaults = 0` |
| `DamageCostsItsFiles` | damage between exits, to any number of manifests and tables, costs at most the points that no whole file has | `MaxFaults = 0`, `MaxCrashes = 0`, `MaxQuarantineFaults = 0` |
| `DiskIsPrefix` | the disk implements `PrefixStore` | `MaxDamage = 0`, `MaxFaults = 0` |

Each hypothesis is a fault the code does not survive, not a convenience:

* An orphan that cannot be moved keeps its name, and the manifest that the engine
  opens with may give this id again.
* With damage `crash_in_recovery` loses every table (section 6), and so does a
  stale backup that comes back later (section 5).
* A flush that raised after it wrote its file leaves this file on disk while the
  engine goes on. A compaction does not merge it, since it is in no manifest.
  If both manifests are damaged then, the rebuild brings it back below the merge,
  which has older versions. TLC finds this with `MaxFaults = 1`.
* A flush that raised after it saved the primary manifest has told its caller that
  it failed, but after the next restart its points are there. So the disk is a
  prefix minus the failed flushes only while none failed. TLC finds this too.

`RestartInv` (`StorageRecoveryProofs`) is the base. While an engine is open it is
`EngineInv`; otherwise memory is that of a new process and `found` is a manifest
whose tables exist, are whole and have ids below `found.next`. So `Open`
establishes `EngineInv`, and every step of an open engine keeps it by the lemma
of `StorageCoreProofs`.

`NamesInv` adds that every file has an id below those to come. In recovery that
is true only after the orphans are gone, so it says for each phase which files
are left.

`DurableInv`: without damage the primary manifest always opens, so recovery never
looks at the backup; its tables exist, are ordered, and have every promised
version or a newer one. While the engine is open, `PrimaryCovers` and
`PointsInv(Nat)` carry this over each job: what `tables` has is in the primary
manifest at every instant, which is what a crash leaves.

`OrderedInv` is about all files, not only those of a manifest, as a rebuild takes
them all: of two files the one with the larger id has no older version
(weakly: a merge has the versions of its inputs), and memory, queue and the
flush in progress have only versions and ids above. A compaction keeps this
because its candidates are all tables and its id is the largest of all files.

`SurvivesInv` is about damage. While the engine is open, `SavedTwice`: every job
writes both manifests, so outside of a job the backup is the primary one, unless
it was damaged (`BackupInStep`), and a backup that is taken is never a stale
one. While it is not, `LeftOnDisk`: the whole files have what was promised, and
so has each manifest that may still be chosen; from then on the chosen one has.
A rebuild takes all whole files, deleted tables whose deletion failed with them,
so that they are in order comes from `OrderedInv`. A rebuild can make tables of
a merge and of its inputs, which then have the same versions, so that a step of
the engine keeps what the tables have (`WeakTablesKeep`) is proved again, from
the weak order. Here too the hypotheses are faults that matter: a crash between
the two manifests leaves a stale backup (section 5), and so does a job that
raises there. For a file that cannot be moved, which `recovery_damage` has too, TLC finds
the property kept; there it is the proof that stops, since the order it needs is
proved from `NamesInv`.

`DiskPrefixInv` is the view of `PrefixStore` through all phases. `DiskStands` says
that each call is lost, only in memory, or in the primary manifest in this version
or a newer one, and that this manifest has nothing of a lost call and nothing
that is not before all calls in memory. For an open engine it follows from
`DataInv`, `PrefixInv` and `CloseInv`; a crash moves the calls in memory to `lost`;
an exit finds none there, by `CloseInv`; recovery writes the primary manifest back
as it was; and the engine that opens gets its `DataInv` from `DiskStands`.
`MergeIsReplay`, which both refinements use, turns this into a replay.

### Ingest, programs, emulator

For any number of producers and frames, any queue size, policies and thresholds
(`IngestAssumption`), for both programs (`PipelineAssumption`), and for every
hz, tick, length of a major frame and layout (`FdauAssumption`):

| Theorem | Says |
|---|---|
| `IngestTyped` | types, and the bound of the queue |
| `NoFrameVanishes` | every frame made is in exactly the places the code has for it |
| `RowsKeepOrder` | the rows reach the engine once each, in the order of the queue |
| `CountersAreRight` | the counters agree with what was taken, stored and refused |
| `LossIsSeen` | a frame lost between two that were taken shows in `seq_gaps` |
| `StopIsComplete` | what was in the queue at `stop()` is stored when the worker has ended |
| `CleanEndStoresAll` | after a clean end of a program every frame is durable or reported |
| `FdauTyped` | types, and that no tick is outside of the major frame |
| `ScheduleIsKept` | no frame is early, none goes back, no drift |
| `MinorFramesOnce` | in a major frame of k seconds nobody was late for each parameter appears k times at the tick of each of its minor frames, and at no other, for every `hz`, layout and mode |

`IngestInv` has a part for each question. `PlaceInv`: the seqs below the next
one are the disjoint union of those in hands, queue, `taken`, `evicted` and
`refused`, each once. `OrderInv`: `taken` followed by the queue has the frames of each
producer in the order they were made. `RowsInv`: stored, being written and batched rows, in this order,
are the rows of `taken`. `GapInv`: with no gap counted the seqs taken are
consecutive. `DrainInv`: what was in the queue at `stop()` has passed the worker,
is still queued, or died with it, and all of it has passed when the worker
leaves its loop alive. The rows of a sequence of frames and the sum of their points are
defined by what they are (`AreRowsOf`, `SumPoints`) and not by a fold, since
what a fold computes needs induction.

`PipelineInv` adds where the main thread is: which threads have ended by then
unless a join gave up on them, that nothing is put in the queue after the unit
ended, and what the report read. `CleanEndStoresAll` combines it with
`StopIsComplete` and `NoFrameVanishes`.

`FdauInv` relates the schedule to the frames: frame n is not before n - 1
periods, its major frame and tick are those of the clock it was made with, and
`next_tick_time` is the period times the number of callbacks that returned. For
`MinorFramesOnce`: if no frame of a major frame of k seconds was late, its n-th
frame, counted from 0, has tick `n div k`, by uniqueness of quotient and
remainder, so the frames that show one of a set of ticks are in bijection with
pairs of a tick and a number below k (`CountPeriods`). The ticks of a parameter
are at most as many as its minor frames, and as many when `TickOf` is injective,
which it is when `hz` is at least the number of minor frames.

### The read path

For every base of the encodings, every configuration of formats and block sizes,
any snapshots, queries and damaged tables (`FormatAssumption`,
`ReadPathAssumption`, `InputsAssumption`, `VarintAssumption`):

| Theorem | Says |
|---|---|
| `VarintsReadBack` | what `_decode_uvarints` makes of the deltas of a chunk are its differences, however many groups each one takes |
| `BlockReadsBack` | decoding an encoded block gives its points, in both formats |
| `ScanYieldsRange` | a scan yields the points of the range and no others, in order, and reads only blocks that may have some |
| `ReadPathTyped` | the shape of the state: one entry of a source in the heap, one winner |
| `WrittenFilesReadBack` | every file is accepted and reads back as it was written; a damaged block raises, and only that one |
| `QueriesReturnNewest` | a query returns the newest version of each key of its range, once, in order, or raises over a damaged block of its range |
| `CompactionsKeepNewest` | no compaction loses a newest version, invents one, or fails without damage |
| `AggregatesAreRight` | count, sum, minimum and maximum are those of the points returned, with a row for each parameter of the filter |

The functions of the model that are recursive are not taken on trust. The module
`SSTableProofs` derives its own induction (a set of naturals that has 0 and with
each number the next has all, from the least number that is missing), shows by
it that a function of this form exists and has its type (`RunExists`,
`RunTyped`), and so that each recursive function equals its definition; then it
proves by the same induction what the function computes: that the decoder
after the groups of a varint has its value and nothing pending, that the
dictionary has every parameter once, that the timestamps are the base and the
sum of the differences, that `Select` keeps what it should in the order it was.

`ReadPathProofs` has the state machine, in layers: `ConfigInv` (format and size
of blocks are among those configured), `FileInv` (of every file: its blocks are a
partition of the points it was to have, each encoded from its chunk, cut where the
timestamp changes, the index with their bounds, and one of them with its base moved
if it was damaged), `WritingInv` (the same of the part written so far),
`AgeInv` (the values of a snapshot are above those of all before it, those of the
memtable above all: newer is larger), `HeldInv` (the newest of what was flushed
is in a file, and files have nothing else), `SourceInv` (what a merge reads is, by
source, what it should select of which file, each sorted, and a source of higher
priority has no older version of a key) and `MergeInv`. The last one has
`HeapInv` (the heap has the next point of each source that is not used up, and
nothing else) and `PoppedInv` (of the points popped so far, those before
the winner's key have their newest version in the output, the winner is the
newest of those with its key, and nothing popped is above what is still to come).
When heap and winner are empty all points were popped, which gives the answer
of a query and the content of a compacted file.

A block that was damaged is read by the same definitions: its timestamps are
those it had, moved by one, so the last is not the maximum in the index and the
block raises, whatever its size. That no other block is concerned is part of
`FileInv`.

`AggregatesInv` is about answers only: the points of an answer have distinct
values, so the accumulator over the list counts and sums a set. `SumFacts` shows
that the fold of the definition is a sum, for every order in which the set is
enumerated.

### Model-checked only

* Liveness, which is out of the prover's reach (as is ENABLED): `BatchIsFlushed`,
  `StopEnds`, `WaitingProducerProceeds`, `MainEnds`, `LockIsReleased` and
  `QueuedEventuallyDurable`.
* The statements of section 6, which are violated.
* `DurableSurvives` with damage and a file that cannot be moved, both in
  `recovery_damage`; each alone is in `DurableIsThere` and `DamageCostsItsFiles`.

## 5. Not modelled

* `main.py` beyond `fdau_ingest`: the other commands read or print. Two processes
  on one directory: nothing locks it, and an engine that opens there recovers
  under the one that writes.
* `recover()` on an engine in use: only the constructor calls it.
* Leftover temporary files. Damage to a block that still decodes: there are no
  checksums, so a changed value, or any change of a v1 block, is returned as it
  is.
* Damage together with crashes: `recovery_crash` has the one, `recovery_damage`
  the other. `DurableSurvives` does not hold of both: a crash between the two
  manifests leaves a backup one job behind, which recovery from a good primary
  does not renew, so a primary damaged later brings that backup back and newer
  tables are put aside as orphans.
* `compaction_min_tables` below 2: `select_candidates` then takes the single
  table a drain has just written, and the drain does not end.
* `stats_snapshot`, logging and settings: they decide nothing.
* Export, flight plots, the FLT reader, and the benchmark beyond the capture
  scenario: input and output around `append_rows` and `query_range`.

## 6. Where the code and its documentation disagree

* **`query_drops_keys`**: a query that has not opened a table yet when a
  compaction deletes it returns without its points (`core.py` 695-717 skips a
  file that is gone and whose table is no longer active), although the contract
  says it reads the snapshot of active tables.
* **`query_misses_queue`**: points that were accepted are in neither source of a
  query between the rotation of their memtable and the commit of their table.
* **`crash_in_recovery`**: a missing manifest counts as an empty one. A recovery
  that dies after it moved the damaged primary away makes the next one put every
  table aside.

## 7. Plan

1. `IngestService`: a run for a `start()` that meets a leaving worker; several
   owners.
2. `StorageRecovery`: crashes and damage together, up to the stale backup; a
   second process on the directory.
3. A proof of `DurableSurvives` with damage and files that cannot be moved: two
   files may then have had one name, so the order of files has to be stated
   without `NamesInv`.
