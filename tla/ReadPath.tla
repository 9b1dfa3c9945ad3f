------------------------------ MODULE ReadPath ------------------------------
(***************************************************************************)
(* What one thread sees of the data: snapshots are written block by block  *)
(* as SSTables (SSTableWriter.write_snapshot), compact_tables merges them  *)
(* into one, query_range merges what it scans with the memtable            *)
(* (merge_runs, a heap of the next point of every source), and             *)
(* aggregate_points sums it up.  A block may be damaged on disk, which only *)
(* a read of it finds out.  Locks, threads, failures and the manifest *)
(* are those of StorageCore; this module has the points themselves.        *)
(***************************************************************************)
EXTENDS SSTableFile, FiniteSetsExt

CONSTANTS
    Timestamps,   \* values of a timestamp: those of 64 bits
    Inputs,       \* bound: the keys of the snapshots to write and of the memtable
    Stride,       \* bound: more than the points of any of them
    Queries,      \* bound: the queries
    DamagedTables,   \* bound: the tables one block of which may be damaged
    Formats,      \* values of sstable_format, one of which is configured
    BlockSizes    \* values of sstable_block_max_points, one of which is configured

KeyBefore(x, y) == x.t < y.t \/ (x.t = y.t /\ x.p < y.p)

SameKey(x, y) == x.t = y.t /\ x.p = y.p

\* What Memtable.snapshot returns: sorted by key, keys may be there more than once.
InOrder(keys) ==
    \A m, n \in DOMAIN keys : m < n => KeyBefore(keys[m], keys[n]) \/ SameKey(keys[m], keys[n])

ASSUME ReadPathAssumption ==
    /\ Formats \subseteq {"v1_raw", "v2_timeseries"}
    /\ BlockSizes \subseteq Nat \ {0}
    /\ Timestamps \subseteq Int /\ Stride \in Nat
    /\ Queries \subseteq [start : Int, end : Int, filtered : BOOLEAN, parameters : SUBSET Int]

\* A varint has room for the difference of any two timestamps.
ASSUME VarintAssumption ==
    \A a, b \in Timestamps : a <= b => Len(Uvarint[b - a]) <= MaxGroups

\* No snapshot that is written is empty.
ASSUME InputsAssumption ==
    \A input \in Inputs :
        LET all == Append(input.snapshots, input.memtable) IN
        /\ input.snapshots \in Seq(Seq([t : Timestamps, p : Int]))
        /\ input.memtable \in Seq([t : Timestamps, p : Int])
        /\ \A n \in DOMAIN all : InOrder(all[n]) /\ Len(all[n]) < Stride
        /\ \A n \in DOMAIN input.snapshots : input.snapshots[n] # <<>>

VARIABLES
    format, blockMax,   \* configuration
    snapshots,          \* sequence of snapshots to write, the oldest first
    memtable,           \* the points of the memtable, sorted
    nextId,
    writing,            \* the file that is being written
    files,              \* table_id -> file
    damaged,            \* history: table_id and offset of the damaged block
    job,                \* "idle", "write", "query", "compact", "answered" or "raised"
    query,              \* of query_range
    sources,            \* merge_runs: the points of each source, by its priority
    ordinal,            \* ... and how many of them it gave
    heap,               \* the next point of each source
    winner,             \* the point that is to be yielded, if any
    output,             \* the points yielded
    aggregates,         \* the result of aggregate_points
    content,            \* history: table_id -> the points that were to be written
    flushed             \* history: the points of the snapshots that were written

disk == <<files, damaged>>
mergeVars == <<sources, ordinal, heap, winner, output>>
vars == <<format, blockMax, snapshots, memtable, nextId, writing, files, damaged, job, query,
          mergeVars, aggregates, content, flushed>>

NoFile == [id |-> 0, points |-> <<>>, start |-> 0, blocks |-> <<>>, data |-> <<>>, offset |-> 0]
NoQuery == [start |-> 0, end |-> 0, filtered |-> FALSE, parameters |-> {}]
NoPoint == {}

\* Points get their values in the order they were appended.
Stamped(keys, n) ==
    [i \in DOMAIN keys |-> [t |-> keys[i].t, p |-> keys[i].p, v |-> Stride * n + i]]

Idle == sources = <<>> /\ ordinal = <<>> /\ heap = {} /\ winner = NoPoint /\ output = <<>>

Init ==
    /\ format \in Formats /\ blockMax \in BlockSizes
    /\ \E input \in Inputs :
         /\ snapshots = [n \in DOMAIN input.snapshots |-> Stamped(input.snapshots[n], n)]
         /\ memtable = Stamped(input.memtable, Len(input.snapshots) + 1)
    /\ nextId = 1
    /\ writing = NoFile
    /\ files = <<>>
    /\ damaged = {}
    /\ job = "idle"
    /\ query = NoQuery
    /\ Idle
    /\ aggregates = <<>>
    /\ content = <<>>
    /\ flushed = {}

-----------------------------------------------------------------------------
(* write_snapshot.                                                         *)

WriteFile(points) ==
    /\ writing' = [NoFile EXCEPT !.id = nextId, !.points = points]
    /\ nextId' = nextId + 1
    /\ job' = "write"

StartFlush ==
    /\ job = "idle"
    /\ snapshots # <<>>
    /\ WriteFile(Head(snapshots))
    /\ snapshots' = Tail(snapshots)
    /\ UNCHANGED <<format, blockMax, memtable, disk, query, mergeVars, aggregates, content,
                   flushed>>

\* The points of the block that is next; start is the number of those before it.
NextChunk ==
    SubSeq(writing.points, writing.start + 1,
           BlockEnd(writing.points, writing.start + 1, blockMax))

WriteBlock ==
    /\ job = "write"
    /\ writing.start < Len(writing.points)
    /\ Encodable(NextChunk)
    /\ LET block == Encode(format, NextChunk)
           size == EncodedSize(format, block)
           offset == writing.offset
       IN  writing' = [writing EXCEPT
               !.start = @ + Len(NextChunk),
               !.blocks = Append(@, BlockMetadata(offset, size, NextChunk)),
               !.data = [o \in DOMAIN @ \cup {offset} |-> IF o = offset THEN block ELSE @[o]],
               !.offset = offset + size]
    /\ UNCHANGED <<format, blockMax, snapshots, memtable, nextId, disk, job, query, mergeVars,
                   aggregates, content, flushed>>

\* The block cannot be encoded: the temporary file is removed, the caller raises.
WriteRaises ==
    /\ job = "write"
    /\ writing.start < Len(writing.points)
    /\ ~Encodable(NextChunk)
    /\ writing' = NoFile
    /\ job' = "idle"
    /\ sources' = <<>> /\ ordinal' = <<>> /\ output' = <<>>
    /\ UNCHANGED <<format, blockMax, snapshots, memtable, nextId, disk, query, heap, winner,
                   aggregates, content, flushed>>

\* Index and footer, and the rename; a compaction then replaces its sources, which
\* are all the tables there are.
FinishFile ==
    /\ job = "write"
    /\ writing.start = Len(writing.points)
    /\ LET file == [format |-> format, blocks |-> writing.blocks, data |-> writing.data,
                    indexOffset |-> writing.offset, metadata |-> FileMetadata(writing.points)]
           old == IF sources = <<>> THEN {} ELSE DOMAIN files
       IN  /\ files' = [id \in (DOMAIN files \ old) \cup {writing.id} |->
                          IF id = writing.id THEN file ELSE files[id]]
           /\ content' = [id \in (DOMAIN content \ old) \cup {writing.id} |->
                            IF id = writing.id THEN writing.points ELSE content[id]]
           /\ flushed' = IF sources = <<>> THEN flushed \cup ToSet(writing.points) ELSE flushed
    /\ writing' = NoFile
    /\ job' = "idle"
    /\ sources' = <<>> /\ ordinal' = <<>> /\ output' = <<>>
    /\ UNCHANGED <<format, blockMax, snapshots, memtable, nextId, damaged, query, heap, winner,
                   aggregates>>

-----------------------------------------------------------------------------
(* merge_runs.                                                             *)

\* A point in the heap. source_index is left out, it only ever decides between
\* sources of the same priority.
Entry(s, n) == [point |-> sources[s][n], priority |-> s, ordinal |-> n]

\* Mutant: the popped point stays in the heap.
PushNextKeepsTop(rest, s) ==
    IF ordinal[s] < Len(sources[s])
    THEN heap' = heap \cup {Entry(s, ordinal[s] + 1)} /\ ordinal' = [ordinal EXCEPT ![s] = @ + 1]
    ELSE heap' = rest /\ UNCHANGED ordinal

\* push_next; rest is the heap without the popped point.
PushNext(rest, s) ==
    IF ordinal[s] < Len(sources[s])
    THEN heap' = rest \cup {Entry(s, ordinal[s] + 1)} /\ ordinal' = [ordinal EXCEPT ![s] = @ + 1]
    ELSE heap' = rest /\ UNCHANGED ordinal

\* The order of the tuples in the heap.
Before(x, y) ==
    KeyBefore(x.point, y.point) \/ (SameKey(x.point, y.point) /\ x.priority > y.priority)

Top == CHOOSE e \in heap : \A f \in heap \ {e} : Before(e, f)

Merging == job \in {"query", "compact"}

MergePop ==
    /\ Merging
    /\ winner = NoPoint /\ heap # {}
    /\ winner' = {Top}
    /\ PushNext(heap \ {Top}, Top.priority)
    /\ UNCHANGED <<format, blockMax, snapshots, memtable, nextId, writing, disk, job, query,
                   sources, output, aggregates, content, flushed>>

\* The marker of x is not below that of y.
Beats(x, y) ==
    x.priority > y.priority \/ (x.priority = y.priority /\ x.ordinal >= y.ordinal)

MergeDuplicate ==
    /\ Merging
    /\ winner # NoPoint /\ heap # {}
    /\ \E w \in winner :
         /\ SameKey(Top.point, w.point)
         /\ winner' = IF Beats(Top, w) THEN {Top} ELSE winner
    /\ PushNext(heap \ {Top}, Top.priority)
    /\ UNCHANGED <<format, blockMax, snapshots, memtable, nextId, writing, disk, job, query,
                   sources, output, aggregates, content, flushed>>

MergeYield ==
    /\ Merging
    /\ \E w \in winner :
         /\ heap # {} => ~SameKey(Top.point, w.point)
         /\ output' = Append(output, w.point)
    /\ winner' = NoPoint
    /\ UNCHANGED <<format, blockMax, snapshots, memtable, nextId, writing, disk, job, query,
                   sources, ordinal, heap, aggregates, content, flushed>>

\* The first point of every source.
OpenSources(points) ==
    LET found == {s \in DOMAIN points : points[s] # <<>>} IN
    /\ sources' = points
    /\ ordinal' = [s \in DOMAIN points |-> IF s \in found THEN 1 ELSE 0]
    /\ heap' = {[point |-> points[s][1], priority |-> s, ordinal |-> 1] : s \in found}

-----------------------------------------------------------------------------
(* query_range and aggregate_range.                                        *)

MemtablePriority == IF DOMAIN files = {} THEN 1 ELSE MaxOf(DOMAIN files) + 1

\* The tables that overlap.
Hit(q) == {id \in DOMAIN files : Overlaps(files[id].metadata, q)}

BeginQuery ==
    /\ job = "idle"
    /\ snapshots = <<>>
    /\ \E q \in Queries :
         /\ \A id \in Hit(q) : Readable(files[id], q)
         /\ query' = q
         /\ OpenSources([s \in Hit(q) \cup (IF memtable = <<>> THEN {} ELSE {MemtablePriority}) |->
                           IF s \in Hit(q) THEN Scan(files[s], q) ELSE Select(memtable, q)])
    /\ job' = "query"
    /\ UNCHANGED <<format, blockMax, snapshots, memtable, nextId, writing, disk, winner, output,
                   aggregates, content, flushed>>

\* The merge exhausts every source: a block that cannot be decoded raises before
\* the list of points is whole, and what was merged is dropped.
QueryRaises ==
    /\ job = "idle"
    /\ snapshots = <<>>
    /\ \E q \in Queries :
         /\ \E id \in Hit(q) : ~Readable(files[id], q)
         /\ query' = q
    /\ job' = "raised"
    /\ UNCHANGED <<format, blockMax, snapshots, memtable, nextId, writing, disk, mergeVars,
                   aggregates, content, flushed>>

NothingFound == [count |-> 0, total |-> 0, min |-> 0, max |-> 0]

\* _AggregateAccumulator.add.
AddValue(a, v) ==
    [count |-> a.count + 1, total |-> a.total + v,
     min |-> IF a.count = 0 \/ v < a.min THEN v ELSE a.min,
     max |-> IF a.count = 0 \/ v > a.max THEN v ELSE a.max]

\* The accumulator of one parameter after its values among points.
Accumulate(points, p) ==
    LET acc[n \in 0..Len(points)] ==
            IF n = 0 THEN NothingFound
            ELSE IF points[n].p = p THEN AddValue(acc[n - 1], points[n].v) ELSE acc[n - 1]
    IN  acc[Len(points)]

\* Mutant: a parameter of the filter without points has no row.
AggregatePresent(points, q) == [p \in ParametersOf(points) |-> Accumulate(points, p)]

\* aggregate_points: a row for each parameter of the filter, or of the points.
Aggregate(points, q) ==
    [p \in IF q.filtered THEN q.parameters ELSE ParametersOf(points) |-> Accumulate(points, p)]

\* query_range returns and query_aggregates goes on with its list.
EndQuery ==
    /\ job = "query"
    /\ heap = {} /\ winner = NoPoint
    /\ aggregates' = Aggregate(output, query)
    /\ job' = "answered"
    /\ UNCHANGED <<format, blockMax, snapshots, memtable, nextId, writing, disk, query, mergeVars,
                   content, flushed>>

\* The caller has the answer or the exception; a drain raises once more.
Forget ==
    /\ job \in {"answered", "raised", "failed"}
    /\ job' = "idle"
    /\ query' = NoQuery
    /\ sources' = <<>> /\ ordinal' = <<>> /\ output' = <<>> /\ aggregates' = <<>>
    /\ UNCHANGED <<format, blockMax, snapshots, memtable, nextId, writing, disk, heap, winner,
                   content, flushed>>

-----------------------------------------------------------------------------
(* compact_tables.                                                         *)

\* Mutant: the range ends with the last timestamp, which it excludes.
WholeButLast(metadata) ==
    [start |-> metadata.minT, end |-> metadata.maxT, filtered |-> FALSE, parameters |-> {}]

\* The range that compact_tables reads of a table.
Whole(metadata) ==
    [start |-> metadata.minT, end |-> metadata.maxT + 1, filtered |-> FALSE, parameters |-> {}]

CanCompact == job = "idle" /\ snapshots = <<>> /\ Cardinality(DOMAIN files) > 1

BeginCompact ==
    /\ CanCompact
    /\ \A id \in DOMAIN files : Readable(files[id], Whole(files[id].metadata))
    /\ OpenSources([id \in DOMAIN files |-> Scan(files[id], Whole(files[id].metadata))])
    /\ job' = "compact"
    /\ UNCHANGED <<format, blockMax, snapshots, memtable, nextId, writing, disk, query, winner,
                   output, aggregates, content, flushed>>

\* No file was begun; the candidates stay as they are.
CompactRaises ==
    /\ CanCompact
    /\ \E id \in DOMAIN files : ~Readable(files[id], Whole(files[id].metadata))
    /\ job' = "failed"
    /\ UNCHANGED <<format, blockMax, snapshots, memtable, nextId, writing, disk, query, mergeVars,
                   aggregates, content, flushed>>

\* A merge without points raises, which no compaction should ever see.
EndCompact ==
    /\ job = "compact"
    /\ heap = {} /\ winner = NoPoint
    /\ IF output = <<>>
       THEN job' = "failed" /\ UNCHANGED <<nextId, writing, mergeVars>>
       ELSE WriteFile(output) /\ UNCHANGED mergeVars
    /\ UNCHANGED <<format, blockMax, snapshots, memtable, disk, query, aggregates, content,
                   flushed>>

-----------------------------------------------------------------------------
\* A byte of a header changes on disk: index and footer are still valid, so that
\* nothing but a read of the block finds out.  Blocks of v1 have no header.
DamageBlock ==
    /\ job = "idle"
    /\ snapshots = <<>> /\ damaged = {}
    /\ \E id \in DamagedTables \cap DOMAIN files :
         /\ files[id].format = "v2_timeseries"
         /\ \E offset \in DOMAIN files[id].data :
              /\ files' = [files EXCEPT ![id].data[offset].base = @ + 1]
              /\ damaged' = {[id |-> id, offset |-> offset]}
    /\ UNCHANGED <<format, blockMax, snapshots, memtable, nextId, writing, job, query, mergeVars,
                   aggregates, content, flushed>>

Next ==
    \/ StartFlush \/ WriteBlock \/ WriteRaises \/ FinishFile
    \/ MergePop \/ MergeDuplicate \/ MergeYield
    \/ BeginQuery \/ QueryRaises \/ EndQuery \/ Forget
    \/ BeginCompact \/ CompactRaises \/ EndCompact
    \/ DamageBlock

Spec == Init /\ [][Next]_vars

-----------------------------------------------------------------------------
(* Properties.                                                             *)

\* The shape of the state.
ReadPathTypeOK ==
    /\ job \in {"idle", "write", "query", "compact", "answered", "raised", "failed"}
    /\ DOMAIN files \subseteq 1..(nextId - 1) /\ DOMAIN content = DOMAIN files
    /\ DOMAIN ordinal = DOMAIN sources
    /\ \A s \in DOMAIN sources : ordinal[s] \in 0..Len(sources[s])
    /\ \A x, y \in heap : x.priority = y.priority => x = y
    /\ \A x, y \in winner : x = y
    /\ job = "idle" => Idle /\ writing = NoFile

\* The newest version of every key, of the points that are in a snapshot that was
\* written or in the memtable.
NewestOf(points) ==
    {x \in points : \A y \in points : SameKey(x, y) => y.v <= x.v}

DamagedBlocks(id) ==
    {n \in DOMAIN files[id].blocks :
        [id |-> id, offset |-> files[id].blocks[n].offset] \in damaged}

\* query_range returns the newest version of each key in the interval and the
\* filter, each once, by time and parameter: through blocks of any size, both
\* formats, pruning by bounds, and whether tables were compacted or not.  It raises
\* only over a damaged block that may have points it was asked for, and never
\* answers without them (core.py 109-186, compaction.py 58-143, sstable.py 571-656).
QueryReturnsNewest ==
    /\ job = "answered" =>
        /\ ToSet(output) = {x \in NewestOf(flushed \cup ToSet(memtable)) : InRange(x, query)}
        /\ \A m, n \in DOMAIN output : m < n => KeyBefore(output[m], output[n])
    /\ job = "raised" =>
        \E id \in DOMAIN files : \E n \in DamagedBlocks(id) :
            Overlaps(files[id].blocks[n], query)

\* A reader accepts what the writer wrote and decodes to the points it was given,
\* at every boundary of the varints, the references and the blocks; a damaged block
\* raises and leaves those beside it readable (sstable.py
\* 129-221, 292-352, 393-546, 658-756).
FilesReadBack ==
    \A id \in DOMAIN files :
        /\ ValidIndex(files[id])
        /\ \A n \in DOMAIN files[id].blocks :
             ReadBlock(files[id], n).ok <=> n \notin DamagedBlocks(id)
        /\ DamagedBlocks(id) = {} =>
             FlattenSeq([n \in DOMAIN files[id].blocks |-> ReadBlock(files[id], n).points])
               = content[id]

\* No compaction drops the newest version of a key, or brings back a version
\* that no snapshot had; one fails only over a damaged block, of which the file
\* then stays (compaction.py 146-196, core.py 464-484).
CompactionKeepsNewest ==
    LET held == UNION {ToSet(content[id]) : id \in DOMAIN content} IN
    /\ NewestOf(flushed) \subseteq held /\ held \subseteq flushed
    /\ job = "failed" => damaged # {}
    /\ \A d \in damaged : d.id \in DOMAIN files

\* The aggregates of a query are those of the points it returned, and a filter
\* gives a row to every parameter it names, found or not (analysis.py 138-208).
AggregatesMatch ==
    job = "answered" =>
        /\ DOMAIN aggregates = IF query.filtered THEN query.parameters
                               ELSE {x.p : x \in ToSet(output)}
        /\ \A p \in DOMAIN aggregates :
             LET found == {x.v : x \in {y \in ToSet(output) : y.p = p}} IN
             /\ aggregates[p].count = Cardinality(found)
             /\ found # {} => /\ aggregates[p].min = MinOf(found)
                              /\ aggregates[p].max = MaxOf(found)
                              /\ aggregates[p].total = FoldSet(+, 0, found)
=============================================================================
