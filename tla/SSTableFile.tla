----------------------------- MODULE SSTableFile -----------------------------
(***************************************************************************)
(* The format of an SSTable (core/storage/sstable.py) as operators: how a  *)
(* snapshot is cut into blocks, how a block of either format is encoded    *)
(* and decoded, what the index says of it, what a reader checks, and which *)
(* blocks a range query reads.                                             *)
(*                                                                         *)
(* A point is a timestamp t, a parameter p and a value v.  An encoded      *)
(* block keeps its fields apart instead of as bytes; its size is the size  *)
(* the bytes would have.                                                   *)
(***************************************************************************)
EXTENDS Integers, Sequences, FiniteSets, SequencesExt

CONSTANTS
    GroupValues,   \* values of one group of a varint: 128
    MaxGroups,     \* groups a varint may have: 10
    ByteValues,    \* values of one byte of a parameter reference: 256
    MaxParameter   \* largest parameter_id that is encoded: 2^32 - 1

\* Values of a parameter reference of that many bytes.
Capacity(width) ==
    CASE width = 1 -> ByteValues
      [] width = 2 -> ByteValues * ByteValues
      [] width = 4 -> ByteValues * ByteValues * ByteValues * ByteValues

ASSUME FormatAssumption ==
    /\ GroupValues \in Nat \ {0, 1} /\ ByteValues \in Nat \ {0, 1}
    /\ MaxGroups \in Nat \ {0}
    /\ MaxParameter \in Nat /\ MaxParameter < Capacity(4)

-----------------------------------------------------------------------------
(* Blocks.                                                                 *)

\* _iter_snapshot_blocks: a block that is full goes on with the points that have
\* the timestamp of its last one.
BlockEnd(points, start, blockMax) ==
    LET full == IF start + blockMax - 1 > Len(points) THEN Len(points) ELSE start + blockMax - 1
    IN  CHOOSE e \in full..Len(points) :
            /\ \A n \in full..e : points[n].t = points[full].t
            /\ e < Len(points) => points[e + 1].t # points[full].t

ParametersOf(points) == {points[n].p : n \in DOMAIN points}

MinOf(S) == CHOOSE x \in S : \A y \in S : x <= y
MaxOf(S) == CHOOSE x \in S : \A y \in S : y <= x

BlockMetadata(offset, size, chunk) ==
    [offset |-> offset, size |-> size, count |-> Len(chunk),
     minT |-> chunk[1].t, maxT |-> chunk[Len(chunk)].t,
     minP |-> MinOf(ParametersOf(chunk)), maxP |-> MaxOf(ParametersOf(chunk))]

FileMetadata(points) ==
    [count |-> Len(points), minT |-> points[1].t, maxT |-> points[Len(points)].t,
     minP |-> MinOf(ParametersOf(points)), maxP |-> MaxOf(ParametersOf(points))]

-----------------------------------------------------------------------------
(* Varints.                                                                *)

\* Mutant: so does the smallest that does not.
FitsGroupOneMore(n) == n <= GroupValues

\* The value fits into a group of 7 bits.
FitsGroup(n) == n < GroupValues

\* _encode_uvarint: groups, the lowest first.
Uvarint[n \in Nat] ==
    IF FitsGroup(n) THEN <<[low |-> n % GroupValues, more |-> FALSE]>>
    ELSE <<[low |-> n % GroupValues, more |-> TRUE]>> \o Uvarint[n \div GroupValues]

\* _decode_uvarints: values it has, value and weight of the group to come (1 << shift),
\* groups of the varint so far; ok is FALSE when it raises.
NothingDecoded == [values |-> <<>>, value |-> 0, weight |-> 1, groups |-> 0, ok |-> TRUE]

DecodeGroup(s, group) ==
    LET value == s.value + group.low * s.weight IN
    IF group.more
    THEN [values |-> s.values, value |-> value, weight |-> s.weight * GroupValues,
          groups |-> s.groups + 1, ok |-> s.ok /\ s.groups + 1 < MaxGroups]
    ELSE [values |-> Append(s.values, value), value |-> 0, weight |-> 1, groups |-> 0,
          ok |-> s.ok]

DecodeUvarints(groups, count) ==
    LET after[n \in 0..Len(groups)] ==
            IF n = 0 THEN NothingDecoded ELSE DecodeGroup(after[n - 1], groups[n])
        last == after[Len(groups)]
    IN  [values |-> last.values,
         ok |-> last.ok /\ last.groups = 0 /\ Len(last.values) = count]

-----------------------------------------------------------------------------
(* Encoding.                                                               *)

\* struct.pack and the check of v2 raise otherwise.
Encodable(chunk) == ParametersOf(chunk) \subseteq 0..MaxParameter

\* The parameters of a chunk in the order they first appear.
Dictionary(chunk) ==
    LET dict[n \in 0..Len(chunk)] ==
            IF n = 0 THEN <<>>
            ELSE LET before == dict[n - 1] IN
                 IF Contains(before, chunk[n].p) THEN before ELSE Append(before, chunk[n].p)
    IN  dict[Len(chunk)]

\* Where a parameter is in the dictionary, from 0.
Reference(dict, p) == (CHOOSE i \in DOMAIN dict : dict[i] = p) - 1

\* Bytes of a reference into a dictionary of that many parameters.
RefWidth(count) ==
    IF count < Capacity(1) THEN 1 ELSE IF count < Capacity(2) THEN 2 ELSE 4

\* The varints of the differences of the timestamps.
Deltas(chunk) ==
    FlattenSeq([n \in DOMAIN chunk |-> Uvarint[IF n = 1 THEN 0 ELSE chunk[n].t - chunk[n - 1].t]])

\* _encode_block_v1 and _encode_block_v2.
Encode(format, chunk) ==
    IF format = "v1_raw"
    THEN [points |-> chunk]
    ELSE LET dict == Dictionary(chunk)
             width == RefWidth(Len(dict))
         IN  [base |-> chunk[1].t, count |-> Len(chunk), width |-> width, dict |-> dict,
              deltas |-> Deltas(chunk),
              refs |-> [n \in DOMAIN chunk |-> Reference(dict, chunk[n].p) % Capacity(width)],
              values |-> [n \in DOMAIN chunk |-> chunk[n].v]]

\* The size of an encoded block: 20 bytes a point, or a header of 21 bytes,
\* 4 for each parameter, the varints, the references and 8 for each value.
EncodedSize(format, block) ==
    IF format = "v1_raw" THEN 20 * Len(block.points)
    ELSE 21 + 4 * Len(block.dict) + Len(block.deltas) + block.count * (block.width + 8)

-----------------------------------------------------------------------------
(* Decoding.                                                               *)

\* Each timestamp is the one before it and a difference.
TimesFrom(base, deltas) ==
    LET time[n \in 0..Len(deltas)] == IF n = 0 THEN base ELSE time[n - 1] + deltas[n]
    IN  [n \in 1..Len(deltas) |-> time[n]]

\* _iter_block_points_v1 and _iter_block_points_v2; ok is FALSE when it raises.
Decode(format, block, metadata) ==
    IF format = "v1_raw"
    THEN [ok |-> metadata.size % 20 = 0, points |-> block.points]
    ELSE LET deltas == DecodeUvarints(block.deltas, block.count)
             times == TimesFrom(block.base, deltas.values)
             ok == /\ block.count = metadata.count
                   /\ block.width \in {1, 2, 4}
                   /\ EncodedSize(format, block) = metadata.size
                   /\ deltas.ok
                   /\ times[1] = block.base
                   /\ times[Len(times)] = metadata.maxT
                   /\ \A n \in DOMAIN block.refs : block.refs[n] < Len(block.dict)
         IN  [ok |-> ok,
              points |-> IF ok
                         THEN [n \in 1..block.count |->
                                 [t |-> times[n], p |-> block.dict[block.refs[n] + 1],
                                  v |-> block.values[n]]]
                         ELSE <<>>]

-----------------------------------------------------------------------------
(* A file: its format, its data by offset, and the index.                  *)

\* The points of all blocks, by the index.
PointCount(blocks) ==
    LET total[n \in 0..Len(blocks)] == IF n = 0 THEN 0 ELSE total[n - 1] + blocks[n].count
    IN  total[Len(blocks)]

\* FileMetadata.validate, BlockMetadata.validate and _validate_index, of what the
\* index of a written file can get wrong.
ValidIndex(file) ==
    LET blocks == file.blocks
        indexOffset == file.indexOffset
    IN  /\ Len(blocks) > 0 /\ file.metadata.count > 0
        /\ \A n \in DOMAIN blocks :
             /\ blocks[n].offset >= 0 /\ blocks[n].size > 0 /\ blocks[n].count > 0
             /\ blocks[n].minT <= blocks[n].maxT /\ blocks[n].minP <= blocks[n].maxP
             /\ blocks[n].offset + blocks[n].size <= indexOffset
             /\ n > 1 => /\ blocks[n].offset >= blocks[n - 1].offset + blocks[n - 1].size
                         /\ blocks[n].minT >= blocks[n - 1].minT
                         /\ blocks[n].maxT >= blocks[n - 1].maxT
             /\ file.metadata.minP <= blocks[n].minP /\ blocks[n].maxP <= file.metadata.maxP
        /\ file.metadata.count = PointCount(blocks)
        /\ file.metadata.minT = blocks[1].minT
        /\ file.metadata.maxT = blocks[Len(blocks)].maxT

\* What comes of reading block n.
ReadBlock(file, n) == Decode(file.format, file.data[file.blocks[n].offset], file.blocks[n])

-----------------------------------------------------------------------------
(* Range queries: a half-open interval [start, end), and a set of          *)
(* parameters if it is filtered.                                           *)

\* may_contain_parameter_ids.
MayContain(bounds, query) ==
    query.filtered => \E p \in query.parameters : bounds.minP <= p /\ p <= bounds.maxP

\* overlaps_query, of a file.
Overlaps(bounds, query) ==
    /\ bounds.maxT >= query.start /\ bounds.minT < query.end
    /\ MayContain(bounds, query)

InRange(point, query) ==
    /\ query.start <= point.t /\ point.t < query.end
    /\ query.filtered => point.p \in query.parameters

\* The points that are asked for, in their order.
Select(points, query) ==
    LET kept[n \in 0..Len(points)] ==
            IF n = 0 THEN <<>>
            ELSE IF InRange(points[n], query) THEN Append(kept[n - 1], points[n]) ELSE kept[n - 1]
    IN  kept[Len(points)]

\* bisect_left of a sorted sequence.
BisectLeft(sorted, x) == Cardinality({n \in DOMAIN sorted : sorted[n] < x})

\* Mutant: bisect_right, as if a block ended before its last timestamp.
CandidateBlocksRight(blocks, query) ==
    (Cardinality({n \in DOMAIN blocks : blocks[n].maxT <= query.start}) + 1)
      ..BisectLeft([n \in DOMAIN blocks |-> blocks[n].minT], query.end)

\* The numbers of the blocks that _select_candidate_blocks returns.
CandidateBlocks(blocks, query) ==
    (BisectLeft([n \in DOMAIN blocks |-> blocks[n].maxT], query.start) + 1)
      ..BisectLeft([n \in DOMAIN blocks |-> blocks[n].minT], query.end)

\* Those that iter_range reads.
ScannedBlocks(file, query) ==
    IF ~Overlaps(file.metadata, query) THEN {}
    ELSE {n \in CandidateBlocks(file.blocks, query) : MayContain(file.blocks[n], query)}

\* iter_range raises at a block that it cannot decode.
Readable(file, query) == \A n \in ScannedBlocks(file, query) : ReadBlock(file, n).ok

\* The points that iter_range yields.
Scan(file, query) ==
    Select(FlattenSeq([n \in DOMAIN file.blocks |->
                         IF n \in ScannedBlocks(file, query) THEN ReadBlock(file, n).points ELSE <<>>]),
           query)
=============================================================================
