---------------------------- MODULE ReadPathProofs ----------------------------
(***************************************************************************)
(* What TLAPS proves about ReadPath: that every file reads back as the     *)
(* points it was written from, that a compaction drops no newest version,  *)
(* and that a query returns the newest version of each key it asked for,   *)
(* for every input, size of a block, format, query and damaged block.      *)
(***************************************************************************)
EXTENDS ReadPath, SSTableProofs

\* The points there can be.
Stamps == [t : Timestamps, p : Int, v : Int]

Good(points) == points \in Seq(Stamps) /\ Ascending(points)

\* The values say which point was appended first.
Older(S, T) == \A x \in S, y \in T : x.v < y.v

\* S has a version of each key of T that is as new.
Covers(S, T) == \A y \in T : \E z \in S : SameKey(z, y) /\ y.v <= z.v

Held == UNION {ToSet(content[id]) : id \in DOMAIN content}

BrokenOf(id) == {d.offset : d \in {x \in damaged : x.id = id}}

-----------------------------------------------------------------------------
(* The inductive invariant.                                                *)

ConfigInv ==
    /\ format \in Formats /\ blockMax \in BlockSizes
    /\ nextId \in Nat \ {0}
    /\ snapshots \in Seq(Seq(Stamps))
    /\ \A n \in 1..Len(snapshots) : Ascending(snapshots[n]) /\ snapshots[n] # <<>>
    /\ Good(memtable)
    /\ IsRange(query)
    /\ job \in {"idle", "write", "query", "compact", "answered", "raised", "failed"}

\* Each file has the points it was written from, but for the damaged block.
FileInv ==
    /\ DOMAIN files \subseteq 1..(nextId - 1) /\ DOMAIN content = DOMAIN files
    /\ \A id \in DOMAIN files :
         /\ Good(content[id]) /\ content[id] # <<>>
         /\ files[id] = [format |-> files[id].format, blocks |-> files[id].blocks,
                         data |-> files[id].data, indexOffset |-> files[id].indexOffset,
                         metadata |-> files[id].metadata]
         /\ \E cuts : IsFile(files[id], content[id], cuts, BrokenOf(id))
    /\ \A d \in damaged : /\ d = [id |-> d.id, offset |-> d.offset]
                          /\ d.id \in DOMAIN files /\ d.offset \in DOMAIN files[d.id].data

\* The file that is being written has the first of its points.
WritingInv ==
    /\ job = "write" =>
         /\ writing = [id |-> writing.id, points |-> writing.points, start |-> writing.start,
                       blocks |-> writing.blocks, data |-> writing.data,
                       offset |-> writing.offset]
         /\ writing.id \in 1..(nextId - 1) /\ \A id \in DOMAIN files : id < writing.id
         /\ Good(writing.points) /\ writing.points # <<>>
         /\ LaidUpTo(format, writing.blocks, writing.data, writing.offset, writing.points,
                     writing.start)
    /\ job # "write" => writing = NoFile

Flushing == job = "write" /\ sources = <<>>
Compacting == job = "compact" \/ (job = "write" /\ sources # <<>>)

\* Tables by id, then the file of a flush, the snapshots and the memtable are in the
\* order in which their points were appended.
AgeInv ==
    /\ \A i, j \in DOMAIN content : i < j => Older(ToSet(content[i]), ToSet(content[j]))
    /\ \A m, n \in 1..Len(snapshots) : m < n => Older(ToSet(snapshots[m]), ToSet(snapshots[n]))
    /\ \A n \in 1..Len(snapshots) : /\ Older(flushed, ToSet(snapshots[n]))
                                    /\ Older(ToSet(snapshots[n]), ToSet(memtable))
    /\ Older(flushed, ToSet(memtable))
    /\ Flushing => /\ Older(flushed, ToSet(writing.points))
                   /\ Older(ToSet(writing.points), ToSet(memtable))
                   /\ \A n \in 1..Len(snapshots) : Older(ToSet(writing.points), ToSet(snapshots[n]))

\* What was flushed is on disk in a version as new, and so is what is merged.
HeldInv ==
    /\ flushed \subseteq Stamps
    /\ Held \subseteq flushed /\ Covers(Held, flushed)
    /\ job = "write" /\ sources # <<>> =>
         ToSet(writing.points) \subseteq Held /\ Covers(ToSet(writing.points), Held)
    /\ Compacting => damaged = {}
    /\ job = "failed" => damaged # {}

Merged == UNION {ToSet(sources[s]) : s \in DOMAIN sources}

\* Sources by priority are in the order in which their points were appended.
SourceInv ==
    /\ DOMAIN sources \subseteq 0..nextId /\ DOMAIN ordinal = DOMAIN sources
    /\ \A s \in DOMAIN sources : Good(sources[s]) /\ ordinal[s] \in 0..Len(sources[s])
    /\ \A r, s \in DOMAIN sources : r < s => Older(ToSet(sources[r]), ToSet(sources[s]))
    /\ output \in Seq(Stamps)
    /\ ~Merging => heap = {} /\ winner = NoPoint
    /\ job = "idle" => Idle
    /\ job = "compact" => DOMAIN sources # {} /\ Merged # {} /\ Merged = Held
    /\ job = "query" => \A x : x \in Merged <=> /\ x \in Held \/ x \in ToSet(memtable)
                                                /\ InRange(x, query)

\* The heap has the next point of each source that is not exhausted.
HeapInv ==
    /\ \A e \in heap : /\ e.priority \in DOMAIN sources
                       /\ ordinal[e.priority] \in 1..Len(sources[e.priority])
                       /\ e = Entry(e.priority, ordinal[e.priority])
    /\ \A s \in DOMAIN sources : ordinal[s] = Len(sources[s]) \/ Entry(s, ordinal[s]) \in heap

\* Point i of source s was popped.
Given(s, i) == i \in 1..ordinal[s] /\ Entry(s, i) \notin heap

\* There is a point as new as x in the output or waiting to be put there.
Kept(x) ==
    \/ \E w \in winner : SameKey(w.point, x) /\ x.v <= w.point.v
    \/ \E n \in 1..Len(output) : SameKey(output[n], x) /\ x.v <= output[n].v

\* The keys come in their order, each once, and no newest version is passed over.
PoppedInv ==
    /\ \A s \in DOMAIN sources : \A i \in 1..Len(sources[s]) : Given(s, i) =>
         /\ Kept(sources[s][i])
         /\ \A e \in heap : ~KeyBefore(e.point, sources[s][i])
    /\ \A x, y \in winner : x = y
    /\ \A w \in winner : \E s \in DOMAIN sources : \E i \in 1..Len(sources[s]) :
         Given(s, i) /\ w = Entry(s, i)
    /\ \A n \in 1..Len(output) : output[n] \in Merged
    /\ \A m, n \in 1..Len(output) : m < n => KeyBefore(output[m], output[n])
    /\ \A n \in 1..Len(output), w \in winner : KeyBefore(output[n], w.point)
    /\ winner = NoPoint => \A n \in 1..Len(output), e \in heap : KeyBefore(output[n], e.point)

MergeInv == Merging => HeapInv /\ PoppedInv

IInv == ConfigInv /\ FileInv /\ WritingInv /\ AgeInv /\ HeldInv /\ SourceInv /\ MergeInv
        /\ QueryReturnsNewest

-----------------------------------------------------------------------------
(* Sequences of points in order.                                           *)

\* The types of the fields of a stamped point.
LEMMA StampFacts ==
    ASSUME NEW x \in Stamps
    PROVE  x \in Points /\ x.t \in Timestamps /\ x.t \in Int /\ x.p \in Int /\ x.v \in Int
  BY ReadPathAssumption DEF Stamps, Points

\* Two points of one key and one version are the same point.
LEMMA SameStamp ==
    ASSUME NEW x \in Stamps, NEW y \in Stamps, SameKey(x, y), x.v = y.v
    PROVE  x = y
  BY DEF Stamps, SameKey

\* What a sorted run of stamped points has at its places.
LEMMA GoodFacts ==
    ASSUME NEW points, Good(points)
    PROVE  /\ Len(points) \in Nat /\ DOMAIN points = 1..Len(points) /\ points \in Seq(Points)
           /\ \A n \in 1..Len(points) : points[n] \in Stamps /\ points[n] \in ToSet(points)
           /\ ToSet(points) \subseteq Stamps
           /\ \A x : x \in ToSet(points) <=> \E n \in 1..Len(points) : x = points[n]
<1>1. Len(points) \in Nat /\ DOMAIN points = 1..Len(points) /\ points \in Seq(Stamps)
  BY DEF Good
<1>2. \A n \in 1..Len(points) : points[n] \in Stamps
  BY <1>1
<1>3. \A x : x \in ToSet(points) <=> \E n \in 1..Len(points) : x = points[n]
  BY <1>1 DEF ToSet
<1>4. points \in Seq(Points)
  <2>1. \A n \in 1..Len(points) : points[n] \in Points
    BY <1>2, StampFacts
  <2>2. points = [n \in 1..Len(points) |-> points[n]]
    BY <1>1
  <2>3. points \in [1..Len(points) -> Points]
    BY <2>1, <2>2
  <2> QED BY <1>1, <2>3
<1> QED BY <1>1, <1>2, <1>3, <1>4

\* A sorted run can be written to a file.
LEMMA GoodStorable ==
    ASSUME NEW points, Good(points), points # <<>>
    PROVE  Storable(points)
<1>1. Len(points) \in Nat /\ points \in Seq(Points) /\ \A n \in 1..Len(points) : points[n] \in Stamps
  BY GoodFacts
<1>2. ASSUME NEW n \in 1..Len(points)
      PROVE  Differences(points)[n] \in Nat /\ Len(Uvarint[Differences(points)[n]]) <= MaxGroups
  <2>1. CASE n = 1
    <3>1. Differences(points)[n] = 0
      BY <2>1 DEF Differences
    <3>2. FitsGroup(0)
      BY FormatAssumption DEF FitsGroup
    <3>3. Len(Uvarint[0]) = 1
      <4>1. Uvarint[0] = <<[low |-> 0, more |-> FALSE]>>
        BY <3>2, UvarintParts
      <4> QED BY <4>1
    <3> QED BY <3>1, <3>3, FormatAssumption
  <2>2. CASE n # 1
    <3> DEFINE a == points[n - 1].t
               b == points[n].t
    <3>1. Differences(points)[n] = b - a
      BY <2>2 DEF Differences
    <3>2. n - 1 \in 1..Len(points) /\ n - 1 < n
      BY <1>1, <2>2
    <3>3. a \in Timestamps /\ b \in Timestamps /\ a \in Int /\ b \in Int
      BY <1>1, <3>2, StampFacts
    <3>4. a <= b
      <4>1. Precedes(points[n - 1], points[n])
        BY <3>2 DEF Good, Ascending
      <4> QED BY <3>3, <4>1 DEF Precedes
    <3> HIDE DEF a, b
    <3> QED BY <3>1, <3>3, <3>4, VarintAssumption
  <2> QED BY <2>1, <2>2
<1> QED BY <1>1, <1>2 DEF Storable, Chunk, Good

\* The order of the heap, of what is merged and of what is stored agree.
LEMMA KeyOrder ==
    ASSUME NEW x \in Stamps, NEW y \in Stamps, NEW z \in Stamps
    PROVE  /\ KeyBefore(x, y) \/ KeyBefore(y, x) \/ SameKey(x, y)
           /\ KeyBefore(x, y) => ~KeyBefore(y, x) /\ ~SameKey(x, y) /\ Precedes(x, y)
           /\ SameKey(x, y) => ~KeyBefore(x, y) /\ SameKey(y, x)
           /\ KeyBefore(x, y) /\ ~KeyBefore(z, y) => KeyBefore(x, z)
           /\ ~KeyBefore(y, x) /\ ~KeyBefore(z, y) => ~KeyBefore(z, x)
           /\ SameKey(x, y) /\ SameKey(y, z) => SameKey(x, z)
           /\ SameKey(x, y) /\ KeyBefore(z, y) => KeyBefore(z, x)
           /\ SameKey(x, y) /\ KeyBefore(y, z) => KeyBefore(x, z)
           /\ Precedes(x, y) => ~KeyBefore(y, x)
           /\ Precedes(x, y) /\ SameKey(x, y) => x.v < y.v
<1>1. /\ x.t \in Int /\ x.p \in Int /\ x.v \in Int /\ y.t \in Int /\ y.p \in Int /\ y.v \in Int
      /\ z.t \in Int /\ z.p \in Int /\ z.v \in Int
  BY StampFacts
<1> QED BY <1>1 DEF KeyBefore, SameKey, Precedes

\* The points of a flush carry its number, each a different value.
LEMMA StampedFacts ==
    ASSUME NEW keys \in Seq([t : Timestamps, p : Int]), InOrder(keys), NEW n \in Nat
    PROVE  /\ Good(Stamped(keys, n)) /\ (keys # <<>> => Stamped(keys, n) # <<>>)
           /\ \A x \in ToSet(Stamped(keys, n)) :
                \E i \in 1..Len(keys) : x.v = Stride * n + i
           /\ \A x, y \in ToSet(Stamped(keys, n)) : x.v = y.v => x = y
<1> DEFINE points == Stamped(keys, n)
           max == Len(keys)
           base == Stride * n
<1>1. max \in Nat /\ DOMAIN keys = 1..max /\ Stride \in Nat
      /\ \A i \in 1..max : keys[i].t \in Timestamps /\ keys[i].p \in Int
  <2>1. \A i \in 1..max : keys[i] \in [t : Timestamps, p : Int]
    <3> DEFINE X == [t : Timestamps, p : Int]
    <3>1. keys \in Seq(X)
      OBVIOUS
    <3> HIDE DEF X
    <3>2. \A i \in 1..Len(keys) : keys[i] \in X
      BY <3>1
    <3> QED BY <3>2 DEF X
  <2>2. max \in Nat /\ DOMAIN keys = 1..max
    OBVIOUS
  <2> HIDE DEF max
  <2> QED BY <2>1, <2>2, ReadPathAssumption
<1>2. base \in Int
  BY <1>1
<1>3. points = [i \in 1..max |-> [t |-> keys[i].t, p |-> keys[i].p, v |-> base + i]]
  BY <1>1 DEF Stamped
<1> HIDE DEF base, points
<1>4. points \in [1..max -> Stamps]
  <2>1. \A i \in 1..max : [t |-> keys[i].t, p |-> keys[i].p, v |-> base + i] \in Stamps
    BY <1>1, <1>2 DEF Stamps
  <2> QED BY <1>3, <2>1
<1>5. points \in Seq(Stamps) /\ Len(points) = max /\ DOMAIN points = 1..max
  BY <1>1, <1>4
<1>6. \A i \in 1..max : /\ points[i].t = keys[i].t /\ points[i].p = keys[i].p
                        /\ points[i].v = base + i
  BY <1>3
<1> HIDE DEF max
<1>7. Ascending(points)
  <2> SUFFICES ASSUME NEW i \in 1..max, NEW j \in 1..max, i < j
               PROVE  Precedes(points[i], points[j])
    BY <1>5 DEF Ascending
  <2>1. KeyBefore(keys[i], keys[j]) \/ SameKey(keys[i], keys[j])
    BY <1>1 DEF InOrder
  <2>2. points[i].v < points[j].v
    <3>1. base + i < base + j
      BY <1>1, <1>2
    <3> QED BY <1>6, <3>1
  <2> QED BY <1>6, <2>1, <2>2 DEF Precedes, KeyBefore, SameKey
<1>8. keys # <<>> => points # <<>>
  <2>1. keys # <<>> => max # 0
    BY DEF max
  <2> QED BY <1>5, <2>1
<1>9. ASSUME NEW x \in ToSet(points) PROVE \E i \in 1..max : x.v = base + i
  <2>1. PICK i \in 1..max : x = points[i]
    BY <1>5 DEF ToSet
  <2> QED BY <1>6, <2>1
<1>10. ASSUME NEW x \in ToSet(points), NEW y \in ToSet(points), x.v = y.v PROVE x = y
  <2>1. PICK i \in 1..max : x = points[i]
    BY <1>5 DEF ToSet
  <2>2. PICK j \in 1..max : y = points[j]
    BY <1>5 DEF ToSet
  <2>3. base + i = base + j
    BY <1>6, <1>10, <2>1, <2>2
  <2>4. i = j
    BY <1>1, <1>2, <2>3
  <2> QED BY <2>1, <2>2, <2>4
<1> QED BY <1>5, <1>7, <1>8, <1>9, <1>10 DEF Good, points, base, max

\* A point of an earlier flush has the smaller value.
LEMMA StampsOlder ==
    ASSUME NEW m \in Nat, NEW n \in Nat, m < n, NEW x, NEW y,
           NEW i \in Nat, NEW j \in Nat \ {0}, i < Stride, x.v = Stride * m + i, y.v = Stride * n + j
    PROVE  x.v < y.v
<1>1. Stride \in Nat
  BY ReadPathAssumption
<1>2. PICK d \in Nat : n = m + 1 + d
  <2>1. n - m - 1 \in Nat /\ n = m + 1 + (n - m - 1)
    OBVIOUS
  <2> QED BY <2>1
<1>3. Stride * n = Stride * m + Stride + Stride * d
  BY <1>1, <1>2
<1>4. Stride * d \in Nat /\ Stride * m \in Nat
  BY <1>1, <1>2
<1> QED BY <1>1, <1>3, <1>4

-----------------------------------------------------------------------------
(* The sum over a set, which FoldSet takes in an order it chooses.         *)

Pick(S) == CHOOSE x \in S : TRUE

\* The sum of S, if f is right about the rest.
SumBy(f, S) == IF S = {} THEN 0 ELSE Pick(S) + f[S \ {Pick(S)}]

\* f sums every subset of S up.
Sums(f, S) == f = [T \in SUBSET S |-> SumBy(f, T)]

\* Taking one element out of a finite set makes it smaller by one.
LEMMA PickFacts ==
    ASSUME NEW S, NEW T \in SUBSET S, IsFiniteSet(S), T # {}
    PROVE  /\ Pick(T) \in T /\ T \ {Pick(T)} \in SUBSET S
           /\ IsFiniteSet(T) /\ Cardinality(T) \in Nat \ {0}
           /\ \A x \in T : Cardinality(T \ {x}) = Cardinality(T) - 1
<1>1. Pick(T) \in T
  BY DEF Pick
<1>2. IsFiniteSet(T)
  BY FS_Subset
<1>3. Cardinality(T) \in Nat /\ Cardinality(T) # 0
  BY <1>2, FS_CardinalityType, FS_EmptySet
<1>4. \A x \in T : Cardinality(T \ {x}) = Cardinality(T) - 1
  BY <1>2, FS_RemoveElement
<1> QED BY <1>1, <1>2, <1>3, <1>4

\* Every finite set of integers has a table of the sums of its subsets.
LEMMA SumsExist ==
    ASSUME NEW S \in SUBSET Int, IsFiniteSet(S)
    PROVE  \E f \in [SUBSET S -> Int] : Sums(f, S)
<1> DEFINE Upto(f, n) == \A T \in SUBSET S : Cardinality(T) <= n => f[T] = SumBy(f, T)
           max == Cardinality(S)
           G == {n \in 0..max : \E f \in [SUBSET S -> Int] : Upto(f, n)}
<1>1. max \in Nat
  BY FS_CardinalityType
<1>2. \A f \in [SUBSET S -> Int], T \in SUBSET S : SumBy(f, T) \in Int
  <2> SUFFICES ASSUME NEW f \in [SUBSET S -> Int], NEW T \in SUBSET S PROVE SumBy(f, T) \in Int
    OBVIOUS
  <2>1. CASE T = {}
    BY <2>1 DEF SumBy
  <2>2. CASE T # {}
    <3>1. Pick(T) \in T /\ T \ {Pick(T)} \in SUBSET S
      BY <2>2, PickFacts
    <3>2. Pick(T) \in Int /\ f[T \ {Pick(T)}] \in Int
      BY <3>1
    <3> QED BY <2>2, <3>2 DEF SumBy
  <2> QED BY <2>1, <2>2
<1>3. \A T \in SUBSET S : IsFiniteSet(T) /\ Cardinality(T) \in 0..max
  <2> TAKE T \in SUBSET S
  <2>1. IsFiniteSet(T) /\ Cardinality(T) <= max
    BY FS_Subset
  <2>2. Cardinality(T) \in Nat
    BY <2>1, FS_CardinalityType
  <2> QED BY <1>1, <2>1, <2>2
<1>4. 0 \in G
  <2> DEFINE f == [T \in SUBSET S |-> 0]
  <2>1. f \in [SUBSET S -> Int]
    OBVIOUS
  <2>2. \A T \in SUBSET S : Cardinality(T) <= 0 => T = {}
    <3> TAKE T \in SUBSET S
    <3> HAVE Cardinality(T) <= 0
    <3>1. Cardinality(T) = 0 /\ IsFiniteSet(T)
      <4> HIDE DEF max
      <4> QED BY <1>1, <1>3
    <3> QED BY <3>1, FS_EmptySet
  <2>3. f[{}] = SumBy(f, {})
    BY DEF SumBy
  <2>4. Upto(f, 0)
    BY <2>2, <2>3
  <2> HIDE DEF f, Upto
  <2> QED BY <1>1, <2>1, <2>4
<1>5. ASSUME NEW n \in Nat, n < max, n \in G PROVE n + 1 \in G
  <2>1. PICK f \in [SUBSET S -> Int] : Upto(f, n)
    BY <1>5
  <2> DEFINE g == [T \in SUBSET S |-> SumBy(f, T)]
  <2>2. g \in [SUBSET S -> Int] /\ \A T \in SUBSET S : g[T] = SumBy(f, T)
    BY <1>2
  <2> HIDE DEF g
  <2>3. ASSUME NEW T \in SUBSET S, Cardinality(T) <= n + 1 PROVE g[T] = SumBy(g, T)
    <3>1. CASE T = {}
      BY <2>2, <3>1 DEF SumBy
    <3>2. CASE T # {}
      <4> DEFINE rest == T \ {Pick(T)}
      <4>1. rest \in SUBSET S /\ Cardinality(rest) = Cardinality(T) - 1 /\ Cardinality(T) \in Nat
        BY <3>2, PickFacts
      <4>2. g[T] = Pick(T) + f[rest] /\ SumBy(g, T) = Pick(T) + g[rest]
        BY <2>2, <3>2 DEF SumBy
      <4> HIDE DEF rest, max
      <4>3. Cardinality(rest) <= n
        BY <1>5, <2>3, <4>1
      <4>4. g[rest] = f[rest]
        BY <2>1, <2>2, <4>1, <4>3
      <4> QED BY <4>2, <4>4
    <3> QED BY <3>1, <3>2
  <2>4. n + 1 \in 0..max
    <3> HIDE DEF max
    <3> QED BY <1>1, <1>5
  <2>5. Upto(g, n + 1)
    BY <2>3
  <2> HIDE DEF Upto
  <2> QED BY <2>2, <2>4, <2>5
<1>6. 0..max \subseteq G
  <2> HIDE DEF G, max
  <2> QED BY <1>1, <1>4, <1>5, Induction
<1>7. max \in G
  <2> HIDE DEF G, max
  <2> QED BY <1>1, <1>6
<1>8. PICK f \in [SUBSET S -> Int] : Upto(f, max)
  BY <1>7
<1>9. \A T \in SUBSET S : f[T] = SumBy(f, T)
  <2> HIDE DEF max
  <2> QED BY <1>3, <1>8
<1>10. f = [T \in SUBSET S |-> f[T]]
  OBVIOUS
<1>11. f = [T \in SUBSET S |-> SumBy(f, T)]
  BY <1>9, <1>10
<1> QED BY <1>8, <1>11 DEF Sums

\* Two that sum the subsets up do so alike, where both do.
LEMMA SumsAgree ==
    ASSUME NEW S, NEW S2, S \subseteq S2, IsFiniteSet(S2),
           NEW f, Sums(f, S), NEW g, Sums(g, S2), NEW T1 \in SUBSET S
    PROVE  f[T1] = g[T1]
<1> DEFINE max == Cardinality(S)
           G == {n \in 0..max : \A T \in SUBSET S : Cardinality(T) <= n => f[T] = g[T]}
<1>1. IsFiniteSet(S) /\ max \in Nat
  BY FS_Subset, FS_CardinalityType
<1>2. /\ \A T \in SUBSET S : f[T] = IF T = {} THEN 0 ELSE Pick(T) + f[T \ {Pick(T)}]
      /\ \A T \in SUBSET S : g[T] = IF T = {} THEN 0 ELSE Pick(T) + g[T \ {Pick(T)}]
  BY DEF Sums, SumBy
<1>3. 0 \in G
  <2>1. \A T \in SUBSET S : Cardinality(T) <= 0 => T = {}
    <3> TAKE T \in SUBSET S
    <3> HAVE Cardinality(T) <= 0
    <3>1. IsFiniteSet(T)
      BY <1>1, FS_Subset
    <3>2. Cardinality(T) = 0
      BY <3>1, FS_CardinalityType
    <3> QED BY <3>1, <3>2, FS_EmptySet
  <2>2. f[{}] = g[{}]
    BY <1>2
  <2> QED BY <1>1, <2>1, <2>2
<1>4. ASSUME NEW n \in Nat, n < max, n \in G PROVE n + 1 \in G
  <2>1. ASSUME NEW T \in SUBSET S, Cardinality(T) <= n + 1 PROVE f[T] = g[T]
    <3>1. CASE T = {}
      BY <1>2, <3>1
    <3>2. CASE T # {}
      <4>1. T \ {Pick(T)} \in SUBSET S /\ Cardinality(T \ {Pick(T)}) <= n
        BY <1>1, <1>4, <2>1, <3>2, PickFacts
      <4>2. f[T \ {Pick(T)}] = g[T \ {Pick(T)}]
        BY <1>4, <4>1
      <4> QED BY <1>2, <3>2, <4>2
    <3> QED BY <3>1, <3>2
  <2> QED BY <1>1, <1>4, <2>1
<1>5. 0..max \subseteq G
  <2> HIDE DEF G, max
  <2> QED BY <1>1, <1>3, <1>4, Induction
<1>6. max \in G
  BY <1>1, <1>5
<1>7. Cardinality(T1) <= max
  BY <1>1, FS_Subset
<1> QED BY <1>6, <1>7

\* The sum does not depend on which element comes first.
LEMMA SumsCommute ==
    ASSUME NEW S \in SUBSET Int, IsFiniteSet(S), NEW f \in [SUBSET S -> Int], Sums(f, S),
           NEW x \in S
    PROVE  f[S] = x + f[S \ {x}]
<1> DEFINE max == Cardinality(S)
           FirstAny(T) == \A y \in T : f[T] = y + f[T \ {y}]
           G == {n \in 0..max : \A T \in SUBSET S : Cardinality(T) <= n => FirstAny(T)}
<1>1. max \in Nat
  BY FS_CardinalityType
<1>2. \A T \in SUBSET S : T # {} => f[T] = Pick(T) + f[T \ {Pick(T)}]
  BY DEF Sums, SumBy
<1>3. 0 \in G
  <2>1. \A T \in SUBSET S : Cardinality(T) <= 0 => T = {}
    <3> TAKE T \in SUBSET S
    <3> HAVE Cardinality(T) <= 0
    <3>1. IsFiniteSet(T)
      BY FS_Subset
    <3>2. Cardinality(T) = 0
      BY <3>1, FS_CardinalityType
    <3> QED BY <3>1, <3>2, FS_EmptySet
  <2> QED BY <1>1, <2>1
<1>4. ASSUME NEW n \in Nat, n < max, n \in G PROVE n + 1 \in G
  <2>1. ASSUME NEW T \in SUBSET S, Cardinality(T) <= n + 1, NEW y \in T
        PROVE  f[T] = y + f[T \ {y}]
    <3> DEFINE p == Pick(T)
               rest == T \ {p}
               other == T \ {y}
    <3>1. /\ p \in T /\ rest \in SUBSET S /\ Cardinality(rest) <= n
          /\ other \in SUBSET S /\ Cardinality(other) <= n
      <4>1. /\ p \in T /\ Cardinality(T) \in Nat
            /\ \A z \in T : Cardinality(T \ {z}) = Cardinality(T) - 1
        BY <2>1, PickFacts
      <4> HIDE DEF p
      <4>2. Cardinality(rest) = Cardinality(T) - 1 /\ Cardinality(other) = Cardinality(T) - 1
        BY <2>1, <4>1
      <4> HIDE DEF max
      <4>3. Cardinality(rest) <= n /\ Cardinality(other) <= n
        BY <1>4, <2>1, <4>1, <4>2
      <4> QED BY <4>1, <4>3
    <3>2. f[T] = p + f[rest]
      BY <1>2, <2>1
    <3> HIDE DEF p
    <3>3. CASE y = p
      BY <3>2, <3>3
    <3>4. CASE y # p
      <4>1. y \in rest /\ p \in other /\ rest \ {y} = other \ {p} /\ rest \ {y} \in SUBSET S
        BY <3>1, <3>4
      <4>2. f[rest] = y + f[rest \ {y}] /\ f[other] = p + f[other \ {p}]
        BY <1>4, <3>1, <4>1
      <4>3. f[rest \ {y}] \in Int /\ p \in Int /\ y \in Int
        BY <3>1, <4>1
      <4> HIDE DEF rest, other
      <4>4. f[T] = p + (y + f[rest \ {y}]) /\ f[other] = p + f[rest \ {y}]
        BY <3>2, <4>1, <4>2
      <4>5. f[T] = y + f[other]
        BY <4>3, <4>4
      <4> QED BY <4>5 DEF other
    <3> QED BY <3>3, <3>4
  <2> QED BY <1>1, <1>4, <2>1
<1>5. 0..max \subseteq G
  <2> HIDE DEF G, max
  <2> QED BY <1>1, <1>3, <1>4, Induction
<1>6. max \in G
  BY <1>1, <1>5
<1> QED BY <1>1, <1>6

SumOf(S) == FoldSet(+, 0, S)

\* FoldSet with + is the sum, for a finite set of integers.
LEMMA SumFacts ==
    /\ SumOf({}) = 0
    /\ \A S \in SUBSET Int : IsFiniteSet(S) =>
         \A x \in Int \ S : SumOf(S \cup {x}) = x + SumOf(S)
<1> DEFINE It(S) == CHOOSE f : Sums(f, S)
<1>1. \A S : SumOf(S) = It(S)[S]
  BY DEF SumOf, FoldSet, MapThenFoldSet, Sums, SumBy, Pick
<1>2. ASSUME NEW S \in SUBSET Int, IsFiniteSet(S)
      PROVE  Sums(It(S), S) /\ It(S) \in [SUBSET S -> Int]
  <2>1. PICK f \in [SUBSET S -> Int] : Sums(f, S)
    BY <1>2, SumsExist
  <2>2. Sums(It(S), S)
    BY <2>1
  <2> HIDE DEF It
  <2>3. \A T \in SUBSET S : It(S)[T] = f[T]
    <3>1. PICK g, h, R : g = It(S) /\ h = f /\ R = S
      OBVIOUS
    <3>2. Sums(g, R) /\ Sums(h, R) /\ IsFiniteSet(R)
      BY <1>2, <2>1, <2>2, <3>1
    <3>3. \A T \in SUBSET R : h[T] = g[T]
      BY ONLY <3>2, SumsAgree
    <3> QED BY <3>1, <3>3
  <2>4. It(S) = [T \in SUBSET S |-> It(S)[T]]
    BY <2>2 DEF Sums
  <2> QED BY <2>2, <2>3, <2>4
<1>3. SumOf({}) = 0
  <2>1. Sums(It({}), {})
    BY <1>2, FS_EmptySet
  <2> HIDE DEF It
  <2>2. It({})[{}] = 0
    BY <2>1 DEF Sums, SumBy
  <2> QED BY <1>1, <2>2
<1>4. ASSUME NEW S \in SUBSET Int, IsFiniteSet(S), NEW x \in Int \ S
      PROVE  SumOf(S \cup {x}) = x + SumOf(S)
  <2> DEFINE S2 == S \cup {x}
  <2>1. S2 \in SUBSET Int /\ IsFiniteSet(S2) /\ x \in S2 /\ S2 \ {x} = S /\ S \subseteq S2
    BY <1>4, FS_AddElement
  <2>2. Sums(It(S), S) /\ Sums(It(S2), S2) /\ It(S2) \in [SUBSET S2 -> Int]
    BY <1>2, <1>4, <2>1
  <2> HIDE DEF It, S2
  <2>3. It(S2)[S2] = x + It(S2)[S2 \ {x}]
    BY <2>1, <2>2, SumsCommute
  <2>4. It(S)[S] = It(S2)[S]
    BY <2>1, <2>2, SumsAgree
  <2>5. SumOf(S2) = It(S2)[S2] /\ SumOf(S) = It(S)[S]
    BY <1>1
  <2> QED BY <2>1, <2>3, <2>4, <2>5 DEF S2
<1> QED BY <1>3, <1>4

-----------------------------------------------------------------------------
(* The accumulators of aggregate_points.                                   *)

Accumulators == [count : Nat, total : Int, min : Int, max : Int]

\* An accumulator stays in its type.
LEMMA AddValueTyped ==
    ASSUME NEW a \in Accumulators, NEW v \in Int
    PROVE  AddValue(a, v) \in Accumulators
  BY DEF AddValue, Accumulators

\* The accumulator, point by point (analysis.py 158-171).
LEMMA AccumulateUnfolds ==
    ASSUME NEW points \in Seq(Points), NEW p
    PROVE  \E g \in [0..Len(points) -> Accumulators] :
              /\ g[0] = NothingFound /\ Accumulate(points, p) = g[Len(points)]
              /\ \A n \in 1..Len(points) :
                   g[n] = IF points[n].p = p THEN AddValue(g[n - 1], points[n].v) ELSE g[n - 1]
<1> DEFINE max == Len(points)
           X == Accumulators
           base == NothingFound
           After(n, x) == IF points[n].p = p THEN AddValue(x, points[n].v) ELSE x
           step == [n \in 1..max |-> [x \in X |-> After(n, x)]]
           Body(f) == [n \in 0..max |-> IF n = 0 THEN base ELSE After(n, f[n - 1])]
           g == CHOOSE g : g = Body(g)
<1>1. max \in Nat /\ base \in X
  BY DEF NothingFound, Accumulators
<1>2. ASSUME NEW n \in 1..max, NEW x \in X
      PROVE  After(n, x) \in X
  <2>1. points[n] \in Points
    OBVIOUS
  <2>2. points[n].v \in Int
    BY <2>1 DEF Points
  <2> QED BY <2>2, AddValueTyped
<1>3. Accumulate(points, p) = g[max]
  BY DEF Accumulate
<1> HIDE DEF X, After
<1>4. step \in [1..max -> [X -> X]] /\ \A n \in 1..max, x \in X : step[n][x] = After(n, x)
  BY <1>2
<1>5. \A n \in 1..max : n - 1 \in 0..max /\ n # 0 /\ n \in 0..max
  BY <1>1
<1>6. PICK f \in [0..max -> X] : IsRun(f, base, max, step)
  <2> HIDE DEF step, max, base
  <2> QED BY <1>1, <1>4, RunExists
<1> HIDE DEF step
<1>7. f = Body(f)
  <2>1. f[0] = Body(f)[0]
    BY <1>1, <1>6 DEF IsRun
  <2>2. \A n \in 1..max : f[n - 1] \in X /\ f[n] = step[n][f[n - 1]]
    BY <1>5, <1>6 DEF IsRun
  <2>3. \A n \in 1..max : f[n] = Body(f)[n]
    BY <1>4, <1>5, <2>2
  <2>4. \A n \in 0..max : n = 0 \/ n \in 1..max
    BY <1>1
  <2> QED BY <1>6, <2>1, <2>3, <2>4
<1>8. g = Body(g)
  BY <1>7
<1> HIDE DEF g
<1>9. g[0] = base /\ \A n \in 1..max : g[n] = After(n, g[n - 1])
  <2>1. g[0] = base
    BY <1>1, <1>8
  <2>2. ASSUME NEW n \in 1..max PROVE g[n] = After(n, g[n - 1])
    <3> HIDE DEF max
    <3> QED BY <1>5, <1>8
  <2> QED BY <2>1, <2>2
<1>10. \A n \in 1..max : g[n - 1] \in X => g[n] = step[n][g[n - 1]]
  BY <1>4, <1>9
<1>11. \A n \in 0..max : g[n] \in X
  <2> HIDE DEF max, base
  <2> QED BY <1>1, <1>4, <1>9, <1>10, RunTyped
<1>12. g \in [0..max -> X]
  <2> HIDE DEF max
  <2> QED BY <1>8, <1>11
<1> QED BY <1>3, <1>9, <1>12 DEF X, After

\* a sums S up.
SumsUp(a, S) ==
    /\ IsFiniteSet(S) /\ S \in SUBSET Int
    /\ a.count = Cardinality(S) /\ a.total = SumOf(S)
    /\ S # {} => /\ a.min \in S /\ \A y \in S : a.min <= y
                 /\ a.max \in S /\ \A y \in S : y <= a.max

\* A new accumulator is the sum of nothing.
LEMMA EmptySums ==
    ASSUME NEW a, a.count = 0, a.total = 0
    PROVE  SumsUp(a, {})
<1>1. PICK S : S = {}
  OBVIOUS
<1>2. SumOf(S) = 0
  BY <1>1, SumFacts
<1>3. IsFiniteSet(S) /\ Cardinality(S) = 0 /\ S \in SUBSET Int
  BY <1>1, FS_EmptySet
<1>4. SumsUp(a, S)
  BY <1>1, <1>2, <1>3 DEF SumsUp
<1> QED BY <1>1, <1>4

\* add() gives the sums with one more value (analysis.py 90-100).
LEMMA AddValueSums ==
    ASSUME NEW a \in Accumulators, NEW S, SumsUp(a, S), NEW v \in Int, v \notin S
    PROVE  SumsUp(AddValue(a, v), S \cup {v})
<1> DEFINE b == AddValue(a, v)
           T == S \cup {v}
<1>1. IsFiniteSet(S) /\ S \in SUBSET Int
  BY DEF SumsUp
<1>2. IsFiniteSet(T) /\ Cardinality(T) = Cardinality(S) + 1
  BY <1>1, FS_AddElement
<1>3. SumOf(T) = v + SumOf(S)
  BY <1>1, SumFacts
<1>4. /\ b.count = a.count + 1 /\ b.total = a.total + v
      /\ b.min = IF a.count = 0 \/ v < a.min THEN v ELSE a.min
      /\ b.max = IF a.count = 0 \/ v > a.max THEN v ELSE a.max
      /\ a.count \in Nat /\ a.total \in Int /\ a.min \in Int /\ a.max \in Int
  BY DEF AddValue, Accumulators
<1>5. a.count = Cardinality(S) /\ a.total = SumOf(S)
  BY DEF SumsUp
<1>6. a.count = 0 <=> S = {}
  BY <1>1, <1>5, FS_EmptySet
<1> HIDE DEF b
<1>7. b.count = Cardinality(T) /\ b.total = SumOf(T)
  BY <1>2, <1>3, <1>4, <1>5
<1>8. /\ b.min \in T /\ \A y \in T : b.min <= y
      /\ b.max \in T /\ \A y \in T : y <= b.max
  <2>1. CASE S = {}
    BY <1>4, <1>6, <2>1
  <2>2. CASE S # {}
    <3>1. /\ a.min \in S /\ \A y \in S : a.min <= y
          /\ a.max \in S /\ \A y \in S : y <= a.max
      BY <2>2 DEF SumsUp
    <3>2. a.count # 0 /\ \A y \in S : y \in Int
      BY <1>1, <1>6, <2>2
    <3> QED BY <1>4, <3>1, <3>2
  <2> QED BY <2>1, <2>2
<1> QED BY <1>1, <1>2, <1>7, <1>8 DEF SumsUp, b

\* The values of p among the first n points.
ValuesOf(points, p, n) == {points[i].v : i \in {j \in 1..n : points[j].p = p}}

\* What is accumulated of points with different values is their number, least, greatest and sum.
LEMMA AccumulateSums ==
    ASSUME NEW points \in Seq(Points), NEW p,
           \A m, n \in 1..Len(points) : points[m].v = points[n].v => m = n
    PROVE  SumsUp(Accumulate(points, p), ValuesOf(points, p, Len(points)))
<1> DEFINE max == Len(points)
<1>1. PICK g \in [0..max -> Accumulators] :
              /\ g[0] = NothingFound /\ Accumulate(points, p) = g[max]
              /\ \A n \in 1..max :
                   g[n] = IF points[n].p = p THEN AddValue(g[n - 1], points[n].v) ELSE g[n - 1]
  BY AccumulateUnfolds
<1> DEFINE G == {n \in 0..max : SumsUp(g[n], ValuesOf(points, p, n))}
<1>2. max \in Nat /\ \A n \in 1..max : points[n].v \in Int
  <2>1. max \in Nat /\ \A n \in 1..max : points[n] \in Points
    OBVIOUS
  <2> QED BY <2>1 DEF Points
<1>3. 0 \in G
  <2>1. ValuesOf(points, p, 0) = {}
    BY DEF ValuesOf
  <2>2. g[0].count = 0 /\ g[0].total = 0
    BY <1>1 DEF NothingFound
  <2>3. SumsUp(g[0], {})
    BY <2>2, EmptySums
  <2>4. SumsUp(g[0], ValuesOf(points, p, 0))
    BY <2>1, <2>3
  <2>5. 0 \in 0..max
    BY <1>2
  <2> QED BY <2>4, <2>5
<1>4. ASSUME NEW n \in Nat, n < max, n \in G PROVE n + 1 \in G
  <2>1. n \in 0..max /\ n + 1 \in 1..max /\ n + 1 \in 0..max /\ (n + 1) - 1 = n
    BY <1>2, <1>4
  <2>2. 1..(n + 1) = (1..n) \cup {n + 1}
    BY <2>1
  <2>3. g[n + 1] = IF points[n + 1].p = p THEN AddValue(g[n], points[n + 1].v) ELSE g[n]
    BY <1>1, <2>1
  <2>4. CASE points[n + 1].p # p
    <3>1. ValuesOf(points, p, n + 1) = ValuesOf(points, p, n)
      BY <2>2, <2>4 DEF ValuesOf
    <3> QED BY <1>4, <2>1, <2>3, <2>4, <3>1
  <2>5. CASE points[n + 1].p = p
    <3>1. ValuesOf(points, p, n + 1) = ValuesOf(points, p, n) \cup {points[n + 1].v}
      BY <2>2, <2>5 DEF ValuesOf
    <3>2. points[n + 1].v \notin ValuesOf(points, p, n)
      <4> SUFFICES ASSUME NEW i \in 1..n, points[i].v = points[n + 1].v PROVE FALSE
        BY DEF ValuesOf
      <4>1. i \in 1..max /\ i # n + 1
        BY <1>2, <2>1
      <4> QED BY <2>1, <4>1
    <3>3. SumsUp(AddValue(g[n], points[n + 1].v), ValuesOf(points, p, n) \cup {points[n + 1].v})
      <4>1. g[n] \in Accumulators /\ points[n + 1].v \in Int /\ SumsUp(g[n], ValuesOf(points, p, n))
        BY <1>1, <1>2, <1>4, <2>1
      <4> QED BY <3>2, <4>1, AddValueSums
    <3> QED BY <2>1, <2>3, <2>5, <3>1, <3>3
  <2> QED BY <2>4, <2>5
<1>5. 0..max \subseteq G
  <2> HIDE DEF G, max
  <2> QED BY <1>2, <1>3, <1>4, Induction
<1>6. max \in G
  <2> HIDE DEF G
  <2> QED BY <1>2, <1>5
<1> QED BY <1>1, <1>6

-----------------------------------------------------------------------------
(* The initial states.                                                     *)

\* IInv holds before the first flush.
LEMMA InitInvariant == Init => IInv
<1> SUFFICES ASSUME Init PROVE IInv
  OBVIOUS
<1>1. PICK input \in Inputs :
         /\ snapshots = [n \in DOMAIN input.snapshots |-> Stamped(input.snapshots[n], n)]
         /\ memtable = Stamped(input.memtable, Len(input.snapshots) + 1)
  BY DEF Init
<1>2. /\ format \in Formats /\ blockMax \in BlockSizes /\ nextId = 1 /\ writing = NoFile
      /\ files = <<>> /\ damaged = {} /\ job = "idle" /\ query = NoQuery /\ Idle
      /\ content = <<>> /\ flushed = {}
  BY DEF Init
<1> DEFINE keys == input.snapshots
           max == Len(keys)
           all == Append(keys, input.memtable)
<1>3. /\ keys \in Seq(Seq([t : Timestamps, p : Int])) /\ input.memtable \in Seq([t : Timestamps, p : Int])
      /\ \A n \in DOMAIN all : InOrder(all[n]) /\ Len(all[n]) < Stride
      /\ \A n \in DOMAIN keys : keys[n] # <<>>
  BY InputsAssumption
<1>4. max \in Nat /\ DOMAIN keys = 1..max
  BY <1>3
<1>5. /\ \A n \in 1..max : /\ keys[n] \in Seq([t : Timestamps, p : Int]) /\ InOrder(keys[n])
                           /\ Len(keys[n]) < Stride /\ keys[n] # <<>>
      /\ InOrder(input.memtable) /\ Len(input.memtable) < Stride
  <2> DEFINE X == Seq([t : Timestamps, p : Int])
             last == input.memtable
  <2>0. keys \in Seq(X) /\ last \in X
    BY <1>3
  <2> HIDE DEF X, keys, last
  <2>1. DOMAIN all = 1..(max + 1) /\ all[max + 1] = last /\ \A n \in 1..max : all[n] = keys[n]
    BY <2>0 DEF last
  <2>2. \A n \in 1..max : n \in 1..(max + 1)
    BY <1>4
  <2>3. max + 1 \in 1..(max + 1)
    BY <1>4
  <2>4. \A n \in 1..max : keys[n] \in X /\ keys[n] # <<>>
    <3>1. \A n \in 1..max : keys[n] \in X
      BY <2>0
    <3>2. \A n \in 1..max : keys[n] # <<>>
      BY <1>3, <1>4
    <3> QED BY <3>1, <3>2
  <2> HIDE DEF all, max
  <2> QED BY <1>3, <2>1, <2>2, <2>3, <2>4 DEF X, last
<1>6. \A n \in 1..max : /\ Good(Stamped(keys[n], n)) /\ Stamped(keys[n], n) # <<>>
                        /\ \A x \in ToSet(Stamped(keys[n], n)) :
                             \E i \in Nat \ {0} : i < Stride /\ x.v = Stride * n + i
  <2> TAKE n \in 1..max
  <2>1. n \in Nat
    BY <1>4
  <2>2. /\ Good(Stamped(keys[n], n)) /\ Stamped(keys[n], n) # <<>>
        /\ \A x \in ToSet(Stamped(keys[n], n)) :
                \E i \in 1..Len(keys[n]) : x.v = Stride * n + i
    BY <1>5, <2>1, StampedFacts
  <2>3. \A i \in 1..Len(keys[n]) : i \in Nat \ {0} /\ i < Stride
    BY <1>5, ReadPathAssumption
  <2> QED BY <2>2, <2>3
<1>7. /\ Good(memtable)
      /\ \A x \in ToSet(memtable) :
           \E i \in Nat \ {0} : i < Stride /\ x.v = Stride * (max + 1) + i
  <2>1. max + 1 \in Nat
    BY <1>4
  <2> HIDE DEF max
  <2>2. /\ Good(Stamped(input.memtable, max + 1))
        /\ \A x \in ToSet(Stamped(input.memtable, max + 1)) :
                \E i \in 1..Len(input.memtable) : x.v = Stride * (max + 1) + i
    BY <1>3, <1>5, <2>1, StampedFacts
  <2>3. \A i \in 1..Len(input.memtable) : i \in Nat \ {0} /\ i < Stride
    BY <1>5, ReadPathAssumption
  <2> QED BY <1>1, <2>2, <2>3 DEF max
<1>8. /\ snapshots \in Seq(Seq(Stamps)) /\ Len(snapshots) = max
      /\ \A n \in 1..max : snapshots[n] = Stamped(keys[n], n)
  <2>1. \A n \in 1..max : Stamped(keys[n], n) \in Seq(Stamps)
    BY <1>6 DEF Good
  <2>2. snapshots = [n \in 1..max |-> Stamped(keys[n], n)]
    BY <1>1, <1>4
  <2>3. snapshots \in [1..max -> Seq(Stamps)]
    BY <2>1, <2>2
  <2> HIDE DEF keys, max
  <2> QED BY <1>4, <2>2, <2>3
<1> HIDE DEF max, keys, all
<1>9. \A m, n \in 1..max : m < n => Older(ToSet(snapshots[m]), ToSet(snapshots[n]))
  <2> TAKE m \in 1..max, n \in 1..max
  <2> HAVE m < n
  <2> SUFFICES ASSUME NEW x \in ToSet(snapshots[m]), NEW y \in ToSet(snapshots[n])
               PROVE  x.v < y.v
    BY DEF Older
  <2>1. PICK i \in Nat \ {0} : i < Stride /\ x.v = Stride * m + i
    BY <1>6, <1>8
  <2>2. PICK j \in Nat \ {0} : j < Stride /\ y.v = Stride * n + j
    BY <1>6, <1>8
  <2>3. m \in Nat /\ n \in Nat /\ i \in Nat
    BY <1>4
  <2> QED BY <2>1, <2>2, <2>3, StampsOlder
<1>10. \A m \in 1..max : Older(ToSet(snapshots[m]), ToSet(memtable))
  <2> TAKE m \in 1..max
  <2> SUFFICES ASSUME NEW x \in ToSet(snapshots[m]), NEW y \in ToSet(memtable)
               PROVE  x.v < y.v
    BY DEF Older
  <2>1. PICK i \in Nat \ {0} : i < Stride /\ x.v = Stride * m + i
    BY <1>6, <1>8
  <2>2. PICK j \in Nat \ {0} : j < Stride /\ y.v = Stride * (max + 1) + j
    BY <1>7
  <2>3. m \in Nat /\ max + 1 \in Nat /\ m < max + 1 /\ i \in Nat
    BY <1>4
  <2> QED BY <2>1, <2>2, <2>3, StampsOlder
<1>11. ConfigInv
  <2>1. IsRange(query)
    BY <1>2 DEF NoQuery, IsRange
  <2>2. \A n \in 1..Len(snapshots) : Ascending(snapshots[n]) /\ snapshots[n] # <<>>
    BY <1>6, <1>8 DEF Good
  <2> QED BY <1>2, <1>7, <1>8, <2>1, <2>2 DEF ConfigInv
<1>12. DOMAIN files = {} /\ DOMAIN content = {} /\ Held = {}
  BY <1>2 DEF Held
<1>13. FileInv
  BY <1>2, <1>12 DEF FileInv
<1>14. WritingInv
  BY <1>2 DEF WritingInv
<1>15. AgeInv
  BY <1>2, <1>8, <1>9, <1>10, <1>12 DEF AgeInv, Older, Flushing
<1>16. HeldInv
  BY <1>2, <1>12 DEF HeldInv, Covers, Compacting
<1>17. SourceInv
  <2>1. sources = <<>> /\ ordinal = <<>> /\ heap = {} /\ winner = NoPoint /\ output = <<>>
    BY <1>2 DEF Idle
  <2> QED BY <1>2, <2>1 DEF SourceInv, Merging
<1>18. MergeInv
  BY <1>2 DEF MergeInv, Merging
<1>19. QueryReturnsNewest
  BY <1>2 DEF QueryReturnsNewest
<1> QED BY <1>11, <1>13, <1>14, <1>15, <1>16, <1>17, <1>18, <1>19 DEF IInv

-----------------------------------------------------------------------------
(* What a step leaves as it is.                                            *)

\* The parts of IInv for a step that leaves what they are about alone.
LEMMA ConfigSame ==
    ASSUME ConfigInv, UNCHANGED <<format, blockMax, nextId, snapshots, memtable, query>>,
           job' \in {"idle", "write", "query", "compact", "answered", "raised", "failed"}
    PROVE  ConfigInv'
  BY DEF ConfigInv

LEMMA FileSame ==
    ASSUME FileInv, ConfigInv, UNCHANGED <<files, content, damaged>>,
           nextId' = nextId \/ nextId' = nextId + 1
    PROVE  FileInv'
<1>1. DOMAIN files' \subseteq 1..(nextId' - 1)
  BY DEF FileInv, ConfigInv
<1>2. \A id : BrokenOf(id)' = BrokenOf(id)
  BY DEF BrokenOf
<1> QED BY <1>1, <1>2 DEF FileInv

LEMMA WritingSame ==
    ASSUME WritingInv, UNCHANGED <<writing, nextId, files, format, job>>
    PROVE  WritingInv'
  BY DEF WritingInv, NoFile

LEMMA WritingNone ==
    ASSUME job' # "write", writing' = NoFile
    PROVE  WritingInv'
  BY DEF WritingInv, NoFile

LEMMA HeldUnchanged ==
    ASSUME UNCHANGED content
    PROVE  Held' = Held
  BY DEF Held

LEMMA AgeSame ==
    ASSUME AgeInv, UNCHANGED <<content, snapshots, memtable, flushed>>, ~Flushing'
    PROVE  AgeInv'
  BY DEF AgeInv, Older

LEMMA HeldSame ==
    ASSUME HeldInv, UNCHANGED <<content, flushed, damaged>>, job' # "write",
           job' = "compact" => damaged = {}, job' = "failed" => damaged # {}
    PROVE  HeldInv'
<1>1. Held' = Held
  BY HeldUnchanged
<1> QED BY <1>1 DEF HeldInv, Compacting, Covers

LEMMA NotMerging ==
    ASSUME ~Merging'
    PROVE  MergeInv'
  BY DEF MergeInv

LEMMA NotAnswered ==
    ASSUME job' \notin {"answered", "raised"}
    PROVE  QueryReturnsNewest'
  BY DEF QueryReturnsNewest

LEMMA SourcesIdle ==
    ASSUME SourceInv, sources' = <<>>, ordinal' = <<>>, output' = <<>>, heap' = {},
           winner' = NoPoint, job' \notin {"query", "compact"}
    PROVE  SourceInv'
  BY DEF SourceInv, Idle, Merging

-----------------------------------------------------------------------------
(* The heap.                                                               *)

\* A heap with one entry of each source has a least entry.
LEMMA HeapHasLeast ==
    ASSUME NEW max \in Nat, NEW H, H # {},
           \A e \in H : e.priority \in 0..max /\ e.point \in Stamps,
           \A e, f \in H : e.priority = f.priority => e = f
    PROVE  \E e \in H : \A f \in H \ {e} : Before(e, f)
<1> DEFINE Least(k, e) == /\ e \in H /\ e.priority <= k
                          /\ \A f \in H \ {e} : f.priority <= k => Before(e, f)
           S == {k \in 0..max : (\E e \in H : e.priority <= k) => \E e : Least(k, e)}
<1>1. ASSUME NEW k \in Nat, k <= max, NEW d \in H, d.priority = k,
             \A e \in H : e # d => ~(e.priority <= k)
      PROVE  Least(k, d)
  <2>1. k <= k
    OBVIOUS
  <2> QED BY <1>1, <2>1
<1>2. 0 \in S
  <2> SUFFICES ASSUME NEW d \in H, d.priority <= 0 PROVE \E e : Least(0, e)
    OBVIOUS
  <2>1. d.priority = 0 /\ 0 \in Nat /\ 0 <= max
    OBVIOUS
  <2>2. \A e \in H : e # d => ~(e.priority <= 0)
    <3> TAKE e \in H
    <3>1. e.priority \in 0..max
      OBVIOUS
    <3> QED BY <2>1, <3>1
  <2> HIDE DEF Least
  <2> QED BY <1>1, <2>1, <2>2
<1>3. ASSUME NEW k \in Nat, k < max, k \in S PROVE k + 1 \in S
  <2> SUFFICES ASSUME NEW c \in H, c.priority <= k + 1 PROVE \E e : Least(k + 1, e)
    BY <1>3
  <2>0. \A e \in H : e.priority \in Nat
    OBVIOUS
  <2>1. \A e \in H : e.priority <= k + 1 <=> (e.priority <= k \/ e.priority = k + 1)
    BY <1>3, <2>0
  <2>2. CASE \E d \in H : d.priority = k + 1
    <3>1. PICK d \in H : d.priority = k + 1
      BY <2>2
    <3>2. CASE \E e \in H : e.priority <= k
      <4>1. PICK e : Least(k, e)
        BY <1>3, <3>2
      <4>2. /\ e \in H /\ e.priority <= k /\ e # d
            /\ \A f \in H \ {e} : f.priority <= k => Before(e, f)
        BY <2>0, <3>1, <4>1
      <4>3. \A f \in H : f.priority <= k + 1 => f.priority <= k \/ f = d
        BY <2>1, <3>1
      <4>4. e.priority <= k + 1 /\ d.priority <= k + 1
        BY <2>1, <3>1, <4>2
      <4>5. d.priority > e.priority
        BY <1>3, <2>0, <3>1, <4>2
      <4>6. e.point \in Stamps /\ d.point \in Stamps
        BY <3>1, <4>2
      <4>7. CASE KeyBefore(e.point, d.point)
        <5>1. Before(e, d)
          BY <4>7 DEF Before
        <5>2. Least(k + 1, e)
          BY <4>2, <4>3, <4>4, <5>1
        <5> HIDE DEF Least
        <5> QED BY <5>2
      <4>8. CASE ~KeyBefore(e.point, d.point)
        <5>1. KeyBefore(d.point, e.point) \/ SameKey(d.point, e.point)
          BY <4>6, <4>8, KeyOrder
        <5>2. Before(d, e)
          BY <4>5, <5>1 DEF Before
        <5>3. ASSUME NEW f \in H, f # d, f # e, f.priority <= k PROVE Before(d, f)
          <6>1. Before(e, f) /\ f.point \in Stamps
            BY <4>2, <5>3
          <6>2. d.priority > f.priority
            BY <1>3, <2>0, <3>1, <5>3
          <6>3. KeyBefore(d.point, f.point) \/ SameKey(d.point, f.point)
            <7>1. KeyBefore(e.point, f.point) \/ SameKey(e.point, f.point)
              BY <6>1 DEF Before
            <7> QED BY <4>6, <5>1, <6>1, <7>1, StampFacts DEF KeyBefore, SameKey
          <6> QED BY <6>2, <6>3 DEF Before
        <5>4. Least(k + 1, d)
          BY <3>1, <4>3, <4>4, <5>2, <5>3
        <5> HIDE DEF Least
        <5> QED BY <5>4
      <4> QED BY <4>7, <4>8
    <3>3. CASE ~\E e \in H : e.priority <= k
      <4>1. \A e \in H : e # d => ~(e.priority <= k + 1)
        BY <2>1, <3>1, <3>3
      <4>2. k + 1 \in Nat /\ k + 1 <= max
        BY <1>3
      <4>3. Least(k + 1, d)
        <5> HIDE DEF Least
        <5> QED BY <1>1, <3>1, <4>1, <4>2
      <4> HIDE DEF Least
      <4> QED BY <4>3
    <3> QED BY <3>2, <3>3
  <2>3. CASE ~\E d \in H : d.priority = k + 1
    <3>1. \A e \in H : e.priority <= k + 1 <=> e.priority <= k
      BY <2>1, <2>3
    <3>2. PICK e : Least(k, e)
      BY <1>3, <3>1
    <3>3. Least(k + 1, e)
      BY <3>1, <3>2
    <3> HIDE DEF Least
    <3> QED BY <3>3
  <2> QED BY <2>2, <2>3
<1>4. 0..max \subseteq S
  <2> HIDE DEF S
  <2> QED BY <1>2, <1>3, Induction
<1>5. max \in S /\ \A e \in H : e.priority <= max
  BY <1>4
<1>6. PICK e : Least(max, e)
  BY <1>5
<1> QED BY <1>5, <1>6

\* The top of the heap is the least of its entries.
LEMMA TopFacts ==
    ASSUME ConfigInv, SourceInv, HeapInv, heap # {}
    PROVE  /\ Top \in heap /\ \A f \in heap \ {Top} : Before(Top, f)
           /\ \A e \in heap : /\ e.priority \in DOMAIN sources
                              /\ ordinal[e.priority] \in 1..Len(sources[e.priority])
                              /\ e = Entry(e.priority, ordinal[e.priority])
                              /\ e.point = sources[e.priority][ordinal[e.priority]]
                              /\ e.ordinal = ordinal[e.priority]
                              /\ e.point \in Stamps
<1>1. ASSUME NEW e \in heap
      PROVE  /\ e.priority \in DOMAIN sources
             /\ ordinal[e.priority] \in 1..Len(sources[e.priority])
             /\ e = Entry(e.priority, ordinal[e.priority])
             /\ e.point = sources[e.priority][ordinal[e.priority]]
             /\ e.ordinal = ordinal[e.priority]
             /\ e.point \in Stamps
  <2>1. /\ e.priority \in DOMAIN sources
        /\ ordinal[e.priority] \in 1..Len(sources[e.priority])
        /\ e = Entry(e.priority, ordinal[e.priority])
    BY DEF HeapInv
  <2>2. Good(sources[e.priority])
    BY <2>1 DEF SourceInv
  <2>3. \A s, n : Entry(s, n).point = sources[s][n] /\ Entry(s, n).ordinal = n
    BY DEF Entry
  <2>4. e.point = sources[e.priority][ordinal[e.priority]] /\ e.ordinal = ordinal[e.priority]
    BY <2>1, <2>3
  <2> QED BY <2>1, <2>2, <2>4, GoodFacts
<1>2. nextId \in Nat /\ \A e \in heap : e.priority \in 0..nextId
  BY <1>1 DEF ConfigInv, SourceInv
<1>3. \A e, f \in heap : e.priority = f.priority => e = f
  BY <1>1
<1>4. \E e \in heap : \A f \in heap \ {e} : Before(e, f)
  BY <1>1, <1>2, <1>3, HeapHasLeast
<1> QED BY <1>1, <1>4 DEF Top

\* What a pop and the push of the next point of that source do.
LEMMA PopsAndPushes ==
    ASSUME ConfigInv, SourceInv, HeapInv, heap # {}, sources' = sources,
           PushNext(heap \ {Top}, Top.priority),
           NEW t, t = Top, NEW s, s = Top.priority, NEW i, i = ordinal[s]
    PROVE  /\ HeapInv' /\ DOMAIN ordinal' = DOMAIN ordinal
           /\ \A r \in DOMAIN sources : ordinal'[r] \in 0..Len(sources[r])
           /\ t = Entry(s, i) /\ s \in DOMAIN sources /\ i \in 1..Len(sources[s])
           /\ t.point = sources[s][i] /\ t.point \in Stamps /\ t.priority = s /\ t.ordinal = i
           /\ \A r \in DOMAIN sources : \A j \in 1..Len(sources[r]) :
                Given(r, j)' <=> Given(r, j) \/ (r = s /\ j = i)
           /\ \A e \in heap' : e.point \in Stamps /\ ~KeyBefore(e.point, t.point)
           /\ \A x \in Stamps : (\A e \in heap : ~KeyBefore(e.point, x))
                                  => \A e \in heap' : ~KeyBefore(e.point, x)
<1> DEFINE next == Entry(s, i + 1)
           L(r) == Len(sources[r])
<1>1. /\ t \in heap /\ \A f \in heap \ {t} : Before(t, f)
      /\ \A e \in heap : /\ e.priority \in DOMAIN sources
                         /\ ordinal[e.priority] \in 1..L(e.priority)
                         /\ e = Entry(e.priority, ordinal[e.priority])
                         /\ e.point = sources[e.priority][ordinal[e.priority]]
                         /\ e.ordinal = ordinal[e.priority]
                         /\ e.point \in Stamps
  BY TopFacts
<1>2. /\ s \in DOMAIN sources /\ i \in 1..L(s) /\ t = Entry(s, i)
      /\ t.point = sources[s][i] /\ t.point \in Stamps /\ t.priority = s /\ t.ordinal = i
  BY <1>1
<1>3. /\ DOMAIN ordinal = DOMAIN sources
      /\ \A r \in DOMAIN sources : Good(sources[r]) /\ ordinal[r] \in 0..L(r) /\ L(r) \in Nat
  BY GoodFacts DEF SourceInv
<1>4. \A r, j : /\ Entry(r, j).point = sources[r][j] /\ Entry(r, j).priority = r
                /\ Entry(r, j).ordinal = j
  BY DEF Entry
<1>5. \A r, j, r2, j2 : Entry(r, j) = Entry(r2, j2) => r = r2 /\ j = j2
  BY <1>4
<1>6. \A r, j : Entry(r, j) \in heap => r \in DOMAIN sources /\ j = ordinal[r]
  BY <1>1, <1>4
<1>7. \A r, j : Entry(r, j)' = Entry(r, j)
  BY DEF Entry
<1> HIDE DEF L, next
<1>8. \/ /\ i < L(s) /\ heap' = (heap \ {t}) \cup {next}
         /\ ordinal' = [ordinal EXCEPT ![s] = i + 1]
      \/ i = L(s) /\ heap' = heap \ {t} /\ ordinal' = ordinal
  <2>1. i < L(s) \/ i = L(s)
    BY <1>2, <1>3
  <2>2. CASE i < L(s)
    <3>1. heap' = (heap \ {Top}) \cup {Entry(s, ordinal[s] + 1)}
          /\ ordinal' = [ordinal EXCEPT ![s] = @ + 1]
      BY <2>2 DEF PushNext, L
    <3> QED BY <2>2, <3>1 DEF next
  <2>3. CASE i = L(s)
    <3>1. ~(ordinal[s] < Len(sources[s]))
      BY <1>2, <1>3, <2>3 DEF L
    <3>2. heap' = heap \ {Top} /\ ordinal' = ordinal
      BY <3>1 DEF PushNext
    <3> QED BY <2>3, <3>2
  <2> QED BY <2>1, <2>2, <2>3
<1>9. /\ DOMAIN ordinal' = DOMAIN ordinal
      /\ \A r \in DOMAIN sources : r # s => ordinal'[r] = ordinal[r]
      /\ ordinal'[s] = IF i < L(s) THEN i + 1 ELSE i
  BY <1>2, <1>3, <1>8
<1>10. \A r, j : Entry(r, j) \in heap' <=>
          (Entry(r, j) \in heap /\ r # s) \/ (r = s /\ j = i + 1 /\ i < L(s))
  <2> TAKE r, j
  <2>1. Entry(r, j) \in heap /\ r = s => Entry(r, j) = t
    BY <1>2, <1>6
  <2>2. Entry(r, j) = t => r = s
    BY <1>2, <1>5
  <2>3. Entry(r, j) = next <=> r = s /\ j = i + 1
    BY <1>5 DEF next
  <2>4. i < L(s) => ~(i = L(s))
    BY <1>2, <1>3
  <2> QED BY <1>8, <2>1, <2>2, <2>3, <2>4
<1>11. \A e \in heap' : e \in heap \/ (e = next /\ i < L(s))
  BY <1>8
<1>12. \A r \in DOMAIN sources : ordinal'[r] \in 0..L(r)
  <2> TAKE r \in DOMAIN sources
  <2>1. CASE r = s
    <3>1. i \in Int /\ L(s) \in Int /\ 1 <= i /\ i <= L(s)
      BY <1>2, <1>3
    <3>2. ordinal'[s] \in 0..L(s)
      BY <1>9, <3>1
    <3> QED BY <2>1, <3>2
  <2>2. CASE r # s
    BY <1>3, <1>9, <2>2
  <2> QED BY <2>1, <2>2
<1>13. ASSUME NEW e \in heap'
       PROVE  /\ e.priority \in DOMAIN sources /\ ordinal'[e.priority] \in 1..L(e.priority)
              /\ e = Entry(e.priority, ordinal'[e.priority])
  <2>1. CASE e \in heap
    <3>1. e = Entry(e.priority, ordinal[e.priority]) /\ e.priority \in DOMAIN sources
          /\ ordinal[e.priority] \in 1..L(e.priority)
      BY <1>1, <2>1
    <3>2. e.priority # s
      <4>1. e.priority = s => e = t
        BY <1>2, <3>1
      <4>2. t \notin heap'
        <5>1. ~(i = i + 1)
          BY <1>2
        <5> QED BY <1>2, <1>10, <5>1
      <4> QED BY <4>1, <4>2
    <3> QED BY <1>9, <3>1, <3>2
  <2>2. CASE e = next /\ i < L(s)
    <3>1. e.priority = s /\ ordinal'[s] = i + 1
      BY <1>4, <1>9, <2>2 DEF next
    <3>2. i + 1 \in 1..L(s)
      BY <1>2, <1>3, <2>2
    <3> QED BY <1>2, <2>2, <3>1, <3>2 DEF next
  <2> QED BY <1>11, <2>1, <2>2
<1>14. ASSUME NEW r \in DOMAIN sources
       PROVE  ordinal'[r] = L(r) \/ Entry(r, ordinal'[r]) \in heap'
  <2>1. CASE r = s
    <3>1. i < L(s) \/ i = L(s)
      BY <1>8
    <3>2. CASE i < L(s)
      <4>1. ordinal'[s] = i + 1
        BY <1>9, <3>2
      <4> QED BY <1>10, <2>1, <3>2, <4>1
    <3>3. CASE i = L(s)
      <4>1. ordinal'[s] = i
        BY <1>2, <1>3, <1>9, <3>3
      <4> QED BY <2>1, <3>3, <4>1
    <3> QED BY <3>1, <3>2, <3>3
  <2>2. CASE r # s
    <3>1. ordinal[r] = L(r) \/ Entry(r, ordinal[r]) \in heap
      BY DEF HeapInv, L
    <3> QED BY <1>9, <1>10, <2>2, <3>1
  <2> QED BY <2>1, <2>2
<1>15. HeapInv'
  <2>1. \A e \in heap' : e = [point |-> sources[e.priority][ordinal'[e.priority]],
                              priority |-> e.priority, ordinal |-> ordinal'[e.priority]]
    BY <1>13 DEF Entry
  <2>2. \A r \in DOMAIN sources : \/ ordinal'[r] = Len(sources[r])
                                  \/ [point |-> sources[r][ordinal'[r]], priority |-> r,
                                      ordinal |-> ordinal'[r]] \in heap'
    BY <1>14 DEF L, Entry
  <2>3. \A e \in heap' : /\ e.priority \in DOMAIN sources
                         /\ ordinal'[e.priority] \in 1..Len(sources[e.priority])
    BY <1>13 DEF L
  <2> QED BY <2>1, <2>2, <2>3 DEF HeapInv, Entry
<1>16. ASSUME NEW r \in DOMAIN sources, NEW j \in 1..L(r)
       PROVE  Given(r, j)' <=> Given(r, j) \/ (r = s /\ j = i)
  <2>1. Given(r, j)' <=> j \in 1..ordinal'[r] /\ Entry(r, j) \notin heap'
    BY <1>7 DEF Given
  <2>2. Given(r, j) <=> j \in 1..ordinal[r] /\ Entry(r, j) \notin heap
    BY DEF Given
  <2>3. CASE r # s
    BY <1>9, <1>10, <2>1, <2>2, <2>3
  <2>4. CASE r = s
    <3>1. i \in Nat /\ L(s) \in Nat /\ j \in 1..L(s) /\ i \in 1..L(s)
      BY <1>2, <1>3, <2>4
    <3>2. Entry(r, j) \in heap <=> j = i
      BY <1>1, <1>2, <1>6, <2>4
    <3>3. Entry(r, j) \in heap' <=> j = i + 1 /\ i < L(s)
      BY <1>10, <2>4
    <3>4. Given(r, j) <=> j < i
      BY <2>2, <2>4, <3>1, <3>2
    <3>5. Given(r, j)' <=> j <= i
      <4>1. CASE i < L(s)
        <5>1. ordinal'[r] = i + 1
          BY <1>9, <2>4, <4>1
        <5> QED BY <2>1, <3>1, <3>3, <4>1, <5>1
      <4>2. CASE ~(i < L(s))
        <5>1. ordinal'[r] = i
          BY <1>9, <2>4, <4>2
        <5> QED BY <2>1, <3>1, <3>3, <4>2, <5>1
      <4> QED BY <4>1, <4>2
    <3> QED BY <2>4, <3>1, <3>4, <3>5
  <2> QED BY <2>3, <2>4
<1>17. ASSUME NEW e \in heap' PROVE e.point \in Stamps /\ ~KeyBefore(e.point, t.point)
  <2>1. CASE e \in heap /\ e # t
    <3>1. e.point \in Stamps /\ Before(t, e)
      BY <1>1, <2>1
    <3>2. KeyBefore(t.point, e.point) \/ SameKey(t.point, e.point)
      BY <3>1 DEF Before
    <3> QED BY <1>2, <3>1, <3>2, KeyOrder
  <2>2. CASE e = t
    <3>1. ~KeyBefore(t.point, t.point)
      BY <1>2, KeyOrder
    <3> QED BY <1>2, <2>2, <3>1
  <2>3. CASE e = next /\ i < L(s)
    <3>1. i \in 1..L(s) /\ i + 1 \in 1..L(s) /\ i < i + 1
      BY <1>2, <1>3, <2>3
    <3>2. e.point = sources[s][i + 1]
      BY <1>4, <2>3 DEF next
    <3>3. Good(sources[s])
      BY <1>2, <1>3
    <3>4. sources[s][i + 1] \in Stamps /\ Precedes(sources[s][i], sources[s][i + 1])
      <4>1. sources[s][i + 1] \in Stamps
        BY <3>1, <3>3, GoodFacts DEF L
      <4> QED BY <3>1, <3>3, <4>1 DEF Good, Ascending, L
    <3> QED BY <1>2, <3>2, <3>4, KeyOrder
  <2> QED BY <1>11, <2>1, <2>2, <2>3
<1>18. ASSUME NEW x \in Stamps, \A e \in heap : ~KeyBefore(e.point, x), NEW e \in heap'
       PROVE  ~KeyBefore(e.point, x)
  <2>1. ~KeyBefore(t.point, x) /\ ~KeyBefore(e.point, t.point) /\ e.point \in Stamps
    BY <1>1, <1>17, <1>18
  <2> QED BY <1>2, <2>1, KeyOrder
<1>19. \A r \in DOMAIN sources : ordinal'[r] \in 0..Len(sources[r])
  BY <1>12 DEF L
<1>20. \A r \in DOMAIN sources : \A j \in 1..Len(sources[r]) :
                Given(r, j)' <=> Given(r, j) \/ (r = s /\ j = i)
  BY <1>16 DEF L
<1>21. i \in 1..Len(sources[s])
  BY <1>2 DEF L
<1> QED BY <1>2, <1>9, <1>15, <1>17, <1>18, <1>19, <1>20, <1>21

-----------------------------------------------------------------------------
(* merge_runs.                                                             *)

\* What a step of the merge leaves as it is.
LEMMA MergeStep ==
    ASSUME IInv, Merging, DOMAIN ordinal' = DOMAIN ordinal, output' \in Seq(Stamps),
           UNCHANGED <<format, blockMax, snapshots, memtable, nextId, writing, disk, job, query,
                       sources, aggregates, content, flushed>>,
           \A r \in DOMAIN sources : ordinal'[r] \in 0..Len(sources[r]), HeapInv', PoppedInv'
    PROVE  IInv'
<1>1. ConfigInv'
  BY ConfigSame DEF IInv, ConfigInv
<1>2. FileInv'
  BY FileSame DEF IInv, disk
<1>3. WritingInv'
  BY WritingSame DEF IInv, disk
<1>4. AgeInv'
  BY AgeSame DEF IInv, Merging, Flushing
<1>5. HeldInv'
  BY HeldSame DEF IInv, HeldInv, Merging, Compacting, disk
<1>6. SourceInv'
  <2>1. Held' = Held /\ Merged' = Merged
    BY HeldUnchanged DEF Merged
  <2>2. Merging' /\ job' # "idle"
    BY DEF Merging
  <2>3. /\ DOMAIN sources \subseteq 0..nextId /\ DOMAIN ordinal = DOMAIN sources
        /\ \A s \in DOMAIN sources : Good(sources[s])
        /\ \A r, s \in DOMAIN sources : r < s => Older(ToSet(sources[r]), ToSet(sources[s]))
    BY DEF IInv, SourceInv
  <2>4. /\ job = "compact" => DOMAIN sources # {} /\ Merged # {} /\ Merged = Held
        /\ job = "query" => \A x : x \in Merged <=> /\ x \in Held \/ x \in ToSet(memtable)
                                                    /\ InRange(x, query)
    BY DEF IInv, SourceInv
  <2>5. /\ job' = "compact" => DOMAIN sources' # {} /\ Merged' # {} /\ Merged' = Held'
        /\ job' = "query" => \A x : x \in Merged' <=> /\ x \in Held' \/ x \in ToSet(memtable')
                                                      /\ InRange(x, query')
    BY <2>1, <2>4
  <2>6. /\ DOMAIN sources' \subseteq 0..nextId' /\ DOMAIN ordinal' = DOMAIN sources'
        /\ \A s \in DOMAIN sources' : Good(sources'[s]) /\ ordinal'[s] \in 0..Len(sources'[s])
        /\ \A r, s \in DOMAIN sources' : r < s => Older(ToSet(sources'[r]), ToSet(sources'[s]))
    BY <2>3
  <2> QED BY <2>2, <2>5, <2>6 DEF SourceInv, Good, Older
<1>7. MergeInv'
  BY DEF MergeInv
<1>8. QueryReturnsNewest'
  BY NotAnswered DEF Merging
<1> QED BY <1>1, <1>2, <1>3, <1>4, <1>5, <1>6, <1>7, <1>8 DEF IInv

\* Where the points of the merge come from.
LEMMA PoppedFacts ==
    ASSUME ConfigInv, SourceInv, PoppedInv
    PROVE  /\ Len(output) \in Nat /\ \A n \in 1..Len(output) : output[n] \in Stamps
           /\ \A s \in DOMAIN sources : \A i \in 1..Len(sources[s]) :
                sources[s][i] \in Stamps /\ sources[s][i] \in Merged
           /\ \A w \in winner : w.point \in Stamps /\ w.point \in Merged
           /\ \A s, i : /\ Entry(s, i).point = sources[s][i] /\ Entry(s, i).priority = s
                        /\ Entry(s, i).ordinal = i
<1>1. Len(output) \in Nat /\ \A n \in 1..Len(output) : output[n] \in Stamps
  BY DEF SourceInv
<1>2. \A s \in DOMAIN sources : \A i \in 1..Len(sources[s]) :
         sources[s][i] \in Stamps /\ sources[s][i] \in Merged
  <2> TAKE s \in DOMAIN sources
  <2>1. Good(sources[s])
    BY DEF SourceInv
  <2>2. \A i \in 1..Len(sources[s]) : sources[s][i] \in Stamps /\ sources[s][i] \in ToSet(sources[s])
    BY <2>1, GoodFacts
  <2> QED BY <2>2 DEF Merged
<1>3. \A s, i : /\ Entry(s, i).point = sources[s][i] /\ Entry(s, i).priority = s
                /\ Entry(s, i).ordinal = i
  BY DEF Entry
<1>4. \A w \in winner : w.point \in Stamps /\ w.point \in Merged
  <2> TAKE w \in winner
  <2>1. PICK s \in DOMAIN sources : \E i \in 1..Len(sources[s]) : w = Entry(s, i)
    BY DEF PoppedInv
  <2>2. PICK i \in 1..Len(sources[s]) : w = Entry(s, i)
    BY <2>1
  <2> QED BY <1>2, <1>3, <2>2
<1> QED BY <1>1, <1>2, <1>3, <1>4

\* MergePop keeps IInv: no source has a smaller key left.
LEMMA MergePopInv ==
    ASSUME IInv, MergePop
    PROVE  IInv'
<1>0. /\ ConfigInv /\ SourceInv /\ HeapInv /\ PoppedInv /\ Merging /\ winner = {} /\ heap # {}
      /\ PushNext(heap \ {Top}, Top.priority) /\ winner' = {Top}
      /\ sources' = sources /\ output' = output
  BY DEF IInv, MergePop, MergeInv, NoPoint
<1> DEFINE t == Top
           s == t.priority
           i == ordinal[s]
<1>1. /\ HeapInv' /\ DOMAIN ordinal' = DOMAIN ordinal
      /\ \A r \in DOMAIN sources : ordinal'[r] \in 0..Len(sources[r])
  BY <1>0, PopsAndPushes
<1>2. PICK c, r, j :
        /\ c = t /\ r = s /\ j = i
        /\ c = Entry(r, j) /\ r \in DOMAIN sources /\ j \in 1..Len(sources[r])
        /\ c.point = sources[r][j] /\ c.point \in Stamps /\ c \in heap
  BY <1>0, PopsAndPushes, TopFacts
<1>3. /\ \A q \in DOMAIN sources : \A k \in 1..Len(sources[q]) :
           Given(q, k)' <=> Given(q, k) \/ (q = r /\ k = j)
      /\ \A e \in heap' : e.point \in Stamps /\ ~KeyBefore(e.point, c.point)
      /\ \A x \in Stamps : (\A e \in heap : ~KeyBefore(e.point, x))
                                  => \A e \in heap' : ~KeyBefore(e.point, x)
  <2>1. c = Top /\ r = Top.priority /\ j = ordinal[r]
    BY <1>2
  <2> HIDE DEF t, s, i
  <2>2. \A q \in DOMAIN sources : \A k \in 1..Len(sources[q]) :
           Given(q, k)' <=> Given(q, k) \/ (q = r /\ k = j)
    BY ONLY <1>0, <2>1, PopsAndPushes
  <2>3. \A e \in heap' : e.point \in Stamps /\ ~KeyBefore(e.point, c.point)
    BY ONLY <1>0, <2>1, PopsAndPushes
  <2>4. \A x \in Stamps : (\A e \in heap : ~KeyBefore(e.point, x))
                                  => \A e \in heap' : ~KeyBefore(e.point, x)
    BY ONLY <1>0, <2>1, PopsAndPushes
  <2> QED BY <2>2, <2>3, <2>4
<1> HIDE DEF t, s, i
<1>4. winner' = {c}
  BY <1>0, <1>2 DEF t
<1>5. /\ Len(output) \in Nat /\ \A n \in 1..Len(output) : output[n] \in Stamps
      /\ \A q \in DOMAIN sources : \A k \in 1..Len(sources[q]) : sources[q][k] \in Stamps
  BY <1>0, PoppedFacts
<1>6. \A x \in Stamps : Kept(x) => Kept(x)'
  BY <1>0 DEF Kept
<1>7. Kept(c.point)'
  <2>1. SameKey(c.point, c.point) /\ c.point.v <= c.point.v
    BY <1>2, StampFacts DEF SameKey
  <2> QED BY <1>4, <2>1 DEF Kept
<1>8. ASSUME NEW q \in DOMAIN sources, NEW k \in 1..Len(sources[q]), Given(q, k)', NEW x, x = sources[q][k]
      PROVE  Kept(x)' /\ \A e \in heap' : ~KeyBefore(e.point, x)
  <2>1. x \in Stamps
    BY <1>5, <1>8
  <2>2. CASE Given(q, k)
    <3>1. Kept(x) /\ \A e \in heap : ~KeyBefore(e.point, x)
      BY <1>0, <1>8, <2>2 DEF PoppedInv
    <3> QED BY <1>3, <1>6, <2>1, <3>1
  <2>3. CASE q = r /\ k = j
    <3>1. x = c.point
      BY <1>2, <1>8, <2>3
    <3> QED BY <1>3, <1>7, <3>1
  <2> QED BY <1>3, <1>8, <2>2, <2>3
<1>9. PoppedInv'
  <2>1. \A q \in DOMAIN sources : \A k \in 1..Len(sources[q]) : Given(q, k)' =>
          /\ Kept(sources[q][k])'
          /\ \A e \in heap' : ~KeyBefore(e.point, sources[q][k])
    BY <1>0, <1>8
  <2>2. \A w \in winner' : \E q \in DOMAIN sources : \E k \in 1..Len(sources[q]) :
           Given(q, k)' /\ w = Entry(q, k)
    <3>1. Given(r, j)'
      BY <1>2, <1>3
    <3> QED BY <1>2, <1>4, <3>1
  <2>3. \A x, y \in winner' : x = y
    BY <1>4
  <2>4. \A n \in 1..Len(output), w \in winner' : KeyBefore(output[n], w.point)
    BY <1>0, <1>2, <1>4 DEF PoppedInv, NoPoint
  <2>5. winner' # NoPoint
    BY <1>4 DEF NoPoint
  <2>6. \A n \in 1..Len(output) : output[n] \in Merged
    BY <1>0 DEF PoppedInv
  <2>7. \A m, n \in 1..Len(output) : m < n => KeyBefore(output[m], output[n])
    BY <1>0 DEF PoppedInv
  <2>8. Merged' = Merged /\ \A q, k : Entry(q, k)' = Entry(q, k)
    BY <1>0 DEF Merged, Entry
  <2> QED BY <1>0, <2>1, <2>2, <2>3, <2>4, <2>5, <2>6, <2>7, <2>8 DEF PoppedInv
<1>10. output' \in Seq(Stamps)
  BY <1>0 DEF SourceInv
<1> QED BY <1>0, <1>1, <1>9, <1>10, MergeStep DEF MergePop

\* The marker of an entry tells whose version of a key is the newer.
LEMMA MarkersOrder ==
    ASSUME SourceInv, NEW r \in DOMAIN sources, NEW j \in 1..Len(sources[r]),
           NEW q \in DOMAIN sources, NEW k \in 1..Len(sources[q]),
           SameKey(sources[r][j], sources[q][k])
    PROVE  IF Beats(Entry(r, j), Entry(q, k)) THEN sources[q][k].v <= sources[r][j].v
                                              ELSE sources[r][j].v <= sources[q][k].v
<1>1. /\ Good(sources[r]) /\ Good(sources[q]) /\ r \in Int /\ q \in Int
      /\ Len(sources[r]) \in Nat /\ Len(sources[q]) \in Nat
  <2>1. Good(sources[r]) /\ Good(sources[q])
    BY DEF SourceInv
  <2>2. r \in 0..nextId /\ q \in 0..nextId
    BY DEF SourceInv
  <2> QED BY <2>1, <2>2, GoodFacts
<1> DEFINE x == sources[r][j]
           y == sources[q][k]
<1>2. x \in Stamps /\ y \in Stamps /\ x \in ToSet(sources[r]) /\ y \in ToSet(sources[q])
      /\ x.v \in Int /\ y.v \in Int
  <2>1. x \in Stamps /\ x \in ToSet(sources[r])
    BY <1>1, GoodFacts
  <2>2. y \in Stamps /\ y \in ToSet(sources[q])
    BY <1>1, GoodFacts
  <2> HIDE DEF x, y
  <2> QED BY <2>1, <2>2, StampFacts
<1>3. Beats(Entry(r, j), Entry(q, k)) <=> r > q \/ (r = q /\ j >= k)
  BY DEF Beats, Entry
<1>4. CASE r < q
  <2>1. x.v < y.v
    BY <1>2, <1>4 DEF SourceInv, Older
  <2> HIDE DEF x, y
  <2>2. ~(r > q \/ (r = q /\ j >= k)) /\ x.v <= y.v
    BY <1>1, <1>2, <1>4, <2>1
  <2> QED BY <1>3, <2>2 DEF x, y
<1>5. CASE q < r
  <2>1. y.v < x.v
    BY <1>2, <1>5 DEF SourceInv, Older
  <2> HIDE DEF x, y
  <2>2. (r > q \/ (r = q /\ j >= k)) /\ y.v <= x.v
    BY <1>1, <1>2, <1>5, <2>1
  <2> QED BY <1>3, <2>2 DEF x, y
<1>6. CASE r = q
  <2>1. j \in Int /\ k \in Int /\ j \in 1..Len(sources[r]) /\ k \in 1..Len(sources[r])
    BY <1>1, <1>6
  <2>2. CASE j < k
    <3>1. Precedes(x, y)
      BY <1>1, <1>6, <2>1, <2>2 DEF Good, Ascending
    <3>2. x.v < y.v
      BY <1>2, <3>1, KeyOrder
    <3> HIDE DEF x, y
    <3>3. ~(r > q \/ (r = q /\ j >= k)) /\ x.v <= y.v
      BY <1>1, <1>2, <1>6, <2>1, <2>2, <3>2
    <3> QED BY <1>3, <3>3 DEF x, y
  <2>3. CASE k < j
    <3>1. Precedes(y, x)
      BY <1>1, <1>6, <2>1, <2>3 DEF Good, Ascending
    <3>2. SameKey(y, x)
      BY DEF SameKey
    <3>3. y.v < x.v
      BY <1>2, <3>1, <3>2, KeyOrder
    <3> HIDE DEF x, y
    <3>4. (r > q \/ (r = q /\ j >= k)) /\ y.v <= x.v
      BY <1>1, <1>2, <1>6, <2>1, <2>3, <3>3
    <3> QED BY <1>3, <3>4 DEF x, y
  <2>4. CASE j = k
    <3>1. x = y
      BY <1>6, <2>4
    <3> HIDE DEF x, y
    <3>2. y.v <= x.v /\ x.v <= y.v
      BY <1>2, <3>1
    <3> QED BY <3>2 DEF x, y
  <2> QED BY <2>1, <2>2, <2>3, <2>4
<1> QED BY <1>1, <1>4, <1>5, <1>6

\* MergeDuplicate keeps IInv: of two versions the newer source wins.
LEMMA MergeDuplicateInv ==
    ASSUME IInv, MergeDuplicate
    PROVE  IInv'
<1>0. /\ ConfigInv /\ SourceInv /\ HeapInv /\ PoppedInv /\ Merging /\ heap # {}
      /\ PushNext(heap \ {Top}, Top.priority)
      /\ sources' = sources /\ output' = output
  BY DEF IInv, MergeDuplicate, MergeInv, NoPoint
<1> DEFINE t == Top
           s == t.priority
           i == ordinal[s]
<1>1. /\ HeapInv' /\ DOMAIN ordinal' = DOMAIN ordinal
      /\ \A r \in DOMAIN sources : ordinal'[r] \in 0..Len(sources[r])
  BY <1>0, PopsAndPushes
<1>2. PICK c, r, j :
        /\ c = t /\ r = s /\ j = i
        /\ c = Entry(r, j) /\ r \in DOMAIN sources /\ j \in 1..Len(sources[r])
        /\ c.point = sources[r][j] /\ c.point \in Stamps /\ c \in heap
  BY <1>0, PopsAndPushes, TopFacts
<1>3. /\ \A q \in DOMAIN sources : \A k \in 1..Len(sources[q]) :
           Given(q, k)' <=> Given(q, k) \/ (q = r /\ k = j)
      /\ \A e \in heap' : e.point \in Stamps /\ ~KeyBefore(e.point, c.point)
      /\ \A x \in Stamps : (\A e \in heap : ~KeyBefore(e.point, x))
                                  => \A e \in heap' : ~KeyBefore(e.point, x)
  <2>1. c = Top /\ r = Top.priority /\ j = ordinal[r]
    BY <1>2
  <2> HIDE DEF t, s, i
  <2>2. \A q \in DOMAIN sources : \A k \in 1..Len(sources[q]) :
           Given(q, k)' <=> Given(q, k) \/ (q = r /\ k = j)
    BY ONLY <1>0, <2>1, PopsAndPushes
  <2>3. \A e \in heap' : e.point \in Stamps /\ ~KeyBefore(e.point, c.point)
    BY ONLY <1>0, <2>1, PopsAndPushes
  <2>4. \A x \in Stamps : (\A e \in heap : ~KeyBefore(e.point, x))
                                  => \A e \in heap' : ~KeyBefore(e.point, x)
    BY ONLY <1>0, <2>1, PopsAndPushes
  <2> QED BY <2>2, <2>3, <2>4
<1>4. PICK w \in winner : /\ SameKey(c.point, w.point)
                          /\ winner' = IF Beats(c, w) THEN {c} ELSE winner
  BY <1>2 DEF MergeDuplicate
<1> HIDE DEF t, s, i
<1>5. /\ Len(output) \in Nat /\ \A n \in 1..Len(output) : output[n] \in Stamps
      /\ \A q \in DOMAIN sources : \A k \in 1..Len(sources[q]) : sources[q][k] \in Stamps
      /\ w.point \in Stamps
      /\ \A q, k : Entry(q, k).point = sources[q][k]
  BY <1>0, PoppedFacts
<1>6. winner = {w}
  BY <1>0 DEF PoppedInv
<1>7. PICK q0 \in DOMAIN sources : \E k \in 1..Len(sources[q0]) : Given(q0, k) /\ w = Entry(q0, k)
  BY <1>0 DEF PoppedInv
<1>8. PICK k0 \in 1..Len(sources[q0]) : Given(q0, k0) /\ w = Entry(q0, k0)
  BY <1>7
<1>9. PICK d : /\ winner' = {d} /\ d \in {c, w} /\ d.point \in Stamps
               /\ SameKey(d.point, c.point) /\ SameKey(d.point, w.point)
               /\ c.point.v <= d.point.v /\ w.point.v <= d.point.v
  <2>1. w.point = sources[q0][k0]
    BY <1>5, <1>8
  <2>2. IF Beats(c, w) THEN w.point.v <= c.point.v ELSE c.point.v <= w.point.v
    BY <1>0, <1>2, <1>4, <1>7, <1>8, <2>1, MarkersOrder
  <2>3. SameKey(c.point, c.point) /\ SameKey(w.point, w.point) /\ SameKey(w.point, c.point)
    BY <1>4 DEF SameKey
  <2>4. c.point.v <= c.point.v /\ w.point.v <= w.point.v
    BY <1>2, <1>5, StampFacts
  <2>5. CASE Beats(c, w)
    BY <1>2, <1>4, <2>2, <2>3, <2>4, <2>5
  <2>6. CASE ~Beats(c, w)
    BY <1>4, <1>5, <1>6, <2>2, <2>3, <2>4, <2>6
  <2> QED BY <2>5, <2>6
<1>10. ASSUME NEW x \in Stamps, Kept(x) PROVE Kept(x)'
  <2>1. CASE \E u \in winner : SameKey(u.point, x) /\ x.v <= u.point.v
    <3>1. SameKey(w.point, x) /\ x.v <= w.point.v
      BY <1>6, <2>1
    <3>2. SameKey(d.point, x)
      BY <1>9, <3>1 DEF SameKey
    <3>3. x.v <= d.point.v
      BY <1>5, <1>9, <3>1, StampFacts
    <3> QED BY <1>9, <3>2, <3>3 DEF Kept
  <2>2. CASE \E n \in 1..Len(output) : SameKey(output[n], x) /\ x.v <= output[n].v
    BY <1>0, <2>2 DEF Kept
  <2> QED BY <1>10, <2>1, <2>2 DEF Kept
<1>11. Kept(c.point)'
  BY <1>9 DEF Kept
<1>12. ASSUME NEW q \in DOMAIN sources, NEW k \in 1..Len(sources[q]), Given(q, k)', NEW x, x = sources[q][k]
       PROVE  Kept(x)' /\ \A e \in heap' : ~KeyBefore(e.point, x)
  <2>1. x \in Stamps
    BY <1>5, <1>12
  <2>2. CASE Given(q, k)
    <3>1. Kept(x) /\ \A e \in heap : ~KeyBefore(e.point, x)
      BY <1>0, <1>12, <2>2 DEF PoppedInv
    <3> QED BY <1>3, <1>10, <2>1, <3>1
  <2>3. CASE q = r /\ k = j
    <3>1. x = c.point
      BY <1>2, <1>12, <2>3
    <3> QED BY <1>3, <1>11, <3>1
  <2> QED BY <1>3, <1>12, <2>2, <2>3
<1>13. PoppedInv'
  <2>1. \A q \in DOMAIN sources : \A k \in 1..Len(sources[q]) : Given(q, k)' =>
          /\ Kept(sources[q][k])'
          /\ \A e \in heap' : ~KeyBefore(e.point, sources[q][k])
    BY <1>0, <1>12
  <2>2. \A u \in winner' : \E q \in DOMAIN sources : \E k \in 1..Len(sources[q]) :
           Given(q, k)' /\ u = Entry(q, k)
    <3>1. Given(r, j)' /\ Given(q0, k0)'
      BY <1>2, <1>3, <1>7, <1>8
    <3> QED BY <1>2, <1>7, <1>8, <1>9, <3>1
  <2>3. \A x, y \in winner' : x = y
    BY <1>9
  <2>4. \A n \in 1..Len(output), u \in winner' : KeyBefore(output[n], u.point)
    <3> SUFFICES ASSUME NEW n \in 1..Len(output) PROVE KeyBefore(output[n], d.point)
      BY <1>9
    <3>1. KeyBefore(output[n], w.point)
      BY <1>0 DEF PoppedInv
    <3> QED BY <1>9, <3>1 DEF SameKey, KeyBefore
  <2>5. winner' # NoPoint
    BY <1>9 DEF NoPoint
  <2>6. \A n \in 1..Len(output) : output[n] \in Merged
    BY <1>0 DEF PoppedInv
  <2>7. \A m, n \in 1..Len(output) : m < n => KeyBefore(output[m], output[n])
    BY <1>0 DEF PoppedInv
  <2>8. Merged' = Merged /\ \A q, k : Entry(q, k)' = Entry(q, k)
    BY <1>0 DEF Merged, Entry
  <2> QED BY <1>0, <2>1, <2>2, <2>3, <2>4, <2>5, <2>6, <2>7, <2>8 DEF PoppedInv
<1>14. output' \in Seq(Stamps)
  BY <1>0 DEF SourceInv
<1> QED BY <1>0, <1>1, <1>13, <1>14, MergeStep DEF MergeDuplicate

\* MergeYield keeps IInv: what is yielded is newest and in order.
LEMMA MergeYieldInv ==
    ASSUME IInv, MergeYield
    PROVE  IInv'
<1>0. /\ ConfigInv /\ SourceInv /\ HeapInv /\ PoppedInv /\ Merging
      /\ sources' = sources /\ ordinal' = ordinal /\ heap' = heap /\ winner' = {}
  BY DEF IInv, MergeYield, MergeInv, NoPoint
<1>1. PICK w \in winner : /\ heap # {} => ~SameKey(Top.point, w.point)
                          /\ output' = Append(output, w.point)
  BY DEF MergeYield
<1> DEFINE max == Len(output)
<1>2. /\ max \in Nat /\ \A n \in 1..max : output[n] \in Stamps
      /\ \A q \in DOMAIN sources : \A k \in 1..Len(sources[q]) : sources[q][k] \in Stamps
      /\ w.point \in Stamps /\ w.point \in Merged
      /\ \A q, k : Entry(q, k).point = sources[q][k]
  BY <1>0, PoppedFacts
<1>3. winner = {w}
  BY <1>0 DEF PoppedInv
<1>4. /\ output' \in Seq(Stamps) /\ Len(output') = max + 1 /\ output'[max + 1] = w.point
      /\ \A n \in 1..max : output'[n] = output[n]
  <2>1. output \in Seq(Stamps)
    BY <1>0 DEF SourceInv
  <2> DEFINE x == w.point
  <2>2. x \in Stamps
    BY <1>2
  <2> HIDE DEF x
  <2> QED BY <1>1, <2>1, <2>2 DEF x
<1> HIDE DEF max
<1>5. ASSUME NEW x, Kept(x) PROVE Kept(x)'
  <2>1. CASE \E u \in winner : SameKey(u.point, x) /\ x.v <= u.point.v
    <3>1. SameKey(w.point, x) /\ x.v <= w.point.v
      BY <1>3, <2>1
    <3>2. max + 1 \in 1..Len(output')
      BY <1>2, <1>4
    <3> QED BY <1>4, <3>1, <3>2 DEF Kept
  <2>2. CASE \E n \in 1..max : SameKey(output[n], x) /\ x.v <= output[n].v
    <3>1. PICK n \in 1..max : SameKey(output[n], x) /\ x.v <= output[n].v
      BY <2>2
    <3>2. n \in 1..Len(output')
      BY <1>2, <1>4
    <3> QED BY <1>4, <3>1, <3>2 DEF Kept
  <2> QED BY <1>5, <2>1, <2>2 DEF Kept, max
<1>6. ASSUME NEW e \in heap PROVE e.point \in Stamps /\ KeyBefore(w.point, e.point)
  <2>1. /\ Top \in heap /\ Top.point \in Stamps /\ e.point \in Stamps
        /\ e = Top \/ Before(Top, e)
    BY <1>0, TopFacts
  <2>2. ~KeyBefore(Top.point, w.point)
    <3>1. PICK q \in DOMAIN sources : \E k \in 1..Len(sources[q]) : Given(q, k) /\ w = Entry(q, k)
      BY <1>0 DEF PoppedInv
    <3>2. PICK k \in 1..Len(sources[q]) : Given(q, k) /\ w = Entry(q, k)
      BY <3>1
    <3>3. ~KeyBefore(Top.point, sources[q][k])
      BY <1>0, <2>1, <3>1, <3>2 DEF PoppedInv
    <3> QED BY <1>2, <3>2, <3>3
  <2>3. KeyBefore(w.point, Top.point)
    <3>1. ~SameKey(Top.point, w.point)
      BY <1>1
    <3> QED BY <1>2, <2>1, <2>2, <3>1, KeyOrder
  <2>4. e = Top \/ KeyBefore(Top.point, e.point) \/ SameKey(Top.point, e.point)
    BY <2>1 DEF Before
  <2>5. e = Top \/ ~KeyBefore(e.point, Top.point)
    BY <2>1, <2>4, KeyOrder
  <2> QED BY <1>2, <2>1, <2>3, <2>5, KeyOrder
<1>7. \A n \in 1..(max + 1) : n \in 1..max \/ n = max + 1
  BY <1>2
<1>8. \A n \in 1..max : KeyBefore(output[n], w.point)
  BY <1>0 DEF PoppedInv, max
<1>9. PoppedInv'
  <2>1. \A q \in DOMAIN sources : \A k \in 1..Len(sources[q]) : Given(q, k) =>
          /\ Kept(sources[q][k])'
          /\ \A e \in heap : ~KeyBefore(e.point, sources[q][k])
    <3> SUFFICES ASSUME NEW q \in DOMAIN sources, NEW k \in 1..Len(sources[q]), Given(q, k),
                        NEW x, x = sources[q][k]
                 PROVE  Kept(x)' /\ \A e \in heap : ~KeyBefore(e.point, x)
      BY <1>0
    <3>1. Kept(x) /\ \A e \in heap : ~KeyBefore(e.point, x)
      BY <1>0 DEF PoppedInv
    <3> QED BY <1>5, <3>1
  <2>2. \A n \in 1..Len(output') : output'[n] \in Merged
    <3> TAKE n \in 1..Len(output')
    <3>1. CASE n \in 1..max
      BY <1>0, <1>4, <3>1 DEF PoppedInv, max
    <3>2. CASE n = max + 1
      BY <1>2, <1>4, <3>2
    <3> QED BY <1>4, <1>7, <3>1, <3>2
  <2>3. \A m, n \in 1..Len(output') : m < n => KeyBefore(output'[m], output'[n])
    <3> TAKE m \in 1..Len(output'), n \in 1..Len(output')
    <3> HAVE m < n
    <3>1. m \in 1..max
      BY <1>2, <1>4, <1>7
    <3>2. CASE n \in 1..max
      BY <1>0, <1>4, <3>1, <3>2 DEF PoppedInv, max
    <3>3. CASE n = max + 1
      BY <1>4, <1>8, <3>1, <3>3
    <3> QED BY <1>4, <1>7, <3>2, <3>3
  <2>4. \A n \in 1..Len(output'), e \in heap : KeyBefore(output'[n], e.point)
    <3> TAKE n \in 1..Len(output'), e \in heap
    <3>1. CASE n \in 1..max
      <4>1. /\ output[n] \in Stamps /\ e.point \in Stamps
            /\ KeyBefore(output[n], w.point) /\ KeyBefore(w.point, e.point)
        BY <1>2, <1>6, <1>8, <3>1
      <4>2. ~KeyBefore(e.point, w.point)
        BY <1>2, <4>1, KeyOrder
      <4>3. KeyBefore(output[n], e.point)
        BY <1>2, <4>1, <4>2, KeyOrder
      <4> QED BY <1>4, <3>1, <4>3
    <3>2. CASE n = max + 1
      BY <1>4, <1>6, <3>2
    <3> QED BY <1>4, <1>7, <3>1, <3>2
  <2>5. /\ Merged' = Merged /\ \A q, k : Entry(q, k)' = Entry(q, k)
        /\ \A q, k : Given(q, k)' = Given(q, k)
    BY <1>0 DEF Merged, Entry, Given
  <2> QED BY <1>0, <2>1, <2>2, <2>3, <2>4, <2>5 DEF PoppedInv
<1>10. HeapInv'
  BY <1>0 DEF HeapInv, Entry
<1>11. /\ DOMAIN ordinal' = DOMAIN ordinal
       /\ \A r \in DOMAIN sources : ordinal'[r] \in 0..Len(sources[r])
  BY <1>0 DEF SourceInv
<1> QED BY <1>0, <1>4, <1>9, <1>10, <1>11, MergeStep DEF MergeYield

-----------------------------------------------------------------------------
(* write_snapshot.                                                         *)

\* SourceInv for a step that reads nothing.
LEMMA SourceSame ==
    ASSUME ConfigInv, SourceInv, UNCHANGED <<mergeVars, content>>, heap = {}, winner = NoPoint,
           nextId' = nextId \/ nextId' = nextId + 1, job' \notin {"idle", "query", "compact"}
    PROVE  SourceInv'
<1>1. DOMAIN sources' \subseteq 0..nextId'
  BY DEF SourceInv, ConfigInv, mergeVars
<1>2. UNCHANGED <<sources, ordinal, heap, winner, output>>
  BY DEF mergeVars
<1>3. /\ DOMAIN ordinal' = DOMAIN sources'
      /\ \A s \in DOMAIN sources' : Good(sources'[s]) /\ ordinal'[s] \in 0..Len(sources'[s])
      /\ \A r, s \in DOMAIN sources' : r < s => Older(ToSet(sources'[r]), ToSet(sources'[s]))
      /\ output' \in Seq(Stamps)
  BY <1>2 DEF SourceInv
<1> QED BY <1>1, <1>2, <1>3 DEF SourceInv, Good, Older

\* StartFlush keeps IInv.
LEMMA StartFlushInv ==
    ASSUME IInv, StartFlush
    PROVE  IInv'
<1> DEFINE max == Len(snapshots)
           points == Head(snapshots)
<1>1. /\ ConfigInv /\ FileInv /\ WritingInv /\ AgeInv /\ HeldInv /\ SourceInv
  BY DEF IInv
<1>2. /\ job = "idle" /\ snapshots # <<>> /\ job' = "write" /\ nextId' = nextId + 1
      /\ snapshots' = Tail(snapshots) /\ writing' = [NoFile EXCEPT !.id = nextId, !.points = points]
      /\ UNCHANGED <<format, blockMax, memtable, files, damaged, query, sources, ordinal, heap, winner,
                     output, aggregates, content, flushed>>
  BY DEF StartFlush, WriteFile, disk, mergeVars
<1>3. sources = <<>> /\ heap = {} /\ winner = NoPoint
  BY <1>1, <1>2 DEF SourceInv, Idle
<1>4. /\ snapshots \in Seq(Seq(Stamps)) /\ max \in Nat \ {0} /\ points = snapshots[1]
      /\ snapshots' \in Seq(Seq(Stamps)) /\ Len(snapshots') = max - 1
      /\ \A n \in 1..(max - 1) : snapshots'[n] = snapshots[n + 1]
  <2> DEFINE X == Seq(Stamps)
  <2>1. snapshots \in Seq(X) /\ snapshots # <<>>
    BY <1>1, <1>2 DEF ConfigInv
  <2> HIDE DEF X
  <2>2. max \in Nat \ {0} /\ points = snapshots[1] /\ snapshots' \in Seq(X)
        /\ Len(snapshots') = max - 1
    BY <1>2, <2>1
  <2>3. \A n \in 1..(max - 1) : Tail(snapshots)[n] = snapshots[n + 1]
    BY <2>1
  <2> QED BY <1>2, <2>1, <2>2, <2>3 DEF X
<1> HIDE DEF max, points
<1>5. /\ 1 \in 1..max /\ \A n \in 1..(max - 1) : n + 1 \in 1..max /\ 1 < n + 1
      /\ \A m, n \in 1..(max - 1) : m < n => m + 1 < n + 1
  BY <1>4
<1>6. Good(points) /\ points # <<>>
  <2>1. Ascending(points) /\ points # <<>>
    BY <1>1, <1>4, <1>5 DEF ConfigInv, max
  <2>2. points \in Seq(Stamps)
    <3> DEFINE X == Seq(Stamps)
    <3>1. snapshots \in Seq(X)
      BY <1>4
    <3> HIDE DEF X
    <3>2. snapshots[1] \in X
      BY <1>5, <3>1 DEF max
    <3> QED BY <1>4, <3>2 DEF X
  <2> QED BY <2>1, <2>2 DEF Good
<1>7. ConfigInv'
  <2>1. \A n \in 1..Len(snapshots') : Ascending(snapshots'[n]) /\ snapshots'[n] # <<>>
    BY <1>1, <1>4, <1>5 DEF ConfigInv, max
  <2>2. nextId' \in Nat \ {0}
    BY <1>1, <1>2 DEF ConfigInv
  <2>3. IsRange(query')
    BY <1>1, <1>2 DEF ConfigInv, IsRange
  <2>4. Good(memtable')
    BY <1>1, <1>2 DEF ConfigInv
  <2> QED BY <1>1, <1>2, <1>4, <2>1, <2>2, <2>3, <2>4 DEF ConfigInv
<1>8. FileInv'
  BY <1>1, <1>2, FileSame
<1>9. writing' = [id |-> nextId, points |-> points, start |-> 0, blocks |-> <<>>, data |-> <<>>,
                  offset |-> 0]
  BY <1>2 DEF NoFile
<1>10. WritingInv'
  <2>1. format \in BlockFormats /\ nextId \in Nat \ {0}
    BY <1>1, ReadPathAssumption DEF ConfigInv, BlockFormats
  <2>2. Storable(points)
    BY <1>6, GoodStorable
  <2>3. LaidUpTo(format, <<>>, <<>>, 0, points, 0)
    BY <2>1, <2>2, LaidEmpty
  <2>4. nextId \in 1..(nextId' - 1) /\ \A id \in DOMAIN files : id < nextId
    BY <1>1, <1>2, <2>1 DEF FileInv
  <2>5. /\ writing'.id = nextId /\ writing'.points = points /\ writing'.start = 0
        /\ writing'.blocks = <<>> /\ writing'.data = <<>> /\ writing'.offset = 0
    BY <1>9
  <2>6. LaidUpTo(format', writing'.blocks, writing'.data, writing'.offset, writing'.points,
                 writing'.start)
    BY <1>2, <2>3, <2>5
  <2>7. writing' = [id |-> writing'.id, points |-> writing'.points, start |-> writing'.start,
                       blocks |-> writing'.blocks, data |-> writing'.data,
                       offset |-> writing'.offset]
    BY <1>9, <2>5
  <2>8. Good(writing'.points) /\ writing'.points # <<>>
    BY <1>6, <2>5
  <2>9. writing'.id \in 1..(nextId' - 1) /\ \A id \in DOMAIN files' : id < writing'.id
    BY <1>2, <2>4, <2>5
  <2> QED BY <1>2, <2>6, <2>7, <2>8, <2>9 DEF WritingInv
<1>11. AgeInv'
  <2>1. /\ \A m, n \in 1..max : m < n => Older(ToSet(snapshots[m]), ToSet(snapshots[n]))
        /\ \A n \in 1..max : /\ Older(flushed, ToSet(snapshots[n]))
                             /\ Older(ToSet(snapshots[n]), ToSet(memtable))
        /\ Older(flushed, ToSet(memtable))
        /\ \A i, j \in DOMAIN content : i < j => Older(ToSet(content[i]), ToSet(content[j]))
    BY <1>1 DEF AgeInv, max
  <2>2. \A m, n \in 1..Len(snapshots') : m < n => Older(ToSet(snapshots'[m]), ToSet(snapshots'[n]))
    BY <1>4, <1>5, <2>1
  <2>3. \A n \in 1..Len(snapshots') : /\ Older(flushed, ToSet(snapshots'[n]))
                                      /\ Older(ToSet(snapshots'[n]), ToSet(memtable))
                                      /\ Older(ToSet(points), ToSet(snapshots'[n]))
    BY <1>4, <1>5, <2>1
  <2>4. Older(flushed, ToSet(points)) /\ Older(ToSet(points), ToSet(memtable))
    BY <1>4, <1>5, <2>1
  <2>5. writing'.points = points
    BY <1>9
  <2> QED BY <1>2, <2>1, <2>2, <2>3, <2>4, <2>5 DEF AgeInv
<1>12. HeldInv'
  <2>1. Held' = Held
    BY <1>2, HeldUnchanged
  <2> QED BY <1>1, <1>2, <1>3, <2>1 DEF HeldInv, Compacting
<1>13. SourceInv'
  BY <1>1, <1>2, <1>3, SourceSame DEF mergeVars
<1>14. MergeInv' /\ QueryReturnsNewest'
  BY <1>2, NotMerging, NotAnswered DEF Merging
<1> QED BY <1>7, <1>8, <1>10, <1>11, <1>12, <1>13, <1>14 DEF IInv

\* WriteBlock keeps IInv: the blocks written so far are laid out as a file.
LEMMA WriteBlockInv ==
    ASSUME IInv, WriteBlock
    PROVE  IInv'
<1> DEFINE chunk == NextChunk
           block == Encode(format, chunk)
           size == EncodedSize(format, block)
           offset == writing.offset
           points == writing.points
           start == writing.start
           last == BlockEnd(points, start + 1, blockMax)
           data2 == [o \in DOMAIN writing.data \cup {offset} |->
                       IF o = offset THEN block ELSE writing.data[o]]
           blocks2 == Append(writing.blocks, BlockMetadata(offset, size, chunk))
<1>1. /\ ConfigInv /\ FileInv /\ WritingInv /\ AgeInv /\ HeldInv /\ SourceInv
  BY DEF IInv
<1>2. /\ job = "write" /\ start < Len(points) /\ Encodable(chunk)
      /\ writing' = [writing EXCEPT
               !.start = @ + Len(chunk), !.blocks = blocks2, !.data = data2, !.offset = offset + size]
      /\ UNCHANGED <<format, blockMax, snapshots, memtable, nextId, files, damaged, job, query,
                     sources, ordinal, heap, winner, output, aggregates, content, flushed>>
  BY DEF WriteBlock, disk, mergeVars
<1>3. /\ writing = [id |-> writing.id, points |-> points, start |-> start,
                    blocks |-> writing.blocks, data |-> writing.data, offset |-> offset]
      /\ Good(points) /\ points # <<>>
      /\ writing.id \in 1..(nextId - 1) /\ \A id \in DOMAIN files : id < writing.id
  BY <1>1, <1>2 DEF WritingInv
<1>4. LaidUpTo(format, writing.blocks, writing.data, offset, points, start)
  BY <1>1, <1>2 DEF WritingInv
<1>5. /\ writing'.start = start + Len(chunk) /\ writing'.blocks = blocks2
      /\ writing'.data = data2 /\ writing'.offset = offset + size
      /\ writing'.id = writing.id /\ writing'.points = points
      /\ writing' = [id |-> writing'.id, points |-> writing'.points, start |-> writing'.start,
                     blocks |-> writing'.blocks, data |-> writing'.data,
                     offset |-> writing'.offset]
  <2> DEFINE a == writing.id
             b == writing.blocks
             d == writing.data
             n == Len(chunk)
             e == offset + size
  <2>1. writing = [id |-> a, points |-> points, start |-> start, blocks |-> b, data |-> d,
                   offset |-> offset]
    BY <1>3
  <2>2. writing' = [writing EXCEPT !.start = @ + n, !.blocks = blocks2, !.data = data2, !.offset = e]
    BY <1>2
  <2> HIDE DEF a, b, d, n, e, blocks2, data2, points, start, offset
  <2>3. writing' = [id |-> a, points |-> points, start |-> start + n, blocks |-> blocks2,
                    data |-> data2, offset |-> e]
    BY <2>1, <2>2
  <2> QED BY <2>3 DEF a, n, e
<1>6. last \in (start + 1)..Len(points) /\ chunk = Between(points, start, last)
  <2>1. Storable(points) /\ blockMax \in Nat \ {0}
    BY <1>1, <1>3, GoodStorable, ReadPathAssumption DEF ConfigInv
  <2>2. start \in 0..Len(points) /\ Len(points) \in Nat
    <3>1. PICK cuts : /\ Laid(format, writing.blocks, writing.data, offset, points, cuts, {})
                      /\ cuts[Len(writing.blocks)] = start
      BY <1>4 DEF LaidUpTo
    <3>2. Len(writing.blocks) \in 0..Len(writing.blocks) /\ Len(points) \in Nat
      BY <3>1 DEF Laid, Storable, Chunk
    <3>3. cuts \in [0..Len(writing.blocks) -> 0..Len(points)]
      BY <3>1 DEF Laid
    <3> QED BY <3>1, <3>2, <3>3
  <2>3. start + 1 \in 1..Len(points)
    BY <1>2, <2>2
  <2> HIDE DEF start, points
  <2> QED BY <2>1, <2>3, BlockEndFacts DEF NextChunk, Between, points, start
<1> HIDE DEF chunk, last, points, start, offset
<1>7. LaidUpTo(format, blocks2, data2, offset + size, points, last) /\ start + Len(chunk) = last
  <2> DEFINE b == writing.blocks
             d == writing.data
  <2>1. block = Encode(format, chunk) /\ size = EncodedSize(format, block)
    BY DEF block, size
  <2>2. LaidUpTo(format, b, d, offset, points, start) /\ start < Len(points) /\ Encodable(chunk)
    BY <1>2, <1>4
  <2> HIDE DEF b, d, block, size
  <2>3. /\ LaidUpTo(format, Append(b, BlockMetadata(offset, size, chunk)),
                    DataWith(d, offset, block), offset + size, points, last)
        /\ start + Len(chunk) = last
    BY <1>6, <2>1, <2>2, LaidExtends
  <2> QED BY <2>3 DEF b, d, DataWith
<1> HIDE DEF blocks2, data2, block, size
<1>8. WritingInv'
  <2>1. LaidUpTo(format', writing'.blocks, writing'.data, writing'.offset, writing'.points,
                 writing'.start)
    BY <1>2, <1>5, <1>7
  <2>2. Good(writing'.points) /\ writing'.points # <<>>
    BY <1>3, <1>5
  <2>3. writing'.id \in 1..(nextId' - 1) /\ \A id \in DOMAIN files' : id < writing'.id
    BY <1>2, <1>3, <1>5
  <2> QED BY <1>2, <1>5, <2>1, <2>2, <2>3 DEF WritingInv
<1>9. ConfigInv' /\ FileInv'
  BY <1>1, <1>2, ConfigSame, FileSame DEF ConfigInv
<1>10. AgeInv'
  <2>1. writing'.points = writing.points
    BY <1>5 DEF points
  <2> QED BY <1>1, <1>2, <2>1 DEF AgeInv, Flushing
<1>11. HeldInv'
  <2>1. Held' = Held /\ writing'.points = writing.points
    BY <1>2, <1>5, HeldUnchanged DEF points
  <2> QED BY <1>1, <1>2, <2>1 DEF HeldInv, Compacting
<1>12. SourceInv'
  <2>1. heap = {} /\ winner = NoPoint
    BY <1>1, <1>2 DEF SourceInv, Merging
  <2> QED BY <1>1, <1>2, <2>1, SourceSame DEF mergeVars
<1>13. MergeInv' /\ QueryReturnsNewest'
  BY <1>2, NotMerging, NotAnswered DEF Merging
<1> QED BY <1>8, <1>9, <1>10, <1>11, <1>12, <1>13 DEF IInv

\* WriteRaises keeps IInv.
LEMMA WriteRaisesInv ==
    ASSUME IInv, WriteRaises
    PROVE  IInv'
<1>1. /\ ConfigInv /\ FileInv /\ WritingInv /\ AgeInv /\ HeldInv /\ SourceInv
  BY DEF IInv
<1>2. /\ job = "write" /\ job' = "idle" /\ writing' = NoFile
      /\ sources' = <<>> /\ ordinal' = <<>> /\ output' = <<>>
      /\ UNCHANGED <<format, blockMax, snapshots, memtable, nextId, files, damaged, query,
                     heap, winner, aggregates, content, flushed>>
  BY DEF WriteRaises, disk
<1>3. ConfigInv' /\ FileInv' /\ WritingInv'
  BY <1>1, <1>2, ConfigSame, FileSame, WritingNone
<1>4. AgeInv' /\ HeldInv'
  BY <1>1, <1>2, AgeSame, HeldSame DEF Flushing
<1>5. SourceInv'
  <2>1. heap' = {} /\ winner' = NoPoint
    BY <1>1, <1>2 DEF SourceInv, Merging
  <2> QED BY <1>1, <1>2, <2>1, SourcesIdle
<1>6. MergeInv' /\ QueryReturnsNewest'
  BY <1>2, NotMerging, NotAnswered DEF Merging
<1> QED BY <1>3, <1>4, <1>5, <1>6 DEF IInv

\* The points that the tables have.
LEMMA HeldFacts ==
    ASSUME ConfigInv, FileInv, HeldInv
    PROVE  /\ \A id \in DOMAIN content : ToSet(content[id]) \subseteq Held /\ Good(content[id])
           /\ \A x : x \in Held <=> \E id \in DOMAIN content : x \in ToSet(content[id])
           /\ Held \subseteq flushed /\ flushed \subseteq Stamps /\ Held \subseteq Stamps
           /\ ToSet(memtable) \subseteq Stamps
<1>1. \A id \in DOMAIN content : ToSet(content[id]) \subseteq Held
  BY DEF Held
<1>2. \A id \in DOMAIN content : Good(content[id])
  BY DEF FileInv
<1>3. \A x : x \in Held <=> \E id \in DOMAIN content : x \in ToSet(content[id])
  BY DEF Held
<1>4. Good(memtable)
  BY DEF ConfigInv
<1>5. ToSet(memtable) \subseteq Stamps
  BY <1>4, GoodFacts
<1> QED BY <1>1, <1>2, <1>3, <1>5 DEF HeldInv

\* Covers is transitive.
LEMMA CoversChain ==
    ASSUME NEW S, NEW T, NEW U, S \subseteq Stamps, T \subseteq Stamps, U \subseteq Stamps,
           Covers(S, T), Covers(T, U)
    PROVE  Covers(S, U)
<1> SUFFICES ASSUME NEW y \in U PROVE \E z \in S : SameKey(z, y) /\ y.v <= z.v
  BY DEF Covers
<1>1. PICK x \in T : SameKey(x, y) /\ y.v <= x.v
  BY DEF Covers
<1>2. PICK z \in S : SameKey(z, x) /\ x.v <= z.v
  BY DEF Covers
<1>3. SameKey(z, y)
  BY <1>1, <1>2 DEF SameKey
<1>4. y.v \in Int /\ x.v \in Int /\ z.v \in Int
  BY StampFacts
<1>5. y.v <= z.v
  BY <1>1, <1>2, <1>4
<1> QED BY <1>3, <1>5

\* A set covers its subsets.
LEMMA CoversItself ==
    ASSUME NEW S, NEW T, S \subseteq Stamps, T \subseteq S
    PROVE  Covers(S, T)
<1> SUFFICES ASSUME NEW y \in T PROVE \E z \in S : SameKey(z, y) /\ y.v <= z.v
  BY DEF Covers
<1>1. y \in S /\ y.v \in Int
  BY StampFacts
<1>2. SameKey(y, y) /\ y.v <= y.v
  BY <1>1 DEF SameKey
<1> QED BY <1>1, <1>2

\* FinishFile keeps IInv: the new file reads back, and merged inputs are covered.
LEMMA FinishFileInv ==
    ASSUME IInv, FinishFile
    PROVE  IInv'
<1>0. PICK points, new : points = writing.points /\ new = writing.id
  OBVIOUS
<1> DEFINE file == [format |-> format, blocks |-> writing.blocks, data |-> writing.data,
                    indexOffset |-> writing.offset, metadata |-> FileMetadata(points)]
           old == IF sources = <<>> THEN {} ELSE DOMAIN files
<1>1. /\ ConfigInv /\ FileInv /\ WritingInv /\ AgeInv /\ HeldInv /\ SourceInv
  BY DEF IInv
<1>2. /\ job = "write" /\ job' = "idle" /\ writing.start = Len(points) /\ writing' = NoFile
      /\ files' = [id \in (DOMAIN files \ old) \cup {new} |->
                     IF id = new THEN file ELSE files[id]]
      /\ content' = [id \in (DOMAIN content \ old) \cup {new} |->
                       IF id = new THEN points ELSE content[id]]
      /\ flushed' = IF sources = <<>> THEN flushed \cup ToSet(points) ELSE flushed
      /\ sources' = <<>> /\ ordinal' = <<>> /\ output' = <<>>
      /\ UNCHANGED <<format, blockMax, snapshots, memtable, nextId, damaged, query, heap, winner,
                     aggregates>>
  BY <1>0 DEF FinishFile
<1>3. /\ new \in 1..(nextId - 1) /\ \A id \in DOMAIN files : id < new
      /\ Good(points) /\ points # <<>>
      /\ LaidUpTo(format, writing.blocks, writing.data, writing.offset, points, Len(points))
  BY <1>0, <1>1, <1>2 DEF WritingInv
<1>4. /\ DOMAIN content = DOMAIN files /\ DOMAIN files \subseteq 1..(nextId - 1)
      /\ new \notin DOMAIN files /\ old \subseteq DOMAIN files
  <2>1. DOMAIN content = DOMAIN files /\ DOMAIN files \subseteq 1..(nextId - 1) /\ nextId \in Nat
    BY <1>1 DEF FileInv, ConfigInv
  <2>2. new \in DOMAIN files => FALSE
    <3>1. ~(new < new)
      BY <1>3, <2>1
    <3> QED BY <1>3, <3>1
  <2> QED BY <2>1, <2>2
<1>5. /\ DOMAIN files' = (DOMAIN files \ old) \cup {new} /\ DOMAIN content' = DOMAIN files'
      /\ files'[new] = file /\ content'[new] = points
      /\ \A id \in DOMAIN files \ old : files'[id] = files[id] /\ content'[id] = content[id]
  <2> HIDE DEF file, old
  <2> QED BY <1>2, <1>4
<1>6. \E cuts : IsFile(file, points, cuts, {})
  <2>1. PICK cuts : /\ Laid(format, writing.blocks, writing.data, writing.offset, points, cuts, {})
                    /\ cuts[Len(writing.blocks)] = Len(points)
    BY <1>3 DEF LaidUpTo
  <2> QED BY <2>1 DEF IsFile
<1>7. sources # <<>> => damaged = {}
  BY <1>1, <1>2 DEF HeldInv, Compacting
<1>8. FileInv'
  <2>1. BrokenOf(new)' = {}
    <3>1. \A d \in damaged : d.id # new
      BY <1>1, <1>4 DEF FileInv
    <3> QED BY <1>2, <3>1 DEF BrokenOf
  <2>2. \A id : BrokenOf(id)' = BrokenOf(id)
    BY <1>2 DEF BrokenOf
  <2>3. ASSUME NEW id \in DOMAIN files'
        PROVE  /\ Good(content'[id]) /\ content'[id] # <<>>
               /\ files'[id] = [format |-> files'[id].format, blocks |-> files'[id].blocks,
                                data |-> files'[id].data, indexOffset |-> files'[id].indexOffset,
                                metadata |-> files'[id].metadata]
               /\ \E cuts : IsFile(files'[id], content'[id], cuts, BrokenOf(id)')
    <3>1. CASE id = new
      <4>1. file = [format |-> file.format, blocks |-> file.blocks, data |-> file.data,
                    indexOffset |-> file.indexOffset, metadata |-> file.metadata]
        OBVIOUS
      <4> HIDE DEF file
      <4> QED BY <1>3, <1>5, <1>6, <2>1, <3>1, <4>1
    <3>2. CASE id \in DOMAIN files \ old
      <4> HIDE DEF file, old
      <4>1. /\ Good(content[id]) /\ content[id] # <<>>
            /\ files[id] = [format |-> files[id].format, blocks |-> files[id].blocks,
                            data |-> files[id].data, indexOffset |-> files[id].indexOffset,
                            metadata |-> files[id].metadata]
            /\ \E cuts : IsFile(files[id], content[id], cuts, BrokenOf(id))
        BY <1>1, <3>2 DEF FileInv
      <4>2. files'[id] = files[id] /\ content'[id] = content[id] /\ BrokenOf(id)' = BrokenOf(id)
        BY <1>5, <2>2, <3>2
      <4> QED BY <4>1, <4>2
    <3> HIDE DEF file, old
    <3> QED BY <1>5, <3>1, <3>2
  <2>4. ASSUME NEW d \in damaged
        PROVE  /\ d = [id |-> d.id, offset |-> d.offset]
               /\ d.id \in DOMAIN files' /\ d.offset \in DOMAIN files'[d.id].data
    <3>1. sources = <<>>
      BY <1>7
    <3>2. /\ d = [id |-> d.id, offset |-> d.offset]
          /\ d.id \in DOMAIN files /\ d.offset \in DOMAIN files[d.id].data
      BY <1>1 DEF FileInv
    <3>3. d.id \in DOMAIN files \ old
      BY <3>1, <3>2
    <3> HIDE DEF file, old
    <3> QED BY <1>5, <3>2, <3>3
  <2>5. DOMAIN files' \subseteq 1..(nextId' - 1)
    BY <1>2, <1>3, <1>4, <1>5
  <2> HIDE DEF file, old
  <2> QED BY <1>2, <1>5, <2>3, <2>4, <2>5 DEF FileInv, Good
<1> HIDE DEF file
<1>9. /\ ToSet(points) \subseteq Stamps /\ Held \subseteq Stamps /\ flushed \subseteq Stamps
      /\ Held \subseteq flushed /\ Covers(Held, flushed)
      /\ \A id \in DOMAIN content : ToSet(content[id]) \subseteq flushed
  BY <1>1, <1>3, GoodFacts, HeldFacts DEF HeldInv
<1>10. \A x : x \in Held' <=> (\E id \in DOMAIN files \ old : x \in ToSet(content[id])) \/ x \in ToSet(points)
  <2>1. \A x : x \in Held' <=> \E id \in DOMAIN content' : x \in ToSet(content'[id])
    BY DEF Held
  <2> HIDE DEF old
  <2> QED BY <1>5, <2>1
<1>11. ASSUME sources = <<>> PROVE HeldInv' /\ AgeInv'
  <2>1. old = {} /\ flushed' = flushed \cup ToSet(points)
    BY <1>2, <1>11
  <2>2. Held' = Held \cup ToSet(points)
    <3>1. \A x : x \in Held <=> \E id \in DOMAIN files : x \in ToSet(content[id])
      BY <1>4 DEF Held
    <3> QED BY <1>10, <2>1, <3>1
  <2>3. HeldInv'
    <3>1. Covers(Held', flushed')
      <4> SUFFICES ASSUME NEW y \in flushed' PROVE \E z \in Held' : SameKey(z, y) /\ y.v <= z.v
        BY DEF Covers
      <4>1. CASE y \in flushed
        BY <1>9, <2>2, <4>1 DEF Covers
      <4>2. CASE y \in ToSet(points)
        <5>1. Covers(ToSet(points), ToSet(points))
          BY <1>9, CoversItself
        <5> QED BY <2>2, <4>2, <5>1 DEF Covers
      <4> QED BY <2>1, <4>1, <4>2
    <3>2. flushed' \subseteq Stamps /\ Held' \subseteq flushed'
      BY <1>9, <2>1, <2>2
    <3> QED BY <1>2, <3>1, <3>2 DEF HeldInv, Compacting
  <2>4. AgeInv'
    <3>1. /\ Older(flushed, ToSet(points)) /\ Older(ToSet(points), ToSet(memtable))
          /\ \A n \in 1..Len(snapshots) : Older(ToSet(points), ToSet(snapshots[n]))
          /\ Older(flushed, ToSet(memtable))
          /\ \A n \in 1..Len(snapshots) : /\ Older(flushed, ToSet(snapshots[n]))
                                          /\ Older(ToSet(snapshots[n]), ToSet(memtable))
          /\ \A m, n \in 1..Len(snapshots) : m < n => Older(ToSet(snapshots[m]), ToSet(snapshots[n]))
          /\ \A i, j \in DOMAIN content : i < j => Older(ToSet(content[i]), ToSet(content[j]))
      BY <1>0, <1>1, <1>2, <1>11 DEF AgeInv, Flushing
    <3>2. /\ Older(flushed', ToSet(memtable))
          /\ \A n \in 1..Len(snapshots) : Older(flushed', ToSet(snapshots[n]))
      BY <2>1, <3>1 DEF Older
    <3>3. ASSUME NEW i \in DOMAIN content', NEW j \in DOMAIN content', i < j
          PROVE  Older(ToSet(content'[i]), ToSet(content'[j]))
      <4>1. (i \in DOMAIN files \/ i = new) /\ (j \in DOMAIN files \/ j = new)
        BY <1>5, <2>1
      <4>2. i \in DOMAIN files
        <5>1. nextId \in Nat /\ i \in Int /\ j \in Int /\ (j = new \/ j < new)
          BY <1>1, <1>3, <1>4, <4>1 DEF ConfigInv
        <5>2. i # new
          BY <3>3, <1>3, <5>1
        <5> QED BY <4>1, <5>2
      <4>3. content'[i] = content[i] /\ i \in DOMAIN content
        BY <1>4, <1>5, <2>1, <4>2
      <4>4. CASE j \in DOMAIN files
        BY <1>4, <1>5, <2>1, <3>1, <3>3, <4>3, <4>4
      <4>5. CASE j = new
        <5>1. ToSet(content[i]) \subseteq flushed
          BY <1>9, <4>3
        <5> QED BY <1>5, <3>1, <4>3, <4>5, <5>1 DEF Older
      <4> QED BY <4>1, <4>4, <4>5
    <3>4. ~Flushing'
      BY <1>2 DEF Flushing
    <3> QED BY <1>2, <3>1, <3>2, <3>3, <3>4 DEF AgeInv
  <2> QED BY <2>3, <2>4
<1>12. ASSUME sources # <<>> PROVE HeldInv' /\ AgeInv'
  <2>1. old = DOMAIN files /\ flushed' = flushed /\ DOMAIN files' = {new}
    BY <1>2, <1>5, <1>12
  <2>2. Held' = ToSet(points)
    BY <1>10, <2>1
  <2>3. HeldInv'
    <3>1. ToSet(points) \subseteq Held /\ Covers(ToSet(points), Held)
      BY <1>0, <1>1, <1>2, <1>12 DEF HeldInv
    <3>2. Covers(Held', flushed')
      BY <1>9, <2>1, <2>2, <3>1, CoversChain
    <3> QED BY <1>2, <1>9, <2>1, <2>2, <3>1, <3>2 DEF HeldInv, Compacting
  <2>4. AgeInv'
    <3>1. \A i, j \in DOMAIN content' : ~(i < j)
      BY <1>3, <1>5, <2>1
    <3>2. ~Flushing'
      BY <1>2 DEF Flushing
    <3> QED BY <1>1, <1>2, <2>1, <3>1, <3>2 DEF AgeInv, Older
  <2> QED BY <2>3, <2>4
<1>13. ConfigInv' /\ WritingInv'
  BY <1>1, <1>2, ConfigSame, WritingNone
<1>14. SourceInv'
  <2>1. heap' = {} /\ winner' = NoPoint
    BY <1>1, <1>2 DEF SourceInv, Merging
  <2> QED BY <1>1, <1>2, <2>1, SourcesIdle
<1>15. MergeInv' /\ QueryReturnsNewest'
  BY <1>2, NotMerging, NotAnswered DEF Merging
<1> QED BY <1>8, <1>11, <1>12, <1>13, <1>14, <1>15 DEF IInv

-----------------------------------------------------------------------------
(* Reading files.                                                          *)

\* A file is read if it has a point that is asked for.
LEMMA FileOverlaps ==
    ASSUME NEW file, NEW points, NEW cuts, NEW broken, IsFile(file, points, cuts, broken),
           NEW q, IsRange(q), NEW x \in ToSet(points), InRange(x, q)
    PROVE  Overlaps(file.metadata, q)
<1>1. points \in Seq(Points)
  BY DEF IsFile, Laid, Storable, Chunk
<1>2. PICK i \in 1..Len(points) : x = points[i]
  BY <1>1 DEF ToSet
<1>3. PICK n \in 1..Len(file.blocks) : i \in (cuts[n - 1] + 1)..cuts[n]
  BY BlockOf
<1> QED BY <1>2, <1>3, BoundsCover

\* A compaction reads every block of every file.
LEMMA WholeFacts ==
    ASSUME NEW file, NEW points, NEW cuts, NEW broken, IsFile(file, points, cuts, broken)
    PROVE  /\ IsRange(Whole(file.metadata))
           /\ \A x \in ToSet(points) : InRange(x, Whole(file.metadata))
           /\ \A n \in 1..Len(file.blocks) : n \in ScannedBlocks(file, Whole(file.metadata))
<1> DEFINE q == Whole(file.metadata)
           max == Len(points)
           blocks == file.blocks
<1>1. /\ Storable(points) /\ points \in Seq(Points) /\ max \in Nat \ {0}
      /\ file.metadata = FileMetadata(points)
      /\ Laid(file.format, blocks, file.data, file.indexOffset, points, cuts, broken)
      /\ cuts \in [0..Len(blocks) -> 0..max] /\ Len(blocks) \in Nat
  BY DEF IsFile, Laid, Storable, Chunk
<1>2. file.metadata.minT = points[1].t /\ file.metadata.maxT = points[max].t
  BY <1>1 DEF FileMetadata
<1>3. points[1].t \in Int /\ points[max].t \in Int
  <2>1. 1 \in 1..max /\ max \in 1..max
    BY <1>1
  <2> HIDE DEF max
  <2> QED BY <1>1, <2>1, PointTypes DEF max
<1>4. q.start = points[1].t /\ q.end = points[max].t + 1 /\ q.filtered = FALSE
  BY <1>2 DEF Whole
<1>5. IsRange(q)
  BY <1>3, <1>4 DEF IsRange
<1>6. ASSUME NEW i \in 1..max PROVE InRange(points[i], q)
  <2>1. 1 \in 1..max /\ max \in 1..max /\ 1 <= i /\ i <= max
    BY <1>1
  <2>2. points[1].t <= points[i].t /\ points[i].t \in Int
    BY <1>1, <2>1, InTimeOrder
  <2>3. points[i].t <= points[max].t
    BY <1>1, <2>1, InTimeOrder
  <2> HIDE DEF q, max
  <2> QED BY <1>3, <1>4, <2>2, <2>3 DEF InRange
<1>7. \A x \in ToSet(points) : InRange(x, q)
  <2>1. \A x \in ToSet(points) : \E i \in 1..max : x = points[i]
    BY <1>1 DEF ToSet
  <2> HIDE DEF q, max
  <2> QED BY <1>6, <2>1
<1>8. ASSUME NEW n \in 1..Len(blocks) PROVE n \in ScannedBlocks(file, q)
  <2>1. cuts[n - 1] < cuts[n]
    BY <1>1 DEF Laid, IsBlock
  <2>2. n \in 0..Len(blocks) /\ n - 1 \in 0..Len(blocks)
    BY <1>1
  <2>3. cuts[n] \in 0..max /\ cuts[n - 1] \in 0..max
    BY <1>1, <2>2
  <2>4. cuts[n] \in (cuts[n - 1] + 1)..cuts[n] /\ cuts[n] \in 1..max
    BY <1>1, <2>1, <2>3
  <2> HIDE DEF q
  <2>5. Overlaps(file.metadata, q) /\ Overlaps(file.blocks[n], q)
    BY <1>5, <1>6, <2>4, BoundsCover
  <2> QED BY <1>5, <2>5, ScannedAre
<1> QED BY <1>5, <1>7, <1>8

\* What a range query gets of a file, and why it raises.
LEMMA ReadFacts ==
    ASSUME ConfigInv, FileInv, NEW id \in DOMAIN files, NEW q, IsRange(q)
    PROVE  /\ Readable(files[id], q) =>
                /\ Good(Scan(files[id], q))
                /\ ToSet(Scan(files[id], q)) = {x \in ToSet(content[id]) : InRange(x, q)}
           /\ ~Readable(files[id], q) =>
                \E n \in DamagedBlocks(id) : Overlaps(files[id].blocks[n], q)
           /\ \A x \in ToSet(content[id]) : InRange(x, q) => id \in Hit(q)
<1>1. PICK cuts : IsFile(files[id], content[id], cuts, BrokenOf(id))
  BY DEF FileInv
<1>2. Good(content[id])
  BY DEF FileInv
<1>3. ASSUME Readable(files[id], q)
      PROVE  /\ Good(Scan(files[id], q))
             /\ ToSet(Scan(files[id], q)) = {x \in ToSet(content[id]) : InRange(x, q)}
  <2> DEFINE found == Scan(files[id], q)
  <2>1. /\ found \in Seq(Points) /\ Ascending(found)
        /\ ToSet(found) = {x \in ToSet(content[id]) : InRange(x, q)}
    BY <1>1, <1>3, ScanYieldsRange
  <2> HIDE DEF found
  <2>2. ToSet(found) \subseteq Stamps
    BY <1>2, <2>1, GoodFacts
  <2>3. \A n \in 1..Len(found) : found[n] \in ToSet(found)
    BY <2>1 DEF ToSet
  <2>4. \A n \in 1..Len(found) : found[n] \in Stamps
    BY <2>2, <2>3
  <2>5. found = [n \in 1..Len(found) |-> found[n]] /\ Len(found) \in Nat
    BY <2>1
  <2>6. found \in [1..Len(found) -> Stamps]
    BY <2>4, <2>5
  <2>7. found \in Seq(Stamps)
    BY <2>5, <2>6
  <2> QED BY <2>1, <2>7 DEF Good, found
<1>4. ASSUME ~Readable(files[id], q)
      PROVE  \E n \in DamagedBlocks(id) : Overlaps(files[id].blocks[n], q)
  <2>1. PICK n \in 1..Len(files[id].blocks) : /\ files[id].blocks[n].offset \in BrokenOf(id)
                                               /\ Overlaps(files[id].blocks[n], q)
    BY <1>1, <1>4, UnreadableIsDamaged
  <2>2. n \in DOMAIN files[id].blocks
    <3>1. files[id].blocks \in Seq(BlockRecords)
      BY <1>1 DEF IsFile, Laid
    <3> QED BY <3>1
  <2>3. PICK d \in damaged : d.id = id /\ d.offset = files[id].blocks[n].offset
    BY <2>1 DEF BrokenOf
  <2>4. d = [id |-> id, offset |-> files[id].blocks[n].offset]
    BY <2>3 DEF FileInv
  <2> QED BY <2>1, <2>2, <2>4 DEF DamagedBlocks
<1>5. ASSUME NEW x \in ToSet(content[id]), InRange(x, q) PROVE id \in Hit(q)
  <2>1. Overlaps(files[id].metadata, q)
    BY <1>1, <1>5, FileOverlaps
  <2> QED BY <2>1 DEF Hit
<1> QED BY <1>3, <1>4, <1>5

\* What was damaged is a block that cannot be read.
LEMMA DamageShows ==
    ASSUME ConfigInv, FileInv, damaged # {},
           \A id \in DOMAIN files : Readable(files[id], Whole(files[id].metadata))
    PROVE  FALSE
<1>1. PICK d \in damaged : TRUE
  OBVIOUS
<1> DEFINE id == d.id
           file == files[id]
<1>2. id \in DOMAIN files /\ d.offset \in DOMAIN file.data
  BY <1>1 DEF FileInv
<1>3. PICK cuts : IsFile(file, content[id], cuts, BrokenOf(id))
  BY <1>2 DEF FileInv
<1>4. PICK n \in 1..Len(file.blocks) : file.blocks[n].offset = d.offset
  BY <1>2, <1>3 DEF IsFile, Laid
<1>5. n \in ScannedBlocks(file, Whole(file.metadata))
  BY <1>3, WholeFacts
<1>6. ReadBlock(file, n).ok
  BY <1>2, <1>5 DEF Readable
<1>7. d.offset \notin BrokenOf(id)
  BY <1>3, <1>4, <1>6, BlockRead
<1>8. d.offset \in BrokenOf(id)
  BY <1>1 DEF BrokenOf
<1> QED BY <1>7, <1>8

\* The merge begins with the first point of each source.
LEMMA OpenFacts ==
    ASSUME NEW points, OpenSources(points), winner' = {}, output' = <<>>,
           \A s \in DOMAIN points : Good(points[s])
    PROVE  /\ sources' = points /\ DOMAIN ordinal' = DOMAIN points
           /\ \A s \in DOMAIN points : ordinal'[s] \in 0..Len(points[s])
           /\ HeapInv' /\ PoppedInv'
<1> DEFINE found == {s \in DOMAIN points : points[s] # <<>>}
<1>1. /\ sources' = points
      /\ ordinal' = [s \in DOMAIN points |-> IF s \in found THEN 1 ELSE 0]
      /\ heap' = {[point |-> points[s][1], priority |-> s, ordinal |-> 1] : s \in found}
  BY DEF OpenSources
<1>2. \A s \in DOMAIN points : /\ Len(points[s]) \in Nat
                               /\ s \in found => 1 \in 1..Len(points[s])
                               /\ s \notin found => Len(points[s]) = 0
  <2> TAKE s \in DOMAIN points
  <2>1. points[s] \in Seq(Stamps)
    BY DEF Good
  <2> QED BY <2>1
<1>3. \A s \in DOMAIN points : ordinal'[s] = IF s \in found THEN 1 ELSE 0
  BY <1>1
<1>4. \A s \in found : [point |-> points[s][1], priority |-> s, ordinal |-> 1] \in heap'
  BY <1>1
<1>5. \A e \in heap' : \E s \in found : e = [point |-> points[s][1], priority |-> s, ordinal |-> 1]
  BY <1>1
<1>6. \A s \in found : s \in DOMAIN points
  OBVIOUS
<1> HIDE DEF found
<1>7. HeapInv'
  <2>1. ASSUME NEW e \in heap'
        PROVE  /\ e.priority \in DOMAIN points
               /\ ordinal'[e.priority] \in 1..Len(points[e.priority])
               /\ e = [point |-> points[e.priority][ordinal'[e.priority]],
                       priority |-> e.priority, ordinal |-> ordinal'[e.priority]]
    <3>1. PICK s \in found : e = [point |-> points[s][1], priority |-> s, ordinal |-> 1]
      BY <1>5
    <3>2. e.priority = s /\ ordinal'[s] = 1 /\ 1 \in 1..Len(points[s]) /\ s \in DOMAIN points
      BY <1>2, <1>3, <1>6, <3>1
    <3> QED BY <3>1, <3>2
  <2>2. ASSUME NEW s \in DOMAIN points
        PROVE  \/ ordinal'[s] = Len(points[s])
               \/ [point |-> points[s][ordinal'[s]], priority |-> s, ordinal |-> ordinal'[s]] \in heap'
    <3>1. CASE s \in found
      BY <1>3, <1>4, <3>1
    <3>2. CASE s \notin found
      BY <1>2, <1>3, <3>2
    <3> QED BY <3>1, <3>2
  <2> QED BY <1>1, <2>1, <2>2 DEF HeapInv, Entry
<1>8. \A s \in DOMAIN points : \A i \in 1..Len(points[s]) :
         ~(i \in 1..ordinal'[s] /\ [point |-> points[s][i], priority |-> s, ordinal |-> i] \notin heap')
  <2> TAKE s \in DOMAIN points
  <2> TAKE i \in 1..Len(points[s])
  <2>1. CASE s \in found
    <3>1. i \in 1..1 => i = 1
      OBVIOUS
    <3> QED BY <1>3, <1>4, <2>1, <3>1
  <2>2. CASE s \notin found
    BY <1>3, <2>2
  <2> QED BY <2>1, <2>2
<1>9. PoppedInv'
  <2>1. Len(output') = 0 /\ 1..0 = {}
    OBVIOUS
  <2> QED BY <1>1, <1>8, <2>1 DEF PoppedInv, Given, Entry, NoPoint
<1>10. \A s \in DOMAIN points : ordinal'[s] \in 0..Len(points[s])
  <2> TAKE s \in DOMAIN points
  <2>1. Len(points[s]) \in Nat /\ (s \in found => 1 \in 1..Len(points[s]))
    BY <1>2
  <2> QED BY <1>3, <2>1
<1> QED BY <1>1, <1>7, <1>9, <1>10

-----------------------------------------------------------------------------
(* query_range and aggregate_range.                                        *)

\* The points of the memtable are newer than those of every table.
LEMMA PriorityFacts ==
    ASSUME ConfigInv, FileInv
    PROVE  /\ MemtablePriority \in 1..nextId
           /\ \A id \in DOMAIN files : id \in Int /\ id < MemtablePriority
<1>1. nextId \in Nat \ {0} /\ DOMAIN files \subseteq 1..(nextId - 1)
  BY DEF ConfigInv, FileInv
<1>2. CASE DOMAIN files = {}
  BY <1>1, <1>2 DEF MemtablePriority
<1>3. CASE DOMAIN files # {}
  <2> DEFINE S == DOMAIN files
             last == MaxOf(S)
  <2>1. S \in SUBSET (0..nextId) /\ S # {} /\ nextId \in Nat
    BY <1>1, <1>3
  <2> HIDE DEF S
  <2>2. last \in S /\ \A y \in S : y <= last
    BY <2>1, LeastAndGreatest
  <2> HIDE DEF last
  <2>3. last \in 1..(nextId - 1) /\ \A y \in S : y \in Int
    BY <1>1, <2>1, <2>2 DEF S
  <2>4. MemtablePriority = last + 1
    BY <1>3 DEF MemtablePriority, last, S
  <2>5. last + 1 \in 1..nextId
    BY <1>1, <2>3
  <2>6. \A y \in S : y < last + 1
    BY <2>2, <2>3
  <2> QED BY <2>3, <2>4, <2>5, <2>6 DEF S
<1> QED BY <1>2, <1>3

\* BeginQuery keeps IInv: the sources have what the files and the memtable have in range.
LEMMA BeginQueryInv ==
    ASSUME IInv, BeginQuery
    PROVE  IInv'
<1>1. /\ ConfigInv /\ FileInv /\ WritingInv /\ AgeInv /\ HeldInv /\ SourceInv
  BY DEF IInv
<1>2. PICK q \in Queries :
         /\ \A id \in Hit(q) : Readable(files[id], q)
         /\ query' = q
         /\ OpenSources([s \in Hit(q) \cup (IF memtable = <<>> THEN {} ELSE {MemtablePriority}) |->
                           IF s \in Hit(q) THEN Scan(files[s], q) ELSE Select(memtable, q)])
  BY DEF BeginQuery
<1>3. /\ job = "idle" /\ job' = "query"
      /\ UNCHANGED <<format, blockMax, snapshots, memtable, nextId, writing, files, damaged, winner,
                     output, aggregates, content, flushed>>
  BY DEF BeginQuery, disk
<1>4. winner' = {} /\ output' = <<>>
  BY <1>1, <1>3 DEF SourceInv, Idle, NoPoint
<1>5. PICK hit, newest : hit = Hit(q) /\ newest = MemtablePriority
  OBVIOUS
<1> DEFINE points == [s \in hit \cup (IF memtable = <<>> THEN {} ELSE {newest}) |->
                        IF s \in hit THEN Scan(files[s], q) ELSE Select(memtable, q)]
           Asked(S) == {x \in S : InRange(x, q)}
<1>6. OpenSources(points)
  BY <1>2, <1>5
<1>7. IsRange(q)
  BY ReadPathAssumption DEF IsRange
<1>8. /\ hit \subseteq DOMAIN files /\ DOMAIN content = DOMAIN files
      /\ newest \in 1..nextId /\ nextId \in Nat /\ \A id \in DOMAIN files : id \in Int /\ id < newest
      /\ DOMAIN files \subseteq 1..(nextId - 1) /\ newest \notin DOMAIN files
  <2>1. newest \in 1..nextId /\ \A id \in DOMAIN files : id \in Int /\ id < newest
    BY <1>1, <1>5, PriorityFacts
  <2>2. newest \in DOMAIN files => FALSE
    <3>1. ~(newest < newest)
      BY <2>1
    <3> QED BY <2>1, <3>1
  <2> QED BY <1>1, <1>5, <2>1, <2>2 DEF Hit, FileInv, ConfigInv
<1>9. ASSUME NEW s \in DOMAIN points
      PROVE  /\ Good(points[s])
             /\ s \in hit => ToSet(points[s]) = Asked(ToSet(content[s]))
             /\ s \notin hit => s = newest /\ ToSet(points[s]) = Asked(ToSet(memtable))
  <2>1. CASE s \in hit
    <3>1. points[s] = Scan(files[s], q) /\ s \in DOMAIN files /\ Readable(files[s], q)
      BY <1>2, <1>5, <1>8, <2>1
    <3> HIDE DEF points
    <3>2. Good(points[s]) /\ ToSet(points[s]) = Asked(ToSet(content[s]))
      BY <1>1, <1>7, <3>1, ReadFacts
    <3> QED BY <2>1, <3>2
  <2>2. CASE s \notin hit
    <3>1. points[s] = Select(memtable, q) /\ s = newest
      BY <2>2
    <3>2. Good(memtable)
      BY <1>1 DEF ConfigInv
    <3> DEFINE found == Select(memtable, q)
    <3>3. memtable \in Seq(Points) /\ Ascending(memtable) /\ ToSet(memtable) \subseteq Stamps
      BY <3>2, GoodFacts DEF Good
    <3>4. found \in Seq(Points) /\ Ascending(found) /\ ToSet(found) = Asked(ToSet(memtable))
      BY <3>3, SelectFacts
    <3> HIDE DEF found
    <3>5. \A n \in 1..Len(found) : found[n] \in ToSet(found)
      BY <3>4 DEF ToSet
    <3>6. \A n \in 1..Len(found) : found[n] \in Stamps
      BY <3>3, <3>4, <3>5
    <3>7. found = [n \in 1..Len(found) |-> found[n]] /\ Len(found) \in Nat
      BY <3>4
    <3>8. found \in [1..Len(found) -> Stamps]
      BY <3>6, <3>7
    <3>9. found \in Seq(Stamps)
      BY <3>7, <3>8
    <3>10. Good(found)
      BY <3>4, <3>9 DEF Good
    <3>11. points[s] = found
      BY <3>1 DEF found
    <3> HIDE DEF points
    <3> QED BY <2>2, <3>1, <3>4, <3>10, <3>11
  <2> QED BY <2>1, <2>2
<1>10. /\ DOMAIN points \subseteq hit \cup {newest} /\ hit \subseteq DOMAIN points
       /\ memtable # <<>> => newest \in DOMAIN points
  BY <1>8
<1> HIDE DEF points
<1>11. /\ sources' = points /\ DOMAIN ordinal' = DOMAIN points
       /\ \A s \in DOMAIN points : ordinal'[s] \in 0..Len(points[s])
       /\ HeapInv' /\ PoppedInv'
  BY <1>4, <1>6, <1>9, OpenFacts
<1>12. Merging' /\ job' # "idle" /\ job' # "compact"
  BY <1>3 DEF Merging
<1>13. ConfigInv'
  <2>1. IsRange(query')
    BY <1>2, <1>7
  <2> QED BY <1>1, <1>3, <2>1 DEF ConfigInv
<1>14. FileInv'
  BY <1>1, <1>3, FileSame
<1>15. WritingInv'
  BY <1>1, <1>3, WritingNone DEF WritingInv
<1>16. AgeInv' /\ HeldInv'
  BY <1>1, <1>3, AgeSame, HeldSame DEF Flushing
<1>17. /\ \A id \in DOMAIN content : ToSet(content[id]) \subseteq Held
       /\ \A x : x \in Held <=> \E id \in DOMAIN content : x \in ToSet(content[id])
       /\ Held \subseteq flushed
  BY <1>1, HeldFacts
<1>18. ASSUME NEW r \in DOMAIN points, NEW s \in DOMAIN points, r < s
       PROVE  Older(ToSet(points[r]), ToSet(points[s]))
  <2>1. r \in hit
    <3>1. s \in hit => s \in Int /\ s < newest
      BY <1>8
    <3>2. r # newest
      <4>1. newest \in Int /\ s \in Int /\ (s < newest \/ s = newest)
        BY <1>8, <1>10, <3>1
      <4> QED BY <1>18, <4>1
    <3> QED BY <1>10, <3>2
  <2>2. ToSet(points[r]) \subseteq ToSet(content[r]) /\ r \in DOMAIN content
    BY <1>8, <1>9, <2>1
  <2>3. CASE s \in hit
    <3>1. ToSet(points[s]) \subseteq ToSet(content[s]) /\ s \in DOMAIN content
      BY <1>8, <1>9, <2>3
    <3>2. Older(ToSet(content[r]), ToSet(content[s]))
      BY <1>1, <1>18, <2>2, <3>1 DEF AgeInv
    <3> QED BY <2>2, <3>1, <3>2 DEF Older
  <2>4. CASE s \notin hit
    <3>1. ToSet(points[s]) \subseteq ToSet(memtable)
      BY <1>9, <2>4
    <3>2. ToSet(content[r]) \subseteq flushed /\ Older(flushed, ToSet(memtable))
      BY <1>1, <1>17, <2>2 DEF AgeInv
    <3> QED BY <2>2, <3>1, <3>2 DEF Older
  <2> QED BY <2>3, <2>4
<1>19. ASSUME NEW x
       PROVE  x \in Merged' <=> (x \in Held \/ x \in ToSet(memtable)) /\ InRange(x, q)
  <2>1. x \in Merged' <=> \E s \in DOMAIN points : x \in ToSet(points[s])
    BY <1>11 DEF Merged
  <2>2. ASSUME NEW s \in DOMAIN points, x \in ToSet(points[s])
        PROVE  (x \in Held \/ x \in ToSet(memtable)) /\ InRange(x, q)
    <3>1. CASE s \in hit
      <4>1. x \in ToSet(content[s]) /\ InRange(x, q) /\ s \in DOMAIN content
        BY <1>8, <1>9, <2>2, <3>1
      <4> QED BY <1>17, <4>1
    <3>2. CASE s \notin hit
      BY <1>9, <2>2, <3>2
    <3> QED BY <3>1, <3>2
  <2>3. ASSUME x \in Held, InRange(x, q) PROVE \E s \in DOMAIN points : x \in ToSet(points[s])
    <3>1. PICK id \in DOMAIN content : x \in ToSet(content[id])
      BY <1>17, <2>3
    <3>2. id \in hit
      BY <1>1, <1>5, <1>7, <1>8, <2>3, <3>1, ReadFacts
    <3>3. id \in DOMAIN points /\ x \in ToSet(points[id])
      BY <1>9, <1>10, <2>3, <3>1, <3>2
    <3> QED BY <3>3
  <2>4. ASSUME x \in ToSet(memtable), InRange(x, q) PROVE \E s \in DOMAIN points : x \in ToSet(points[s])
    <3>1. memtable # <<>>
      <4>1. ToSet(<<>>) = {}
        BY DEF ToSet
      <4> QED BY <2>4, <4>1
    <3>2. newest \in DOMAIN points /\ newest \notin hit
      BY <1>8, <1>10, <3>1
    <3> QED BY <1>9, <2>4, <3>2
  <2> QED BY <2>1, <2>2, <2>3, <2>4
<1>20. SourceInv'
  <2>1. Held' = Held /\ ToSet(memtable)' = ToSet(memtable)
    BY <1>3, HeldUnchanged
  <2>2. DOMAIN points \subseteq 0..nextId
    BY <1>8, <1>10
  <2>3. \A s \in DOMAIN points : Good(points[s])
    BY <1>9
  <2>4. output' \in Seq(Stamps)
    BY <1>4
  <2>5. job' = "query" => \A x : x \in Merged' <=> /\ x \in Held' \/ x \in ToSet(memtable')
                                                   /\ InRange(x, query')
    <3>1. \A x : x \in Merged' <=> (x \in Held \/ x \in ToSet(memtable)) /\ InRange(x, q)
      BY <1>19
    <3>2. memtable' = memtable /\ query' = q
      BY <1>2, <1>3
    <3> QED BY <2>1, <3>1, <3>2
  <2> QED BY <1>3, <1>11, <1>12, <1>18, <2>2, <2>3, <2>4, <2>5 DEF SourceInv, Good, Older
<1>21. MergeInv' /\ QueryReturnsNewest'
  BY <1>3, <1>11, NotAnswered DEF MergeInv
<1> QED BY <1>13, <1>14, <1>15, <1>16, <1>20, <1>21 DEF IInv

\* QueryRaises keeps IInv: only a damaged block in range raises.
LEMMA QueryRaisesInv ==
    ASSUME IInv, QueryRaises
    PROVE  IInv'
<1>1. /\ ConfigInv /\ FileInv /\ WritingInv /\ AgeInv /\ HeldInv /\ SourceInv
  BY DEF IInv
<1>2. PICK q \in Queries : (\E id \in Hit(q) : ~Readable(files[id], q)) /\ query' = q
  BY DEF QueryRaises
<1>3. /\ job = "idle" /\ job' = "raised"
      /\ UNCHANGED <<format, blockMax, snapshots, memtable, nextId, writing, files, damaged,
                     sources, ordinal, heap, winner, output, aggregates, content, flushed>>
  BY DEF QueryRaises, disk, mergeVars
<1>4. IsRange(q)
  BY ReadPathAssumption DEF IsRange
<1>5. ConfigInv'
  <2>1. IsRange(query')
    BY <1>2, <1>4
  <2> QED BY <1>1, <1>3, <2>1 DEF ConfigInv
<1>6. FileInv' /\ WritingInv' /\ AgeInv' /\ HeldInv'
  <2>1. FileInv' /\ WritingInv'
    BY <1>1, <1>3, FileSame, WritingNone DEF WritingInv
  <2> QED BY <1>1, <1>3, <2>1, AgeSame, HeldSame DEF Flushing
<1>7. SourceInv'
  <2>1. heap = {} /\ winner = NoPoint
    BY <1>1, <1>3 DEF SourceInv, Idle
  <2> QED BY <1>1, <1>3, <2>1, SourceSame DEF mergeVars
<1>8. QueryReturnsNewest'
  <2>1. PICK id \in DOMAIN files : ~Readable(files[id], q)
    BY <1>2 DEF Hit
  <2>2. PICK n \in DamagedBlocks(id) : Overlaps(files[id].blocks[n], q)
    BY <1>1, <1>4, <2>1, ReadFacts
  <2>3. n \in DamagedBlocks(id)'
    BY <1>3, <2>2 DEF DamagedBlocks
  <2>4. Overlaps(files'[id].blocks[n], query')
    BY <1>2, <1>3, <2>2
  <2> QED BY <1>3, <2>1, <2>3, <2>4 DEF QueryReturnsNewest
<1>9. MergeInv'
  BY <1>3, NotMerging DEF Merging
<1> QED BY <1>5, <1>6, <1>7, <1>8, <1>9 DEF IInv

\* What the merge has yielded when every source is exhausted.
LEMMA MergeDone ==
    ASSUME ConfigInv, SourceInv, HeapInv, PoppedInv, heap = {}, winner = NoPoint
    PROVE  /\ Good(output) /\ ToSet(output) \subseteq Merged /\ Covers(ToSet(output), Merged)
           /\ Len(output) \in Nat /\ DOMAIN output = 1..Len(output)
           /\ \A m, n \in 1..Len(output) : m < n => KeyBefore(output[m], output[n])
           /\ \A x, y \in ToSet(output) : SameKey(x, y) => x = y
<1> DEFINE max == Len(output)
<1>1. /\ max \in Nat /\ DOMAIN output = 1..max /\ output \in Seq(Stamps)
      /\ \A n \in 1..max : output[n] \in Stamps /\ output[n] \in Merged
      /\ \A m, n \in 1..max : m < n => KeyBefore(output[m], output[n])
  <2>1. output \in Seq(Stamps)
    BY DEF SourceInv
  <2> QED BY <2>1 DEF PoppedInv
<1>2. \A x : x \in ToSet(output) <=> \E n \in 1..max : x = output[n]
  BY <1>1 DEF ToSet
<1>3. Good(output)
  <2>1. \A m, n \in 1..max : m < n => Precedes(output[m], output[n])
    BY <1>1, KeyOrder
  <2> QED BY <1>1, <2>1 DEF Good, Ascending
<1> HIDE DEF max
<1>4. ToSet(output) \subseteq Merged
  BY <1>1, <1>2
<1>5. Covers(ToSet(output), Merged)
  <2> SUFFICES ASSUME NEW y \in Merged PROVE \E z \in ToSet(output) : SameKey(z, y) /\ y.v <= z.v
    BY DEF Covers
  <2>1. PICK s \in DOMAIN sources : y \in ToSet(sources[s])
    BY DEF Merged
  <2>2. Good(sources[s])
    BY <2>1 DEF SourceInv
  <2>3. PICK i \in 1..Len(sources[s]) : y = sources[s][i]
    BY <2>1, <2>2, GoodFacts
  <2>4. ordinal[s] = Len(sources[s])
    BY <2>1 DEF HeapInv
  <2>5. Given(s, i)
    BY <2>3, <2>4 DEF Given
  <2>6. Kept(y)
    BY <2>1, <2>3, <2>5 DEF PoppedInv
  <2>7. PICK n \in 1..max : SameKey(output[n], y) /\ y.v <= output[n].v
    BY <2>6 DEF Kept, NoPoint, max
  <2> QED BY <1>2, <2>7
<1>6. ASSUME NEW x \in ToSet(output), NEW y \in ToSet(output), SameKey(x, y) PROVE x = y
  <2>1. PICK m \in 1..max : x = output[m]
    BY <1>2
  <2>2. PICK n \in 1..max : y = output[n]
    BY <1>2
  <2>3. x \in Stamps /\ y \in Stamps
    BY <1>1, <2>1, <2>2
  <2>4. ~KeyBefore(x, y) /\ ~KeyBefore(y, x)
    BY <1>6, <2>3, KeyOrder
  <2>5. ~(m < n) /\ ~(n < m)
    BY <1>1, <2>1, <2>2, <2>4
  <2>6. m = n
    BY <1>1, <2>5
  <2> QED BY <2>1, <2>2, <2>6
<1> QED BY <1>1, <1>3, <1>4, <1>5, <1>6 DEF max

\* EndQuery keeps IInv: an empty heap means that every source is used up.
LEMMA EndQueryInv ==
    ASSUME IInv, EndQuery
    PROVE  IInv'
<1>1. /\ ConfigInv /\ FileInv /\ WritingInv /\ AgeInv /\ HeldInv /\ SourceInv
  BY DEF IInv
<1>2. /\ job = "query" /\ heap = {} /\ winner = NoPoint /\ job' = "answered"
      /\ UNCHANGED <<format, blockMax, snapshots, memtable, nextId, writing, files, damaged, query,
                     sources, ordinal, heap, winner, output, content, flushed>>
  BY DEF EndQuery, disk, mergeVars
<1>3. HeapInv /\ PoppedInv
  BY <1>2 DEF IInv, MergeInv, Merging
<1>4. ConfigInv' /\ FileInv' /\ WritingInv'
  <2>1. WritingInv'
    BY <1>1, <1>2, WritingNone DEF WritingInv
  <2> QED BY <1>1, <1>2, <2>1, ConfigSame, FileSame
<1>5. AgeInv' /\ HeldInv'
  BY <1>1, <1>2, AgeSame, HeldSame DEF Flushing
<1>6. SourceInv'
  BY <1>1, <1>2, SourceSame DEF mergeVars
<1>7. MergeInv'
  BY <1>2, NotMerging DEF Merging
<1> DEFINE found == ToSet(output)
           all == flushed \cup ToSet(memtable)
           have == Held \cup ToSet(memtable)
<1>8. /\ found \subseteq Merged /\ Covers(found, Merged)
      /\ DOMAIN output = 1..Len(output)
      /\ \A m, n \in 1..Len(output) : m < n => KeyBefore(output[m], output[n])
      /\ \A x, y \in found : SameKey(x, y) => x = y
  BY <1>1, <1>2, <1>3, MergeDone
<1>9. /\ have \subseteq all /\ all \subseteq Stamps
      /\ \A x : x \in Merged <=> x \in have /\ InRange(x, query)
  BY <1>1, <1>2, HeldFacts DEF SourceInv
<1>10. Covers(have, all)
  <2>1. Covers(Held, flushed)
    BY <1>1 DEF HeldInv
  <2>2. Covers(ToSet(memtable), ToSet(memtable))
    BY <1>9, CoversItself
  <2> QED BY <2>1, <2>2 DEF Covers
<1>11. \A x, y : SameKey(x, y) /\ InRange(x, query) => InRange(y, query)
  BY DEF SameKey, InRange
<1> HIDE DEF found, all, have
<1>12. ASSUME NEW x \in found PROVE x \in NewestOf(all) /\ InRange(x, query)
  <2>1. x \in have /\ InRange(x, query) /\ x \in all /\ x \in Stamps
    BY <1>8, <1>9
  <2>2. ASSUME NEW y \in all, SameKey(x, y) PROVE y.v <= x.v
    <3>1. PICK z \in have : SameKey(z, y) /\ y.v <= z.v
      BY <1>10 DEF Covers
    <3>2. SameKey(x, z)
      BY <2>2, <3>1 DEF SameKey
    <3>3. z \in Merged
      BY <1>9, <1>11, <2>1, <3>1, <3>2
    <3>4. PICK w \in found : SameKey(w, z) /\ z.v <= w.v
      BY <1>8, <3>3 DEF Covers
    <3>5. w = x
      <4>1. SameKey(x, w)
        BY <3>2, <3>4 DEF SameKey
      <4> QED BY <1>8, <4>1
    <3>6. y.v \in Int /\ z.v \in Int /\ x.v \in Int
      BY <1>9, <2>1, <2>2, StampFacts
    <3> QED BY <3>1, <3>4, <3>5, <3>6
  <2> QED BY <2>1, <2>2 DEF NewestOf
<1>13. ASSUME NEW x \in NewestOf(all), InRange(x, query) PROVE x \in found
  <2>1. x \in all /\ x \in Stamps
    BY <1>9 DEF NewestOf
  <2>2. PICK z \in have : SameKey(z, x) /\ x.v <= z.v
    BY <1>10, <2>1 DEF Covers
  <2>3. z \in Merged
    <3>1. SameKey(x, z)
      BY <2>2 DEF SameKey
    <3> QED BY <1>9, <1>11, <1>13, <2>2, <3>1
  <2>4. PICK w \in found : SameKey(w, z) /\ z.v <= w.v
    BY <1>8, <2>3 DEF Covers
  <2>5. w \in all /\ w \in Stamps /\ z \in Stamps
    BY <1>8, <1>9, <2>4
  <2>6. SameKey(x, w)
    BY <2>2, <2>4 DEF SameKey
  <2>7. w.v <= x.v
    BY <2>5, <2>6 DEF NewestOf
  <2>8. x.v = w.v
    <3>1. x.v \in Int /\ z.v \in Int /\ w.v \in Int
      BY <2>1, <2>5, StampFacts
    <3> QED BY <2>2, <2>4, <2>7, <3>1
  <2> QED BY <2>1, <2>4, <2>5, <2>6, <2>8, SameStamp
<1>14. found = {x \in NewestOf(all) : InRange(x, query)}
  BY <1>12, <1>13
<1>15. QueryReturnsNewest'
  <2>1. ToSet(output) = {x \in NewestOf(flushed \cup ToSet(memtable)) : InRange(x, query)}
    BY <1>14 DEF found, all
  <2>2. \A m, n \in DOMAIN output : m < n => KeyBefore(output[m], output[n])
    BY <1>8
  <2>3. ToSet(output') = {x \in NewestOf(flushed' \cup ToSet(memtable')) : InRange(x, query')}
    BY <1>2, <2>1
  <2> QED BY <1>2, <2>2, <2>3 DEF QueryReturnsNewest
<1> QED BY <1>4, <1>5, <1>6, <1>7, <1>15 DEF IInv

\* Forget keeps IInv.
LEMMA ForgetInv ==
    ASSUME IInv, Forget
    PROVE  IInv'
<1>1. /\ ConfigInv /\ FileInv /\ WritingInv /\ AgeInv /\ HeldInv /\ SourceInv
  BY DEF IInv
<1>2. /\ job \in {"answered", "raised", "failed"} /\ job' = "idle" /\ query' = NoQuery
      /\ sources' = <<>> /\ ordinal' = <<>> /\ output' = <<>>
      /\ UNCHANGED <<format, blockMax, snapshots, memtable, nextId, writing, files, damaged,
                     heap, winner, content, flushed>>
  BY DEF Forget, disk
<1>3. ConfigInv'
  <2>1. IsRange(query')
    BY <1>2 DEF NoQuery, IsRange
  <2> QED BY <1>1, <1>2, <2>1 DEF ConfigInv
<1>4. FileInv' /\ WritingInv'
  BY <1>1, <1>2, FileSame, WritingNone DEF WritingInv
<1>5. AgeInv' /\ HeldInv'
  BY <1>1, <1>2, AgeSame, HeldSame DEF Flushing
<1>6. SourceInv'
  <2>1. heap' = {} /\ winner' = NoPoint
    BY <1>1, <1>2 DEF SourceInv, Merging
  <2> QED BY <1>1, <1>2, <2>1, SourcesIdle
<1>7. MergeInv' /\ QueryReturnsNewest'
  BY <1>2, NotMerging, NotAnswered DEF Merging
<1> QED BY <1>3, <1>4, <1>5, <1>6, <1>7 DEF IInv

-----------------------------------------------------------------------------
(* compact_tables.                                                         *)

\* BeginCompact keeps IInv.
LEMMA BeginCompactInv ==
    ASSUME IInv, BeginCompact
    PROVE  IInv'
<1>1. /\ ConfigInv /\ FileInv /\ WritingInv /\ AgeInv /\ HeldInv /\ SourceInv
  BY DEF IInv
<1> DEFINE q(id) == Whole(files[id].metadata)
           points == [id \in DOMAIN files |-> Scan(files[id], q(id))]
<1>2. /\ \A id \in DOMAIN files : Readable(files[id], q(id))
      /\ OpenSources(points) /\ Cardinality(DOMAIN files) > 1
      /\ job = "idle" /\ job' = "compact"
      /\ UNCHANGED <<format, blockMax, snapshots, memtable, nextId, writing, files, damaged, query,
                     winner, output, aggregates, content, flushed>>
  BY DEF BeginCompact, CanCompact, disk
<1>3. winner' = {} /\ output' = <<>>
  BY <1>1, <1>2 DEF SourceInv, Idle, NoPoint
<1>4. DOMAIN content = DOMAIN files /\ DOMAIN files \subseteq 1..(nextId - 1) /\ nextId \in Nat
  BY <1>1 DEF FileInv, ConfigInv
<1>5. ASSUME NEW id \in DOMAIN files
      PROVE  Good(points[id]) /\ ToSet(points[id]) = ToSet(content[id]) /\ ToSet(content[id]) # {}
  <2>1. PICK cuts : IsFile(files[id], content[id], cuts, BrokenOf(id))
    BY <1>1 DEF FileInv
  <2>2. IsRange(q(id)) /\ \A x \in ToSet(content[id]) : InRange(x, q(id))
    BY <2>1, WholeFacts
  <2>3. points[id] = Scan(files[id], q(id)) /\ Readable(files[id], q(id))
    BY <1>2
  <2> HIDE DEF points, q
  <2>4. /\ Good(points[id])
        /\ ToSet(points[id]) = {x \in ToSet(content[id]) : InRange(x, q(id))}
    BY <1>1, <2>2, <2>3, ReadFacts
  <2>5. ToSet(points[id]) = ToSet(content[id])
    BY <2>2, <2>4
  <2>6. Good(content[id]) /\ content[id] # <<>>
    BY <1>1 DEF FileInv
  <2>7. content[id][1] \in ToSet(content[id])
    <3>1. Len(content[id]) # 0 /\ Len(content[id]) \in Nat
      BY <2>6 DEF Good
    <3> QED BY <2>6, <3>1, GoodFacts
  <2> QED BY <2>4, <2>5, <2>7
<1>6. DOMAIN points = DOMAIN files
  OBVIOUS
<1> HIDE DEF points
<1>7. /\ sources' = points /\ DOMAIN ordinal' = DOMAIN points
      /\ \A s \in DOMAIN points : ordinal'[s] \in 0..Len(points[s])
      /\ HeapInv' /\ PoppedInv'
  BY <1>2, <1>3, <1>5, <1>6, OpenFacts
<1>8. damaged = {}
  BY <1>1, <1>2, DamageShows
<1>9. DOMAIN files # {}
  <2>1. Cardinality({}) = 0
    BY FS_EmptySet
  <2> QED BY <1>2, <2>1
<1>10. Merged' = Held /\ Merged' # {}
  <2>1. \A x : x \in Merged' <=> \E s \in DOMAIN files : x \in ToSet(content[s])
    BY <1>5, <1>6, <1>7 DEF Merged
  <2>2. \A x : x \in Held <=> \E s \in DOMAIN files : x \in ToSet(content[s])
    BY <1>4 DEF Held
  <2>3. PICK s \in DOMAIN files : TRUE
    BY <1>9
  <2>4. PICK x : x \in ToSet(content[s])
    BY <1>5
  <2> QED BY <2>1, <2>2, <2>4
<1>11. ConfigInv' /\ FileInv' /\ WritingInv'
  <2>1. WritingInv'
    BY <1>1, <1>2, WritingNone DEF WritingInv
  <2> QED BY <1>1, <1>2, <2>1, ConfigSame, FileSame
<1>12. AgeInv' /\ HeldInv'
  BY <1>1, <1>2, <1>8, AgeSame, HeldSame DEF Flushing
<1>13. SourceInv'
  <2>1. Held' = Held
    BY <1>2, HeldUnchanged
  <2>2. \A r, s \in DOMAIN points : r < s => Older(ToSet(points[r]), ToSet(points[s]))
    BY <1>1, <1>4, <1>5, <1>6 DEF AgeInv
  <2>3. DOMAIN points \subseteq 0..nextId
    BY <1>4, <1>6
  <2>4. \A s \in DOMAIN points : Good(points[s])
    BY <1>5, <1>6
  <2>5. output' \in Seq(Stamps)
    BY <1>3
  <2>6. Merging'
    BY <1>2 DEF Merging
  <2> QED BY <1>2, <1>6, <1>7, <1>9, <1>10, <2>1, <2>2, <2>3, <2>4, <2>5, <2>6 DEF SourceInv, Good, Older
<1>14. MergeInv' /\ QueryReturnsNewest'
  BY <1>2, <1>7, NotAnswered DEF MergeInv
<1> QED BY <1>11, <1>12, <1>13, <1>14 DEF IInv

\* CompactRaises keeps IInv.
LEMMA CompactRaisesInv ==
    ASSUME IInv, CompactRaises
    PROVE  IInv'
<1>1. /\ ConfigInv /\ FileInv /\ WritingInv /\ AgeInv /\ HeldInv /\ SourceInv
  BY DEF IInv
<1>2. /\ job = "idle" /\ job' = "failed"
      /\ UNCHANGED <<format, blockMax, snapshots, memtable, nextId, writing, files, damaged, query,
                     sources, ordinal, heap, winner, output, aggregates, content, flushed>>
  BY DEF CompactRaises, CanCompact, disk, mergeVars
<1>3. PICK id \in DOMAIN files : ~Readable(files[id], Whole(files[id].metadata))
  BY DEF CompactRaises
<1>4. damaged # {}
  <2>1. PICK cuts : IsFile(files[id], content[id], cuts, BrokenOf(id))
    BY <1>1 DEF FileInv
  <2>2. IsRange(Whole(files[id].metadata))
    BY <2>1, WholeFacts
  <2>3. DamagedBlocks(id) # {}
    BY <1>1, <1>3, <2>2, ReadFacts
  <2> QED BY <2>3 DEF DamagedBlocks
<1>5. ConfigInv' /\ FileInv' /\ WritingInv'
  <2>1. WritingInv'
    BY <1>1, <1>2, WritingNone DEF WritingInv
  <2> QED BY <1>1, <1>2, <2>1, ConfigSame, FileSame
<1>6. AgeInv' /\ HeldInv'
  BY <1>1, <1>2, <1>4, AgeSame, HeldSame DEF Flushing
<1>7. SourceInv'
  <2>1. heap = {} /\ winner = NoPoint
    BY <1>1, <1>2 DEF SourceInv, Idle
  <2> QED BY <1>1, <1>2, <2>1, SourceSame DEF mergeVars
<1>8. MergeInv' /\ QueryReturnsNewest'
  BY <1>2, NotMerging, NotAnswered DEF Merging
<1> QED BY <1>5, <1>6, <1>7, <1>8 DEF IInv

\* EndCompact keeps IInv.
LEMMA EndCompactInv ==
    ASSUME IInv, EndCompact
    PROVE  IInv'
<1>1. /\ ConfigInv /\ FileInv /\ WritingInv /\ AgeInv /\ HeldInv /\ SourceInv
  BY DEF IInv
<1>2. job = "compact" /\ heap = {} /\ winner = NoPoint
  BY DEF EndCompact
<1>3. HeapInv /\ PoppedInv
  BY <1>2 DEF IInv, MergeInv, Merging
<1>4. /\ Good(output) /\ ToSet(output) \subseteq Held /\ Covers(ToSet(output), Held)
      /\ Held # {} /\ sources # <<>>
  <2>1. DOMAIN sources # {} /\ Merged # {} /\ Merged = Held
    BY <1>1, <1>2 DEF SourceInv
  <2>2. sources # <<>>
    <3>1. DOMAIN <<>> = {}
      OBVIOUS
    <3> QED BY <2>1, <3>1
  <2> QED BY <1>1, <1>2, <1>3, <2>1, <2>2, MergeDone
<1>5. output # <<>>
  <2>1. ToSet(output) # {}
    BY <1>4 DEF Covers
  <2>2. ToSet(<<>>) = {}
    BY DEF ToSet
  <2> QED BY <2>1, <2>2
<1>6. /\ job' = "write" /\ nextId' = nextId + 1
      /\ writing' = [NoFile EXCEPT !.id = nextId, !.points = output]
      /\ UNCHANGED <<format, blockMax, snapshots, memtable, files, damaged, query, sources, ordinal,
                     heap, winner, output, aggregates, content, flushed>>
  BY <1>5 DEF EndCompact, WriteFile, disk, mergeVars
<1>7. writing' = [id |-> nextId, points |-> output, start |-> 0, blocks |-> <<>>, data |-> <<>>,
                  offset |-> 0]
  BY <1>6 DEF NoFile
<1>8. ConfigInv'
  <2>1. nextId' \in Nat \ {0}
    BY <1>1, <1>6 DEF ConfigInv
  <2> QED BY <1>1, <1>6, <2>1 DEF ConfigInv
<1>9. FileInv'
  BY <1>1, <1>6, FileSame
<1>10. WritingInv'
  <2>1. format \in BlockFormats /\ nextId \in Nat \ {0}
    BY <1>1, ReadPathAssumption DEF ConfigInv, BlockFormats
  <2>2. Storable(output)
    BY <1>4, <1>5, GoodStorable
  <2>3. LaidUpTo(format, <<>>, <<>>, 0, output, 0)
    BY <2>1, <2>2, LaidEmpty
  <2>4. nextId \in 1..(nextId' - 1) /\ \A id \in DOMAIN files : id < nextId
    BY <1>1, <1>6, <2>1 DEF FileInv
  <2>5. /\ writing'.id = nextId /\ writing'.points = output /\ writing'.start = 0
        /\ writing'.blocks = <<>> /\ writing'.data = <<>> /\ writing'.offset = 0
    BY <1>7
  <2>6. LaidUpTo(format', writing'.blocks, writing'.data, writing'.offset, writing'.points,
                 writing'.start)
    BY <1>6, <2>3, <2>5
  <2>7. writing' = [id |-> writing'.id, points |-> writing'.points, start |-> writing'.start,
                       blocks |-> writing'.blocks, data |-> writing'.data,
                       offset |-> writing'.offset]
    BY <1>7, <2>5
  <2>8. Good(writing'.points) /\ writing'.points # <<>>
    BY <1>4, <1>5, <2>5
  <2>9. writing'.id \in 1..(nextId' - 1) /\ \A id \in DOMAIN files' : id < writing'.id
    BY <1>6, <2>4, <2>5
  <2> QED BY <1>6, <2>6, <2>7, <2>8, <2>9 DEF WritingInv
<1>11. AgeInv'
  <2>1. ~Flushing'
    BY <1>4, <1>6 DEF Flushing
  <2> QED BY <1>1, <1>6, <2>1, AgeSame
<1>12. HeldInv'
  <2>1. Held' = Held /\ writing'.points = output
    BY <1>6, <1>7, HeldUnchanged
  <2>2. damaged = {}
    BY <1>1, <1>2 DEF HeldInv, Compacting
  <2> QED BY <1>1, <1>4, <1>6, <2>1, <2>2 DEF HeldInv, Compacting
<1>13. SourceInv'
  BY <1>1, <1>2, <1>6, SourceSame DEF mergeVars
<1>14. MergeInv' /\ QueryReturnsNewest'
  BY <1>6, NotMerging, NotAnswered DEF Merging
<1> QED BY <1>8, <1>9, <1>10, <1>11, <1>12, <1>13, <1>14 DEF IInv

-----------------------------------------------------------------------------
(* A damaged block.                                                        *)

\* DamageBlock keeps IInv: the other blocks of the file are as they were.
LEMMA DamageBlockInv ==
    ASSUME IInv, DamageBlock
    PROVE  IInv'
<1>1. /\ ConfigInv /\ FileInv /\ WritingInv /\ AgeInv /\ HeldInv /\ SourceInv
  BY DEF IInv
<1>2. /\ job = "idle" /\ damaged = {}
      /\ UNCHANGED <<format, blockMax, snapshots, memtable, nextId, writing, job, query, sources,
                     ordinal, heap, winner, output, aggregates, content, flushed>>
  BY DEF DamageBlock, mergeVars
<1>3. PICK id \in DamagedTables \cap DOMAIN files :
         /\ files[id].format = "v2_timeseries"
         /\ \E offset \in DOMAIN files[id].data :
              /\ files' = [files EXCEPT ![id].data[offset].base = @ + 1]
              /\ damaged' = {[id |-> id, offset |-> offset]}
  BY DEF DamageBlock
<1>4. PICK offset \in DOMAIN files[id].data :
         /\ files' = [files EXCEPT ![id].data[offset].base = @ + 1]
         /\ damaged' = {[id |-> id, offset |-> offset]}
  BY <1>3
<1> DEFINE file == files[id]
           block == [file.data[offset] EXCEPT !.base = @ + 1]
           data2 == [file.data EXCEPT ![offset] = block]
           file2 == [file EXCEPT !.data = data2]
<1>5. /\ id \in DOMAIN files /\ DOMAIN files' = DOMAIN files /\ files'[id] = file2
      /\ \A j \in DOMAIN files : j # id => files'[j] = files[j]
  BY <1>3, <1>4
<1>6. file = [format |-> file.format, blocks |-> file.blocks, data |-> file.data,
              indexOffset |-> file.indexOffset, metadata |-> file.metadata]
  BY <1>1, <1>5 DEF FileInv
<1>7. /\ file2 = [format |-> file.format, blocks |-> file.blocks, data |-> data2,
                  indexOffset |-> file.indexOffset, metadata |-> file.metadata]
  <2> DEFINE a == file.format
             b == file.blocks
             c == file.data
             d == file.indexOffset
             e == file.metadata
             f == file
  <2>1. f = [format |-> a, blocks |-> b, data |-> c, indexOffset |-> d, metadata |-> e]
    BY <1>6
  <2> HIDE DEF a, b, c, d, e, f, data2
  <2>2. [f EXCEPT !.data = data2] =
           [format |-> a, blocks |-> b, data |-> data2, indexOffset |-> d, metadata |-> e]
    BY <2>1
  <2> QED BY <2>2 DEF a, b, c, d, e, f
<1>8. /\ DOMAIN data2 = DOMAIN file.data /\ data2[offset] = block
      /\ \A o \in DOMAIN file.data : o # offset => data2[o] = file.data[o]
  <2> HIDE DEF block
  <2> QED BY <1>4
<1>9. PICK cuts : IsFile(file, content[id], cuts, {})
  <2>1. BrokenOf(id) = {}
    BY <1>2 DEF BrokenOf
  <2>2. \E cuts : IsFile(files[id], content[id], cuts, BrokenOf(id))
    BY <1>1, <1>5 DEF FileInv
  <2> HIDE DEF file
  <2>3. \E cuts : IsFile(files[id], content[id], cuts, {})
    BY <2>1, <2>2
  <2> QED BY <2>3 DEF file
<1>10. PICK new : new = file2
  OBVIOUS
<1>11. /\ new.format = file.format /\ new.blocks = file.blocks
       /\ new.indexOffset = file.indexOffset /\ new.metadata = file.metadata
       /\ new.data = data2
       /\ new = [format |-> new.format, blocks |-> new.blocks, data |-> new.data,
                 indexOffset |-> new.indexOffset, metadata |-> new.metadata]
  <2> HIDE DEF file2, data2
  <2> QED BY <1>7, <1>10
<1>12. IsFile(new, content[id], cuts, {} \cup {offset})
  <2>1. /\ DOMAIN new.data = DOMAIN file.data
        /\ new.data[offset] = [file.data[offset] EXCEPT !.base = @ + 1]
        /\ \A o \in DOMAIN file.data : o # offset => new.data[o] = file.data[o]
    BY <1>8, <1>11
  <2>2. offset \notin {} /\ offset \in DOMAIN file.data /\ file.format = "v2_timeseries"
    BY <1>3, <1>4
  <2> HIDE DEF file, file2, data2, block
  <2> QED BY <1>9, <1>11, <2>1, <2>2, FileBreaks
<1>13. files'[id] = new
  BY <1>5, <1>10
<1> HIDE DEF file, file2, data2, block
<1>14. BrokenOf(id)' = {offset} /\ \A j : j # id => BrokenOf(j)' = BrokenOf(j)
  <2> DEFINE d == [id |-> id, offset |-> offset]
  <2>1. damaged' = {d} /\ d.id = id /\ d.offset = offset
    BY <1>4
  <2> HIDE DEF d
  <2>2. {x \in damaged' : x.id = id} = {d}
    BY <2>1
  <2>3. BrokenOf(id)' = {offset}
    BY <2>1, <2>2 DEF BrokenOf
  <2>4. ASSUME NEW j, j # id PROVE BrokenOf(j)' = BrokenOf(j)
    <3>1. {x \in damaged' : x.id = j} = {} /\ {x \in damaged : x.id = j} = {}
      BY <1>2, <2>1, <2>4
    <3> QED BY <3>1 DEF BrokenOf
  <2> QED BY <2>3, <2>4
<1>15. FileInv'
  <2>1. ASSUME NEW j \in DOMAIN files
        PROVE  /\ Good(content[j]) /\ content[j] # <<>>
               /\ files'[j] = [format |-> files'[j].format, blocks |-> files'[j].blocks,
                               data |-> files'[j].data, indexOffset |-> files'[j].indexOffset,
                               metadata |-> files'[j].metadata]
               /\ \E c : IsFile(files'[j], content[j], c, BrokenOf(j)')
    <3>1. Good(content[j]) /\ content[j] # <<>>
      BY <1>1 DEF FileInv
    <3>2. CASE j = id
      <4>1. {} \cup {offset} = {offset}
        OBVIOUS
      <4> QED BY <1>11, <1>12, <1>13, <1>14, <3>1, <3>2, <4>1
    <3>3. CASE j # id
      <4>1. /\ files[j] = [format |-> files[j].format, blocks |-> files[j].blocks,
                           data |-> files[j].data, indexOffset |-> files[j].indexOffset,
                           metadata |-> files[j].metadata]
            /\ \E c : IsFile(files[j], content[j], c, BrokenOf(j))
        BY <1>1 DEF FileInv
      <4>2. files'[j] = files[j] /\ BrokenOf(j)' = BrokenOf(j)
        BY <1>5, <1>14, <3>3
      <4> QED BY <3>1, <4>1, <4>2
    <3> QED BY <3>2, <3>3
  <2>2. ASSUME NEW d \in damaged'
        PROVE  /\ d = [id |-> d.id, offset |-> d.offset]
               /\ d.id \in DOMAIN files' /\ d.offset \in DOMAIN files'[d.id].data
    <3>1. d = [id |-> id, offset |-> offset]
      BY <1>4
    <3>2. d.id = id /\ d.offset = offset
      BY <3>1
    <3>3. offset \in DOMAIN files'[id].data
      BY <1>4, <1>8, <1>11, <1>13 DEF file
    <3> QED BY <1>5, <3>1, <3>2, <3>3
  <2>3. DOMAIN files' \subseteq 1..(nextId' - 1) /\ DOMAIN content' = DOMAIN files'
    BY <1>1, <1>2, <1>5 DEF FileInv
  <2> QED BY <1>2, <1>5, <2>1, <2>2, <2>3 DEF FileInv, Good
<1>16. ConfigInv' /\ WritingInv' /\ AgeInv'
  <2>1. ConfigInv' /\ WritingInv'
    BY <1>1, <1>2, ConfigSame, WritingNone DEF ConfigInv, WritingInv
  <2> QED BY <1>1, <1>2, <2>1, AgeSame DEF Flushing
<1>17. HeldInv'
  <2>1. Held' = Held
    BY <1>2, HeldUnchanged
  <2> QED BY <1>1, <1>2, <2>1 DEF HeldInv, Compacting
<1>18. SourceInv'
  <2>1. sources = <<>> /\ ordinal = <<>> /\ heap = {} /\ winner = NoPoint /\ output = <<>>
    BY <1>1, <1>2 DEF SourceInv, Idle
  <2> QED BY <1>1, <1>2, <2>1, SourcesIdle
<1>19. MergeInv' /\ QueryReturnsNewest'
  BY <1>2, NotMerging, NotAnswered DEF Merging
<1> QED BY <1>15, <1>16, <1>17, <1>18, <1>19 DEF IInv

-----------------------------------------------------------------------------
(* The invariant and what follows from it.                                 *)

\* A stutter keeps IInv.
LEMMA StutterInvariant ==
    ASSUME IInv, UNCHANGED vars
    PROVE  IInv'
<1>1. UNCHANGED <<format, blockMax, snapshots, memtable, nextId, writing, files, damaged, job, query,
                  sources, ordinal, heap, winner, output, aggregates, content, flushed>>
  BY DEF vars, disk, mergeVars
<1>2. ConfigInv' /\ FileInv' /\ WritingInv'
  BY <1>1, ConfigSame, FileSame, WritingSame DEF IInv, ConfigInv
<1>3. AgeInv' /\ HeldInv'
  <2>1. Held' = Held
    BY <1>1, HeldUnchanged
  <2>2. AgeInv'
    BY <1>1 DEF IInv, AgeInv, Flushing
  <2>3. HeldInv'
    BY <1>1, <2>1 DEF IInv, HeldInv, Compacting
  <2> QED BY <2>2, <2>3
<1>4. SourceInv' /\ MergeInv'
  <2>1. Held' = Held /\ Merged' = Merged
    BY <1>1, HeldUnchanged DEF Merged
  <2>2. SourceInv'
    BY <1>1, <2>1 DEF IInv, SourceInv, Idle, Merging
  <2>3. \A s, i : Entry(s, i)' = Entry(s, i) /\ Given(s, i)' = Given(s, i)
    BY <1>1 DEF Entry, Given
  <2>4. \A x : Kept(x)' = Kept(x)
    BY <1>1 DEF Kept
  <2>5. HeapInv => HeapInv'
    BY <1>1 DEF HeapInv, Entry
  <2>6. PoppedInv => PoppedInv'
    BY <1>1, <2>1 DEF PoppedInv, Entry, Given, Kept
  <2> QED BY <1>1, <2>2, <2>5, <2>6 DEF IInv, MergeInv, Merging
<1>5. QueryReturnsNewest'
  BY <1>1 DEF IInv, QueryReturnsNewest, DamagedBlocks
<1> QED BY <1>2, <1>3, <1>4, <1>5 DEF IInv

\* IInv is inductive.
LEMMA NextInvariant == IInv /\ [Next]_vars => IInv'
<1> SUFFICES ASSUME IInv, [Next]_vars PROVE IInv'
  OBVIOUS
<1>1. CASE StartFlush
  BY <1>1, StartFlushInv
<1>2. CASE WriteBlock
  BY <1>2, WriteBlockInv
<1>3. CASE WriteRaises
  BY <1>3, WriteRaisesInv
<1>4. CASE FinishFile
  BY <1>4, FinishFileInv
<1>5. CASE MergePop
  BY <1>5, MergePopInv
<1>6. CASE MergeDuplicate
  BY <1>6, MergeDuplicateInv
<1>7. CASE MergeYield
  BY <1>7, MergeYieldInv
<1>8. CASE BeginQuery
  BY <1>8, BeginQueryInv
<1>9. CASE QueryRaises
  BY <1>9, QueryRaisesInv
<1>10. CASE EndQuery
  BY <1>10, EndQueryInv
<1>11. CASE Forget
  BY <1>11, ForgetInv
<1>12. CASE BeginCompact
  BY <1>12, BeginCompactInv
<1>13. CASE CompactRaises
  BY <1>13, CompactRaisesInv
<1>14. CASE EndCompact
  BY <1>14, EndCompactInv
<1>15. CASE DamageBlock
  BY <1>15, DamageBlockInv
<1>16. CASE UNCHANGED vars
  BY <1>16, StutterInvariant
<1> QED BY <1>1, <1>2, <1>3, <1>4, <1>5, <1>6, <1>7, <1>8, <1>9, <1>10, <1>11, <1>12, <1>13,
           <1>14, <1>15, <1>16 DEF Next

\* The invariant holds in every state: the files have the points they were written
\* from, tables, snapshots and memtable are ordered by age, the heap of merge_runs has
\* the next point of every source, and what it yielded is the newest so far.
THEOREM ReadPathInvariant == Spec => []IInv
<1>1. Init => IInv
  BY InitInvariant
<1>2. IInv /\ [Next]_vars => IInv'
  BY NextInvariant
<1> QED BY <1>1, <1>2, PTL DEF Spec

\* query_range answers with the newest version of every key in the interval and the
\* filter, once and in order, for every size of block, format, input and query, before
\* and after a compaction; it raises only over a damaged block in the range.
THEOREM QueriesReturnNewest == Spec => []QueryReturnsNewest
<1>1. IInv => QueryReturnsNewest
  BY DEF IInv
<1> QED BY <1>1, ReadPathInvariant, PTL

\* Every file that was written is accepted by its reader, and every block decodes to
\* the points it was made of unless it was damaged: then it raises, and it alone.
THEOREM WrittenFilesReadBack == Spec => []FilesReadBack
<1>1. IInv => FilesReadBack
  <2> SUFFICES ASSUME IInv, NEW id \in DOMAIN files
               PROVE  /\ ValidIndex(files[id])
                      /\ \A n \in DOMAIN files[id].blocks :
                           ReadBlock(files[id], n).ok <=> n \notin DamagedBlocks(id)
                      /\ DamagedBlocks(id) = {} =>
                           FlattenSeq([n \in DOMAIN files[id].blocks |-> ReadBlock(files[id], n).points])
                             = content[id]
    BY DEF FilesReadBack
  <2> DEFINE file == files[id]
  <2>1. PICK cuts : IsFile(file, content[id], cuts, BrokenOf(id))
    BY DEF IInv, FileInv
  <2>2. file.blocks \in Seq(BlockRecords)
    BY <2>1 DEF IsFile, Laid
  <2>3. DOMAIN file.blocks = 1..Len(file.blocks)
    BY <2>2
  <2>4. \A d \in damaged : /\ d = [id |-> d.id, offset |-> d.offset]
                           /\ d.offset \in DOMAIN files[d.id].data
    BY DEF IInv, FileInv
  <2>5. \A o : o \in BrokenOf(id) <=> [id |-> id, offset |-> o] \in damaged
    <3> TAKE o
    <3>1. [id |-> id, offset |-> o].id = id /\ [id |-> id, offset |-> o].offset = o
      OBVIOUS
    <3>2. o \in BrokenOf(id) <=> \E d \in damaged : d.id = id /\ d.offset = o
      BY DEF BrokenOf
    <3> QED BY <2>4, <3>1, <3>2
  <2>6. \A n \in 1..Len(file.blocks) :
           n \in DamagedBlocks(id) <=> file.blocks[n].offset \in BrokenOf(id)
    BY <2>3, <2>5 DEF DamagedBlocks
  <2>7. \A n \in 1..Len(file.blocks) : ReadBlock(file, n).ok <=> n \notin DamagedBlocks(id)
    <3> HIDE DEF file
    <3> QED BY <2>1, <2>6, BlockRead
  <2>8. ASSUME DamagedBlocks(id) = {} PROVE BrokenOf(id) = {}
    <3> SUFFICES ASSUME NEW o \in BrokenOf(id) PROVE FALSE
      OBVIOUS
    <3>1. o \in DOMAIN file.data
      <4>1. [id |-> id, offset |-> o] \in damaged
        BY <2>5
      <4> QED BY <2>4, <4>1
    <3>2. PICK n \in 1..Len(file.blocks) : file.blocks[n].offset = o
      BY <2>1, <3>1 DEF IsFile, Laid
    <3> QED BY <2>6, <2>8, <3>2
  <2>9. ValidIndex(file)
    BY <2>1, FileIsValid
  <2>10. DamagedBlocks(id) = {} =>
            FlattenSeq([n \in DOMAIN file.blocks |-> ReadBlock(file, n).points]) = content[id]
    <3> HAVE DamagedBlocks(id) = {}
    <3>1. BrokenOf(id) = {}
      BY <2>8
    <3> HIDE DEF file
    <3>2. IsFile(file, content[id], cuts, {})
      BY <2>1, <3>1
    <3> QED BY <3>2, FileFlattens
  <2> QED BY <2>3, <2>7, <2>9, <2>10
<1> QED BY <1>1, ReadPathInvariant, PTL

\* compact_tables keeps the newest version of every key that was flushed and invents
\* none, however many tables it replaces and however often it runs; it fails only when
\* a block is damaged, and then the damaged table is still there.
THEOREM CompactionsKeepNewest == Spec => []CompactionKeepsNewest
<1>1. IInv => CompactionKeepsNewest
  <2> SUFFICES ASSUME IInv PROVE CompactionKeepsNewest
    OBVIOUS
  <2>1. /\ Held \subseteq flushed /\ flushed \subseteq Stamps /\ Covers(Held, flushed)
        /\ job = "failed" => damaged # {}
    BY DEF IInv, HeldInv
  <2>2. ASSUME NEW x \in NewestOf(flushed) PROVE x \in Held
    <3>1. x \in flushed /\ x \in Stamps
      BY <2>1 DEF NewestOf
    <3>2. PICK z \in Held : SameKey(z, x) /\ x.v <= z.v
      BY <2>1, <3>1 DEF Covers
    <3>3. z \in flushed /\ z \in Stamps /\ SameKey(x, z)
      BY <2>1, <3>2 DEF SameKey
    <3>4. z.v <= x.v
      BY <3>3 DEF NewestOf
    <3>5. x.v = z.v
      <4>1. x.v \in Int /\ z.v \in Int
        BY <3>1, <3>3, StampFacts
      <4> QED BY <3>2, <3>4, <4>1
    <3> QED BY <3>1, <3>2, <3>3, <3>5, SameStamp
  <2>3. \A d \in damaged : d.id \in DOMAIN files
    BY DEF IInv, FileInv
  <2> QED BY <2>1, <2>2, <2>3 DEF CompactionKeepsNewest, Held
<1> QED BY <1>1, ReadPathInvariant, PTL

\* The state has its shape: each source has one point in the heap, one point at most
\* waits to be yielded, and nothing is left of a job that is over.
THEOREM ReadPathTyped == Spec => []ReadPathTypeOK
<1>1. IInv => ReadPathTypeOK
  <2> SUFFICES ASSUME IInv PROVE ReadPathTypeOK
    OBVIOUS
  <2>1. /\ job \in {"idle", "write", "query", "compact", "answered", "raised", "failed"}
        /\ DOMAIN files \subseteq 1..(nextId - 1) /\ DOMAIN content = DOMAIN files
    BY DEF IInv, ConfigInv, FileInv
  <2>2. /\ DOMAIN ordinal = DOMAIN sources
        /\ \A s \in DOMAIN sources : ordinal[s] \in 0..Len(sources[s])
        /\ job = "idle" => Idle
        /\ ~Merging => heap = {} /\ winner = NoPoint
    BY DEF IInv, SourceInv
  <2>3. job = "idle" => writing = NoFile
    BY DEF IInv, WritingInv
  <2>4. \A x, y \in heap : x.priority = y.priority => x = y
    BY <2>2 DEF IInv, MergeInv, HeapInv
  <2>5. \A x, y \in winner : x = y
    BY <2>2 DEF IInv, MergeInv, PoppedInv, NoPoint
  <2> QED BY <2>1, <2>2, <2>3, <2>4, <2>5 DEF ReadPathTypeOK
<1> QED BY <1>1, ReadPathInvariant, PTL

-----------------------------------------------------------------------------
(* Aggregates.                                                             *)

Distinct(S) == \A x, y \in S : x.v = y.v => x = y

Waiting == UNION {ToSet(snapshots[n]) : n \in 1..Len(snapshots)}

All == flushed \cup ToSet(memtable) \cup Waiting
         \cup (IF Flushing THEN ToSet(writing.points) ELSE {})

\* No two points have the same value, and what was answered is what was accumulated.
AggregatesInv ==
    /\ Distinct(All)
    /\ job = "answered" => aggregates = Aggregate(output, query)

\* There are no aggregates before the first answer.
LEMMA InitAggregates == Init => AggregatesInv
<1> SUFFICES ASSUME Init PROVE AggregatesInv
  OBVIOUS
<1>1. PICK input \in Inputs :
         /\ snapshots = [n \in DOMAIN input.snapshots |-> Stamped(input.snapshots[n], n)]
         /\ memtable = Stamped(input.memtable, Len(input.snapshots) + 1)
  BY DEF Init
<1>2. AgeInv /\ job = "idle" /\ flushed = {}
  BY InitInvariant DEF Init, IInv
<1> DEFINE keys == input.snapshots
           max == Len(keys)
           all == Append(keys, input.memtable)
           X == Seq([t : Timestamps, p : Int])
<1>3. /\ keys \in Seq(X) /\ input.memtable \in X
      /\ \A n \in DOMAIN all : InOrder(all[n])
  BY InputsAssumption
<1> HIDE DEF X
<1>4. /\ max \in Nat /\ DOMAIN keys = 1..max /\ DOMAIN all = 1..(max + 1)
      /\ all[max + 1] = input.memtable /\ \A n \in 1..max : all[n] = keys[n] /\ keys[n] \in X
  BY <1>3
<1>5. InOrder(input.memtable) /\ \A n \in 1..max : InOrder(keys[n])
  <2>1. max + 1 \in 1..(max + 1) /\ \A n \in 1..max : n \in 1..(max + 1)
    BY <1>4
  <2> HIDE DEF all, max
  <2> QED BY <1>3, <1>4, <2>1
<1>6. Distinct(ToSet(memtable))
  <2>1. max + 1 \in Nat
    BY <1>4
  <2> HIDE DEF max
  <2> QED BY <1>1, <1>3, <1>5, <2>1, StampedFacts DEF X, max, Distinct
<1>7. DOMAIN snapshots = 1..max /\ Len(snapshots) = max
  <2>1. snapshots = [n \in 1..max |-> Stamped(keys[n], n)]
    BY <1>1, <1>4
  <2> HIDE DEF max
  <2> QED BY <1>4, <2>1
<1>8. \A n \in 1..max : Distinct(ToSet(snapshots[n]))
  <2> TAKE n \in 1..max
  <2>1. n \in Nat /\ snapshots[n] = Stamped(keys[n], n)
    BY <1>1, <1>4
  <2>2. keys[n] \in X /\ InOrder(keys[n])
    BY <1>4, <1>5
  <2> HIDE DEF keys
  <2> QED BY <2>1, <2>2, StampedFacts DEF X, Distinct
<1> HIDE DEF max
<1>9. ASSUME NEW x \in All, NEW y \in All, x.v = y.v PROVE x = y
  <2>1. \A z \in All : z \in ToSet(memtable) \/ \E n \in 1..max : z \in ToSet(snapshots[n])
    BY <1>2, <1>7 DEF All, Waiting, Flushing
  <2>2. \A z \in All : z.v \in Int
    <3>1. Good(memtable) /\ snapshots \in Seq(Seq(Stamps))
      BY InitInvariant DEF IInv, ConfigInv
    <3>2. \A n \in 1..max : snapshots[n] \in Seq(Stamps)
      <4> DEFINE S == Seq(Stamps)
      <4> HIDE DEF S
      <4>1. snapshots \in Seq(S)
        BY <3>1 DEF S
      <4>2. \A n \in 1..max : snapshots[n] \in S
        BY <1>7, <4>1
      <4> QED BY <4>2 DEF S
    <3>3. ToSet(memtable) \subseteq Stamps
      BY <3>1, GoodFacts
    <3>4. \A n \in 1..max : ToSet(snapshots[n]) \subseteq Stamps
      <4> TAKE n \in 1..max
      <4>1. snapshots[n] \in Seq(Stamps)
        BY <3>2
      <4> HIDE DEF Stamps
      <4> QED BY <4>1 DEF ToSet
    <3> QED BY <2>1, <3>3, <3>4, StampFacts
  <2>3. x.v \in Int /\ y.v \in Int
    BY <2>2
  <2>4. \A m, n \in 1..max : m < n => Older(ToSet(snapshots[m]), ToSet(snapshots[n]))
    BY <1>2, <1>7 DEF AgeInv
  <2>5. \A n \in 1..max : Older(ToSet(snapshots[n]), ToSet(memtable))
    BY <1>2, <1>7 DEF AgeInv
  <2>6. CASE x \in ToSet(memtable) /\ y \in ToSet(memtable)
    BY <1>6, <1>9, <2>6 DEF Distinct
  <2>7. CASE x \in ToSet(memtable) /\ \E n \in 1..max : y \in ToSet(snapshots[n])
    BY <1>9, <2>3, <2>5, <2>7 DEF Older
  <2>8. CASE y \in ToSet(memtable) /\ \E n \in 1..max : x \in ToSet(snapshots[n])
    BY <1>9, <2>3, <2>5, <2>8 DEF Older
  <2>9. ASSUME NEW m \in 1..max, x \in ToSet(snapshots[m]),
               NEW n \in 1..max, y \in ToSet(snapshots[n])
        PROVE  x = y
    <3>1. m \in Int /\ n \in Int
      BY <1>4
    <3>2. ~(m < n) /\ ~(n < m)
      BY <1>9, <2>3, <2>4, <2>9 DEF Older
    <3>3. m = n
      BY <3>1, <3>2
    <3> QED BY <1>8, <1>9, <2>9, <3>3 DEF Distinct
  <2> QED BY <2>1, <2>6, <2>7, <2>8, <2>9
<1> QED BY <1>2, <1>9 DEF AggregatesInv, Distinct

\* AggregatesInv for a step that answers nothing.
LEMMA AggregatesSame ==
    ASSUME AggregatesInv, UNCHANGED <<flushed, memtable, snapshots>>, job' # "answered",
           Flushing' => Flushing /\ writing'.points = writing.points
    PROVE  AggregatesInv'
<1>1. Waiting' = Waiting
  BY DEF Waiting
<1>2. All' \subseteq All
  BY <1>1 DEF All
<1> QED BY <1>2 DEF AggregatesInv, Distinct

\* AggregatesInv is inductive with IInv.
LEMMA NextAggregates == IInv /\ AggregatesInv /\ [Next]_vars => AggregatesInv'
<1> SUFFICES ASSUME IInv, AggregatesInv, [Next]_vars PROVE AggregatesInv'
  OBVIOUS
<1>1. CASE StartFlush
  <2> DEFINE max == Len(snapshots)
  <2>1. /\ job' = "write" /\ snapshots' = Tail(snapshots) /\ snapshots # <<>>
        /\ writing'.points = Head(snapshots) /\ UNCHANGED <<flushed, memtable>>
    BY <1>1 DEF StartFlush, WriteFile, NoFile
  <2>2. /\ max \in Nat \ {0} /\ Len(snapshots') = max - 1 /\ Head(snapshots) = snapshots[1]
        /\ \A n \in 1..(max - 1) : snapshots'[n] = snapshots[n + 1]
    <3> DEFINE S == Seq(Stamps)
    <3>1. snapshots \in Seq(S)
      BY DEF IInv, ConfigInv
    <3> HIDE DEF S
    <3>2. max \in Nat \ {0} /\ Len(Tail(snapshots)) = max - 1 /\ Head(snapshots) = snapshots[1]
          /\ \A n \in 1..(max - 1) : Tail(snapshots)[n] = snapshots[n + 1]
      BY <2>1, <3>1
    <3> QED BY <2>1, <3>2
  <2>3. ToSet(writing'.points) \subseteq Waiting
    <3>1. 1 \in 1..max
      BY <2>2
    <3> QED BY <2>1, <2>2, <3>1 DEF Waiting
  <2>4. Waiting' \subseteq Waiting
    <3> SUFFICES ASSUME NEW n \in 1..(max - 1) PROVE ToSet(snapshots'[n]) \subseteq Waiting
      BY <2>2 DEF Waiting
    <3>1. n + 1 \in 1..max /\ snapshots'[n] = snapshots[n + 1]
      BY <2>2
    <3> QED BY <3>1 DEF Waiting
  <2>5. All' \subseteq All
    BY <2>1, <2>3, <2>4 DEF All
  <2> QED BY <2>1, <2>5 DEF AggregatesInv, Distinct
<1>2. CASE FinishFile
  <2>1. /\ job = "write" /\ job' = "idle" /\ UNCHANGED <<memtable, snapshots>>
        /\ flushed' = IF sources = <<>> THEN flushed \cup ToSet(writing.points) ELSE flushed
    BY <1>2 DEF FinishFile
  <2>2. Waiting' = Waiting
    BY <2>1 DEF Waiting
  <2>3. All' \subseteq All
    BY <2>1, <2>2 DEF All, Flushing
  <2> QED BY <2>1, <2>3 DEF AggregatesInv, Distinct
<1>3. CASE EndQuery
  <2>1. /\ job' = "answered" /\ aggregates' = Aggregate(output, query)
        /\ UNCHANGED <<flushed, memtable, snapshots, output, query>>
    BY <1>3 DEF EndQuery, mergeVars
  <2>2. Waiting' = Waiting
    BY <2>1 DEF Waiting
  <2>3. All' \subseteq All
    BY <2>1, <2>2 DEF All, Flushing
  <2>4. aggregates' = Aggregate(output', query')
    BY <2>1
  <2>5. Distinct(All')
    BY <2>3 DEF AggregatesInv, Distinct
  <2> QED BY <2>4, <2>5 DEF AggregatesInv, Distinct
<1>4. CASE WriteBlock
  <2>1. /\ UNCHANGED <<flushed, memtable, snapshots, job, sources>> /\ job = "write"
        /\ writing'.points = writing.points
    <3>1. WritingInv
      BY DEF IInv
    <3> QED BY <1>4, <3>1 DEF WriteBlock, WritingInv, mergeVars
  <2> QED BY <2>1, AggregatesSame DEF Flushing
<1>5. CASE WriteRaises
  BY <1>5, AggregatesSame DEF WriteRaises, Flushing
<1>6. CASE MergePop \/ MergeDuplicate \/ MergeYield
  <2>1. UNCHANGED <<flushed, memtable, snapshots, job>> /\ job \in {"query", "compact"}
    BY <1>6 DEF MergePop, MergeDuplicate, MergeYield, Merging
  <2> QED BY <2>1, AggregatesSame DEF Flushing
<1>7. CASE BeginQuery \/ QueryRaises \/ Forget
  <2>1. UNCHANGED <<flushed, memtable, snapshots>> /\ job' \in {"query", "raised", "idle"}
    BY <1>7 DEF BeginQuery, QueryRaises, Forget
  <2> QED BY <2>1, AggregatesSame DEF Flushing
<1>8. CASE BeginCompact \/ CompactRaises \/ DamageBlock
  <2>1. UNCHANGED <<flushed, memtable, snapshots>> /\ job' \in {"compact", "failed", "idle"}
    BY <1>8 DEF BeginCompact, CompactRaises, DamageBlock
  <2> QED BY <2>1, AggregatesSame DEF Flushing
<1>9. CASE EndCompact
  <2>1. /\ UNCHANGED <<flushed, memtable, snapshots, sources>> /\ job = "compact"
        /\ job' \in {"write", "failed"}
    BY <1>9 DEF EndCompact, WriteFile, mergeVars
  <2>2. sources # <<>>
    <3>1. DOMAIN sources # {}
      BY <2>1 DEF IInv, SourceInv
    <3> QED BY <3>1
  <2> QED BY <2>1, <2>2, AggregatesSame DEF Flushing
<1>10. CASE UNCHANGED vars
  <2>1. /\ UNCHANGED <<flushed, memtable, snapshots, job, sources, writing, output, query, aggregates>>
    BY <1>10 DEF vars, mergeVars
  <2>2. All' = All
    BY <2>1 DEF All, Waiting, Flushing
  <2>3. job' = "answered" => aggregates' = Aggregate(output', query')
    BY <2>1 DEF AggregatesInv
  <2> QED BY <2>2, <2>3 DEF AggregatesInv, Distinct
<1> QED BY <1>1, <1>2, <1>3, <1>4, <1>5, <1>6, <1>7, <1>8, <1>9, <1>10 DEF Next

\* What is accumulated over the points of an answer is what they have for each parameter.
LEMMA AggregatesFollow ==
    ASSUME IInv, AggregatesInv
    PROVE  AggregatesMatch
<1> SUFFICES ASSUME job = "answered" PROVE AggregatesMatch
  BY DEF AggregatesMatch
<1> DEFINE max == Len(output)
<1>1. output \in Seq(Stamps)
  BY DEF IInv, SourceInv
<1>2. /\ max \in Nat /\ DOMAIN output = 1..max
      /\ \A n \in 1..max : output[n] \in Stamps /\ output[n] \in ToSet(output)
      /\ \A x : x \in ToSet(output) <=> \E n \in 1..max : x = output[n]
  BY <1>1 DEF ToSet
<1>3. output \in Seq(Points)
  <2>1. \A n \in 1..max : output[n] \in Points
    BY <1>2, StampFacts
  <2>2. output = [n \in 1..max |-> output[n]]
    BY <1>1
  <2>3. output \in [1..max -> Points]
    BY <2>1, <2>2
  <2> QED BY <1>2, <2>3
<1>4. \A m, n \in 1..max : output[m].v = output[n].v => m = n
  <2> SUFFICES ASSUME NEW m \in 1..max, NEW n \in 1..max, output[m].v = output[n].v
               PROVE  m = n
    OBVIOUS
  <2>1. /\ ToSet(output) = {x \in NewestOf(flushed \cup ToSet(memtable)) : InRange(x, query)}
        /\ \A i, j \in DOMAIN output : i < j => KeyBefore(output[i], output[j])
    BY DEF IInv, QueryReturnsNewest
  <2>2. output[m] \in All /\ output[n] \in All
    BY <1>2, <2>1 DEF NewestOf, All
  <2>3. output[m] = output[n]
    BY <2>2 DEF AggregatesInv, Distinct
  <2>4. ~KeyBefore(output[m], output[n]) /\ ~KeyBefore(output[n], output[m])
    BY <1>2, <2>3, KeyOrder
  <2>5. ~(m < n) /\ ~(n < m)
    BY <1>2, <2>1, <2>4
  <2> QED BY <1>2, <2>5
<1>5. aggregates = Aggregate(output, query)
  BY DEF AggregatesInv
<1>6. ParametersOf(output) = {x.p : x \in ToSet(output)}
  BY <1>2 DEF ParametersOf
<1>7. DOMAIN aggregates = IF query.filtered THEN query.parameters
                          ELSE {x.p : x \in ToSet(output)}
  BY <1>5, <1>6 DEF Aggregate
<1> DEFINE found(p) == {x.v : x \in {y \in ToSet(output) : y.p = p}}
<1>8. ASSUME NEW p \in DOMAIN aggregates
      PROVE  /\ aggregates[p].count = Cardinality(found(p))
             /\ found(p) # {} => /\ aggregates[p].min = MinOf(found(p))
                                 /\ aggregates[p].max = MaxOf(found(p))
                                 /\ aggregates[p].total = FoldSet(+, 0, found(p))
  <2>1. aggregates[p] = Accumulate(output, p)
    BY <1>5 DEF Aggregate
  <2>2. SumsUp(Accumulate(output, p), ValuesOf(output, p, max))
    BY <1>3, <1>4, AccumulateSums
  <2>3. found(p) = ValuesOf(output, p, max)
    BY <1>2 DEF ValuesOf
  <2> DEFINE S == found(p)
             a == aggregates[p]
  <2> HIDE DEF S, a
  <2>4. SumsUp(a, S)
    BY <2>1, <2>2, <2>3 DEF S, a
  <2>5. a.count = Cardinality(S) /\ a.total = FoldSet(+, 0, S)
    BY <2>4 DEF SumsUp, SumOf
  <2>6. S # {} => a.min = MinOf(S) /\ a.max = MaxOf(S)
    <3> HAVE S # {}
    <3>1. /\ a.min \in S /\ \A y \in S : a.min <= y
          /\ a.max \in S /\ \A y \in S : y <= a.max
          /\ \A y \in S : y \in Int
      BY <2>4 DEF SumsUp
    <3>2. MinOf(S) \in S /\ \A y \in S : MinOf(S) <= y
      BY <3>1 DEF MinOf
    <3>3. MaxOf(S) \in S /\ \A y \in S : y <= MaxOf(S)
      BY <3>1 DEF MaxOf
    <3> QED BY <3>1, <3>2, <3>3
  <2> QED BY <2>5, <2>6 DEF S, a
<1> QED BY <1>7, <1>8 DEF AggregatesMatch

\* The aggregates of an answer are the number, least, greatest and sum of the values
\* of its points, a row for each parameter it found or was asked for, whatever the
\* order of the points and of the sum.
THEOREM AggregatesAreRight == Spec => []AggregatesMatch
<1>1. Init => AggregatesInv
  BY InitAggregates
<1>2. IInv /\ AggregatesInv /\ [Next]_vars => AggregatesInv'
  BY NextAggregates
<1>3. IInv /\ AggregatesInv => AggregatesMatch
  BY AggregatesFollow
<1> QED BY <1>1, <1>2, <1>3, ReadPathInvariant, PTL DEF Spec
=============================================================================
