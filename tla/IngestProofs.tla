---------------------------- MODULE IngestProofs ----------------------------
(***************************************************************************)
(* What holds of IngestService, and of the programs of Pipeline that run   *)
(* it, for every value of their constants: any number of producers, any    *)
(* bounds of the queue and of a batch, any policy.                         *)
(*                                                                         *)
(* Shape says what the worker holds at each of its stages; the other       *)
(* invariants follow the frames: where each is (PlaceInv), in which order  *)
(* (OrderInv), which rows they became (RowsInv), what the counters say of  *)
(* them (CountersAddUp, GapInv) and what stop() promises (DrainInv).       *)
(***************************************************************************)
EXTENDS Pipeline, FiniteSetTheorems, SequenceTheorems, TLAPS

\* Producers: a frame in hand bears its producer's name.
HandShape ==
    /\ policy \in Policies /\ batchMaxMs \in BatchMaxMs
    /\ pc \in [Producers -> {"idle", "put", "evict", "retry"}]
    /\ frame \in [Producers -> Frames \cup {<<>>}]
    /\ \A p \in Producers : pc[p] # "idle" => frame[p] \in Frames /\ frame[p].by = p
    /\ nextSeq \in 1..(MaxFrames + 1)
    /\ evicted \subseteq 1..MaxFrames /\ refused \subseteq 1..MaxFrames
    /\ dropped \in Nat

QueueShape == q \in Seq(Frames) /\ (QueueMax > 0 => Len(q) <= QueueMax)

\* What the worker has at each of its stages.
WorkerShape ==
    /\ stage \in Stages /\ after \in {"check", "get", "done"}
    /\ batch \in Seq(Frames) /\ writing \in Seq(Frames) /\ taken \in Seq(Frames)
    /\ batchPoints \in Nat /\ lastSeq \in Nat /\ seqGaps \in Nat
    /\ framesIn \in Nat /\ rowsOut \in Nat /\ pointsOut \in Nat
    /\ stage # "storing" => writing = <<>>
    /\ stage = "storing" => batch = <<>> /\ batchPoints = 0
    /\ stage \in {"done", "dead"} => batch = <<>>

StoreShape ==
    /\ stored \in Seq(Frames) /\ failed \in Seq(Frames)
    /\ stage # "dead" => failed = <<>>

Shape == HandShape /\ QueueShape /\ WorkerShape /\ StoreShape

\* No frame is in it twice.
Distinct(s) == \A m, n \in DOMAIN s : s[m].seq = s[n].seq => m = n

\* These sets share nothing and make up all.
Split(all, hand, queue, worker, out, no) ==
    /\ all = hand \cup queue \cup worker \cup out \cup no
    /\ hand \cap (queue \cup worker \cup out \cup no) = {}
    /\ queue \cap (worker \cup out \cup no) = {}
    /\ worker \cap (out \cup no) = {}
    /\ out \cap no = {}

\* Every frame is in one place, and there once.
PlaceInv ==
    /\ Split(1..(nextSeq - 1), InHand, SeqsOf(q), SeqsOf(taken), evicted, refused)
    /\ \A p, r \in Producers :
          pc[p] # "idle" /\ pc[r] # "idle" /\ frame[p].seq = frame[r].seq => p = r
    /\ Distinct(q) /\ Distinct(taken)
    /\ dropped = Cardinality(refused)

\* Of each producer, the frames of s are in their order, and are older than f.
InOrder(s) == \A m, n \in DOMAIN s : m < n /\ s[m].by = s[n].by => s[m].seq < s[n].seq
Below(s, f) == \A n \in DOMAIN s : s[n].by = f.by => s[n].seq < f.seq

\* The frames of a producer are in their order in what was taken, in the queue,
\* and from the one to the other; the one in its hand is the last.
OrderInv ==
    /\ InOrder(taken) /\ InOrder(q)
    /\ \A n \in DOMAIN q : Below(taken, q[n])
    /\ \A p \in Producers : pc[p] # "idle" => Below(taken, frame[p]) /\ Below(q, frame[p])

\* What the storage took or refused, what it was called with, and the batch.
RowsInv == AreRowsOf(stored \o failed \o writing \o batch, taken)

\* Without a gap the frames taken follow each other.
GapInv ==
    /\ lastSeq = IF taken = <<>> THEN 0 ELSE taken[Len(taken)].seq
    /\ seqGaps = 0 => \A n \in DOMAIN taken : taken[n].seq = taken[1].seq + (n - 1)

\* Seqs of frames taken that make no row.
NoRow == {taken[n].seq : n \in {m \in DOMAIN taken : taken[m].points = 0}}

\* Seqs past the queue that append_rows did not refuse.
Passed == SeqsOf(stored) \cup SeqsOf(writing) \cup SeqsOf(batch) \cup evicted \cup NoRow

\* What stop() found is on its way or at its end; a worker that is leaving has
\* left nothing of it in the queue.
DrainInv ==
    /\ beforeStop \subseteq Passed \cup SeqsOf(failed) \cup SeqsOf(q)
    /\ Leaving /\ stage # "dead" => beforeStop \subseteq Passed

-----------------------------------------------------------------------------
(* Sequences of frames.                                                    *)

LEMMA FrameFacts ==
    /\ \A f \in Frames : f.seq \in 1..MaxFrames /\ f.points \in Nat /\ f.by \in Producers
    /\ \A s \in Seq(Frames) :
          /\ Len(s) \in Nat /\ DOMAIN s = 1..Len(s)
          /\ \A n \in DOMAIN s : s[n] \in Frames
<1>1. UNION {FrameSizes[p] : p \in Producers} \subseteq Nat
  BY IngestAssumption
<1>2. ASSUME NEW f \in Frames PROVE f.seq \in 1..MaxFrames /\ f.points \in Nat /\ f.by \in Producers
  BY <1>1 DEF Frames
<1>3. ASSUME NEW s \in Seq(Frames)
      PROVE  /\ Len(s) \in Nat /\ DOMAIN s = 1..Len(s)
             /\ \A n \in DOMAIN s : s[n] \in Frames
  BY ElementOfSeq, LenProperties
<1> QED BY <1>2, <1>3

LEMMA IntervalSize ==
    ASSUME NEW n \in Nat
    PROVE  IsFiniteSet(1..n) /\ Cardinality(1..n) = n
<1>1. 1 \in Int /\ n \in Int
  OBVIOUS
<1>2. /\ IsFiniteSet(1..n)
      /\ Cardinality(1..n) = IF 1 > n THEN 0 ELSE n - 1 + 1
  BY <1>1, FS_Interval
<1> QED BY <1>2

LEMMA PointsMember ==
    ASSUME NEW s \in Seq(Frames), NEW x
    PROVE  x \in Points(s) <=> \E n \in 1..Len(s) : \E k \in 1..s[n].points : x = <<n, k>>
<1> DEFINE Of(n) == {n} \X (1..s[n].points)
<1>1. DOMAIN s = 1..Len(s)
  BY FrameFacts
<1>2. x \in UNION {Of(n) : n \in 1..Len(s)} <=> \E n \in 1..Len(s) : x \in Of(n)
  OBVIOUS
<1>3. ASSUME NEW n \in 1..Len(s)
      PROVE  x \in Of(n) <=> \E k \in 1..s[n].points : x = <<n, k>>
  OBVIOUS
<1> QED BY <1>1, <1>2, <1>3 DEF Points

LEMMA PointsFinite ==
    ASSUME NEW s \in Seq(Frames)
    PROVE  IsFiniteSet(Points(s)) /\ SumPoints(s) \in Nat
<1> DEFINE Of == [n \in DOMAIN s |-> {n} \X (1..s[n].points)]
           All == {{n} \X (1..s[n].points) : n \in DOMAIN s}
<1>1. Of \in Surjection(DOMAIN s, All)
  BY DEF Surjection
<1>2. IsFiniteSet(DOMAIN s)
  BY FrameFacts, IntervalSize
<1>3. IsFiniteSet(All)
  BY <1>1, <1>2, FS_Surjection
<1>4. \A n \in DOMAIN s : IsFiniteSet({n} \X (1..s[n].points))
  <2> TAKE n \in DOMAIN s
  <2>1. s[n].points \in Nat
    BY FrameFacts
  <2>2. IsFiniteSet({n})
    BY FS_Singleton
  <2>3. IsFiniteSet(1..s[n].points)
    BY <2>1, IntervalSize
  <2> QED BY <2>2, <2>3, FS_Product
<1>5. \A T \in All : IsFiniteSet(T)
  BY <1>4
<1>6. IsFiniteSet(Points(s))
  BY <1>3, <1>5, FS_UNION DEF Points
<1> QED BY <1>6, FS_CardinalityType DEF SumPoints

LEMMA SumOfConcat ==
    ASSUME NEW s \in Seq(Frames), NEW t \in Seq(Frames)
    PROVE  SumPoints(s \o t) = SumPoints(s) + SumPoints(t)
<1> DEFINE u == s \o t
           Shift == [x \in Points(t) |-> <<x[1] + Len(s), x[2]>>]
           Rest == Points(u) \ Points(s)
<1>1. /\ u \in Seq(Frames) /\ Len(u) = Len(s) + Len(t)
      /\ Len(s) \in Nat /\ Len(t) \in Nat
      /\ \A n \in 1..Len(s) : u[n] = s[n]
      /\ \A n \in 1..Len(t) : u[n + Len(s)] = t[n]
  BY FrameFacts, ConcatProperties
<1> HIDE DEF u
<1>2. Points(s) \subseteq Points(u)
  <2> SUFFICES ASSUME NEW x \in Points(s) PROVE x \in Points(u)
    OBVIOUS
  <2>1. PICK n \in 1..Len(s) : \E k \in 1..s[n].points : x = <<n, k>>
    BY PointsMember
  <2>2. n \in 1..Len(u) /\ u[n] = s[n]
    BY <1>1
  <2> QED BY <1>1, <2>1, <2>2, PointsMember
<1>3. Shift \in Bijection(Points(t), Rest)
  <2>1. ASSUME NEW n \in 1..Len(t), NEW k \in 1..t[n].points
        PROVE  <<n + Len(s), k>> \in Rest
    <3>1. n + Len(s) \in 1..Len(u) /\ n + Len(s) \notin 1..Len(s)
      BY <1>1
    <3>2. u[n + Len(s)].points = t[n].points
      BY <1>1
    <3>3. <<n + Len(s), k>> \in Points(u)
      BY <1>1, <3>1, <3>2, PointsMember
    <3>4. <<n + Len(s), k>> \notin Points(s)
      BY <3>1, PointsMember
    <3> QED BY <3>3, <3>4
  <2>2. Shift \in [Points(t) -> Rest]
    <3> SUFFICES ASSUME NEW x \in Points(t) PROVE Shift[x] \in Rest
      OBVIOUS
    <3>1. PICK n \in 1..Len(t) : \E k \in 1..t[n].points : x = <<n, k>>
      BY PointsMember
    <3> QED BY <2>1, <3>1
  <2>3. ASSUME NEW x \in Points(t), NEW y \in Points(t), Shift[x] = Shift[y]
        PROVE  x = y
    <3>1. PICK n \in 1..Len(t) : \E k \in 1..t[n].points : x = <<n, k>>
      BY PointsMember
    <3>2. PICK m \in 1..Len(t) : \E k \in 1..t[m].points : y = <<m, k>>
      BY PointsMember
    <3> QED BY <1>1, <2>3, <3>1, <3>2
  <2>4. ASSUME NEW y \in Rest PROVE \E x \in Points(t) : Shift[x] = y
    <3>0. PICK n \in 1..Len(u) : \E k \in 1..u[n].points : y = <<n, k>>
      BY <1>1, PointsMember
    <3>1. PICK k \in 1..u[n].points : y = <<n, k>>
      BY <3>0
    <3>2. n \notin 1..Len(s)
      BY <1>1, <3>1, PointsMember
    <3>3. n - Len(s) \in 1..Len(t) /\ u[n] = t[n - Len(s)]
      <4>1. n - Len(s) \in 1..Len(t)
        BY <1>1, <3>2
      <4>2. n - Len(s) + Len(s) = n
        BY <1>1
      <4> QED BY <1>1, <4>1, <4>2
    <3>4. <<n - Len(s), k>> \in Points(t)
      BY <3>3, PointsMember
    <3>5. Shift[<<n - Len(s), k>>] = y
      BY <1>1, <3>1, <3>4
    <3> QED BY <3>4, <3>5
  <2> QED
    BY <2>2, <2>3, <2>4 DEF Bijection, Injection, Surjection, IsInjective
<1>4. IsFiniteSet(Rest) /\ Cardinality(Rest) = SumPoints(t)
  BY <1>3, PointsFinite, FS_Bijection DEF SumPoints, ExistsBijection
<1>5. Points(u) = Points(s) \cup Rest /\ Points(s) \cap Rest = {}
  BY <1>2
<1>6. Cardinality(Points(s) \cap Rest) = 0
  BY <1>5, FS_EmptySet
<1>7. Cardinality(Points(u)) = Cardinality(Points(s)) + Cardinality(Rest) - 0
  BY <1>4, <1>5, <1>6, PointsFinite, FS_Union
<1> QED BY <1>4, <1>7, PointsFinite DEF SumPoints, u

LEMMA SumOfNone == SumPoints(<<>>) = 0
BY FS_EmptySet DEF SumPoints, Points

LEMMA SumOfAppend ==
    ASSUME NEW s \in Seq(Frames), NEW f \in Frames
    PROVE  SumPoints(Append(s, f)) = SumPoints(s) + f.points
<1>1. Append(s, f) = s \o <<f>> /\ <<f>> \in Seq(Frames)
  BY AppendIsConcat
<1>2. Points(<<f>>) = {1} \X (1..f.points)
  BY DEF Points
<1>3. Cardinality({1} \X (1..f.points)) = f.points
  <2>1. f.points \in Nat
    BY FrameFacts
  <2>2. IsFiniteSet({1}) /\ Cardinality({1}) = 1
    BY FS_Singleton
  <2>3. IsFiniteSet(1..f.points) /\ Cardinality(1..f.points) = f.points
    BY <2>1, IntervalSize
  <2>4. Cardinality({1} \X (1..f.points)) = 1 * f.points
    BY <2>2, <2>3, FS_Product
  <2> QED BY <2>1, <2>4
<1>4. SumPoints(s \o <<f>>) = SumPoints(s) + SumPoints(<<f>>)
  BY <1>1, SumOfConcat
<1> QED BY <1>1, <1>2, <1>3, <1>4 DEF SumPoints

\* The frame taken next adds its row, if it has points, and no other.
LEMMA RowOfNext ==
    ASSUME NEW frames \in Seq(Frames), NEW rows \in Seq(Frames), NEW f \in Frames,
           AreRowsOf(rows, frames)
    PROVE  AreRowsOf(IF f.points = 0 THEN rows ELSE Append(rows, f), Append(frames, f))
<1> DEFINE more == Append(frames, f)
           N == Len(frames)
           With(s, n) == {m \in 1..n : s[m].points > 0}
<1>1. /\ N \in Nat /\ Len(more) = N + 1 /\ DOMAIN frames = 1..N
      /\ more[N + 1] = f
      /\ \A n \in 1..N : more[n] = frames[n]
      /\ Len(rows) \in Nat
      /\ f.points \in Nat
      /\ \A n \in 1..N : frames[n].points \in Nat
      /\ DOMAIN more = 1..(N + 1)
  BY FrameFacts, AppendProperties
<1> HIDE DEF more, N, With
<1>2. ASSUME NEW n \in 1..N PROVE With(more, n) = With(frames, n)
  BY <1>1 DEF With
<1>3. ASSUME NEW n \in 1..N PROVE RowsAmong(more, n) = RowsAmong(frames, n)
  BY <1>2 DEF RowsAmong, With
<1>4. \A n \in 0..N : IsFiniteSet(With(frames, n))
  <2> TAKE n \in 0..N
  <2>1. IsFiniteSet(1..n)
    BY FS_Interval
  <2> QED BY <2>1, FS_Subset DEF With
<1>5. Len(rows) = Cardinality(With(frames, N))
  BY DEF AreRowsOf, RowsAmong, With, N
<1>6. CASE f.points = 0
  <2>1. With(more, N + 1) = With(frames, N)
    BY <1>1, <1>6 DEF With
  <2>2. RowsAmong(more, N + 1) = Len(rows)
    BY <1>5, <2>1 DEF RowsAmong, With
  <2>3. ASSUME NEW n \in DOMAIN more, more[n].points > 0
        PROVE  rows[RowsAmong(more, n)] = more[n]
    <3>1. n \in 1..N
      BY <1>1, <1>6, <2>3
    <3> QED BY <1>1, <1>3, <2>3, <3>1 DEF AreRowsOf
  <2> QED BY <1>1, <1>6, <2>2, <2>3 DEF AreRowsOf, more
<1>7. CASE f.points # 0
  <2>1. With(more, N + 1) = With(frames, N) \cup {N + 1}
    BY <1>1, <1>7 DEF With
  <2>2. Cardinality(With(frames, N) \cup {N + 1}) = Cardinality(With(frames, N)) + 1
    <3>1. N + 1 \notin With(frames, N)
      BY <1>1 DEF With
    <3>2. IsFiniteSet(With(frames, N))
      BY <1>1, <1>4
    <3> QED BY <3>1, <3>2, FS_AddElement
  <2>3. RowsAmong(more, N + 1) = Len(rows) + 1
    BY <1>5, <2>1, <2>2 DEF RowsAmong, With
  <2>4. /\ Len(Append(rows, f)) = Len(rows) + 1
        /\ Append(rows, f)[Len(rows) + 1] = f
        /\ \A n \in 1..Len(rows) : Append(rows, f)[n] = rows[n]
    BY AppendProperties
  <2>5. ASSUME NEW n \in DOMAIN more, more[n].points > 0
        PROVE  Append(rows, f)[RowsAmong(more, n)] = more[n]
    <3>1. CASE n = N + 1
      BY <1>1, <2>3, <2>4, <3>1
    <3>2. CASE n \in 1..N
      <4>1. With(frames, n) \in SUBSET With(frames, N) /\ n \in With(frames, n)
        BY <1>1, <2>5, <3>2 DEF With
      <4>2. Cardinality(With(frames, n)) <= Len(rows)
        BY <1>1, <1>4, <1>5, <4>1, FS_Subset
      <4>3. Cardinality(With(frames, n)) \in Nat /\ Cardinality(With(frames, n)) # 0
        <5>1. IsFiniteSet(With(frames, n)) /\ With(frames, n) # {}
          BY <1>1, <1>4, <3>2, <4>1
        <5> QED BY <5>1, FS_CardinalityType, FS_EmptySet
      <4>4. RowsAmong(frames, n) \in 1..Len(rows)
        BY <1>1, <4>2, <4>3 DEF RowsAmong, With
      <4>5. rows[RowsAmong(frames, n)] = frames[n]
        BY <1>1, <1>2, <2>5, <3>2 DEF AreRowsOf
      <4> QED BY <1>1, <1>3, <2>4, <3>2, <4>4, <4>5
    <3>3. n \in 1..(N + 1) /\ N \in Nat
      BY <1>1, <2>5
    <3>4. n = N + 1 \/ n \in 1..N
      BY <3>3
    <3> QED BY <3>1, <3>2, <3>4
  <2> QED BY <1>1, <1>7, <2>3, <2>4, <2>5 DEF AreRowsOf, more
<1> QED BY <1>6, <1>7

-----------------------------------------------------------------------------
(* Shape.                                                                  *)

LEMMA Bounds == MaxFrames \in Nat /\ QueueMax \in Nat
BY IngestAssumption

LEMMA QueueFacts ==
    ASSUME Shape
    PROVE  /\ Len(q) \in Nat
           /\ q # <<>> =>
                 /\ Head(q) \in Frames /\ Head(q).seq \in 1..MaxFrames /\ Head(q).points \in Nat
                 /\ Tail(q) \in Seq(Frames) /\ Len(Tail(q)) = Len(q) - 1
<1>1. q \in Seq(Frames)
  BY DEF Shape, QueueShape
<1>2. q # <<>> =>
         Head(q) \in Frames /\ Tail(q) \in Seq(Frames) /\ Len(Tail(q)) = Len(q) - 1
  BY <1>1, HeadTailProperties
<1> QED BY <1>1, <1>2, FrameFacts

LEMMA InitShape == Init => Shape
<1> SUFFICES ASSUME Init PROVE Shape OBVIOUS
<1>1. <<>> \in Seq(Frames) /\ Len(<<>>) = 0
  OBVIOUS
<1>2. HandShape
  BY Bounds DEF Init, HandShape
<1>3. QueueShape
  BY <1>1, Bounds DEF Init, QueueShape
<1>4. WorkerShape /\ StoreShape
  BY <1>1 DEF Init, WorkerShape, StoreShape, Stages
<1> QED
  BY <1>2, <1>3, <1>4 DEF Shape

LEMMA WorkerStays ==
    ASSUME Shape, UNCHANGED workerVars, UNCHANGED storageVars
    PROVE  WorkerShape' /\ StoreShape'
BY DEF Shape, WorkerShape, StoreShape, workerVars, storageVars

LEMMA HandStays ==
    ASSUME Shape, UNCHANGED settings, UNCHANGED producerVars
    PROVE  HandShape'
BY DEF Shape, HandShape, settings, producerVars

LEMMA QueueStays == ASSUME Shape, UNCHANGED q PROVE QueueShape'
BY DEF Shape, QueueShape

LEMMA ProduceShape == ASSUME Shape, NEW p \in Producers, Produce(p) PROVE Shape'
<1>1. PICK points \in FrameSizes[p] :
        frame' = [frame EXCEPT ![p] = [seq |-> nextSeq, points |-> points, by |-> p]]
  BY DEF Produce
<1> DEFINE made == [seq |-> nextSeq, points |-> points, by |-> p]
<1>2. nextSeq \in 1..MaxFrames /\ nextSeq' \in 1..(MaxFrames + 1)
  BY Bounds DEF Produce, Shape, HandShape
<1>3. made \in Frames /\ made.by = p
  BY <1>2 DEF Frames
<1>4. frame' = [frame EXCEPT ![p] = made]
  BY <1>1
<1> HIDE DEF made
<1>5. HandShape'
  BY <1>2, <1>3, <1>4 DEF Produce, Shape, HandShape, settings
<1> QED
  BY <1>5, WorkerStays, QueueStays DEF Produce, Shape

LEMMA PutShape == ASSUME Shape, NEW p \in Producers, Put(p) PROVE Shape'
<1>1. frame[p] \in Frames /\ q \in Seq(Frames)
  BY DEF Put, Shape, HandShape, QueueShape
<1>2. QueueShape'
  <2>1. Append(q, frame[p]) \in Seq(Frames) /\ Len(Append(q, frame[p])) = Len(q) + 1
    BY <1>1, AppendProperties
  <2> QED BY <1>1, <2>1, Bounds, QueueFacts DEF Put, Full, Shape, QueueShape
<1>3. HandShape'
  BY DEF Put, Return, Shape, HandShape, settings
<1> QED
  BY <1>2, <1>3, WorkerStays DEF Put, Shape

LEMMA DropShape == ASSUME Shape, NEW p \in Producers, Drop(p) PROVE Shape'
<1>1. frame[p].seq \in 1..MaxFrames
  BY FrameFacts DEF Drop, Shape, HandShape
<1>2. /\ refused' \subseteq 1..MaxFrames /\ dropped' \in Nat
      /\ UNCHANGED <<settings, nextSeq, evicted>>
  <2>1. /\ refused' = refused \cup {frame[p].seq} /\ dropped' = dropped + 1
        /\ UNCHANGED <<settings, nextSeq, evicted>>
    BY DEF Drop
  <2>2. refused \subseteq 1..MaxFrames /\ dropped \in Nat
    BY DEF Shape, HandShape
  <2>3. \A S : refused \subseteq S /\ frame[p].seq \in S => refused' \subseteq S
    BY <2>1
  <2>4. dropped' \in Nat
    BY <2>1, <2>2
  <2> QED BY <1>1, <2>1, <2>2, <2>3, <2>4
<1>3. /\ pc' \in [Producers -> {"idle", "put", "evict", "retry"}]
      /\ frame' \in [Producers -> Frames \cup {<<>>}]
      /\ \A r \in Producers : pc'[r] # "idle" => frame'[r] \in Frames /\ frame'[r].by = r
  BY DEF Drop, Return, Shape, HandShape
<1>4. HandShape'
  BY <1>2, <1>3 DEF Shape, HandShape, settings
<1> QED
  BY <1>4, WorkerStays, QueueStays DEF Drop, Shape

LEMMA FindFullShape == ASSUME Shape, NEW p \in Producers, FindFull(p) PROVE Shape'
<1>1. HandShape'
  BY DEF FindFull, Shape, HandShape, settings
<1> QED
  BY <1>1, WorkerStays, QueueStays DEF FindFull, Shape

LEMMA EvictShape == ASSUME Shape, NEW p \in Producers, Evict(p) PROVE Shape'
<1>1. HandShape'
  <2>1. evicted' \subseteq 1..MaxFrames
    BY QueueFacts DEF Evict, Shape, HandShape
  <2> QED BY <2>1 DEF Evict, Shape, HandShape, settings
<1>2. QueueShape'
  BY Bounds, QueueFacts DEF Evict, Shape, QueueShape
<1> QED
  BY <1>1, <1>2, WorkerStays DEF Evict, Shape

\* What a step of the worker does with these rows: it keeps them as its batch,
\* or hands them to append_rows.
Kept(rows, points) ==
    /\ batch' = rows /\ batchPoints' = points
    /\ UNCHANGED <<writing, rowsOut, pointsOut, after>>

HandedOver(rows, points, next) ==
    /\ rows # <<>>
    /\ batch' = <<>> /\ batchPoints' = 0 /\ writing' = rows
    /\ rowsOut' = rowsOut + Len(rows)
    /\ pointsOut' = pointsOut + points
    /\ stage' = "storing" /\ after' = next

LEMMA KeptShape ==
    ASSUME Shape, NEW rows \in Seq(Frames), NEW points \in Nat,
           Kept(rows, points), stage # "storing", stage # "dead", stage # "done",
           stage' \in Stages \ {"storing", "done", "dead"},
           lastSeq' \in Nat, seqGaps' \in Nat, framesIn' \in Nat, taken' \in Seq(Frames)
    PROVE  WorkerShape'
BY DEF Shape, WorkerShape, Kept

LEMMA HandedOverShape ==
    ASSUME Shape, NEW rows \in Seq(Frames), NEW points \in Nat,
           NEW next \in {"check", "get", "done"}, HandedOver(rows, points, next),
           lastSeq' \in Nat, seqGaps' \in Nat, framesIn' \in Nat, taken' \in Seq(Frames)
    PROVE  WorkerShape'
<1>1. Len(rows) \in Nat /\ <<>> \in Seq(Frames)
  BY FrameFacts
<1>2. rowsOut \in Nat /\ pointsOut \in Nat
  BY DEF Shape, WorkerShape
<1>3. /\ batch' = <<>> /\ batchPoints' = 0 /\ writing' = rows
      /\ rowsOut' = rowsOut + Len(rows) /\ pointsOut' = pointsOut + points
      /\ stage' = "storing" /\ after' = next
  BY DEF HandedOver
<1>4. rowsOut' \in Nat /\ pointsOut' \in Nat
  BY <1>1, <1>2, <1>3
<1> QED BY <1>1, <1>3, <1>4 DEF WorkerShape, Stages

\* The storage is not touched, and the worker is not dead.
LEMMA StoreStays ==
    ASSUME Shape, UNCHANGED storageVars, stage # "dead"
    PROVE  StoreShape'
BY DEF Shape, StoreShape, storageVars

LEMMA FlushEffect ==
    ASSUME NEW rows, NEW points, NEW next, rows # <<>>, FlushRows(rows, points, next)
    PROVE  HandedOver(rows, points, next)
BY DEF FlushRows, HandedOver

LEMMA FlushByTimeEffect ==
    ASSUME FlushByTime
    PROVE  \/ HandedOver(batch, batchPoints, "get")
           \/ Kept(batch, batchPoints) /\ stage' = "get"
<1>1. CASE batch # <<>> /\ batchAge = "due" /\ batchMaxMs > 0
  BY <1>1, FlushEffect DEF FlushByTime
<1>2. CASE ~(batch # <<>> /\ batchAge = "due" /\ batchMaxMs > 0)
  BY <1>2 DEF FlushByTime, Kept
<1> QED BY <1>1, <1>2

LEMMA FinalFlushEffect ==
    ASSUME FinalFlush
    PROVE  \/ HandedOver(batch, batchPoints, "done")
           \/ /\ batch = <<>> /\ batch' = <<>> /\ batchPoints' = 0 /\ stage' = "done"
              /\ UNCHANGED <<writing, rowsOut, pointsOut, after>>
<1>1. CASE batch # <<>>
  BY <1>1, FlushEffect DEF FinalFlush
<1>2. CASE batch = <<>>
  BY <1>2 DEF FinalFlush, FlushRows
<1> QED BY <1>1, <1>2

\* The batch with the row of this frame.
WithRow(f) == IF f.points = 0 THEN batch ELSE Append(batch, f)

LEMMA GetFrameEffect ==
    ASSUME Shape, GetFrame
    PROVE  /\ WithRow(Head(q)) \in Seq(Frames)
           /\ batchPoints + Head(q).points \in Nat
           /\ \/ HandedOver(WithRow(Head(q)), batchPoints + Head(q).points, "check")
              \/ Kept(WithRow(Head(q)), batchPoints + Head(q).points) /\ stage' = "check"
<1> DEFINE f == Head(q)
<1>1. f \in Frames /\ f.points \in Nat /\ batch \in Seq(Frames) /\ batchPoints \in Nat
  BY QueueFacts DEF GetFrame, Shape, WorkerShape
<1>2. IF f.points > 0 /\ BatchFull(WithRow(f), batchPoints + f.points)
      THEN FlushRows(WithRow(f), batchPoints + f.points, "check")
      ELSE Kept(WithRow(f), batchPoints + f.points) /\ stage' = "check"
  BY DEF GetFrame, WithRow, Kept
<1> HIDE DEF f
<1>3. WithRow(f) \in Seq(Frames) /\ batchPoints + f.points \in Nat
  BY <1>1 DEF WithRow
<1>4. f.points > 0 => WithRow(f) # <<>>
  BY <1>1 DEF WithRow
<1>5. \/ HandedOver(WithRow(f), batchPoints + f.points, "check")
      \/ Kept(WithRow(f), batchPoints + f.points) /\ stage' = "check"
  BY <1>2, <1>4, FlushEffect
<1> QED BY <1>3, <1>5 DEF f

LEMMA FlushByTimeShape == ASSUME Shape, FlushByTime PROVE Shape'
<1>1. /\ batch \in Seq(Frames) /\ batchPoints \in Nat
      /\ lastSeq' \in Nat /\ seqGaps' \in Nat /\ framesIn' \in Nat /\ taken' \in Seq(Frames)
      /\ stage = "clock"
  BY DEF FlushByTime, Shape, WorkerShape
<1>2. WorkerShape'
  <2>1. CASE HandedOver(batch, batchPoints, "get")
    BY <1>1, <2>1, HandedOverShape
  <2>2. CASE Kept(batch, batchPoints) /\ stage' = "get"
    BY <1>1, <2>2, KeptShape DEF Stages
  <2> QED BY <2>1, <2>2, FlushByTimeEffect
<1> QED
  BY <1>1, <1>2, HandStays, QueueStays, StoreStays DEF FlushByTime, Shape

LEMMA FinalFlushShape == ASSUME Shape, FinalFlush PROVE Shape'
<1>1. /\ batch \in Seq(Frames) /\ batchPoints \in Nat
      /\ lastSeq' \in Nat /\ seqGaps' \in Nat /\ framesIn' \in Nat /\ taken' \in Seq(Frames)
      /\ stage = "final"
  BY DEF FinalFlush, Shape, WorkerShape
<1>2. WorkerShape'
  <2>1. CASE HandedOver(batch, batchPoints, "done")
    BY <1>1, <2>1, HandedOverShape
  <2>2. CASE /\ batch = <<>> /\ batch' = <<>> /\ batchPoints' = 0 /\ stage' = "done"
             /\ UNCHANGED <<writing, rowsOut, pointsOut, after>>
    BY <1>1, <2>2 DEF Shape, WorkerShape, Stages
  <2> QED BY <2>1, <2>2, FinalFlushEffect
<1> QED
  BY <1>1, <1>2, HandStays, QueueStays, StoreStays DEF FinalFlush, Shape

LEMMA GetFrameShape == ASSUME Shape, GetFrame PROVE Shape'
<1> DEFINE rows == WithRow(Head(q))
           points == batchPoints + Head(q).points
<1>1. rows \in Seq(Frames) /\ points \in Nat
  BY GetFrameEffect
<1>2. HandedOver(rows, points, "check") \/ (Kept(rows, points) /\ stage' = "check")
  BY GetFrameEffect
<1>3. q # <<>> /\ q' = Tail(q) /\ stage = "get"
  BY DEF GetFrame
<1>4. Head(q) \in Frames /\ Head(q).seq \in Nat
  BY <1>3, QueueFacts
<1>5. lastSeq' \in Nat /\ seqGaps' \in Nat /\ framesIn' \in Nat
  BY <1>4 DEF GetFrame, Shape, WorkerShape
<1>6. taken' \in Seq(Frames)
  BY <1>4, AppendProperties DEF GetFrame, Shape, WorkerShape
<1> HIDE DEF rows, points
<1>7. WorkerShape'
  BY <1>1, <1>2, <1>3, <1>5, <1>6, HandedOverShape, KeptShape DEF Stages
<1>8. QueueShape'
  BY <1>3, Bounds, QueueFacts DEF Shape, QueueShape
<1> QED
  BY <1>3, <1>7, <1>8, HandStays, StoreStays DEF GetFrame, Shape

LEMMA StoredShape == ASSUME Shape, Stored PROVE Shape'
<1>1. stored \o writing \in Seq(Frames) /\ <<>> \in Seq(Frames)
  BY ConcatProperties DEF Shape, StoreShape, WorkerShape
<1>2. StoreShape'
  BY <1>1 DEF Stored, Shape, StoreShape
<1>3. WorkerShape'
  BY <1>1 DEF Stored, Shape, WorkerShape, Stages
<1> QED
  BY <1>2, <1>3, HandStays, QueueStays DEF Stored, Shape

LEMMA StoringRaisesShape == ASSUME Shape, StoringRaises PROVE Shape'
<1>1. stored \o writing \in Seq(Frames) /\ failed \o writing \in Seq(Frames)
  BY ConcatProperties DEF Shape, StoreShape, WorkerShape
<1>2. StoreShape'
  BY <1>1 DEF StoringRaises, Shape, StoreShape
<1>3. WorkerShape'
  BY DEF StoringRaises, Shape, WorkerShape, Stages
<1> QED
  BY <1>2, <1>3, HandStays, QueueStays DEF StoringRaises, Shape

\* Steps that only move the worker.
LEMMA MoveShape ==
    ASSUME Shape, CheckStop \/ CheckQueue \/ GetNothing \/ Age
    PROVE  Shape'
<1>1. WorkerShape' /\ StoreShape'
  BY DEF CheckStop, CheckQueue, GetNothing, Age, Shape, WorkerShape, StoreShape, Stages,
         storageVars
<1> QED
  BY <1>1, HandStays, QueueStays DEF CheckStop, CheckQueue, GetNothing, Age, Shape

LEMMA OwnerShape == ASSUME Shape, Start \/ Stop \/ CloseStorage PROVE Shape'
<1>1. WorkerShape' /\ StoreShape'
  BY DEF Start, Stop, CloseStorage, Shape, WorkerShape, StoreShape, Stages, workerVars,
         storageVars
<1> QED
  BY <1>1, HandStays, QueueStays DEF Start, Stop, CloseStorage, Shape

LEMMA NextShape == ASSUME Shape, [Next]_vars PROVE Shape'
<1>1. CASE UNCHANGED vars
  BY <1>1, HandStays, QueueStays, WorkerStays DEF vars, Shape
<1>2. CASE \E p \in Producers : Produce(p) \/ OnFrame(p)
  BY <1>2, ProduceShape, PutShape, DropShape, FindFullShape, EvictShape DEF OnFrame
<1>3. CASE Work \/ Age
  BY <1>3, MoveShape, FlushByTimeShape, GetFrameShape, FinalFlushShape, StoredShape,
     StoringRaisesShape DEF Work
<1> QED
  BY <1>1, <1>2, <1>3, OwnerShape DEF Next

\* Shape holds, whatever the interleaving of producers, worker and owner.
THEOREM ShapeInvariance == Spec => []Shape
<1>1. Init => Shape
  BY InitShape
<1>2. Shape /\ [Next]_vars => Shape'
  BY NextShape
<1> QED BY <1>1, <1>2, PTL DEF Spec

\* IngestTypeOK, for any producers, bounds and policy: the queue never holds more
\* than queue_max_frames, and a worker that ended has handed its batch over
\* (ingest.py 290-310, 384-423).
THEOREM IngestTyped == Spec => []IngestTypeOK
<1>1. Shape => IngestTypeOK
  BY DEF Shape, HandShape, QueueShape, WorkerShape, StoreShape, IngestTypeOK
<1> QED BY <1>1, ShapeInvariance, PTL

-----------------------------------------------------------------------------
(* Every frame is in one place.                                            *)

LEMMA SeqsOfAppend ==
    ASSUME NEW s \in Seq(Frames), NEW f \in Frames
    PROVE  /\ SeqsOf(Append(s, f)) = SeqsOf(s) \cup {f.seq}
           /\ Distinct(s) /\ f.seq \notin SeqsOf(s) => Distinct(Append(s, f))
<1> DEFINE t == Append(s, f)
<1>1. /\ Len(s) \in Nat /\ DOMAIN s = 1..Len(s)
      /\ t \in Seq(Frames) /\ DOMAIN t = 1..(Len(s) + 1) /\ t[Len(s) + 1] = f
      /\ \A n \in 1..Len(s) : t[n] = s[n]
  BY FrameFacts, AppendProperties
<1> HIDE DEF t
<1>2. \A n \in DOMAIN t : n \in DOMAIN s \/ n = Len(s) + 1
  BY <1>1
<1>3. SeqsOf(t) = SeqsOf(s) \cup {f.seq}
  <2>1. ASSUME NEW n \in DOMAIN s PROVE s[n].seq \in SeqsOf(t)
    BY <1>1 DEF SeqsOf
  <2>2. f.seq \in SeqsOf(t)
    BY <1>1 DEF SeqsOf
  <2>3. ASSUME NEW n \in DOMAIN t PROVE t[n].seq \in SeqsOf(s) \cup {f.seq}
    BY <1>1, <1>2 DEF SeqsOf
  <2> QED BY <2>1, <2>2, <2>3 DEF SeqsOf
<1>4. Distinct(s) /\ f.seq \notin SeqsOf(s) => Distinct(t)
  <2> SUFFICES ASSUME Distinct(s), f.seq \notin SeqsOf(s),
                      NEW m \in DOMAIN t, NEW n \in DOMAIN t, t[m].seq = t[n].seq
               PROVE  m = n
    BY DEF Distinct
  <2>1. CASE m \in DOMAIN s /\ n \in DOMAIN s
    BY <1>1, <2>1 DEF Distinct
  <2>2. CASE m \in DOMAIN s /\ n = Len(s) + 1
    BY <1>1, <2>2 DEF SeqsOf
  <2>3. CASE n \in DOMAIN s /\ m = Len(s) + 1
    BY <1>1, <2>3 DEF SeqsOf
  <2> QED BY <1>2, <2>1, <2>2, <2>3
<1> QED BY <1>3, <1>4 DEF t

LEMMA TailAt ==
    ASSUME NEW s \in Seq(Frames), s # <<>>
    PROVE  /\ Head(s) \in Frames /\ Tail(s) \in Seq(Frames)
           /\ 1 \in DOMAIN s /\ s[1] = Head(s)
           /\ \A n \in DOMAIN Tail(s) : n + 1 \in DOMAIN s /\ Tail(s)[n] = s[n + 1]
           /\ \A n \in DOMAIN s : n = 1 \/ (n - 1 \in DOMAIN Tail(s) /\ s[n] = Tail(s)[n - 1])
<1>1. /\ Head(s) \in Frames /\ Tail(s) \in Seq(Frames) /\ Len(s) \in Nat \ {0}
      /\ DOMAIN s = 1..Len(s) /\ DOMAIN Tail(s) = 1..(Len(s) - 1)
      /\ Head(s) = s[1]
      /\ \A n \in 1..(Len(s) - 1) : Tail(s)[n] = s[n + 1]
  BY FrameFacts, HeadTailProperties, EmptySeq
<1> DEFINE t == Tail(s)
<1> HIDE DEF t
<1>2. ASSUME NEW n \in DOMAIN s, n # 1 PROVE n - 1 \in DOMAIN Tail(s) /\ s[n] = Tail(s)[n - 1]
  <2>1. n - 1 \in 1..(Len(s) - 1) /\ (n - 1) + 1 = n
    BY <1>1, <1>2
  <2> QED BY <1>1, <2>1
<1> QED BY <1>1, <1>2

LEMMA SeqsOfTail ==
    ASSUME NEW s \in Seq(Frames), s # <<>>, Distinct(s)
    PROVE  /\ Head(s).seq \in SeqsOf(s)
           /\ SeqsOf(Tail(s)) = SeqsOf(s) \ {Head(s).seq}
           /\ Distinct(Tail(s))
<1> DEFINE t == Tail(s)
<1>1. /\ DOMAIN s \subseteq Nat /\ DOMAIN t \subseteq Nat
      /\ 1 \in DOMAIN s /\ s[1] = Head(s)
      /\ \A n \in DOMAIN t : n + 1 \in DOMAIN s /\ t[n] = s[n + 1]
      /\ \A n \in DOMAIN s : n = 1 \/ (n - 1 \in DOMAIN t /\ s[n] = t[n - 1])
      /\ 0 \notin DOMAIN t
  <2>1. /\ t \in Seq(Frames)
        /\ 1 \in DOMAIN s /\ s[1] = Head(s)
        /\ \A n \in DOMAIN t : n + 1 \in DOMAIN s /\ t[n] = s[n + 1]
        /\ \A n \in DOMAIN s : n = 1 \/ (n - 1 \in DOMAIN t /\ s[n] = t[n - 1])
    BY TailAt
  <2>2. DOMAIN s = 1..Len(s) /\ DOMAIN t = 1..Len(t)
    BY <2>1, FrameFacts
  <2> QED BY <2>1, <2>2
<1> HIDE DEF t
<1>2. Head(s).seq \in SeqsOf(s)
  BY <1>1 DEF SeqsOf
<1>3. ASSUME NEW n \in DOMAIN t PROVE t[n].seq \in SeqsOf(s) \ {Head(s).seq}
  <2>1. n + 1 \in DOMAIN s /\ t[n].seq = s[n + 1].seq /\ n + 1 # 1
    BY <1>1
  <2>2. s[n + 1].seq # s[1].seq
    BY <1>1, <2>1 DEF Distinct
  <2> QED BY <1>1, <2>1, <2>2 DEF SeqsOf
<1>4. ASSUME NEW n \in DOMAIN s, s[n].seq # Head(s).seq PROVE s[n].seq \in SeqsOf(t)
  BY <1>1, <1>4 DEF SeqsOf
<1>5. ASSUME NEW m \in DOMAIN t, NEW n \in DOMAIN t, t[m].seq = t[n].seq PROVE m = n
  <2>1. m + 1 \in DOMAIN s /\ n + 1 \in DOMAIN s /\ s[m + 1].seq = s[n + 1].seq
    BY <1>1, <1>5
  <2>2. m + 1 = n + 1
    BY <2>1 DEF Distinct
  <2> QED BY <1>1, <2>2
<1> QED BY <1>2, <1>3, <1>4, <1>5 DEF SeqsOf, Distinct, t

LEMMA HandMember ==
    \A s : s \in InHand <=> \E p \in Producers : pc[p] # "idle" /\ frame[p].seq = s
BY DEF InHand

\* The frame leaves the hand of its producer.
LEMMA ReturnHand ==
    ASSUME Shape, PlaceInv, NEW p \in Producers, pc[p] # "idle", Return(p)
    PROVE  /\ frame[p].seq \in InHand
           /\ InHand' = InHand \ {frame[p].seq}
           /\ \A r, o \in Producers :
                 pc'[r] # "idle" /\ pc'[o] # "idle" /\ frame'[r].seq = frame'[o].seq => r = o
<1>1. \A r \in Producers : /\ pc'[r] # "idle" <=> pc[r] # "idle" /\ r # p
                           /\ r # p => frame'[r] = frame[r]
  BY DEF Return, Shape, HandShape
<1>2. \A s : s \in InHand' <=> \E r \in Producers : pc'[r] # "idle" /\ frame'[r].seq = s
  BY DEF InHand
<1>3. \A r, o \in Producers :
          pc[r] # "idle" /\ pc[o] # "idle" /\ frame[r].seq = frame[o].seq => r = o
  BY DEF PlaceInv
<1>4. frame[p].seq \in InHand
  BY HandMember
<1>5. \A s : s \in InHand' <=> s \in InHand \ {frame[p].seq}
  BY <1>1, <1>2, <1>3, HandMember
<1> QED BY <1>1, <1>3, <1>4, <1>5

LEMMA ProducePlace == ASSUME Shape, PlaceInv, NEW p \in Producers, Produce(p) PROVE PlaceInv'
<1>1. PICK points \in FrameSizes[p] :
        frame' = [frame EXCEPT ![p] = [seq |-> nextSeq, points |-> points, by |-> p]]
  BY DEF Produce
<1>2. \A r \in Producers : /\ pc'[r] # "idle" <=> pc[r] # "idle" \/ r = p
                           /\ r # p => frame'[r] = frame[r]
  BY <1>1 DEF Produce, Shape, HandShape
<1>3. pc[p] = "idle" /\ frame'[p].seq = nextSeq
  BY <1>1 DEF Produce, Shape, HandShape
<1>4. \A s : s \in InHand' <=> \E r \in Producers : pc'[r] # "idle" /\ frame'[r].seq = s
  BY DEF InHand
<1>5. \A s : s \in InHand' <=> s \in InHand \/ s = nextSeq
  BY <1>2, <1>3, <1>4, HandMember
<1>6. nextSeq \in Nat \ {0} /\ nextSeq' = nextSeq + 1
  BY Bounds DEF Produce, Shape, HandShape
<1>7. 1..(nextSeq' - 1) = 1..(nextSeq - 1) \cup {nextSeq} /\ nextSeq \notin 1..(nextSeq - 1)
  BY <1>6
<1>8. UNCHANGED <<q, taken, evicted, refused, dropped>>
  BY DEF Produce, workerVars
<1>9. Split(1..(nextSeq - 1), InHand, SeqsOf(q), SeqsOf(taken), evicted, refused)
  BY DEF PlaceInv
<1>10. Split(1..(nextSeq' - 1), InHand', SeqsOf(q), SeqsOf(taken), evicted, refused)
  BY <1>5, <1>7, <1>9 DEF Split
<1>11. \A r, o \in Producers :
          pc[r] # "idle" /\ pc[o] # "idle" /\ frame[r].seq = frame[o].seq => r = o
  BY DEF PlaceInv
<1>12. nextSeq \notin InHand
  BY <1>7, <1>9 DEF Split
<1>13. \A r, o \in Producers :
          pc'[r] # "idle" /\ pc'[o] # "idle" /\ frame'[r].seq = frame'[o].seq => r = o
  BY <1>2, <1>3, <1>11, <1>12, HandMember
<1> QED BY <1>8, <1>10, <1>13 DEF PlaceInv, SeqsOf, Distinct

LEMMA PutPlace == ASSUME Shape, PlaceInv, NEW p \in Producers, Put(p) PROVE PlaceInv'
<1>1. /\ pc[p] # "idle" /\ Return(p) /\ q' = Append(q, frame[p])
      /\ UNCHANGED <<nextSeq, taken, evicted, refused, dropped>>
  BY DEF Put, workerVars
<1>2. q \in Seq(Frames) /\ frame[p] \in Frames
  BY <1>1 DEF Shape, HandShape, QueueShape
<1>3. Split(1..(nextSeq - 1), InHand, SeqsOf(q), SeqsOf(taken), evicted, refused)
  BY DEF PlaceInv
<1>4. frame[p].seq \in InHand /\ InHand' = InHand \ {frame[p].seq}
  BY <1>1, ReturnHand
<1>5. frame[p].seq \notin SeqsOf(q)
  BY <1>3, <1>4 DEF Split
<1>6. SeqsOf(q)' = SeqsOf(q) \cup {frame[p].seq} /\ Distinct(q)'
  <2>1. SeqsOf(Append(q, frame[p])) = SeqsOf(q) \cup {frame[p].seq}
        /\ Distinct(Append(q, frame[p]))
    BY <1>2, <1>5, SeqsOfAppend DEF PlaceInv
  <2> QED BY <1>1, <2>1 DEF SeqsOf, Distinct
<1>7. Split(1..(nextSeq - 1), InHand', SeqsOf(q)', SeqsOf(taken), evicted, refused)
  BY <1>3, <1>4, <1>6 DEF Split
<1>8. \A r, o \in Producers :
          pc'[r] # "idle" /\ pc'[o] # "idle" /\ frame'[r].seq = frame'[o].seq => r = o
  BY <1>1, ReturnHand
<1>9. SeqsOf(taken)' = SeqsOf(taken) /\ Distinct(taken)'
  BY <1>1 DEF PlaceInv, SeqsOf, Distinct
<1> QED
  BY <1>1, <1>6, <1>7, <1>8, <1>9 DEF PlaceInv

LEMMA DropPlace == ASSUME Shape, PlaceInv, NEW p \in Producers, Drop(p) PROVE PlaceInv'
<1>1. /\ pc[p] # "idle" /\ Return(p) /\ refused' = refused \cup {frame[p].seq}
      /\ dropped' = dropped + 1
      /\ UNCHANGED <<nextSeq, q, taken, evicted>>
  BY DEF Drop, workerVars
<1>2. Split(1..(nextSeq - 1), InHand, SeqsOf(q), SeqsOf(taken), evicted, refused)
  BY DEF PlaceInv
<1>3. frame[p].seq \in InHand /\ InHand' = InHand \ {frame[p].seq}
  BY <1>1, ReturnHand
<1>4. frame[p].seq \notin refused
  BY <1>2, <1>3 DEF Split
<1>5. dropped' = Cardinality(refused')
  <2>1. nextSeq - 1 \in Nat /\ refused \in SUBSET (1..(nextSeq - 1))
    BY <1>2 DEF Split, Shape, HandShape
  <2>2. IsFiniteSet(refused)
    BY <2>1, IntervalSize, FS_Subset
  <2>3. Cardinality(refused \cup {frame[p].seq}) = Cardinality(refused) + 1
    BY <1>4, <2>2, FS_AddElement
  <2> QED BY <1>1, <2>3 DEF PlaceInv
<1>6. Split(1..(nextSeq - 1), InHand', SeqsOf(q), SeqsOf(taken), evicted, refused')
  BY <1>1, <1>2, <1>3 DEF Split
<1> QED
  BY <1>1, <1>5, <1>6, ReturnHand DEF PlaceInv, SeqsOf, Distinct

\* The frame in hand stays there, and the queue may lose its oldest.
LEMMA MakeRoomPlace ==
    ASSUME Shape, PlaceInv, NEW p \in Producers, FindFull(p) \/ Evict(p)
    PROVE  PlaceInv'
<1>1. \A r \in Producers : (pc'[r] # "idle" <=> pc[r] # "idle") /\ frame'[r] = frame[r]
  BY DEF FindFull, Evict, Shape, HandShape
<1>2. InHand' = InHand
  BY <1>1 DEF InHand
<1>3. UNCHANGED <<nextSeq, taken, refused, dropped>>
  BY DEF FindFull, Evict, workerVars
<1>4. Split(1..(nextSeq - 1), InHand, SeqsOf(q), SeqsOf(taken), evicted, refused)
  BY DEF PlaceInv
<1>5. /\ Split(1..(nextSeq - 1), InHand, SeqsOf(q)', SeqsOf(taken), evicted', refused)
      /\ Distinct(q)'
  <2>1. CASE UNCHANGED <<q, evicted>>
    BY <1>4, <2>1 DEF PlaceInv, SeqsOf, Distinct
  <2>2. CASE q # <<>> /\ q' = Tail(q) /\ evicted' = evicted \cup {Head(q).seq}
    <3>1. /\ Head(q).seq \in SeqsOf(q) /\ Distinct(Tail(q))
          /\ SeqsOf(Tail(q)) = SeqsOf(q) \ {Head(q).seq}
      BY <2>2, SeqsOfTail DEF PlaceInv, Shape, QueueShape
    <3>2. SeqsOf(q)' = SeqsOf(q) \ {Head(q).seq} /\ Distinct(q)'
      BY <2>2, <3>1 DEF SeqsOf, Distinct
    <3> QED BY <1>4, <2>2, <3>1, <3>2 DEF Split
  <2> QED BY <2>1, <2>2 DEF FindFull, Evict
<1>6. \A r, o \in Producers :
          pc'[r] # "idle" /\ pc'[o] # "idle" /\ frame'[r].seq = frame'[o].seq => r = o
  BY <1>1 DEF PlaceInv
<1> QED
  BY <1>2, <1>3, <1>5, <1>6 DEF PlaceInv, SeqsOf, Distinct

LEMMA GetFramePlace == ASSUME Shape, PlaceInv, GetFrame PROVE PlaceInv'
<1>1. /\ q # <<>> /\ q' = Tail(q) /\ taken' = Append(taken, Head(q))
      /\ UNCHANGED <<nextSeq, pc, frame, evicted, refused, dropped>>
  BY DEF GetFrame, producerVars
<1>2. /\ q \in Seq(Frames) /\ taken \in Seq(Frames) /\ Head(q) \in Frames
      /\ Distinct(q) /\ Distinct(taken)
  BY <1>1, QueueFacts DEF Shape, QueueShape, WorkerShape, PlaceInv
<1>3. Split(1..(nextSeq - 1), InHand, SeqsOf(q), SeqsOf(taken), evicted, refused)
  BY DEF PlaceInv
<1>4. /\ Head(q).seq \in SeqsOf(q) /\ Distinct(Tail(q))
      /\ SeqsOf(Tail(q)) = SeqsOf(q) \ {Head(q).seq}
  BY <1>1, <1>2, SeqsOfTail
<1>5. Head(q).seq \notin SeqsOf(taken)
  BY <1>3, <1>4 DEF Split
<1>6. /\ SeqsOf(Append(taken, Head(q))) = SeqsOf(taken) \cup {Head(q).seq}
      /\ Distinct(Append(taken, Head(q)))
  BY <1>2, <1>5, SeqsOfAppend
<1>7. Split(1..(nextSeq - 1), InHand, SeqsOf(Tail(q)), SeqsOf(Append(taken, Head(q))),
            evicted, refused)
  BY <1>3, <1>4, <1>6 DEF Split
<1>8. InHand' = InHand
  BY <1>1 DEF InHand
<1>9. /\ SeqsOf(q)' = SeqsOf(Tail(q)) /\ SeqsOf(taken)' = SeqsOf(Append(taken, Head(q)))
      /\ Distinct(q)' /\ Distinct(taken)'
  BY <1>1, <1>4, <1>6 DEF SeqsOf, Distinct
<1> QED
  BY <1>1, <1>7, <1>8, <1>9 DEF PlaceInv

\* The other steps move no frame between these places.
LEMMA QuietPlace ==
    ASSUME PlaceInv, UNCHANGED <<producerVars, q, taken>>
    PROVE  PlaceInv'
BY DEF PlaceInv, InHand, SeqsOf, Distinct, producerVars

LEMMA QuietSteps ==
    ASSUME \/ CheckStop \/ CheckQueue \/ FlushByTime \/ GetNothing \/ FinalFlush \/ Stored
           \/ StoringRaises \/ Age \/ Start \/ Stop \/ CloseStorage \/ UNCHANGED vars
    PROVE  UNCHANGED <<producerVars, q, taken, lastSeq, seqGaps, framesIn>>
BY DEF CheckStop, CheckQueue, FlushByTime, GetNothing, FinalFlush, Stored, StoringRaises, Age,
       Start, Stop, CloseStorage, vars, workerVars

LEMMA NextPlace == ASSUME Shape, PlaceInv, [Next]_vars PROVE PlaceInv'
<1>1. CASE \E p \in Producers : Produce(p) \/ OnFrame(p)
  BY <1>1, ProducePlace, PutPlace, DropPlace, MakeRoomPlace DEF OnFrame
<1>2. CASE GetFrame
  BY <1>2, GetFramePlace
<1>3. CASE ~GetFrame /\ ~(\E p \in Producers : Produce(p) \/ OnFrame(p))
  BY <1>3, QuietSteps, QuietPlace DEF Next, Work
<1> QED BY <1>1, <1>2, <1>3

LEMMA InitPlace == Init => PlaceInv
<1> SUFFICES ASSUME Init PROVE PlaceInv OBVIOUS
<1>1. InHand = {} /\ SeqsOf(q) = {} /\ SeqsOf(taken) = {} /\ evicted = {} /\ refused = {}
  BY DEF Init, InHand, SeqsOf
<1>2. 1..(nextSeq - 1) = {}
  BY DEF Init
<1>3. Cardinality({}) = 0
  BY FS_EmptySet
<1> QED
  BY <1>1, <1>2, <1>3 DEF Init, PlaceInv, Split, Distinct

LEMMA CountSeqs ==
    ASSUME NEW s \in Seq(Frames), Distinct(s)
    PROVE  IsFiniteSet(SeqsOf(s)) /\ Cardinality(SeqsOf(s)) = Len(s)
<1> DEFINE At == [n \in DOMAIN s |-> s[n].seq]
<1>1. DOMAIN s = 1..Len(s) /\ Len(s) \in Nat
  BY FrameFacts
<1>2. At \in Bijection(DOMAIN s, SeqsOf(s))
  <2>1. At \in [DOMAIN s -> SeqsOf(s)]
    BY DEF SeqsOf
  <2>2. \A m, n \in DOMAIN s : At[m] = At[n] => m = n
    BY DEF Distinct
  <2>3. \A x \in SeqsOf(s) : \E n \in DOMAIN s : At[n] = x
    BY DEF SeqsOf
  <2> QED BY <2>1, <2>2, <2>3 DEF Bijection, Injection, Surjection, IsInjective
<1>3. IsFiniteSet(DOMAIN s) /\ Cardinality(DOMAIN s) = Len(s)
  BY <1>1, IntervalSize
<1>4. ExistsBijection(DOMAIN s, SeqsOf(s))
  BY <1>2 DEF ExistsBijection
<1> QED BY <1>3, <1>4, FS_Bijection

LEMMA CountApart ==
    ASSUME NEW S, NEW T, IsFiniteSet(S), IsFiniteSet(T), S \cap T = {}
    PROVE  /\ IsFiniteSet(S \cup T)
           /\ Cardinality(S \cup T) = Cardinality(S) + Cardinality(T)
           /\ Cardinality(S) \in Nat /\ Cardinality(T) \in Nat
<1>1. Cardinality(S \cap T) = 0
  BY FS_EmptySet
<1>2. Cardinality(S) \in Nat /\ Cardinality(T) \in Nat
  BY FS_CardinalityType
<1>3. /\ IsFiniteSet(S \cup T)
      /\ Cardinality(S \cup T) = Cardinality(S) + Cardinality(T) - Cardinality(S \cap T)
  BY FS_Union
<1> QED BY <1>1, <1>2, <1>3

LEMMA CountSplit ==
    ASSUME NEW n \in Nat, NEW H, NEW Q, NEW T, NEW E, NEW R, Split(1..n, H, Q, T, E, R)
    PROVE  n = Cardinality(H) + Cardinality(Q) + Cardinality(T) + Cardinality(E) + Cardinality(R)
<1>1. IsFiniteSet(1..n) /\ Cardinality(1..n) = n
  BY IntervalSize
<1>2. /\ H \in SUBSET (1..n) /\ Q \in SUBSET (1..n) /\ T \in SUBSET (1..n)
      /\ E \in SUBSET (1..n) /\ R \in SUBSET (1..n)
  BY DEF Split
<1>3. IsFiniteSet(H) /\ IsFiniteSet(Q) /\ IsFiniteSet(T) /\ IsFiniteSet(E) /\ IsFiniteSet(R)
  BY <1>1, <1>2, FS_Subset
<1> DEFINE ER == E \cup R  TER == T \cup ER  QTER == Q \cup TER
<1>4. E \cap R = {} /\ T \cap ER = {} /\ Q \cap TER = {} /\ H \cap QTER = {} /\ 1..n = H \cup QTER
  BY DEF Split
<1> HIDE DEF ER, TER, QTER
<1>5. IsFiniteSet(ER) /\ Cardinality(ER) = Cardinality(E) + Cardinality(R)
  BY <1>3, <1>4, CountApart DEF ER
<1>6. IsFiniteSet(TER) /\ Cardinality(TER) = Cardinality(T) + Cardinality(ER)
  BY <1>3, <1>4, <1>5, CountApart DEF TER
<1>7. IsFiniteSet(QTER) /\ Cardinality(QTER) = Cardinality(Q) + Cardinality(TER)
  BY <1>3, <1>4, <1>6, CountApart DEF QTER
<1>8. Cardinality(H \cup QTER) = Cardinality(H) + Cardinality(QTER)
  BY <1>3, <1>4, <1>7, CountApart
<1>9. /\ Cardinality(H) \in Nat /\ Cardinality(Q) \in Nat /\ Cardinality(T) \in Nat
      /\ Cardinality(E) \in Nat /\ Cardinality(R) \in Nat
  BY <1>3, FS_CardinalityType
<1>10. n = Cardinality(H \cup QTER)
  BY <1>1, <1>4
<1> QED BY <1>5, <1>6, <1>7, <1>8, <1>9, <1>10

\* Shape and the places of the frames hold in every reachable state.
THEOREM PlaceInvariance == Spec => [](Shape /\ PlaceInv)
<1>1. Init => Shape /\ PlaceInv
  BY InitShape, InitPlace
<1>2. (Shape /\ PlaceInv) /\ [Next]_vars => (Shape /\ PlaceInv)'
  BY NextShape, NextPlace
<1> QED BY <1>1, <1>2, PTL DEF Spec

\* However producers and the worker interleave at a full queue, under every
\* policy, no frame is lost uncounted or counted twice (ingest.py 384-423).
THEOREM NoFrameVanishes == Spec => []FramesAccountedFor
<1>1. Shape /\ PlaceInv => FramesAccountedFor
  <2> SUFFICES ASSUME Shape, PlaceInv PROVE FramesAccountedFor OBVIOUS
  <2>1. Split(1..(nextSeq - 1), InHand, SeqsOf(q), SeqsOf(taken), evicted, refused)
    BY DEF PlaceInv
  <2>2. nextSeq - 1 \in Nat
    BY DEF Shape, HandShape
  <2>3. Cardinality(SeqsOf(q)) = Len(q) /\ Cardinality(SeqsOf(taken)) = Len(taken)
    BY CountSeqs DEF PlaceInv, Shape, QueueShape, WorkerShape
  <2>4. nextSeq - 1 = Cardinality(InHand) + Cardinality(SeqsOf(q)) + Cardinality(SeqsOf(taken))
                        + Cardinality(evicted) + Cardinality(refused)
    BY <2>1, <2>2, CountSplit
  <2>5. 1..(nextSeq - 1) = InHand \cup SeqsOf(q) \cup SeqsOf(taken) \cup evicted \cup refused
    BY <2>1 DEF Split
  <2> QED BY <2>3, <2>4, <2>5 DEF FramesAccountedFor, PlaceInv
<1> QED BY <1>1, PlaceInvariance, PTL

-----------------------------------------------------------------------------
(* The order of the frames, and the gaps between them.                     *)

LEMMA AppendInOrder ==
    ASSUME NEW s \in Seq(Frames), NEW f \in Frames, InOrder(s), Below(s, f)
    PROVE  InOrder(Append(s, f))
<1> DEFINE t == Append(s, f)
<1>1. /\ Len(s) \in Nat /\ DOMAIN s = 1..Len(s)
      /\ DOMAIN t = 1..(Len(s) + 1) /\ t[Len(s) + 1] = f
      /\ \A n \in 1..Len(s) : t[n] = s[n]
  BY FrameFacts, AppendProperties
<1> HIDE DEF t
<1> SUFFICES ASSUME NEW m \in DOMAIN t, NEW n \in DOMAIN t, m < n, t[m].by = t[n].by
             PROVE  t[m].seq < t[n].seq
  BY DEF InOrder, t
<1>2. m \in DOMAIN s /\ (n \in DOMAIN s \/ n = Len(s) + 1)
  BY <1>1
<1> QED BY <1>1, <1>2 DEF InOrder, Below

LEMMA AppendBelow ==
    ASSUME NEW s \in Seq(Frames), NEW f \in Frames, NEW g, Below(s, g),
           f.by = g.by => f.seq < g.seq
    PROVE  Below(Append(s, f), g)
<1> DEFINE t == Append(s, f)
<1>1. /\ Len(s) \in Nat /\ DOMAIN s = 1..Len(s)
      /\ DOMAIN t = 1..(Len(s) + 1) /\ t[Len(s) + 1] = f
      /\ \A n \in 1..Len(s) : t[n] = s[n]
  BY FrameFacts, AppendProperties
<1> HIDE DEF t
<1> SUFFICES ASSUME NEW n \in DOMAIN t, t[n].by = g.by PROVE t[n].seq < g.seq
  BY DEF Below, t
<1>2. n \in DOMAIN s \/ n = Len(s) + 1
  BY <1>1
<1> QED BY <1>1, <1>2 DEF Below

LEMMA TailInOrder ==
    ASSUME NEW s \in Seq(Frames), s # <<>>, InOrder(s)
    PROVE  /\ InOrder(Tail(s))
           /\ \A n \in DOMAIN Tail(s) : Head(s).by = Tail(s)[n].by => Head(s).seq < Tail(s)[n].seq
           /\ \A g : Below(s, g) => Below(Tail(s), g)
           /\ \A g : Below(s, g) /\ Head(s).by = g.by => Head(s).seq < g.seq
<1> DEFINE t == Tail(s)
<1>1. /\ 1 \in DOMAIN s /\ s[1] = Head(s)
      /\ \A n \in DOMAIN t : n + 1 \in DOMAIN s /\ t[n] = s[n + 1]
      /\ \A n \in DOMAIN t : n \in Nat \ {0}
  <2>1. t \in Seq(Frames)
    BY TailAt
  <2>2. DOMAIN t = 1..Len(t) /\ Len(t) \in Nat
    BY <2>1, FrameFacts
  <2> QED BY <2>2, TailAt
<1> HIDE DEF t
<1>2. InOrder(t)
  <2> SUFFICES ASSUME NEW m \in DOMAIN t, NEW n \in DOMAIN t, m < n, t[m].by = t[n].by
               PROVE  t[m].seq < t[n].seq
    BY DEF InOrder
  <2>1. m + 1 < n + 1
    BY <1>1
  <2> QED BY <1>1, <2>1 DEF InOrder
<1>3. \A n \in DOMAIN t : Head(s).by = t[n].by => Head(s).seq < t[n].seq
  <2> SUFFICES ASSUME NEW n \in DOMAIN t, Head(s).by = t[n].by PROVE Head(s).seq < t[n].seq
    OBVIOUS
  <2>1. 1 < n + 1
    BY <1>1
  <2> QED BY <1>1, <2>1 DEF InOrder
<1>4. \A g : Below(s, g) => Below(t, g) /\ (Head(s).by = g.by => Head(s).seq < g.seq)
  BY <1>1 DEF Below
<1> QED BY <1>2, <1>3, <1>4 DEF t

LEMMA ProduceOrder ==
    ASSUME Shape, PlaceInv, OrderInv, NEW p \in Producers, Produce(p)
    PROVE  OrderInv'
<1>1. PICK points \in FrameSizes[p] :
        frame' = [frame EXCEPT ![p] = [seq |-> nextSeq, points |-> points, by |-> p]]
  BY DEF Produce
<1>2. \A r \in Producers : r # p => frame'[r] = frame[r] /\ pc'[r] = pc[r]
  BY <1>1 DEF Produce, Shape, HandShape
<1>3. frame'[p].seq = nextSeq
  BY <1>1 DEF Shape, HandShape
<1>4. /\ \A n \in DOMAIN q : q[n].seq < nextSeq
      /\ \A n \in DOMAIN taken : taken[n].seq < nextSeq
  <2>1. nextSeq \in Nat
    BY DEF Shape, HandShape
  <2>2. \A x \in SeqsOf(q) \cup SeqsOf(taken) : x \in 1..(nextSeq - 1)
    BY DEF PlaceInv, Split
  <2>3. /\ \A n \in DOMAIN q : q[n].seq \in 1..(nextSeq - 1)
        /\ \A n \in DOMAIN taken : taken[n].seq \in 1..(nextSeq - 1)
    BY <2>2 DEF SeqsOf
  <2> QED BY <2>1, <2>3
<1>5. UNCHANGED <<q, taken>>
  BY DEF Produce, workerVars
<1>6. Below(taken, frame[p])' /\ Below(q, frame[p])'
  BY <1>3, <1>4, <1>5 DEF Below
<1>7. ASSUME NEW r \in Producers, pc'[r] # "idle"
      PROVE  Below(taken, frame[r])' /\ Below(q, frame[r])'
  <2>1. CASE r = p
    BY <1>6, <2>1
  <2>2. CASE r # p
    BY <1>2, <1>5, <1>7, <2>2 DEF OrderInv, Below
  <2> QED BY <2>1, <2>2
<1> QED BY <1>5, <1>7 DEF OrderInv, InOrder, Below

\* A frame that leaves the hand of its producer leaves the others in order.
LEMMA ReturnOrder ==
    ASSUME Shape, NEW p \in Producers, Return(p)
    PROVE  \A r \in Producers : pc'[r] # "idle" => r # p /\ pc[r] # "idle" /\ frame'[r] = frame[r]
BY DEF Return, Shape, HandShape

LEMMA PutOrder ==
    ASSUME Shape, OrderInv, NEW p \in Producers, Put(p)
    PROVE  OrderInv'
<1>1. /\ pc[p] # "idle" /\ Return(p) /\ q' = Append(q, frame[p]) /\ UNCHANGED taken
  BY DEF Put, workerVars
<1>2. /\ q \in Seq(Frames) /\ frame[p] \in Frames /\ frame[p].by = p
      /\ \A r \in Producers : pc[r] # "idle" => frame[r].by = r
  BY <1>1 DEF Shape, HandShape, QueueShape
<1>3. InOrder(Append(q, frame[p]))
  BY <1>1, <1>2, AppendInOrder DEF OrderInv
<1>4. \A n \in DOMAIN Append(q, frame[p]) : Below(taken, Append(q, frame[p])[n])
  <2> TAKE n \in DOMAIN Append(q, frame[p])
  <2>1. \/ n \in DOMAIN q /\ Append(q, frame[p])[n] = q[n]
        \/ Append(q, frame[p])[n] = frame[p]
    BY <1>2, FrameFacts, AppendProperties
  <2> QED BY <1>1, <2>1 DEF OrderInv
<1>5. ASSUME NEW r \in Producers, pc'[r] # "idle"
      PROVE  Below(taken, frame'[r]) /\ Below(Append(q, frame[p]), frame'[r])
  <2>1. r # p /\ pc[r] # "idle" /\ frame'[r] = frame[r]
    BY <1>1, <1>5, ReturnOrder
  <2>2. Below(taken, frame[r]) /\ Below(q, frame[r])
    BY <2>1 DEF OrderInv
  <2>3. frame[p].by # frame[r].by
    BY <1>2, <2>1
  <2>4. Below(Append(q, frame[p]), frame[r])
    BY <1>2, <2>2, <2>3, AppendBelow
  <2> QED BY <2>1, <2>2, <2>4
<1> QED BY <1>1, <1>3, <1>4, <1>5 DEF OrderInv, InOrder, Below

LEMMA DropOrder ==
    ASSUME Shape, OrderInv, NEW p \in Producers, Drop(p)
    PROVE  OrderInv'
<1>1. Return(p) /\ UNCHANGED <<q, taken>>
  BY DEF Drop, workerVars
<1>2. \A r \in Producers : pc'[r] # "idle" => pc[r] # "idle" /\ frame'[r] = frame[r]
  BY <1>1, ReturnOrder
<1> QED BY <1>1, <1>2 DEF OrderInv, InOrder, Below

LEMMA MakeRoomOrder ==
    ASSUME Shape, OrderInv, NEW p \in Producers, FindFull(p) \/ Evict(p)
    PROVE  OrderInv'
<1>1. \A r \in Producers : pc'[r] # "idle" => pc[r] # "idle" /\ frame'[r] = frame[r]
  BY DEF FindFull, Evict, Shape, HandShape
<1>2. UNCHANGED taken
  BY DEF FindFull, Evict, workerVars
<1>3. CASE UNCHANGED q
  BY <1>1, <1>2, <1>3 DEF OrderInv, InOrder, Below
<1>4. CASE q # <<>> /\ q' = Tail(q)
  <2>1. q \in Seq(Frames)
    BY DEF Shape, QueueShape
  <2>2. InOrder(Tail(q)) /\ \A g : Below(q, g) => Below(Tail(q), g)
    BY <1>4, <2>1, TailInOrder DEF OrderInv
  <2>3. \A n \in DOMAIN Tail(q) : Below(taken, Tail(q)[n])
    BY <1>4, <2>1, TailAt DEF OrderInv
  <2>4. \A r \in Producers :
          pc'[r] # "idle" => Below(taken, frame'[r]) /\ Below(Tail(q), frame'[r])
    BY <1>1, <2>2 DEF OrderInv
  <2> QED BY <1>2, <1>4, <2>2, <2>3, <2>4 DEF OrderInv, InOrder, Below
<1> QED BY <1>3, <1>4 DEF FindFull, Evict

LEMMA GetFrameOrder == ASSUME Shape, OrderInv, GetFrame PROVE OrderInv'
<1>1. /\ q # <<>> /\ q' = Tail(q) /\ taken' = Append(taken, Head(q)) /\ UNCHANGED <<pc, frame>>
  BY DEF GetFrame, producerVars
<1>2. q \in Seq(Frames) /\ taken \in Seq(Frames)
  BY DEF Shape, QueueShape, WorkerShape
<1>3. /\ Head(q) \in Frames
      /\ 1 \in DOMAIN q /\ q[1] = Head(q)
      /\ \A n \in DOMAIN Tail(q) : n + 1 \in DOMAIN q /\ Tail(q)[n] = q[n + 1]
  BY <1>1, <1>2, TailAt
<1>4. /\ InOrder(Tail(q))
      /\ \A n \in DOMAIN Tail(q) : Head(q).by = Tail(q)[n].by => Head(q).seq < Tail(q)[n].seq
      /\ \A g : Below(q, g) => Below(Tail(q), g)
      /\ \A g : Below(q, g) /\ Head(q).by = g.by => Head(q).seq < g.seq
  BY <1>1, <1>2, TailInOrder DEF OrderInv
<1>5. InOrder(Append(taken, Head(q)))
  BY <1>2, <1>3, AppendInOrder DEF OrderInv
<1>6. \A n \in DOMAIN Tail(q) : Below(Append(taken, Head(q)), Tail(q)[n])
  <2> TAKE n \in DOMAIN Tail(q)
  <2>1. Below(taken, Tail(q)[n])
    BY <1>3 DEF OrderInv
  <2> QED BY <1>2, <1>3, <1>4, <2>1, AppendBelow
<1>7. ASSUME NEW r \in Producers, pc[r] # "idle"
      PROVE  Below(Append(taken, Head(q)), frame[r]) /\ Below(Tail(q), frame[r])
  <2>1. Below(taken, frame[r]) /\ Below(q, frame[r])
    BY <1>7 DEF OrderInv
  <2> QED BY <1>2, <1>3, <1>4, <2>1, AppendBelow
<1> QED BY <1>1, <1>4, <1>5, <1>6, <1>7 DEF OrderInv, InOrder, Below

LEMMA QuietOrder ==
    ASSUME OrderInv, UNCHANGED <<producerVars, q, taken>>
    PROVE  OrderInv'
BY DEF OrderInv, InOrder, Below, producerVars

LEMMA NextOrder == ASSUME Shape, PlaceInv, OrderInv, [Next]_vars PROVE OrderInv'
<1>1. CASE \E p \in Producers : Produce(p) \/ OnFrame(p)
  BY <1>1, ProduceOrder, PutOrder, DropOrder, MakeRoomOrder DEF OnFrame
<1>2. CASE GetFrame
  BY <1>2, GetFrameOrder
<1>3. CASE ~GetFrame /\ ~(\E p \in Producers : Produce(p) \/ OnFrame(p))
  BY <1>3, QuietSteps, QuietOrder DEF Next, Work
<1> QED BY <1>1, <1>2, <1>3

\* The producers do not touch what the worker took.
LEMMA ProducerSteps ==
    ASSUME NEW p \in Producers, Produce(p) \/ OnFrame(p)
    PROVE  UNCHANGED <<workerVars, storageVars, ownerVars>>
BY DEF Produce, OnFrame, Put, Drop, FindFull, Evict

LEMMA NextGap == ASSUME Shape, GapInv, [Next]_vars PROVE GapInv'
<1>1. CASE \E p \in Producers : Produce(p) \/ OnFrame(p)
  BY <1>1, ProducerSteps DEF GapInv, workerVars
<1>2. CASE GetFrame
  <2> DEFINE f == Head(q)
             N == Len(taken)
  <2>1. /\ taken' = Append(taken, f) /\ lastSeq' = f.seq
        /\ seqGaps' = seqGaps + (IF SeqGap(f.seq) THEN 1 ELSE 0)
        /\ f \in Frames /\ f.seq \in Nat
        /\ taken \in Seq(Frames) /\ seqGaps \in Nat
    BY <1>2, QueueFacts DEF GetFrame, Shape, WorkerShape
  <2> HIDE DEF f
  <2>2. /\ N \in Nat /\ DOMAIN taken = 1..N
        /\ taken' # <<>> /\ Len(taken') = N + 1 /\ DOMAIN taken' = 1..(N + 1)
        /\ taken'[N + 1] = f
        /\ \A n \in 1..N : taken'[n] = taken[n] /\ taken[n].seq \in Nat \ {0}
    BY <2>1, FrameFacts, AppendProperties
  <2>3. taken = <<>> <=> N = 0
    BY <2>1, EmptySeq
  <2>4. ASSUME seqGaps' = 0, NEW n \in 1..(N + 1)
        PROVE  taken'[n].seq = taken'[1].seq + (n - 1)
    <3>1. seqGaps = 0 /\ ~SeqGap(f.seq)
      BY <2>1, <2>4
    <3>2. \A k \in 1..N : taken[k].seq = taken[1].seq + (k - 1)
      BY <2>2, <3>1 DEF GapInv
    <3>3. CASE n \in 1..N
      BY <2>2, <3>2, <3>3
    <3>4. CASE n = N + 1 /\ N # 0
      <4>1. lastSeq = taken[N].seq /\ N \in 1..N /\ 1 \in 1..N
        BY <2>2, <2>3, <3>4 DEF GapInv
      <4>2. f.seq = lastSeq + 1
        BY <2>2, <3>1, <4>1 DEF SeqGap
      <4>3. taken[N].seq = taken[1].seq + (N - 1) /\ taken'[1] = taken[1]
        BY <2>2, <3>2, <4>1
      <4> QED BY <2>2, <3>4, <4>1, <4>2, <4>3
    <3>5. CASE n = N + 1 /\ N = 0
      BY <2>1, <2>2, <3>5
    <3> QED BY <2>2, <3>3, <3>4, <3>5
  <2> QED BY <2>1, <2>2, <2>4 DEF GapInv
<1>3. CASE ~GetFrame /\ ~(\E p \in Producers : Produce(p) \/ OnFrame(p))
  BY <1>3, QuietSteps DEF GapInv, Next, Work
<1> QED BY <1>1, <1>2, <1>3

-----------------------------------------------------------------------------
(* The rows and their counters.                                            *)

\* The rows handed to the storage.
Given == stored \o failed \o writing

LEMMA SequenceTypes ==
    ASSUME Shape
    PROVE  /\ stored \in Seq(Frames) /\ failed \in Seq(Frames) /\ writing \in Seq(Frames)
           /\ batch \in Seq(Frames) /\ taken \in Seq(Frames) /\ <<>> \in Seq(Frames)
           /\ Given \in Seq(Frames)
<1>1. stored \in Seq(Frames) /\ failed \in Seq(Frames) /\ writing \in Seq(Frames)
  BY DEF Shape, WorkerShape, StoreShape
<1>2. stored \o failed \in Seq(Frames)
  BY <1>1, ConcatProperties
<1>3. Given \in Seq(Frames)
  BY <1>1, <1>2, ConcatProperties DEF Given
<1> QED BY <1>1, <1>3 DEF Shape, WorkerShape

\* A row that joins the batch joins the line that starts with the stored rows.
LEMMA LineAppend ==
    ASSUME NEW s \in Seq(Frames), NEW t \in Seq(Frames), NEW f \in Frames
    PROVE  s \o Append(t, f) = Append(s \o t, f)
<1>1. <<f>> \in Seq(Frames) /\ s \o t \in Seq(Frames)
  BY ConcatProperties
<1>2. s \o Append(t, f) = s \o (t \o <<f>>)
  BY AppendIsConcat
<1>3. s \o (t \o <<f>>) = (s \o t) \o <<f>>
  BY <1>1, ConcatAssociative
<1> QED BY <1>1, <1>2, <1>3, AppendIsConcat

\* Rows handed over leave the batch for the end of the rows given.
LEMMA HandOverGiven ==
    ASSUME Shape, stage # "storing", NEW rows \in Seq(Frames), writing' = rows,
           UNCHANGED <<stored, failed>>
    PROVE  Given' = Given \o rows /\ Given = stored \o failed
<1>1. writing = <<>>
  BY DEF Shape, WorkerShape
<1>2. stored \o failed \in Seq(Frames)
  BY SequenceTypes, ConcatProperties
<1>3. Given = stored \o failed
  BY <1>1, <1>2, ConcatEmptySeq DEF Given
<1>4. Given' = (stored \o failed) \o rows
  BY DEF Given
<1> QED BY <1>3, <1>4

LEMMA StoredGiven == ASSUME Shape, Stored PROVE Given' = Given
<1>1. failed = <<>> /\ stored' = stored \o writing /\ failed' = <<>> /\ writing' = <<>>
  BY DEF Stored, Shape, StoreShape
<1>2. stored \o writing \in Seq(Frames)
  BY SequenceTypes, ConcatProperties
<1>3. Given = stored \o writing
  BY <1>1, SequenceTypes, ConcatEmptySeq DEF Given
<1>4. Given' = ((stored \o writing) \o <<>>) \o <<>>
  BY <1>1 DEF Given
<1> QED BY <1>2, <1>3, <1>4, ConcatEmptySeq

LEMMA RaisesGiven == ASSUME Shape, StoringRaises PROVE Given' = Given
<1>1. failed = <<>> /\ writing' = <<>>
  BY DEF StoringRaises, Shape, StoreShape
<1>2. /\ stored \o writing \in Seq(Frames)
      /\ Given = stored \o writing
  BY <1>1, SequenceTypes, ConcatProperties, ConcatEmptySeq DEF Given
<1>3. CASE failed' = failed \o writing /\ UNCHANGED stored
  <2>1. failed' = writing
    BY <1>1, <1>3, SequenceTypes, ConcatEmptySeq
  <2>2. Given' = (stored \o writing) \o <<>>
    BY <1>1, <1>3, <2>1 DEF Given
  <2> QED BY <1>2, <2>2, ConcatEmptySeq
<1>4. CASE stored' = stored \o writing /\ UNCHANGED failed
  <2>1. Given' = ((stored \o writing) \o <<>>) \o <<>>
    BY <1>1, <1>4 DEF Given
  <2> QED BY <1>2, <2>1, ConcatEmptySeq
<1> QED BY <1>3, <1>4 DEF StoringRaises

\* Steps that touch none of it.
LEMMA IdleWorker ==
    ASSUME \/ CheckStop \/ CheckQueue \/ GetNothing \/ Age
           \/ Start \/ Stop \/ CloseStorage \/ UNCHANGED vars
           \/ \E p \in Producers : Produce(p) \/ OnFrame(p)
    PROVE  UNCHANGED <<batch, batchPoints, writing, stored, failed, taken, framesIn, rowsOut,
                       pointsOut>>
<1>1. CASE \E p \in Producers : Produce(p) \/ OnFrame(p)
  BY <1>1, ProducerSteps DEF workerVars, storageVars
<1>2. CASE \/ CheckStop \/ CheckQueue \/ GetNothing \/ Age
           \/ Start \/ Stop \/ CloseStorage \/ UNCHANGED vars
  BY <1>2 DEF CheckStop, CheckQueue, GetNothing, Age, Start, Stop, CloseStorage, vars,
              workerVars, storageVars
<1> QED BY <1>1, <1>2

LEMMA RowsGiven == RowsInv <=> AreRowsOf(Given \o batch, taken)
BY DEF RowsInv, Given

LEMMA NextRows == ASSUME Shape, RowsInv, [Next]_vars PROVE RowsInv'
<1> DEFINE line == Given \o batch
<1>1. line \in Seq(Frames)
  BY SequenceTypes, ConcatProperties
<1>2. CASE \/ CheckStop \/ CheckQueue \/ GetNothing \/ Age
           \/ Start \/ Stop \/ CloseStorage \/ UNCHANGED vars
           \/ \E p \in Producers : Produce(p) \/ OnFrame(p)
  BY <1>2, IdleWorker DEF RowsInv
<1>3. ASSUME NEW rows \in Seq(Frames), NEW points, NEW next,
             HandedOver(rows, points, next) \/ Kept(rows, points),
             stage # "storing", UNCHANGED <<stored, failed>>
      PROVE  line' = Given \o rows
  <2>1. CASE HandedOver(rows, points, next)
    <3>1. Given' = Given \o rows /\ batch' = <<>>
      BY <1>3, <2>1, HandOverGiven DEF HandedOver
    <3>2. Given \o rows \in Seq(Frames)
      BY SequenceTypes, ConcatProperties
    <3>3. line' = (Given \o rows) \o <<>>
      BY <3>1
    <3> QED BY <3>2, <3>3, ConcatEmptySeq
  <2>2. CASE Kept(rows, points)
    BY <1>3, <2>2 DEF Kept, Given
  <2> QED BY <1>3, <2>1, <2>2
<1>4. CASE FlushByTime
  <2>1. stage # "storing" /\ UNCHANGED <<stored, failed, taken>>
    BY <1>4 DEF FlushByTime, storageVars
  <2>2. line' = line
    BY <1>3, <1>4, <2>1, FlushByTimeEffect, SequenceTypes
  <2> QED BY <2>1, <2>2, RowsGiven DEF RowsInv, Given
<1>5. CASE FinalFlush
  <2>1. stage # "storing" /\ UNCHANGED <<stored, failed, taken>>
    BY <1>5 DEF FinalFlush, storageVars
  <2>2. CASE HandedOver(batch, batchPoints, "done")
    <3>1. line' = line
      BY <1>3, <2>1, <2>2, SequenceTypes
    <3> QED BY <2>1, <3>1 DEF RowsInv, Given
  <2>3. CASE batch' = batch /\ UNCHANGED writing
    BY <2>1, <2>3 DEF RowsInv
  <2> QED BY <1>5, <2>2, <2>3, FinalFlushEffect
<1>6. CASE GetFrame
  <2> DEFINE f == Head(q)
  <2>1. /\ stage # "storing" /\ UNCHANGED <<stored, failed>>
        /\ taken' = Append(taken, f) /\ f \in Frames /\ f.points \in Nat
    BY <1>6, QueueFacts DEF GetFrame, storageVars
  <2>2. line' = Given \o WithRow(f)
    BY <1>3, <1>6, <2>1, GetFrameEffect
  <2> HIDE DEF f
  <2>3. Given \o WithRow(f) = IF f.points = 0 THEN line ELSE Append(line, f)
    BY <2>1, SequenceTypes, LineAppend DEF WithRow
  <2>4. AreRowsOf(line, taken)
    BY RowsGiven
  <2> HIDE DEF line
  <2>5. AreRowsOf(IF f.points = 0 THEN line ELSE Append(line, f), Append(taken, f))
    BY <1>1, <2>1, <2>4, SequenceTypes, RowOfNext
  <2>6. AreRowsOf(line', taken')
    BY <2>1, <2>2, <2>3, <2>5
  <2> QED BY <2>6 DEF RowsInv, Given, line
<1>7. CASE Stored \/ StoringRaises
  <2>1. Given' = Given /\ UNCHANGED <<batch, taken>>
    BY <1>7, StoredGiven, RaisesGiven DEF Stored, StoringRaises
  <2> QED BY <2>1 DEF RowsInv, Given
<1> QED
  BY <1>2, <1>4, <1>5, <1>6, <1>7 DEF Next, Work

\* CountersAddUp, with the name for the rows given.
LEMMA CountersGiven ==
    CountersAddUp <=> /\ framesIn = Len(taken)
                      /\ rowsOut = Len(Given)
                      /\ pointsOut = SumPoints(Given)
                      /\ batchPoints = SumPoints(batch)
BY DEF CountersAddUp, Given

LEMMA HandOverCounts ==
    ASSUME Shape, CountersAddUp, stage # "storing", UNCHANGED <<stored, failed>>,
           NEW rows \in Seq(Frames), NEW points \in Nat, NEW next,
           HandedOver(rows, points, next), points = SumPoints(rows)
    PROVE  rowsOut' = Len(Given)' /\ pointsOut' = SumPoints(Given)' /\ batchPoints' = SumPoints(batch)'
<1>1. /\ rowsOut' = Len(Given) + Len(rows)
      /\ pointsOut' = SumPoints(Given) + SumPoints(rows)
      /\ batchPoints' = 0 /\ batch' = <<>> /\ writing' = rows
  BY CountersGiven DEF HandedOver
<1>2. Given' = Given \o rows
  BY <1>1, HandOverGiven
<1>3. /\ Len(Given \o rows) = Len(Given) + Len(rows)
      /\ SumPoints(Given \o rows) = SumPoints(Given) + SumPoints(rows)
  BY SequenceTypes, ConcatProperties, SumOfConcat
<1>4. SumPoints(batch)' = 0
  BY <1>1, SumOfNone DEF SumPoints, Points
<1>5. SumPoints(Given)' = SumPoints(Given \o rows)
  BY <1>2 DEF SumPoints, Points
<1> QED BY <1>1, <1>2, <1>3, <1>4, <1>5

LEMMA NextCounters == ASSUME Shape, CountersAddUp, [Next]_vars PROVE CountersAddUp'
<1>1. CASE \/ CheckStop \/ CheckQueue \/ GetNothing \/ Age
           \/ Start \/ Stop \/ CloseStorage \/ UNCHANGED vars
           \/ \E p \in Producers : Produce(p) \/ OnFrame(p)
  BY <1>1, IdleWorker DEF CountersAddUp, SumPoints, Points
<1>2. batchPoints = SumPoints(batch) /\ batchPoints \in Nat /\ batch \in Seq(Frames)
  BY DEF CountersAddUp, Shape, WorkerShape
<1>3. CASE FlushByTime
  <2>1. stage # "storing" /\ UNCHANGED <<stored, failed, taken, framesIn>>
    BY <1>3 DEF FlushByTime, storageVars
  <2>2. CASE HandedOver(batch, batchPoints, "get")
    BY <1>2, <2>1, <2>2, HandOverCounts, CountersGiven DEF CountersAddUp, Given
  <2>3. CASE Kept(batch, batchPoints)
    BY <2>1, <2>3 DEF Kept, CountersAddUp, SumPoints, Points
  <2> QED BY <1>3, <2>2, <2>3, FlushByTimeEffect
<1>4. CASE FinalFlush
  <2>1. stage # "storing" /\ UNCHANGED <<stored, failed, taken, framesIn>>
    BY <1>4 DEF FinalFlush, storageVars
  <2>2. CASE HandedOver(batch, batchPoints, "done")
    BY <1>2, <2>1, <2>2, HandOverCounts, CountersGiven DEF CountersAddUp, Given
  <2>3. CASE batch' = <<>> /\ batchPoints' = 0 /\ UNCHANGED <<writing, rowsOut, pointsOut>>
    BY <2>1, <2>3, SumOfNone DEF CountersAddUp, SumPoints, Points
  <2> QED BY <1>4, <2>2, <2>3, FinalFlushEffect
<1>5. CASE GetFrame
  <2> DEFINE f == Head(q)
             points == batchPoints + f.points
  <2>1. /\ stage # "storing" /\ UNCHANGED <<stored, failed>>
        /\ taken' = Append(taken, f) /\ f \in Frames /\ f.points \in Nat
        /\ framesIn' = framesIn + 1
    BY <1>5, QueueFacts DEF GetFrame, storageVars
  <2>2. /\ WithRow(f) \in Seq(Frames) /\ points \in Nat
        /\ HandedOver(WithRow(f), points, "check") \/ Kept(WithRow(f), points)
    BY <1>5, GetFrameEffect
  <2> HIDE DEF f
  <2>3. SumPoints(WithRow(f)) = points
    BY <1>2, <2>1, SumOfAppend DEF WithRow
  <2>4. framesIn' = Len(taken')
    <3>1. Len(Append(taken, f)) = Len(taken) + 1
      BY <2>1, SequenceTypes, AppendProperties
    <3> QED BY <2>1, <3>1 DEF CountersAddUp
  <2>5. CASE HandedOver(WithRow(f), points, "check")
    BY <2>1, <2>2, <2>3, <2>4, <2>5, HandOverCounts DEF CountersAddUp, Given
  <2>6. CASE Kept(WithRow(f), points)
    BY <2>1, <2>3, <2>4, <2>6 DEF Kept, CountersAddUp, SumPoints, Points
  <2> QED BY <2>2, <2>5, <2>6
<1>6. CASE Stored \/ StoringRaises
  <2>1. /\ Given' = Given
        /\ UNCHANGED <<batch, batchPoints, taken, framesIn, rowsOut, pointsOut>>
    BY <1>6, StoredGiven, RaisesGiven DEF Stored, StoringRaises
  <2> QED BY <2>1 DEF CountersAddUp, Given, SumPoints, Points
<1> QED
  BY <1>1, <1>3, <1>4, <1>5, <1>6 DEF Next, Work

-----------------------------------------------------------------------------
(* What stop() finds.                                                      *)

LEMMA SeqsOfNone == SeqsOf(<<>>) = {}
BY DEF SeqsOf

LEMMA SeqsOfConcat ==
    ASSUME NEW s \in Seq(Frames), NEW t \in Seq(Frames)
    PROVE  SeqsOf(s) \subseteq SeqsOf(s \o t) /\ SeqsOf(t) \subseteq SeqsOf(s \o t)
<1> DEFINE u == s \o t
<1>1. /\ Len(s) \in Nat /\ Len(t) \in Nat
      /\ DOMAIN s = 1..Len(s) /\ DOMAIN t = 1..Len(t) /\ DOMAIN u = 1..(Len(s) + Len(t))
      /\ \A n \in 1..Len(s) : u[n] = s[n]
      /\ \A n \in 1..Len(t) : u[n + Len(s)] = t[n]
  <2>1. u \in Seq(Frames) /\ Len(u) = Len(s) + Len(t)
    BY ConcatProperties
  <2> QED BY <2>1, FrameFacts, ConcatProperties
<1> HIDE DEF u
<1>2. ASSUME NEW n \in DOMAIN s PROVE n \in DOMAIN u /\ u[n] = s[n]
  BY <1>1
<1>3. ASSUME NEW n \in DOMAIN t PROVE n + Len(s) \in DOMAIN u /\ u[n + Len(s)] = t[n]
  BY <1>1
<1>4. SeqsOf(s) \subseteq SeqsOf(u)
  BY <1>2 DEF SeqsOf
<1>5. SeqsOf(t) \subseteq SeqsOf(u)
  BY <1>3 DEF SeqsOf
<1> QED BY <1>4, <1>5 DEF u

\* A flush moves the batch, and with it the frame that GetFrame adds, on.
LEMMA RowsPassed ==
    ASSUME Shape, stage # "storing", UNCHANGED <<stored, evicted>>, NoRow \subseteq NoRow',
           NEW rows, NEW points, NEW next, SeqsOf(batch) \subseteq SeqsOf(rows),
           HandedOver(rows, points, next) \/ Kept(rows, points)
    PROVE  Passed \subseteq Passed' /\ SeqsOf(rows) \subseteq Passed'
<1>1. SeqsOf(writing) = {}
  BY SeqsOfNone DEF Shape, WorkerShape
<1>2. CASE HandedOver(rows, points, next)
  <2>1. SeqsOf(writing)' = SeqsOf(rows) /\ SeqsOf(stored)' = SeqsOf(stored)
    BY <1>2 DEF HandedOver, SeqsOf
  <2> QED BY <1>1, <2>1 DEF Passed
<1>3. CASE Kept(rows, points)
  <2>1. SeqsOf(batch)' = SeqsOf(rows) /\ SeqsOf(stored)' = SeqsOf(stored)
    BY <1>3 DEF Kept, SeqsOf
  <2> QED BY <1>1, <2>1 DEF Passed
<1> QED BY <1>2, <1>3

LEMMA SamePassed ==
    ASSUME UNCHANGED <<stored, writing, batch, evicted, taken>>
    PROVE  Passed' = Passed
BY DEF Passed, SeqsOf, NoRow

LEMMA GetFramePassed ==
    ASSUME Shape, PlaceInv, GetFrame
    PROVE  /\ Passed \subseteq Passed' /\ SeqsOf(failed)' = SeqsOf(failed)
           /\ SeqsOf(q) \subseteq Passed' \cup SeqsOf(q)'
<1> DEFINE f == Head(q)
<1>1. /\ q # <<>> /\ q' = Tail(q) /\ taken' = Append(taken, f) /\ stage # "storing"
      /\ UNCHANGED <<stored, failed, evicted>>
  BY DEF GetFrame, storageVars, producerVars
<1>2. /\ f \in Frames /\ f.points \in Nat
      /\ q \in Seq(Frames) /\ Distinct(q) /\ taken \in Seq(Frames) /\ batch \in Seq(Frames)
  BY <1>1, QueueFacts, SequenceTypes DEF Shape, QueueShape, PlaceInv
<1>3. SeqsOf(q)' = SeqsOf(q) \ {f.seq}
  <2>1. SeqsOf(Tail(q)) = SeqsOf(q) \ {f.seq}
    BY <1>1, <1>2, SeqsOfTail
  <2> QED BY <1>1, <2>1 DEF SeqsOf
<1>4. \/ HandedOver(WithRow(f), batchPoints + f.points, "check")
      \/ Kept(WithRow(f), batchPoints + f.points)
  BY GetFrameEffect
<1> HIDE DEF f
<1>5. SeqsOf(batch) \subseteq SeqsOf(WithRow(f)) /\ (f.points # 0 => f.seq \in SeqsOf(WithRow(f)))
  BY <1>2, SeqsOfAppend DEF WithRow
<1>6. NoRow \subseteq NoRow' /\ (f.points = 0 => f.seq \in NoRow')
  <2>1. /\ DOMAIN taken = 1..Len(taken) /\ Len(taken) \in Nat
        /\ DOMAIN taken' = 1..(Len(taken) + 1) /\ taken'[Len(taken) + 1] = f
        /\ \A n \in 1..Len(taken) : taken'[n] = taken[n]
    BY <1>1, <1>2, FrameFacts, AppendProperties
  <2>2. \A n \in DOMAIN taken : n \in DOMAIN taken' /\ taken'[n] = taken[n]
    BY <2>1
  <2>3. Len(taken) + 1 \in DOMAIN taken'
    BY <2>1
  <2>4. \A x : x \in NoRow <=> \E n \in DOMAIN taken : taken[n].points = 0 /\ taken[n].seq = x
    BY DEF NoRow
  <2>5. \A x : x \in NoRow' <=> \E n \in DOMAIN taken' : taken'[n].points = 0 /\ taken'[n].seq = x
    BY DEF NoRow
  <2> QED BY <2>1, <2>2, <2>3, <2>4, <2>5
<1>7. Passed \subseteq Passed' /\ SeqsOf(WithRow(f)) \subseteq Passed'
  BY <1>1, <1>4, <1>5, <1>6, RowsPassed
<1>8. f.seq \in Passed'
  BY <1>5, <1>6, <1>7 DEF Passed
<1>9. SeqsOf(failed)' = SeqsOf(failed)
  BY <1>1 DEF SeqsOf
<1> QED BY <1>3, <1>7, <1>8, <1>9

LEMMA EvictPassed ==
    ASSUME Shape, PlaceInv, NEW p \in Producers, Evict(p)
    PROVE  Passed \subseteq Passed' /\ SeqsOf(q) \subseteq Passed' \cup SeqsOf(q)'
<1>1. UNCHANGED <<stored, writing, batch, taken>>
  BY DEF Evict, workerVars, storageVars
<1>2. /\ SeqsOf(stored)' = SeqsOf(stored) /\ SeqsOf(writing)' = SeqsOf(writing)
      /\ SeqsOf(batch)' = SeqsOf(batch) /\ NoRow' = NoRow
  BY <1>1 DEF SeqsOf, NoRow
<1>3. CASE UNCHANGED <<q, evicted>>
  BY <1>2, <1>3 DEF Passed, SeqsOf
<1>4. CASE q # <<>> /\ q' = Tail(q) /\ evicted' = evicted \cup {Head(q).seq}
  <2>1. SeqsOf(Tail(q)) = SeqsOf(q) \ {Head(q).seq}
    BY <1>4, SeqsOfTail DEF PlaceInv, Shape, QueueShape
  <2>2. SeqsOf(q)' = SeqsOf(q) \ {Head(q).seq}
    BY <1>4, <2>1 DEF SeqsOf
  <2> QED BY <1>2, <1>4, <2>2 DEF Passed
<1> QED BY <1>3, <1>4 DEF Evict

LEMMA PutPassed ==
    ASSUME Shape, NEW p \in Producers, Put(p)
    PROVE  Passed' = Passed /\ SeqsOf(q) \subseteq SeqsOf(q)'
<1>1. UNCHANGED <<stored, writing, batch, evicted, taken>>
  BY DEF Put, workerVars, storageVars
<1>2. q \in Seq(Frames) /\ frame[p] \in Frames /\ q' = Append(q, frame[p])
  BY DEF Put, Shape, HandShape, QueueShape
<1>3. SeqsOf(Append(q, frame[p])) = SeqsOf(q) \cup {frame[p].seq}
  BY <1>2, SeqsOfAppend
<1>4. SeqsOf(q)' = SeqsOf(Append(q, frame[p]))
  BY <1>2 DEF SeqsOf
<1> QED BY <1>1, <1>3, <1>4, SamePassed

LEMMA StoredPassed ==
    ASSUME Shape, Stored \/ StoringRaises
    PROVE  /\ Passed \subseteq Passed' \cup SeqsOf(failed)' /\ SeqsOf(failed) \subseteq SeqsOf(failed)'
           /\ Stored => Passed \subseteq Passed'
<1>1. UNCHANGED <<batch, evicted, taken>> /\ failed = <<>>
  BY DEF Stored, StoringRaises, producerVars, Shape, StoreShape
<1>2. SeqsOf(batch)' = SeqsOf(batch) /\ NoRow' = NoRow /\ SeqsOf(failed) = {}
  BY <1>1, SeqsOfNone DEF SeqsOf, NoRow
<1>3. CASE stored' = stored \o writing
  <2>1. SeqsOf(stored) \subseteq SeqsOf(stored') /\ SeqsOf(writing) \subseteq SeqsOf(stored')
    BY <1>3, SequenceTypes, SeqsOfConcat
  <2>2. SeqsOf(stored)' = SeqsOf(stored')
    BY DEF SeqsOf
  <2> QED BY <1>1, <1>2, <2>1, <2>2 DEF Passed
<1>4. CASE StoringRaises /\ failed' = failed \o writing /\ UNCHANGED stored
  <2>1. SeqsOf(writing) \subseteq SeqsOf(failed')
    BY <1>4, SequenceTypes, SeqsOfConcat
  <2>2. SeqsOf(failed)' = SeqsOf(failed') /\ SeqsOf(stored)' = SeqsOf(stored)
    BY <1>4 DEF SeqsOf
  <2>3. ~Stored
    BY <1>4 DEF StoringRaises, Stored, Shape, WorkerShape
  <2> QED BY <1>1, <1>2, <2>1, <2>2, <2>3 DEF Passed
<1> QED BY <1>3, <1>4 DEF Stored, StoringRaises

LEMMA NextDrain == ASSUME Shape, PlaceInv, DrainInv, [Next]_vars PROVE DrainInv'
<1> DEFINE Way == Passed \cup SeqsOf(failed) \cup SeqsOf(q)
           Gone == Leaving /\ stage # "dead"
<1>1. ASSUME Passed \subseteq Passed', Way \subseteq Way', UNCHANGED beforeStop, Gone' => Gone
      PROVE  DrainInv'
  BY <1>1 DEF DrainInv
<1>2. CASE \E p \in Producers : Produce(p) \/ OnFrame(p)
  <2>1. PICK p \in Producers : Produce(p) \/ OnFrame(p)
    BY <1>2
  <2>2. /\ UNCHANGED <<stage, after, beforeStop, stored, failed, writing, batch, taken>>
        /\ SeqsOf(failed)' = SeqsOf(failed)
    BY <2>1, ProducerSteps DEF workerVars, storageVars, ownerVars, SeqsOf
  <2>3. Gone' => Gone
    BY <2>2 DEF Leaving
  <2>4. CASE Produce(p) \/ Drop(p) \/ FindFull(p)
    <3>1. UNCHANGED <<q, evicted>>
      BY <2>4 DEF Produce, Drop, FindFull
    <3>2. Passed' = Passed /\ SeqsOf(q)' = SeqsOf(q)
      BY <2>2, <3>1, SamePassed DEF SeqsOf
    <3> QED BY <1>1, <2>2, <2>3, <3>2
  <2>5. CASE Put(p)
    BY <1>1, <2>2, <2>3, <2>5, PutPassed
  <2>6. CASE Evict(p)
    BY <1>1, <2>2, <2>3, <2>6, EvictPassed
  <2> QED BY <2>1, <2>4, <2>5, <2>6 DEF OnFrame
<1>3. CASE CheckStop \/ GetNothing \/ Age \/ Start \/ CloseStorage \/ UNCHANGED vars
  <2>1. UNCHANGED <<q, stored, failed, writing, batch, evicted, taken, beforeStop>>
    BY <1>3 DEF CheckStop, GetNothing, Age, Start, CloseStorage, vars, workerVars, producerVars,
                ownerVars, storageVars
  <2>2. Passed' = Passed /\ SeqsOf(q)' = SeqsOf(q) /\ SeqsOf(failed)' = SeqsOf(failed)
    BY <2>1, SamePassed DEF SeqsOf
  <2>3. Gone' => Gone
    BY <1>3 DEF CheckStop, GetNothing, Age, Start, CloseStorage, vars, workerVars, Leaving
  <2> QED BY <1>1, <2>1, <2>2, <2>3
\* The worker leaves only when it finds nothing in the queue.
<1>4. CASE CheckQueue
  <2>1. /\ UNCHANGED <<q, stored, failed, writing, batch, evicted, taken, beforeStop>>
        /\ stage = "check queue" /\ stage' = IF q = <<>> THEN "final" ELSE "clock"
    BY <1>4 DEF CheckQueue, producerVars, storageVars, ownerVars
  <2>2. Passed' = Passed /\ SeqsOf(q)' = SeqsOf(q) /\ SeqsOf(failed)' = SeqsOf(failed)
    BY <2>1, SamePassed DEF SeqsOf
  <2>3. SeqsOf(failed) = {}
    BY <2>1, SeqsOfNone DEF Shape, StoreShape
  <2>4. CASE q = <<>>
    <3>1. SeqsOf(q) = {}
      BY <2>4, SeqsOfNone
    <3> QED BY <2>1, <2>2, <2>3, <3>1 DEF DrainInv
  <2>5. CASE q # <<>>
    BY <1>1, <2>1, <2>2, <2>5 DEF Leaving
  <2> QED BY <2>4, <2>5
<1>5. CASE FlushByTime \/ FinalFlush
  <2>1. /\ UNCHANGED <<q, stored, failed, evicted, taken, beforeStop>> /\ stage # "storing"
        /\ FinalFlush => stage = "final"
    BY <1>5 DEF FlushByTime, FinalFlush, producerVars, storageVars, ownerVars
  <2>2. /\ SeqsOf(q)' = SeqsOf(q) /\ SeqsOf(failed)' = SeqsOf(failed)
        /\ SeqsOf(stored)' = SeqsOf(stored) /\ NoRow' = NoRow
    BY <2>1 DEF SeqsOf, NoRow
  <2>3. Passed \subseteq Passed'
    <3>1. CASE \E points, next : HandedOver(batch, points, next) \/ Kept(batch, points)
      BY <2>1, <2>2, <3>1, RowsPassed
    <3>2. CASE UNCHANGED <<batch, writing>>
      BY <2>1, <3>2, SamePassed
    <3> QED BY <1>5, <3>1, <3>2, FlushByTimeEffect, FinalFlushEffect
  <2>4. Gone' => Gone
    <3>1. CASE FinalFlush
      BY <2>1, <3>1 DEF Leaving
    <3>2. CASE FlushByTime
      BY <3>2, FlushByTimeEffect DEF HandedOver, Leaving
    <3> QED BY <1>5, <3>1, <3>2
  <2> QED BY <1>1, <2>1, <2>2, <2>3, <2>4
<1>6. CASE GetFrame
  <2>1. Passed \subseteq Passed' /\ Way \subseteq Way'
    BY <1>6, GetFramePassed
  <2>2. ~Gone' /\ UNCHANGED beforeStop
    BY <1>6, GetFrameEffect DEF GetFrame, HandedOver, Leaving, ownerVars
  <2> QED BY <1>1, <2>1, <2>2
<1>7. CASE Stored \/ StoringRaises
  <2>1. UNCHANGED <<q, beforeStop>> /\ SeqsOf(q)' = SeqsOf(q)
    BY <1>7 DEF Stored, StoringRaises, ownerVars, SeqsOf
  <2>2. Way \subseteq Way'
    BY <1>7, <2>1, StoredPassed
  <2>3. CASE Stored
    <3>1. Gone' => Gone
      BY <2>3 DEF Stored, Leaving, Shape, WorkerShape
    <3> QED BY <1>1, <2>1, <2>2, <2>3, <3>1, StoredPassed
  <2>4. CASE StoringRaises
    <3>1. stage' = "dead"
      BY <2>4 DEF StoringRaises
    <3> QED BY <2>1, <2>2, <3>1 DEF DrainInv
  <2> QED BY <1>7, <2>3, <2>4
<1>8. CASE Stop
  <2>1. /\ UNCHANGED <<q, stage, after, stored, failed, writing, batch, evicted, taken>>
        /\ beforeStop' = IF Leaving THEN beforeStop
                         ELSE beforeStop \cup SeqsOf(q) \cup SeqsOf(batch) \cup SeqsOf(writing)
    BY <1>8 DEF Stop, workerVars, producerVars, storageVars
  <2>2. /\ Passed' = Passed /\ SeqsOf(q)' = SeqsOf(q) /\ SeqsOf(failed)' = SeqsOf(failed)
        /\ Leaving' = Leaving
    BY <2>1, SamePassed DEF SeqsOf, Leaving
  <2>3. SeqsOf(batch) \subseteq Passed /\ SeqsOf(writing) \subseteq Passed
    BY DEF Passed
  <2> QED BY <2>1, <2>2, <2>3 DEF DrainInv
<1> QED
  BY <1>2, <1>3, <1>4, <1>5, <1>6, <1>7, <1>8 DEF Next, Work

-----------------------------------------------------------------------------
(* The invariant of the service, and what it says.                         *)

IngestInv ==
    Shape /\ PlaceInv /\ OrderInv /\ RowsInv /\ CountersAddUp /\ GapInv /\ DrainInv

LEMMA InitIngest == Init => IngestInv
<1> SUFFICES ASSUME Init PROVE IngestInv OBVIOUS
<1>1. Shape /\ PlaceInv
  BY InitShape, InitPlace
<1>2. OrderInv /\ GapInv /\ DrainInv
  BY DEF Init, OrderInv, InOrder, Below, GapInv, DrainInv, Leaving
<1>3. stored \o failed \o writing = <<>> /\ stored \o failed \o writing \o batch = <<>>
  BY DEF Init
<1>4. AreRowsOf(<<>>, <<>>)
  <2>1. {m \in 1..0 : <<>>[m].points > 0} = {}
    OBVIOUS
  <2>2. Cardinality({}) = 0
    BY FS_EmptySet
  <2> QED BY <2>1, <2>2 DEF AreRowsOf, RowsAmong
<1>5. RowsInv
  BY <1>3, <1>4 DEF RowsInv, Init
<1>6. CountersAddUp
  BY <1>3, SumOfNone DEF CountersAddUp, Init
<1> QED BY <1>1, <1>2, <1>5, <1>6 DEF IngestInv

\* The invariant that the properties below rest on: it is inductive.
THEOREM IngestInvariance == Spec => []IngestInv
<1>1. IngestInv /\ [Next]_vars => IngestInv'
  BY NextShape, NextPlace, NextOrder, NextRows, NextCounters, NextGap, NextDrain DEF IngestInv
<1> QED BY <1>1, InitIngest, PTL DEF Spec

\* The storage gets a row for each frame taken that has points, once and in the
\* order of the queue, and the frames of a producer in the order it made them,
\* whatever drop_oldest removes between them (ingest.py 244-264, 290-310).
THEOREM RowsKeepOrder == Spec => []RowsReachStorageInOrder
<1>1. IngestInv => RowsReachStorageInOrder
  <2> SUFFICES ASSUME IngestInv PROVE RowsReachStorageInOrder OBVIOUS
  <2> DEFINE line == taken \o q
             T == Len(taken)
  <2>1. q \in Seq(Frames) /\ taken \in Seq(Frames)
    BY DEF IngestInv, Shape, QueueShape, WorkerShape
  <2>2. /\ T \in Nat /\ Len(q) \in Nat /\ DOMAIN taken = 1..T /\ DOMAIN q = 1..Len(q)
        /\ DOMAIN line = 1..(T + Len(q))
        /\ \A n \in 1..T : line[n] = taken[n]
        /\ \A n \in 1..Len(q) : line[n + T] = q[n]
    <3>1. line \in Seq(Frames) /\ Len(line) = T + Len(q)
      BY <2>1, ConcatProperties
    <3> QED BY <2>1, <3>1, FrameFacts, ConcatProperties
  <2> HIDE DEF line
  <2>3. ASSUME NEW n \in DOMAIN line
        PROVE  \/ n \in DOMAIN taken /\ line[n] = taken[n]
               \/ n > T /\ n - T \in DOMAIN q /\ line[n] = q[n - T]
    <3>1. CASE n <= T
      BY <2>2, <3>1
    <3>2. CASE n > T
      <4>1. n - T \in 1..Len(q) /\ (n - T) + T = n
        BY <2>2, <3>2
      <4> QED BY <2>2, <3>2, <4>1
    <3> QED BY <2>2, <3>1, <3>2
  <2>4. InOrder(line)
    <3> SUFFICES ASSUME NEW m \in DOMAIN line, NEW n \in DOMAIN line, m < n,
                        line[m].by = line[n].by
                 PROVE  line[m].seq < line[n].seq
      BY DEF InOrder
    <3>1. CASE n \in DOMAIN taken
      <4>1. m \in DOMAIN taken
        BY <2>2, <3>1
      <4> QED BY <2>2, <3>1, <4>1 DEF IngestInv, OrderInv, InOrder
    <3>2. CASE m \in DOMAIN taken /\ n \notin DOMAIN taken
      BY <2>2, <2>3, <3>2 DEF IngestInv, OrderInv, Below
    <3>3. CASE m \notin DOMAIN taken /\ n \notin DOMAIN taken
      <4>1. /\ m - T \in DOMAIN q /\ line[m] = q[m - T]
            /\ n - T \in DOMAIN q /\ line[n] = q[n - T]
        BY <2>3, <3>3
      <4>2. m - T < n - T
        BY <2>2
      <4> QED BY <4>1, <4>2 DEF IngestInv, OrderInv, InOrder
    <3> QED BY <3>1, <3>2, <3>3
  <2> QED BY <2>4 DEF IngestInv, RowsInv, RowsReachStorageInOrder, InOrder, line
<1> QED BY <1>1, IngestInvariance, PTL

\* frames_in, rows_out, points_out and the points of the batch, whichever flush
\* was the last (ingest.py 258-259, 299, 308-309).
THEOREM CountersAreRight == Spec => []CountersAddUp
BY IngestInvariance, PTL DEF IngestInv

\* No frame is lost between two that the worker took without a gap being
\* counted: with no gap the seqs taken are consecutive (ingest.py 266-281).
THEOREM LossIsSeen == Spec => []LossIsReported
<1>1. IngestInv => LossIsReported
  <2> SUFFICES ASSUME IngestInv, NEW s \in refused \cup evicted,
                      NEW m \in DOMAIN taken, NEW n \in DOMAIN taken,
                      taken[m].seq < s, s < taken[n].seq
               PROVE  seqGaps > 0
    BY DEF LossIsReported
  <2>1. taken \in Seq(Frames) /\ seqGaps \in Nat
    BY DEF IngestInv, Shape, WorkerShape
  <2>2. /\ DOMAIN taken = 1..Len(taken) /\ Len(taken) \in Nat
        /\ \A k \in DOMAIN taken : taken[k].seq \in Nat
    BY <2>1, FrameFacts
  <2>3. s \in Nat
    <3>1. s \in 1..MaxFrames
      BY DEF IngestInv, Shape, HandShape
    <3> QED BY <3>1, Bounds
  <2>4. CASE seqGaps = 0
    <3>1. \A k \in DOMAIN taken : taken[k].seq = taken[1].seq + (k - 1)
      BY <2>4 DEF IngestInv, GapInv
    <3> DEFINE k == s - taken[1].seq + 1
    <3>2. 1 \in DOMAIN taken /\ taken[1].seq \in Nat
      BY <2>2
    <3>3. /\ taken[m].seq = taken[1].seq + (m - 1)
          /\ taken[n].seq = taken[1].seq + (n - 1)
      BY <3>1
    <3>4. k \in DOMAIN taken
      BY <2>2, <2>3, <3>2, <3>3
    <3>5. taken[k].seq = s
      BY <2>3, <3>1, <3>2, <3>4
    <3>6. s \in SeqsOf(taken)
      BY <3>4, <3>5 DEF SeqsOf
    <3> QED BY <3>6 DEF IngestInv, PlaceInv, Split
  <2> QED BY <2>1, <2>4
<1> QED BY <1>1, IngestInvariance, PTL

\* A worker that ended by itself has put every row of the frames that stop()
\* found into the storage, unless drop_oldest removed the frame; start() calls
\* meanwhile, and frames offered after stop(), change nothing of it
\* (ingest.py 290-311, 354-382).
THEOREM StopIsComplete == Spec => []StopDrains
<1>1. IngestInv => StopDrains
  <2> SUFFICES ASSUME IngestInv, stage = "done"
               PROVE  beforeStop \subseteq SeqsOf(stored) \cup evicted \cup NoRow
    BY DEF StopDrains, NoRow
  <2>1. beforeStop \subseteq Passed
    BY DEF IngestInv, DrainInv, Leaving
  <2>2. writing = <<>> /\ batch = <<>>
    BY DEF IngestInv, Shape, WorkerShape
  <2>3. SeqsOf(writing) = {} /\ SeqsOf(batch) = {}
    BY <2>2, SeqsOfNone
  <2> QED BY <2>1, <2>3 DEF Passed
<1> QED BY <1>1, IngestInvariance, PTL

-----------------------------------------------------------------------------
(* The programs of Pipeline: the queue and the worker keep IngestInv,      *)
(* whatever main does with them; the rest says what the order of main's    *)
(* calls makes of it.                                                      *)

\* stop() of the service was called.
Stopping == main \in {"join worker", "flush", "stats", "close", "final stats", "end", "raised"}

\* The main thread went through the join of the worker.
Joined == Stopping /\ main # "join worker"

\* Which steps of the main thread belong to which program, and when the unit runs.
ProgramInv ==
    /\ main \in {"start unit", "run", "join unit", "final stats"} => program = "ingest"
    /\ main \in {"frames", "flush", "stats"} => program = "capture"
    /\ program \in {"ingest", "capture"}
    /\ program = "capture" \/ main \in {"start ingest", "start unit"} => unit = "new"
    /\ unit = "done" => pc[Source] = "idle"
    /\ main = "start ingest" => stage = "new"

\* When the unit was joined, or the benchmark is through, on_frame is not called
\* again.
SilentInv ==
    main = "stop ingest" \/ Stopping =>
        "unit" \in timedOut \/ (pc[Source] = "idle" /\ unit \in {"new", "done"})

\* The worker leaves only after stop(), and leaves nothing when on_frame is silent.
WorkerInv ==
    /\ stopEvent => Stopping
    /\ stage = "check queue" \/ (Leaving /\ stage # "dead") => stopEvent
    /\ Leaving /\ stage # "dead" => "unit" \in timedOut \/ q = <<>>
    /\ Joined => "worker" \in timedOut \/ ~Alive

\* After the join the engine gets no row, so that what is durable and what is
\* reported stays.
EndInv ==
    /\ durable \in Nat /\ durable <= Len(stored)
    /\ main \in {"final stats", "end"} => "worker" \in timedOut \/ durable = Len(stored)
    /\ main = "end" \/ (main = "close" /\ program = "capture") =>
          timedOut # {} \/ report = Stats

PipelineInv == ProgramInv /\ SilentInv /\ WorkerInv /\ EndInv

-----------------------------------------------------------------------------
(* The service inside the program.                                         *)

\* A count between two counts.
LEMMA Between == \A n, d \in Nat : \A e : (e = n \/ e \in d..n) => e \in Nat /\ e <= n
OBVIOUS

LEMMA OneSource == Producers = {Source} /\ Source \in Producers
BY PipelineAssumption

LEMMA IngestStays ==
    ASSUME IngestInv, UNCHANGED <<settings, q, workerVars, producerVars, beforeStop, stored, failed>>
    PROVE  IngestInv'
<1> USE DEF workerVars, producerVars
<1>1. Shape'
  BY HandStays, QueueStays DEF IngestInv, Shape, WorkerShape, StoreShape
<1>2. PlaceInv' /\ OrderInv'
  BY QuietPlace, QuietOrder DEF IngestInv
<1>3. RowsInv' /\ CountersAddUp' /\ GapInv'
  BY DEF IngestInv, RowsInv, CountersAddUp, SumPoints, Points, GapInv
<1>4. Passed' = Passed /\ Leaving' = Leaving
  BY SamePassed DEF Leaving
<1>5. DrainInv'
  BY <1>4 DEF IngestInv, DrainInv, SeqsOf
<1> QED BY <1>1, <1>2, <1>3, <1>5 DEF IngestInv

\* A step of the program is one of the service, or the engine persists or is
\* closed, of which the service knows nothing.
LEMMA ServiceStep ==
    ASSUME PipelineNext
    PROVE  \/ [Next]_vars
           \/ UNCHANGED <<settings, q, workerVars, producerVars, beforeStop, stored, failed>>
<1>1. CASE UnitCheck \/ StartUnit \/ StopUnit \/ JoinUnit \/ CaptureDone \/ JoinWorker
           \/ ReadStats \/ FinalStats \/ EnginePersists
  BY <1>1 DEF UnitCheck, StartUnit, StopUnit, JoinUnit, CaptureDone, JoinWorker, ReadStats,
              FinalStats, EnginePersists
<1>2. CASE UnitFrame \/ CaptureFrame
  BY <1>2, OneSource DEF UnitFrame, CaptureFrame, Next
<1>3. CASE StartIngest \/ StopIngest
  BY <1>3 DEF StartIngest, StopIngest, Next
<1>4. CASE FlushEngine \/ CloseEngine
  BY <1>4 DEF FlushEngine, CloseEngine, ownerVars
<1>5. CASE OnFrame(Source) \/ Work \/ Age
  BY <1>5, OneSource DEF Next
<1> QED
  BY <1>1, <1>2, <1>3, <1>4, <1>5 DEF PipelineNext, Main

LEMMA PipelineIngest ==
    ASSUME IngestInv, [PipelineNext]_pipelineVars
    PROVE  IngestInv'
<1>1. IngestInv /\ [Next]_vars => IngestInv'
  BY NextShape, NextPlace, NextOrder, NextRows, NextCounters, NextGap, NextDrain DEF IngestInv
<1>2. UNCHANGED pipelineVars => UNCHANGED vars
  BY DEF pipelineVars
<1> QED BY <1>1, <1>2, ServiceStep, IngestStays

-----------------------------------------------------------------------------
(* The order of the calls.                                                 *)

\* The steps of the service's own threads.
Threads == OnFrame(Source) \/ Work \/ Age

LEMMA ThreadSteps ==
    ASSUME Threads
    PROVE  /\ UNCHANGED <<stopEvent, closed>>
           /\ stage = "new" => stage' = "new"
           /\ pc[Source] = "idle" /\ IngestInv => UNCHANGED pc
<1>1. CASE OnFrame(Source)
  <2>1. pc[Source] # "idle" /\ UNCHANGED <<workerVars, ownerVars>>
    BY <1>1 DEF OnFrame, Put, Drop, FindFull, Evict
  <2> QED BY <2>1 DEF workerVars, ownerVars
<1>2. CASE Work \/ Age
  <2>1. UNCHANGED <<stopEvent, closed, pc>>
    BY <1>2 DEF Work, Age, CheckStop, CheckQueue, FlushByTime, GetNothing, GetFrame, FinalFlush,
                Stored, StoringRaises, ownerVars, producerVars
  <2>2. stage = "new" => stage' = "new"
    BY <1>2 DEF Work, Age, CheckStop, CheckQueue, FlushByTime, GetNothing, GetFrame, FinalFlush,
                Stored, StoringRaises
  <2> QED BY <2>1, <2>2
<1> QED BY <1>1, <1>2 DEF Threads

LEMMA NextProgram ==
    ASSUME IngestInv, ProgramInv, [PipelineNext]_pipelineVars
    PROVE  ProgramInv'
<1> USE DEF ProgramInv
<1>1. CASE UNCHANGED pipelineVars
  BY <1>1 DEF pipelineVars, programVars, vars, workerVars, producerVars
<1>2. CASE Threads /\ UNCHANGED programVars
  BY <1>2, ThreadSteps DEF programVars
<1>3. CASE UnitCheck \/ StartUnit \/ StopUnit \/ JoinUnit \/ CaptureDone \/ JoinWorker
           \/ ReadStats \/ FinalStats \/ EnginePersists
  BY <1>3 DEF UnitCheck, StartUnit, StopUnit, JoinUnit, CaptureDone, JoinWorker, ReadStats,
              FinalStats, EnginePersists, vars, workerVars, producerVars
<1>4. CASE UnitFrame \/ CaptureFrame
  BY <1>4 DEF UnitFrame, CaptureFrame, Produce, workerVars, programVars
<1>5. CASE StartIngest \/ StopIngest
  BY <1>5 DEF StartIngest, StopIngest, Start, Stop, workerVars, producerVars
<1>6. CASE FlushEngine \/ CloseEngine
  BY <1>6 DEF FlushEngine, CloseEngine, workerVars, producerVars
<1> QED
  BY <1>1, <1>2, <1>3, <1>4, <1>5, <1>6 DEF PipelineNext, Main, Threads

LEMMA NextSilent ==
    ASSUME IngestInv, ProgramInv, SilentInv, [PipelineNext]_pipelineVars
    PROVE  SilentInv'
<1> USE DEF SilentInv, Stopping
<1>1. CASE UNCHANGED pipelineVars
  BY <1>1 DEF pipelineVars, programVars, vars, producerVars
<1>2. CASE Threads /\ UNCHANGED programVars
  BY <1>2, ThreadSteps DEF programVars
<1>3. CASE UnitCheck \/ StartUnit \/ StopUnit \/ JoinWorker \/ ReadStats \/ FinalStats
           \/ EnginePersists
  BY <1>3 DEF UnitCheck, StartUnit, StopUnit, JoinWorker, ReadStats, FinalStats, EnginePersists,
              vars, producerVars
<1>4. CASE JoinUnit \/ CaptureDone
  BY <1>4 DEF JoinUnit, CaptureDone, ProgramInv, vars, producerVars
<1>5. CASE UnitFrame \/ CaptureFrame
  BY <1>5 DEF UnitFrame, CaptureFrame, Produce, programVars
<1>6. CASE StartIngest \/ StopIngest
  BY <1>6 DEF StartIngest, StopIngest, Start, Stop, producerVars
<1>7. CASE FlushEngine \/ CloseEngine
  BY <1>7 DEF FlushEngine, CloseEngine, producerVars
<1> QED
  BY <1>1, <1>2, <1>3, <1>4, <1>5, <1>6, <1>7 DEF PipelineNext, Main, Threads

LEMMA NextWorker ==
    ASSUME IngestInv, ProgramInv, SilentInv, WorkerInv, [PipelineNext]_pipelineVars
    PROVE  WorkerInv'
<1> DEFINE Gone == Leaving /\ stage # "dead"
<1>1. \* Neither the worker nor the queue moves.
      ASSUME UNCHANGED <<stage, after, q, stopEvent>>, Stopping => Stopping',
             timedOut \subseteq timedOut', Joined' => Joined
      PROVE  WorkerInv'
  BY <1>1 DEF WorkerInv, Leaving, Alive
<1>2. CASE UNCHANGED pipelineVars
  BY <1>1, <1>2 DEF pipelineVars, programVars, vars, workerVars, ownerVars, Stopping, Joined
<1>3. CASE UnitCheck \/ StartUnit \/ StopUnit \/ JoinUnit \/ CaptureDone \/ ReadStats \/ FinalStats
           \/ EnginePersists
  <2>1. UNCHANGED <<stage, after, q, stopEvent>>
    BY <1>3 DEF UnitCheck, StartUnit, StopUnit, JoinUnit, CaptureDone, ReadStats, FinalStats,
                EnginePersists, vars, workerVars, ownerVars
  <2>2. (Stopping => Stopping') /\ timedOut \subseteq timedOut' /\ (Joined' => Joined)
    BY <1>3 DEF UnitCheck, StartUnit, StopUnit, JoinUnit, CaptureDone, ReadStats, FinalStats,
                EnginePersists, Stopping, Joined
  <2> QED BY <1>1, <2>1, <2>2
<1>4. CASE UnitFrame \/ CaptureFrame
  BY <1>1, <1>4 DEF UnitFrame, CaptureFrame, Produce, programVars, workerVars, ownerVars,
                    Stopping, Joined
<1>5. CASE FlushEngine \/ CloseEngine
  BY <1>1, <1>5 DEF FlushEngine, CloseEngine, workerVars, ownerVars, Stopping, Joined
<1>6. CASE StartIngest
  BY <1>6 DEF StartIngest, Start, ProgramInv, WorkerInv, Leaving, Alive, Stopping, Joined
<1>7. CASE StopIngest
  BY <1>7 DEF StopIngest, Stop, workerVars, WorkerInv, Leaving, Alive, Stopping, Joined
<1>8. CASE JoinWorker
  <2>1. /\ UNCHANGED <<stage, after, q, stopEvent>> /\ Stopping /\ Stopping'
        /\ timedOut' = IF Alive THEN timedOut \cup {"worker"} ELSE timedOut
    BY <1>8 DEF JoinWorker, vars, workerVars, ownerVars, Stopping
  <2> QED BY <2>1 DEF WorkerInv, Leaving, Alive
<1>9. CASE OnFrame(Source) /\ UNCHANGED programVars
  <2>1. pc[Source] # "idle" /\ UNCHANGED <<stage, after, stopEvent>>
    BY <1>9 DEF OnFrame, Put, Drop, FindFull, Evict, workerVars, ownerVars
  <2>2. UNCHANGED <<main, timedOut>>
    BY <1>9 DEF programVars
  <2>3. Gone => "unit" \in timedOut
    BY <2>1 DEF WorkerInv, SilentInv
  <2> QED BY <2>1, <2>2, <2>3 DEF WorkerInv, Leaving, Alive, Stopping, Joined
<1>10. CASE (Work \/ Age) /\ UNCHANGED programVars
  <2>1. UNCHANGED <<stopEvent, main, timedOut>>
    BY <1>10 DEF Work, Age, CheckStop, CheckQueue, FlushByTime, GetNothing, GetFrame, FinalFlush,
                 Stored, StoringRaises, ownerVars, programVars
  <2>2. CASE Age
    BY <1>1, <2>1, <2>2 DEF Age, Stopping, Joined
  <2>3. ASSUME Work PROVE Alive
    BY <2>3 DEF Work, CheckStop, CheckQueue, FlushByTime, GetNothing, GetFrame, FinalFlush,
                Stored, StoringRaises, Alive
  <2>4. ASSUME Work PROVE Joined => "worker" \in timedOut
    BY <2>3, <2>4 DEF WorkerInv
  <2>5. ASSUME ~(stage' = "check queue"), ~Gone', Work PROVE WorkerInv'
    BY <2>1, <2>4, <2>5 DEF WorkerInv, Stopping, Joined
  <2>6. CASE CheckStop
    BY <2>1, <2>4, <2>6 DEF CheckStop, Work, WorkerInv, Stopping, Joined, Leaving
  <2>7. CASE CheckQueue
    BY <2>1, <2>4, <2>7 DEF CheckQueue, Work, WorkerInv, Stopping, Joined, Leaving
  <2>8. CASE FlushByTime
    <3>1. stage' = "get" \/ (stage' = "storing" /\ after' = "get")
      BY <2>8, FlushByTimeEffect DEF HandedOver
    <3> QED BY <2>5, <2>8, <3>1 DEF Leaving, Work
  <2>9. CASE GetNothing
    BY <2>5, <2>9 DEF GetNothing, Leaving, Work
  <2>10. CASE GetFrame
    <3>1. stage' = "check" \/ (stage' = "storing" /\ after' = "check")
      BY <2>10, GetFrameEffect DEF HandedOver, IngestInv
    <3> QED BY <2>5, <2>10, <3>1 DEF Leaving, Work
  <2>11. CASE FinalFlush
    <3>1. stage = "final" /\ UNCHANGED q
      BY <2>11 DEF FinalFlush
    <3>2. stage' # "check queue"
      BY <2>11, FinalFlushEffect DEF HandedOver
    <3> QED BY <2>1, <2>4, <2>11, <3>1, <3>2 DEF Work, WorkerInv, Stopping, Joined, Leaving
  <2>12. CASE Stored
    <3>1. stage = "storing" /\ stage' = after /\ after \in {"check", "get", "done"} /\ UNCHANGED q
      BY <2>12 DEF Stored, IngestInv, Shape, WorkerShape
    <3> QED BY <2>1, <2>4, <2>12, <3>1 DEF Work, WorkerInv, Stopping, Joined, Leaving
  <2>13. CASE StoringRaises
    BY <2>5, <2>13 DEF StoringRaises, Work
  <2> QED
    BY <1>10, <2>2, <2>6, <2>7, <2>8, <2>9, <2>10, <2>11, <2>12, <2>13 DEF Work
<1> QED
  BY <1>2, <1>3, <1>4, <1>5, <1>6, <1>7, <1>8, <1>9, <1>10 DEF PipelineNext, Main

LEMMA NextEnd ==
    ASSUME IngestInv, ProgramInv, SilentInv, WorkerInv, EndInv, [PipelineNext]_pipelineVars
    PROVE  EndInv'
<1>0. Len(stored) \in Nat
  BY FrameFacts DEF IngestInv, Shape, StoreShape
<1>1. \* What the threads did stays.
      ASSUME UNCHANGED <<stored, pointsOut, dropped, durable, report, program, timedOut>>,
             main' = main \/ main' \notin {"final stats", "end", "close"}
      PROVE  EndInv'
  BY <1>1 DEF EndInv, Stats
<1>2. CASE UNCHANGED pipelineVars
  BY <1>1, <1>2 DEF pipelineVars, programVars, vars, workerVars, producerVars, storageVars
<1>3. CASE UnitCheck \/ StartUnit \/ StopUnit \/ CaptureDone
  BY <1>1, <1>3 DEF UnitCheck, StartUnit, StopUnit, CaptureDone, vars, workerVars, producerVars,
                    storageVars
<1>4. CASE JoinUnit
  BY <1>4 DEF JoinUnit, EndInv, vars, storageVars
<1>5. CASE UnitFrame \/ CaptureFrame
  BY <1>1, <1>5 DEF UnitFrame, CaptureFrame, Produce, programVars, workerVars, storageVars
<1>6. CASE StartIngest \/ StopIngest
  BY <1>1, <1>6 DEF StartIngest, StopIngest, Start, Stop, workerVars, producerVars, storageVars
<1>7. CASE JoinWorker
  BY <1>7 DEF JoinWorker, ProgramInv, EndInv, vars, storageVars
<1>8. CASE FlushEngine
  <2>1. durable' \in Nat /\ durable' <= Len(stored')
    BY <1>0, <1>8 DEF FlushEngine, EndInv
  <2>2. main' \in {"stats", "raised"}
    BY <1>8 DEF FlushEngine
  <2> QED BY <2>1, <2>2 DEF EndInv
<1>9. CASE CloseEngine
  <2>1. /\ durable' \in Nat /\ durable' <= Len(stored')
        /\ UNCHANGED <<stored, report, program, timedOut, pointsOut, dropped>>
        /\ main = "close"
        /\ \/ main' = "raised"
           \/ durable' = Len(stored') /\ main' = IF program = "ingest" THEN "final stats" ELSE "end"
    <3>1. durable \in Nat /\ durable <= Len(stored)
      BY DEF EndInv
    <3>2. /\ main = "close"
          /\ UNCHANGED <<stored, report, program, timedOut, pointsOut, dropped>>
          /\ \/ main' = "raised" /\ durable' \in durable..Len(stored)
             \/ durable' = Len(stored) /\ main' = IF program = "ingest" THEN "final stats" ELSE "end"
      BY <1>9 DEF CloseEngine, workerVars, producerVars
    <3>3. durable' = Len(stored) \/ durable' \in durable..Len(stored)
      BY <3>2
    <3>4. durable' \in Nat /\ durable' <= Len(stored)
      BY <1>0, <3>1, <3>3, Between
    <3>5. Len(stored') = Len(stored)
      BY <3>2
    <3> QED BY <3>2, <3>4, <3>5
  <2> QED BY <2>1 DEF EndInv, Stats, ProgramInv
<1>10. CASE ReadStats
  BY <1>10 DEF ReadStats, EndInv, Stats, vars, storageVars, workerVars, producerVars
<1>11. CASE FinalStats
  BY <1>11 DEF FinalStats, EndInv, Stats, vars, storageVars, workerVars, producerVars
<1>12. CASE EnginePersists
  <2>1. /\ durable < Len(stored) /\ durable' = durable + 1
        /\ UNCHANGED <<stored, pointsOut, dropped, report, program, main, timedOut>>
    BY <1>12 DEF EnginePersists, vars, storageVars, workerVars, producerVars
  <2>2. durable \in Nat
    BY DEF EndInv
  <2>3. durable' \in Nat /\ durable' <= Len(stored) /\ durable # Len(stored)
    BY <1>0, <2>1, <2>2
  <2> QED BY <2>1, <2>3 DEF EndInv, Stats
<1>13. CASE OnFrame(Source) /\ UNCHANGED programVars
  <2>1. UNCHANGED <<stored, pointsOut, durable, report, program, main, timedOut>> /\ pc[Source] # "idle"
    BY <1>13 DEF OnFrame, Put, Drop, FindFull, Evict, programVars, workerVars, storageVars
  <2>2. Stopping => timedOut # {}
    BY <2>1 DEF SilentInv
  <2> QED BY <2>1, <2>2 DEF EndInv, Stopping
<1>14. CASE (Work \/ Age) /\ UNCHANGED programVars
  <2>1. UNCHANGED <<durable, report, program, main, timedOut, dropped>>
    BY <1>14 DEF Work, Age, CheckStop, CheckQueue, FlushByTime, GetNothing, GetFrame, FinalFlush,
                 Stored, StoringRaises, producerVars, programVars
  <2>2. CASE Age
    BY <1>1, <2>1, <2>2 DEF Age, storageVars
  <2>3. CASE Work
    <3>1. Alive
      BY <2>3 DEF Work, CheckStop, CheckQueue, FlushByTime, GetNothing, GetFrame, FinalFlush,
                  Stored, StoringRaises, Alive
    <3>2. Joined => "worker" \in timedOut
      BY <3>1 DEF WorkerInv
    <3>3. stored' \in Seq(Frames) /\ Len(stored) <= Len(stored')
      <4>1. CASE UNCHANGED stored
        BY <1>0, <4>1 DEF IngestInv, Shape, StoreShape
      <4>2. CASE stored' = stored \o writing
        <5>1. stored \in Seq(Frames) /\ writing \in Seq(Frames)
          BY DEF IngestInv, Shape, StoreShape, WorkerShape
        <5>2. stored \o writing \in Seq(Frames) /\ Len(stored \o writing) = Len(stored) + Len(writing)
          BY <5>1, ConcatProperties
        <5> QED BY <1>0, <4>2, <5>1, <5>2, FrameFacts
      <4> QED
        BY <2>3, <4>1, <4>2 DEF Work, CheckStop, CheckQueue, FlushByTime, GetNothing, GetFrame,
                                FinalFlush, Stored, StoringRaises, storageVars
    <3>4. durable \in Nat /\ durable <= Len(stored')
      <4>1. durable \in Nat /\ durable <= Len(stored)
        BY DEF EndInv
      <4>2. Len(stored') \in Nat
        BY <3>3, LenProperties
      <4> QED BY <1>0, <3>3, <4>1, <4>2
    <3> QED BY <2>1, <3>2, <3>4 DEF EndInv, Joined, Stopping
  <2> QED BY <1>14, <2>2, <2>3
<1> QED
  BY <1>2, <1>3, <1>4, <1>5, <1>6, <1>7, <1>8, <1>9, <1>10, <1>11, <1>12, <1>13, <1>14
     DEF PipelineNext, Main

LEMMA InitPipeline == PipelineInit => IngestInv /\ PipelineInv
<1> SUFFICES ASSUME PipelineInit PROVE IngestInv /\ PipelineInv OBVIOUS
<1>1. IngestInv
  BY InitIngest DEF PipelineInit
<1>2. ProgramInv
  BY PipelineAssumption DEF PipelineInit, Init, ProgramInv
<1>3. SilentInv /\ WorkerInv
  BY DEF PipelineInit, Init, SilentInv, WorkerInv, Stopping, Joined, Leaving, Alive
<1>4. EndInv
  <2>1. Len(stored) = 0
    BY DEF PipelineInit, Init
  <2>2. durable = 0 /\ main = "start ingest"
    BY DEF PipelineInit
  <2>3. durable \in Nat /\ durable <= Len(stored)
    <3>1. \A n, d : n = 0 /\ d = 0 => d \in Nat /\ d <= n
      OBVIOUS
    <3> QED BY ONLY <3>1, <2>1, <2>2
  <2> QED BY <2>2, <2>3 DEF EndInv
<1> QED BY <1>1, <1>2, <1>3, <1>4 DEF PipelineInv

\* The service inside either program keeps what it promises by itself, and main's
\* calls come in their order.
THEOREM PipelineInvariance == PipelineSpec => [](IngestInv /\ PipelineInv)
<1>1. (IngestInv /\ PipelineInv) /\ [PipelineNext]_pipelineVars => (IngestInv /\ PipelineInv)'
  BY PipelineIngest, NextProgram, NextSilent, NextWorker, NextEnd DEF PipelineInv
<1> QED BY <1>1, InitPipeline, PTL DEF PipelineSpec

\* After a clean end of either program every row is durable, and the report says
\* what was stored and what was refused, for any number of frames, any size of
\* the queue and of a batch, and every overflow policy (main.py 131-141,
\* benchmark.py 270-287).
THEOREM CleanEndStoresAll == PipelineSpec => []ShutdownStoresAll
<1>1. IngestInv /\ PipelineInv => ShutdownStoresAll
  <2> SUFFICES ASSUME IngestInv, PipelineInv, main = "end", timedOut = {}, stage = "done"
               PROVE  /\ durable = Len(stored) /\ AreRowsOf(stored, taken)
                      /\ 1..(nextSeq - 1) = SeqsOf(taken) \cup evicted \cup refused
                      /\ report.points = SumPoints(stored)
                      /\ report.dropped = Cardinality(refused)
    BY DEF ShutdownStoresAll, CleanEnd
  <2>1. durable = Len(stored) /\ report = Stats
    BY DEF PipelineInv, EndInv
  <2>2. pc[Source] = "idle" /\ q = <<>>
    BY DEF PipelineInv, SilentInv, WorkerInv, Stopping, Leaving
  <2>3. InHand = {}
    BY <2>2, OneSource DEF InHand
  <2>4. SeqsOf(q) = {}
    BY <2>2, SeqsOfNone
  <2>5. 1..(nextSeq - 1) = SeqsOf(taken) \cup evicted \cup refused
    BY <2>3, <2>4 DEF IngestInv, PlaceInv, Split
  <2>6. failed = <<>> /\ writing = <<>> /\ batch = <<>> /\ stored \in Seq(Frames)
    BY DEF IngestInv, Shape, StoreShape, WorkerShape
  <2>7. stored \o failed \o writing = stored /\ stored \o failed \o writing \o batch = stored
    BY <2>6, ConcatEmptySeq
  <2>8. AreRowsOf(stored, taken)
    BY <2>7 DEF IngestInv, RowsInv
  <2>9. pointsOut = SumPoints(stored) /\ dropped = Cardinality(refused)
    BY <2>7 DEF IngestInv, CountersAddUp, PlaceInv
  <2> QED BY <2>1, <2>5, <2>8, <2>9 DEF Stats
<1> QED BY <1>1, PipelineInvariance, PTL
=============================================================================
