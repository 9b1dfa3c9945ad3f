--------------------------- MODULE StorageDataProofs ---------------------------
(***************************************************************************)
(* What becomes of the points: the order of the versions in the runs, that *)
(* no accepted point is lost, and that the manifests on disk cover what    *)
(* queries see.  And what the callers of the engine rely on: that somebody *)
(* comes for every queued flush, and that a query returns the snapshot it  *)
(* took.                                                                   *)
(***************************************************************************)
EXTENDS StorageCoreProofs, WellFoundedInduction

\* Run a has only older versions than run b, key by key.
Before(a, b) == \A k \in Keys : \A i \in a[k], j \in b[k] : i < j

\* The runs of a set of tables are ordered as their ids.
OrderedTables(ids) == \A t, u \in ids : t < u => Before(files[t], files[u])

\* RunsOrdered, place by place, for an engine whose memtable holds run m.
OrderInv(m) ==
    /\ OrderedTables(tables)
    /\ \A t \in tables : Before(files[t], m)
    /\ \A t \in tables, n \in DOMAIN pendingFlushes :
          Before(files[t], pendingFlushes[n].data)
    /\ \A n \in DOMAIN pendingFlushes : Before(pendingFlushes[n].data, m)
    /\ \A n, p \in DOMAIN pendingFlushes :
          n < p => Before(pendingFlushes[n].data, pendingFlushes[p].data)
    /\ FlushInProgress =>
          /\ \A t \in tables : Before(files[t], job.data)
          /\ Before(job.data, m)
          /\ \A n \in DOMAIN pendingFlushes : Before(job.data, pendingFlushes[n].data)

\* No run holds a version that is yet to come.
Past(a, now) == \A k \in Keys : \A i \in a[k] : i <= now

PastInv(m, now) ==
    /\ \A t \in DOMAIN files : Past(files[t], now)
    /\ \A n \in DOMAIN pendingFlushes : Past(pendingFlushes[n].data, now)
    /\ FlushInProgress => Past(job.data, now)
    /\ Past(m, now)

\* Run a has version i of key k or a newer one.
Has(a, k, i) == \E j \in a[k] : i <= j

\* Only in the tables may a newer version have taken the place of i: a merge
\* drops it there.
Kept(m, k, i) ==
    \/ \E t \in tables : Has(files[t], k, i)
    \/ FlushInProgress /\ i \in job.data[k]
    \/ \E n \in DOMAIN pendingFlushes : i \in pendingFlushes[n].data[k]
    \/ i \in m[k]

\* The versions in gone are those that died with an earlier process.
KeptInv(m, calls, gone) ==
    \A i \in DOMAIN calls : \A k \in calls[i] : i \in lost \cup gone \/ Kept(m, k, i)

\* Run a is what a merge makes of the tables in ids: points of theirs only, and
\* for every point of theirs one that is as new.
MergeOf(a, ids) ==
    \A k \in Keys :
        /\ \A j \in a[k] : \E t \in ids : j \in files[t][k]
        /\ \A t \in ids : \A i \in files[t][k] : Has(a, k, i)

\* The file of the job, once it is written.
FileInv ==
    Active /\ stage # "write" =>
        /\ job.kind = "flush" => files[job.id] = job.data
        /\ job.kind = "compaction" => MergeOf(files[job.id], tables)

\* A manifest names tables in order, and for every point of _tables one that is
\* as new.
CoversTables(ids) ==
    /\ OrderedTables(ids)
    /\ \A t \in tables, k \in Keys : \A i \in files[t][k] :
          \E u \in ids : Has(files[u], k, i)

PointsInv(gone) ==
    /\ OrderInv(memtable.data)
    /\ PastInv(memtable.data, Len(log))
    /\ KeptInv(memtable.data, log, gone)
    /\ FileInv

\* With no process before this one, nothing is gone.
DataInv == PointsInv({})

-----------------------------------------------------------------------------
(* Greatest and least elements.                                            *)

LEMMA MinExists ==
    ASSUME NEW T \in SUBSET Nat, T # {}
    PROVE  \E x \in T : \A y \in T : x <= y
<1>1. PICK x \in T : \A y \in T : ~ (<<y, x>> \in OpToRel(<, Nat))
  BY NatLessThanWellFounded, WFMin
<1>2. \A y \in T : ~ (y < x)
  BY <1>1 DEF OpToRel
<1> QED BY <1>2

LEMMA MaxExists ==
    ASSUME NEW S \in SUBSET Nat, S # {}, NEW bound \in Nat, \A i \in S : i <= bound
    PROVE  \E x \in S : \A y \in S : y <= x
<1> DEFINE T == {bound - i : i \in S}
<1>1. \A i \in S : bound - i \in Nat
  OBVIOUS
<1>2. T \in SUBSET Nat /\ T # {}
  BY <1>1
<1>3. PICK d \in T : \A e \in T : d <= e
  <2> HIDE DEF T
  <2> QED BY <1>2, MinExists
<1>4. PICK x \in S : d = bound - x
  BY <1>3
<1>5. \A y \in S : bound - x <= bound - y
  BY <1>3, <1>4
<1> QED BY <1>5

-----------------------------------------------------------------------------
(* Merges.                                                                 *)

\* Over tables in order, a merge keeps for each key the newest version there is.
LEMMA MergeRunsIsMerge ==
    ASSUME EngineTypeOK, NEW ids \in SUBSET DOMAIN files, OrderedTables(ids),
           NEW now \in Nat, \A t \in ids : Past(files[t], now)
    PROVE  MergeOf(MergeRuns(ids), ids)
<1> SUFFICES ASSUME NEW k \in Keys
             PROVE  /\ \A j \in MergeRuns(ids)[k] : \E t \in ids : j \in files[t][k]
                    /\ \A t \in ids : \A i \in files[t][k] : Has(MergeRuns(ids), k, i)
  BY DEF MergeOf
<1>1. \A j \in MergeRuns(ids)[k] : \E t \in ids : j \in files[t][k]
  BY DEF MergeRuns
<1>2. ASSUME NEW t \in ids, NEW i \in files[t][k] PROVE Has(MergeRuns(ids), k, i)
  <2> DEFINE S == UNION {files[u][k] : u \in ids}
  <2>1. \A u \in ids : u \in Nat /\ files[u][k] \subseteq Nat
    BY DEF EngineTypeOK, Runs, Versions
  <2>2. S \in SUBSET Nat /\ S # {} /\ \A j \in S : j <= now
    BY <1>2, <2>1 DEF Past
  <2>3. PICK j \in S : \A h \in S : h <= j
    <3> HIDE DEF S
    <3> QED BY <2>2, MaxExists
  <2>4. PICK u \in ids : j \in files[u][k]
    OBVIOUS
  <2>5. ASSUME NEW v \in ids, NEW h \in files[v][k] PROVE v < u \/ (v = u /\ h <= j)
    <3>1. h <= j /\ j \in Nat /\ h \in Nat
      BY <2>1, <2>3
    <3>2. ~(u < v)
      BY <2>4, <2>5, <3>1 DEF OrderedTables, Before
    <3> QED BY <2>1, <3>1, <3>2
  <2>6. j \in MergeRuns(ids)[k]
    BY <2>4, <2>5 DEF MergeRuns
  <2>7. i <= j
    BY <1>2, <2>3
  <2> QED BY <2>6, <2>7 DEF Has
<1> QED BY <1>1, <1>2

-----------------------------------------------------------------------------
(* Appends.                                                                *)

\* The new version is newer than all there are.
LEMMA AppendedData ==
    ASSUME EngineInv, NEW gone, PointsInv(gone), NEW b \in Batches
    PROVE  /\ OrderInv(Appended(b).data)
           /\ PastInv(Appended(b).data, Len(log) + 1)
           /\ KeptInv(Appended(b).data, Append(log, b.keys), gone)
<1> DEFINE m == Appended(b).data
<1>1. /\ log \in Seq(SUBSET Keys) /\ Len(log) \in Nat /\ memtable.data \in Runs
      /\ b.keys \in SUBSET Keys
  BY BatchesAssumption DEF EngineInv, EngineTypeOK
<1>2. \A k \in Keys : /\ memtable.data[k] \subseteq m[k]
                      /\ m[k] \subseteq memtable.data[k] \cup {Len(log) + 1}
                      /\ k \in b.keys => Len(log) + 1 \in m[k]
  BY DEF Appended
<1> HIDE DEF m
<1>3. ASSUME NEW a \in Runs, Past(a, Len(log)), Before(a, memtable.data)
      PROVE  Before(a, m) /\ Past(a, Len(log) + 1)
  <2>1. \A k \in Keys : \A i \in a[k] : i \in Nat /\ i <= Len(log)
    BY <1>3 DEF Past, Runs, Versions
  <2>2. \A k \in Keys : \A i \in a[k] : i < Len(log) + 1
    BY <1>1, <2>1
  <2> QED BY <1>1, <1>2, <1>3, <2>1, <2>2 DEF Before, Past
<1>4. /\ \A t \in DOMAIN files : files[t] \in Runs /\ Past(files[t], Len(log))
      /\ tables \subseteq DOMAIN files
      /\ \A n \in DOMAIN pendingFlushes :
            pendingFlushes[n].data \in Runs /\ Past(pendingFlushes[n].data, Len(log))
      /\ job.data \in Runs
      /\ FlushInProgress => Past(job.data, Len(log))
  BY PendingType DEF EngineInv, EngineTypeOK, TablesExist, Jobs, PointsInv, PastInv
<1>5. OrderInv(m)
  BY <1>3, <1>4 DEF PointsInv, OrderInv
<1>6. PastInv(m, Len(log) + 1)
  <2>1. ASSUME NEW a \in Runs, Past(a, Len(log)) PROVE Past(a, Len(log) + 1)
    <3>1. \A k \in Keys : \A i \in a[k] : i \in Nat
      BY DEF Runs, Versions
    <3> QED BY <1>1, <2>1, <3>1 DEF Past
  <2>2. Past(m, Len(log) + 1)
    <3>1. Past(memtable.data, Len(log) + 1)
      BY <1>1, <2>1 DEF PointsInv, PastInv
    <3> QED BY <1>1, <1>2, <3>1 DEF Past
  <2> QED BY <1>4, <2>1, <2>2 DEF PastInv
<1>7. KeptInv(m, Append(log, b.keys), gone)
  <2> SUFFICES ASSUME NEW i \in DOMAIN Append(log, b.keys), NEW k \in Append(log, b.keys)[i],
                      i \notin lost \cup gone
               PROVE  Kept(m, k, i)
    BY DEF KeptInv
  <2>1. CASE i \in DOMAIN log
    <3>1. k \in log[i] /\ k \in Keys
      BY <1>1, <2>1
    <3>2. Kept(memtable.data, k, i)
      BY <2>1, <3>1 DEF PointsInv, KeptInv
    <3> QED BY <1>2, <3>1, <3>2 DEF Kept
  <2>2. CASE i = Len(log) + 1
    <3>1. k \in b.keys /\ k \in Keys
      BY <1>1, <2>2
    <3> QED BY <1>2, <2>2, <3>1 DEF Kept
  <2>3. i \in DOMAIN log \/ i = Len(log) + 1
    BY <1>1
  <2> QED BY <2>1, <2>2, <2>3
<1> QED BY <1>5, <1>6, <1>7 DEF m

\* The rotated memtable is as new as anything but the empty one that follows.
LEMMA EnqueueData ==
    ASSUME EngineInv, NEW gone,
           NEW mt \in [rows : Nat, points : Nat, data : Runs], EnqueueFlush(mt),
           OrderInv(mt.data), PastInv(mt.data, Len(log')), KeptInv(mt.data, log', gone),
           UNCHANGED <<tables, files, job, lost>>, FlushInProgress' <=> FlushInProgress
    PROVE  /\ OrderInv(memtable.data)'
           /\ PastInv(memtable.data, Len(log))'
           /\ KeptInv(memtable.data, log, gone)'
<1>1. /\ pendingFlushes \in Seq([id : Versions, data : Runs])
      /\ [id |-> nextTableId, data |-> mt.data] \in [id : Versions, data : Runs]
  BY DEF EngineInv, EngineTypeOK
<1> DEFINE top == Len(pendingFlushes) + 1
<1>2. /\ memtable'.data = NoPoints
      /\ pendingFlushes' = Append(pendingFlushes, [id |-> nextTableId, data |-> mt.data])
  BY DEF EnqueueFlush, EmptyMemtable
<1>3. /\ top \in Nat /\ top \in DOMAIN pendingFlushes' /\ pendingFlushes'[top].data = mt.data
      /\ \A n \in DOMAIN pendingFlushes : /\ n \in Nat /\ n < top
                                          /\ n \in DOMAIN pendingFlushes'
                                          /\ pendingFlushes'[n] = pendingFlushes[n]
      /\ \A n \in DOMAIN pendingFlushes' : n \in DOMAIN pendingFlushes \/ n = top
  BY <1>1, <1>2
<1> HIDE DEF top
<1>4. \A a : Before(a, NoPoints)
  BY DEF Before, NoPoints
<1>5. OrderInv(memtable.data)'
  <2>1. OrderedTables(tables)'
    BY DEF OrderInv, OrderedTables, Before
  <2>2. \A t \in tables, n \in DOMAIN pendingFlushes' :
          Before(files[t], pendingFlushes'[n].data)
    BY <1>3 DEF OrderInv
  <2>3. \A n, p \in DOMAIN pendingFlushes' :
          n < p => Before(pendingFlushes'[n].data, pendingFlushes'[p].data)
    BY <1>3 DEF OrderInv
  <2>4. FlushInProgress => /\ \A t \in tables : Before(files[t], job.data)
                           /\ \A n \in DOMAIN pendingFlushes' :
                                 Before(job.data, pendingFlushes'[n].data)
    BY <1>3 DEF OrderInv
  <2> QED
    BY <1>2, <1>4, <2>1, <2>2, <2>3, <2>4 DEF OrderInv, Before
<1>6. PastInv(memtable.data, Len(log))'
  <2>1. \A n \in DOMAIN pendingFlushes' : Past(pendingFlushes'[n].data, Len(log'))
    BY <1>3 DEF PastInv
  <2>2. Past(NoPoints, Len(log'))
    BY DEF Past, NoPoints
  <2> QED BY <1>2, <2>1, <2>2 DEF PastInv, Past
<1>7. KeptInv(memtable.data, log, gone)'
  <2>1. \A k, i : Kept(mt.data, k, i) => Kept(memtable.data, k, i)'
    BY <1>3 DEF Kept, Has
  <2> QED BY <2>1 DEF KeptInv
<1> QED BY <1>5, <1>6, <1>7

\* Steps that move no run from one place to another.
LEMMA RunsStay ==
    ASSUME EngineInv, NEW gone, PointsInv(gone),
           UNCHANGED <<memtable, pendingFlushes, tables, log, lost>>,
           FlushInProgress' <=> FlushInProgress, FlushInProgress => job'.data = job.data,
           \A t \in tables : files'[t] = files[t],
           \A t \in DOMAIN files' : Past(files'[t], Len(log))
    PROVE  /\ OrderInv(memtable.data)'
           /\ PastInv(memtable.data, Len(log))'
           /\ KeptInv(memtable.data, log, gone)'
<1>1. OrderInv(memtable.data)'
  BY DEF PointsInv, OrderInv, OrderedTables, Before
<1>2. PastInv(memtable.data, Len(log))'
  BY DEF PointsInv, PastInv, Past
<1>3. \A k, i : Kept(memtable.data, k, i) => Kept(memtable.data, k, i)'
  BY DEF Kept, Has
<1>4. KeptInv(memtable.data, log, gone)'
  BY <1>3 DEF PointsInv, KeptInv
<1> QED BY <1>1, <1>2, <1>4

\* Nothing the data invariant reads changes, the stage and the job but for the
\* run of a flush excepted.
LEMMA QuietData ==
    ASSUME EngineInv, NEW gone, PointsInv(gone),
           UNCHANGED <<memtable, pendingFlushes, tables, files, primary, backup, log, lost>>,
           FlushInProgress' <=> FlushInProgress, FlushInProgress => job'.data = job.data,
           FileInv'
    PROVE  PointsInv(gone)'
<1>1. \A t \in DOMAIN files' : Past(files'[t], Len(log))
  BY DEF PointsInv, PastInv
<1> QED BY <1>1, RunsStay DEF PointsInv

LEMMA AppendRowsData ==
    ASSUME EngineInv, NEW gone, PointsInv(gone), NEW c \in Clients, NEW b \in Batches, AppendRows(c, b)
    PROVE  PointsInv(gone)'
<1>1. /\ log' = Append(log, b.keys)
      /\ UNCHANGED <<tables, closed, holder, stage, job, files, primary, backup, lost>>
  BY DEF AppendRows, lockVars, diskVars
<1>2. FlushInProgress' <=> FlushInProgress
  BY <1>1 DEF FlushInProgress
<1>3. Len(log') = Len(log) + 1
  BY <1>1 DEF EngineInv, EngineTypeOK
<1>4. /\ OrderInv(Appended(b).data)
      /\ PastInv(Appended(b).data, Len(log'))
      /\ KeptInv(Appended(b).data, log', gone)
  BY <1>1, <1>3, AppendedData
<1>5. FileInv'
  BY <1>1 DEF PointsInv, FileInv, Active, MergeOf, Has
<1>6. CASE ShouldFlush(Appended(b))
  <2>1. EnqueueFlush(Appended(b))
    BY <1>6 DEF AppendRows
  <2>2. Appended(b) \in [rows : Nat, points : Nat, data : Runs]
    BY AppendedType DEF EngineInv
  <2>3. /\ OrderInv(memtable.data)' /\ PastInv(memtable.data, Len(log))'
        /\ KeptInv(memtable.data, log, gone)'
    BY <1>1, <1>2, <1>4, <2>1, <2>2, EnqueueData
  <2> QED BY <1>5, <2>3 DEF PointsInv
<1>7. CASE ~ShouldFlush(Appended(b))
  <2>1. memtable' = Appended(b) /\ UNCHANGED <<nextTableId, pendingFlushes>>
    BY <1>7 DEF AppendRows
  <2>2. OrderInv(memtable.data)'
    BY <1>1, <1>2, <1>4, <2>1 DEF OrderInv, OrderedTables, Before
  <2>3. PastInv(memtable.data, Len(log))'
    BY <1>1, <1>2, <1>4, <2>1 DEF PastInv, Past
  <2>4. KeptInv(memtable.data, log, gone)'
    <3>1. \A k, i : Kept(Appended(b).data, k, i) => Kept(memtable.data, k, i)'
      BY <1>1, <1>2, <2>1 DEF Kept, Has
    <3> QED BY <1>1, <1>4, <3>1 DEF KeptInv
  <2> QED BY <1>5, <2>2, <2>3, <2>4 DEF PointsInv
<1> QED BY <1>6, <1>7

\* flush() and the first close() rotate the memtable as it is.
LEMMA RotateData ==
    ASSUME EngineInv, NEW gone, PointsInv(gone), EnqueueFlush(memtable),
           UNCHANGED <<tables, job, files, primary, backup, log, lost>>,
           stage' = stage \/ (~Active /\ ~Active')
    PROVE  PointsInv(gone)'
<1>1. FlushInProgress' <=> FlushInProgress
  BY DEF FlushInProgress, Active
<1>2. memtable \in [rows : Nat, points : Nat, data : Runs]
  BY DEF EngineInv, EngineTypeOK
<1>3. /\ OrderInv(memtable.data)' /\ PastInv(memtable.data, Len(log))'
      /\ KeptInv(memtable.data, log, gone)'
  BY <1>1, <1>2, EnqueueData DEF PointsInv
<1>4. FileInv'
  BY DEF PointsInv, FileInv, Active, MergeOf, Has
<1> QED BY <1>3, <1>4 DEF PointsInv

LEMMA FlushData ==
    ASSUME EngineInv, NEW gone, PointsInv(gone), NEW c \in Clients, Flush(c)
    PROVE  PointsInv(gone)'
BY RotateData DEF Flush, lockVars, diskVars, historyVars

LEMMA CloseFirstData ==
    ASSUME EngineInv, NEW gone, PointsInv(gone), NEW c \in Clients, CloseFirst(c)
    PROVE  PointsInv(gone)'
<1>1. /\ UNCHANGED <<tables, job, files, primary, backup, log, lost>>
      /\ stage' = "pick" /\ stage = "free"
  BY DEF CloseFirst, TakeLock, diskVars, historyVars, EngineInv, EngineTypeOK
<1>2. CASE memtable.points > 0
  BY <1>1, <1>2, RotateData DEF CloseFirst, Active
<1>3. CASE ~(memtable.points > 0)
  <2>1. UNCHANGED <<memtable, nextTableId, pendingFlushes>>
    BY <1>3 DEF CloseFirst, NothingEnqueued
  <2>2. ~FlushInProgress /\ ~FlushInProgress'
    BY <1>1 DEF FlushInProgress
  <2>3. FileInv'
    BY <1>1, <2>1 DEF PointsInv, FileInv, Active
  <2> QED BY <1>1, <2>1, <2>2, <2>3, QuietData
<1> QED BY <1>2, <1>3

-----------------------------------------------------------------------------
(* Steps of the client that drains.                                        *)

LEMMA PickFlushData ==
    ASSUME EngineInv, NEW gone, PointsInv(gone), NEW c \in Clients, PickFlush(c)
    PROVE  PointsInv(gone)'
<1>1. /\ stage = "pick" /\ pendingFlushes # <<>> /\ pendingFlushes' = Tail(pendingFlushes)
      /\ UNCHANGED <<memtable, tables, nextTableId, files, primary, backup, log, lost>>
  BY DEF PickFlush, diskVars, historyVars
<1> DEFINE head == pendingFlushes[1]
<1>2. /\ 1 \in DOMAIN pendingFlushes /\ Head(pendingFlushes) = head
      /\ \A n \in DOMAIN pendingFlushes' :
            /\ n \in Nat /\ 1 < n + 1 /\ n + 1 \in DOMAIN pendingFlushes
            /\ pendingFlushes'[n] = pendingFlushes[n + 1]
  BY <1>1, TailFacts DEF EngineInv
<1>3. \A n \in DOMAIN pendingFlushes :
        n = 1 \/ \E p \in DOMAIN pendingFlushes' : pendingFlushes'[p] = pendingFlushes[n]
  <2>1. pendingFlushes \in Seq([id : Versions, data : Runs])
    BY DEF EngineInv, EngineTypeOK
  <2> SUFFICES ASSUME NEW n \in DOMAIN pendingFlushes, n # 1
               PROVE  n - 1 \in DOMAIN pendingFlushes' /\ (n - 1) + 1 = n
    BY <1>2
  <2>2. DOMAIN Tail(pendingFlushes) = 1..(Len(pendingFlushes) - 1)
    BY <1>1, <2>1, HeadTailProperties
  <2> QED BY <1>1, <2>1, <2>2
<1> HIDE DEF head
<1>4. /\ OrderedTables(tables)' /\ \A t \in tables' : Before(files'[t], memtable'.data)
      /\ \A t \in tables', n \in DOMAIN pendingFlushes' :
            Before(files'[t], pendingFlushes'[n].data)
      /\ \A n \in DOMAIN pendingFlushes' : Before(pendingFlushes'[n].data, memtable'.data)
      /\ \A n, p \in DOMAIN pendingFlushes' :
            n < p => Before(pendingFlushes'[n].data, pendingFlushes'[p].data)
  <2>1. \A n, p \in DOMAIN pendingFlushes' : n < p => n + 1 < p + 1
    BY <1>2
  <2> QED BY <1>1, <1>2, <2>1 DEF PointsInv, OrderInv, OrderedTables, Before
<1>5. /\ \A t \in DOMAIN files' : Past(files'[t], Len(log'))
      /\ \A n \in DOMAIN pendingFlushes' : Past(pendingFlushes'[n].data, Len(log'))
      /\ Past(memtable'.data, Len(log'))
  BY <1>1, <1>2 DEF PointsInv, PastInv, Past
<1>6. ~FlushInProgress
  BY <1>1 DEF FlushInProgress
<1>7. \A i \in DOMAIN log : \A k \in log[i] : k \in Keys
  BY DEF EngineInv, EngineTypeOK
<1>8. CASE head.data = NoPoints
  <2>1. UNCHANGED <<stage, job>>
    BY <1>2, <1>8 DEF PickFlush
  <2>2. ~FlushInProgress'
    BY <1>1, <2>1 DEF FlushInProgress
  <2>3. \A k \in Keys : \A i : Kept(memtable.data, k, i) => Kept(memtable.data, k, i)'
    <3>1. \A k \in Keys : \A i : i \notin head.data[k]
      BY <1>8 DEF NoPoints
    <3> QED BY <1>1, <1>3, <1>6, <2>2, <3>1 DEF Kept, Has, head
  <2>4. KeptInv(memtable.data, log, gone)'
    BY <1>1, <1>7, <2>3 DEF PointsInv, KeptInv
  <2>5. OrderInv(memtable.data)' /\ PastInv(memtable.data, Len(log))'
    BY <1>4, <1>5, <2>2 DEF OrderInv, PastInv
  <2>6. FileInv'
    BY <1>1, <2>1 DEF FileInv, Active
  <2> QED BY <2>4, <2>5, <2>6 DEF PointsInv
<1>9. CASE head.data # NoPoints
  <2>1. /\ stage' = "write" /\ job'.data = head.data /\ job'.id = head.id
        /\ job'.kind = "flush"
    BY <1>2, <1>9 DEF PickFlush, StartFlush, NoJob
  <2>2. FlushInProgress'
    BY <2>1 DEF FlushInProgress
  <2>3. /\ \A t \in tables' : Before(files'[t], job'.data)
        /\ Before(job'.data, memtable'.data)
        /\ \A n \in DOMAIN pendingFlushes' : Before(job'.data, pendingFlushes'[n].data)
        /\ Past(job'.data, Len(log'))
    BY <1>1, <1>2, <2>1 DEF PointsInv, OrderInv, PastInv, head
  <2>4. OrderInv(memtable.data)' /\ PastInv(memtable.data, Len(log))'
    BY <1>4, <1>5, <2>3 DEF OrderInv, PastInv
  <2>5. \A k, i : Kept(memtable.data, k, i) => Kept(memtable.data, k, i)'
    BY <1>1, <1>3, <1>6, <2>1, <2>2 DEF Kept, Has, head
  <2>6. KeptInv(memtable.data, log, gone)'
    BY <1>1, <2>5 DEF PointsInv, KeptInv
  <2>7. FileInv'
    BY <2>1 DEF FileInv
  <2> QED BY <2>4, <2>6, <2>7 DEF PointsInv
<1> QED BY <1>8, <1>9

LEMMA PickCompactionData ==
    ASSUME EngineInv, NEW gone, PointsInv(gone), NEW c \in Clients, PickCompaction(c)
    PROVE  PointsInv(gone)'
<1>1. /\ stage = "pick" /\ stage' = "write" /\ pendingFlushes = <<>>
      /\ job'.kind = "compaction" /\ job'.id = nextTableId
      /\ nextTableId' = nextTableId + 1
      /\ UNCHANGED <<memtable, tables, pendingFlushes, files, primary, backup, log, lost>>
  BY DEF PickCompaction, StartCompaction, NoJob, diskVars, historyVars
<1>2. ~FlushInProgress /\ ~FlushInProgress'
  BY <1>1 DEF FlushInProgress
<1>3. FileInv'
  BY <1>1 DEF FileInv
<1> QED BY <1>1, <1>2, <1>3, QuietData

LEMMA DrainDoneData ==
    ASSUME EngineInv, NEW gone, PointsInv(gone), NEW c \in Clients, DrainDone(c)
    PROVE  PointsInv(gone)'
<1>1. /\ stage = "pick" /\ stage' = "free"
      /\ UNCHANGED <<memtable, tables, nextTableId, pendingFlushes, files, primary, backup,
                     log, lost>>
  BY DEF DrainDone, ReleaseLock, diskVars, historyVars
<1>2. ~FlushInProgress /\ ~FlushInProgress'
  BY <1>1 DEF FlushInProgress
<1>3. FileInv'
  BY <1>1 DEF PointsInv, FileInv, Active
<1> QED BY <1>1, <1>2, <1>3, QuietData

LEMMA WriteTableData ==
    ASSUME EngineInv, NEW gone, PointsInv(gone), NEW c \in Clients, WriteTable(c)
    PROVE  PointsInv(gone)'
<1> DEFINE run == IF job.kind = "flush" THEN job.data ELSE MergeRuns(job.candidates)
<1>1. /\ stage = "write" /\ stage' = "build"
      /\ files' = [t \in DOMAIN files \cup {job.id} |-> IF t = job.id THEN run ELSE files[t]]
      /\ UNCHANGED <<memtable, tables, nextTableId, pendingFlushes, job, primary, backup,
                     log, lost>>
  BY DEF WriteTable, historyVars
<1>2. FlushInProgress' <=> FlushInProgress
  BY <1>1 DEF FlushInProgress
<1>3. /\ job.id \in Versions /\ job.id \notin tables /\ tables \subseteq DOMAIN files
      /\ \/ job.kind = "flush"
         \/ job.kind = "compaction" /\ job.candidates = tables
  <2>1. \A t \in tables : t < job.id
    BY <1>1 DEF EngineInv, IdInv, Active
  <2>2. job.id \in Versions
    BY <1>1 DEF EngineInv, JobInv, Active
  <2> QED BY <1>1, <2>1, <2>2 DEF EngineInv, JobInv, Active, TablesExist, Versions
<1>4. job.kind = "compaction" => MergeOf(run, tables)
  <2>1. ASSUME job.kind = "compaction" PROVE run = MergeRuns(tables)
    BY <1>3, <2>1
  <2>2. /\ Len(log) \in Nat /\ tables \in SUBSET DOMAIN files /\ OrderedTables(tables)
        /\ \A t \in tables : Past(files[t], Len(log))
    BY <1>3 DEF EngineInv, EngineTypeOK, PointsInv, OrderInv, PastInv
  <2>3. MergeOf(MergeRuns(tables), tables)
    BY <2>2, MergeRunsIsMerge DEF EngineInv
  <2> QED BY <2>1, <2>3
<1>5. Past(run, Len(log))
  <2>1. CASE job.kind = "flush"
    BY <1>1, <2>1 DEF FlushInProgress, PointsInv, PastInv
  <2>2. CASE job.kind = "compaction"
    <3>1. \A t \in tables : Past(files[t], Len(log))
      BY <1>3 DEF PointsInv, PastInv
    <3> HIDE DEF run
    <3> QED BY <1>4, <2>2, <3>1 DEF MergeOf, Past
  <2> QED BY <1>3, <2>1, <2>2
<1>6. job.kind = "flush" => run = job.data
  OBVIOUS
<1> HIDE DEF run
<1>7. /\ DOMAIN files' = DOMAIN files \cup {job.id} /\ files'[job.id] = run
      /\ \A t \in DOMAIN files \ {job.id} : files'[t] = files[t]
      /\ \A t \in tables : files'[t] = files[t]
  BY <1>1, <1>3
<1>8. \A t \in DOMAIN files' : Past(files'[t], Len(log))
  BY <1>5, <1>7 DEF PointsInv, PastInv
<1>9. /\ OrderInv(memtable.data)' /\ PastInv(memtable.data, Len(log))'
      /\ KeptInv(memtable.data, log, gone)'
  BY <1>1, <1>2, <1>3, <1>7, <1>8, RunsStay
<1>10. FileInv'
  <2>1. ASSUME job.kind = "compaction"
        PROVE  \A k \in Keys :
                  /\ \A j \in files'[job.id][k] : \E t \in tables : j \in files'[t][k]
                  /\ \A t \in tables : \A i \in files'[t][k] :
                        \E j \in files'[job.id][k] : i <= j
    BY <1>3, <1>4, <1>7, <2>1 DEF MergeOf, Has
  <2> QED BY <1>1, <1>6, <1>7, <2>1 DEF FileInv, MergeOf, Has
<1> QED BY <1>9, <1>10 DEF PointsInv

LEMMA BuildManifestData ==
    ASSUME EngineInv, NEW gone, PointsInv(gone), NEW c \in Clients, BuildManifest(c)
    PROVE  PointsInv(gone)'
<1>1. /\ stage = "build" /\ stage' = "primary"
      /\ job'.id = job.id /\ job'.kind = job.kind /\ job'.data = job.data
      /\ UNCHANGED <<memtable, tables, nextTableId, pendingFlushes, files, primary, backup,
                     log, lost>>
  BY DEF BuildManifest, diskVars, historyVars, EngineInv, EngineTypeOK, Jobs
<1>2. FlushInProgress' <=> FlushInProgress
  BY <1>1 DEF FlushInProgress
<1>3. FileInv'
  BY <1>1 DEF PointsInv, FileInv, Active, MergeOf, Has
<1> QED BY <1>1, <1>2, <1>3, QuietData

LEMMA SavePrimaryData ==
    ASSUME EngineInv, NEW gone, PointsInv(gone), NEW c \in Clients, SavePrimary(c)
    PROVE  PointsInv(gone)'
<1>1. /\ stage = "primary" /\ stage' = "backup" /\ primary' = job.manifest
      /\ UNCHANGED <<memtable, tables, nextTableId, pendingFlushes, job, files, backup,
                     log, lost>>
  BY DEF SavePrimary, historyVars
<1>2. FlushInProgress' <=> FlushInProgress
  BY <1>1 DEF FlushInProgress
<1>3. \A t \in DOMAIN files' : Past(files'[t], Len(log))
  BY <1>1 DEF PointsInv, PastInv
<1>4. /\ OrderInv(memtable.data)' /\ PastInv(memtable.data, Len(log))'
      /\ KeptInv(memtable.data, log, gone)'
  BY <1>1, <1>2, <1>3, RunsStay
<1>5. FileInv'
  BY <1>1 DEF PointsInv, FileInv, Active, MergeOf, Has
<1> QED BY <1>4, <1>5 DEF PointsInv

LEMMA SaveBackupData ==
    ASSUME EngineInv, NEW gone, PointsInv(gone), NEW c \in Clients, SaveBackup(c)
    PROVE  PointsInv(gone)'
<1>1. /\ stage = "backup" /\ stage' = "commit" /\ backup' = job.manifest
      /\ UNCHANGED <<memtable, tables, nextTableId, pendingFlushes, job, files, primary,
                     log, lost>>
  BY DEF SaveBackup, historyVars
<1>2. FlushInProgress' <=> FlushInProgress
  BY <1>1 DEF FlushInProgress
<1>3. \A t \in DOMAIN files' : Past(files'[t], Len(log))
  BY <1>1 DEF PointsInv, PastInv
<1>4. /\ OrderInv(memtable.data)' /\ PastInv(memtable.data, Len(log))'
      /\ KeptInv(memtable.data, log, gone)'
  BY <1>1, <1>2, <1>3, RunsStay
<1>5. FileInv'
  BY <1>1 DEF PointsInv, FileInv, Active, MergeOf, Has
<1> QED BY <1>4, <1>5 DEF PointsInv

\* The flushed run takes its place as the newest table.
LEMMA CommitFlushData ==
    ASSUME EngineInv, NEW gone, PointsInv(gone), NEW c \in Clients, CommitFlush(c)
    PROVE  PointsInv(gone)'
<1>1. /\ stage = "commit" /\ stage' = "pick" /\ job.kind = "flush"
      /\ tables' = tables \cup {job.id}
      /\ UNCHANGED <<memtable, nextTableId, pendingFlushes, files, primary, backup, log, lost>>
  BY DEF CommitFlush, diskVars, historyVars
<1>2. /\ FlushInProgress /\ ~FlushInProgress'
      /\ files[job.id] = job.data /\ job.id \in Versions
      /\ \A t \in tables : t \in Nat /\ t < job.id
  BY <1>1 DEF FlushInProgress, PointsInv, FileInv, EngineInv, EngineTypeOK, JobInv, IdInv, Active, Versions
<1>3. OrderInv(memtable.data)'
  <2>1. OrderedTables(tables)'
    BY <1>1, <1>2 DEF PointsInv, OrderInv, OrderedTables, Before, Versions
  <2>2. /\ \A t \in tables' : Before(files[t], memtable.data)
        /\ \A t \in tables', n \in DOMAIN pendingFlushes :
              Before(files[t], pendingFlushes[n].data)
    BY <1>1, <1>2 DEF PointsInv, OrderInv
  <2> QED BY <1>1, <1>2, <2>1, <2>2 DEF PointsInv, OrderInv, Before
<1>4. PastInv(memtable.data, Len(log))'
  BY <1>1, <1>2 DEF PointsInv, PastInv, Past
<1>5. KeptInv(memtable.data, log, gone)'
  <2>2. ASSUME NEW k \in Keys, NEW i \in DOMAIN log, Kept(memtable.data, k, i)
        PROVE  Kept(memtable.data, k, i)'
    <3>1. i \in Nat
      BY DEF EngineInv, EngineTypeOK
    <3> QED BY <1>1, <1>2, <2>2, <3>1 DEF Kept, Has
  <2>3. \A i \in DOMAIN log : \A k \in log[i] : k \in Keys
    BY DEF EngineInv, EngineTypeOK
  <2> QED BY <1>1, <2>2, <2>3 DEF PointsInv, KeptInv
<1>6. FileInv'
  BY <1>1 DEF PointsInv, FileInv, Active
<1> QED BY <1>3, <1>4, <1>5, <1>6 DEF PointsInv

\* The merge takes the place of every table.
LEMMA CommitCompactionData ==
    ASSUME EngineInv, NEW gone, PointsInv(gone), NEW c \in Clients, CommitCompaction(c)
    PROVE  PointsInv(gone)'
<1>1. /\ stage = "commit" /\ stage' = "unlink" /\ job.kind = "compaction"
      /\ tables' = job.manifest.tables
      /\ UNCHANGED <<memtable, nextTableId, pendingFlushes, job, files, primary, backup,
                     log, lost>>
  BY DEF CommitCompaction, diskVars, historyVars
<1>2. /\ ~FlushInProgress /\ ~FlushInProgress'
      /\ MergeOf(files[job.id], tables) /\ job.id \in Versions
      /\ tables' = {job.id} /\ job.id \in DOMAIN files
  BY <1>1 DEF FlushInProgress, PointsInv, FileInv, EngineInv, JobInv, Active
<1>3. ASSUME NEW a, \A t \in tables : Before(files[t], a) PROVE Before(files[job.id], a)
  BY <1>2, <1>3 DEF MergeOf, Before
<1>4. OrderInv(memtable.data)'
  <2>1. OrderedTables({job.id})
    BY <1>2 DEF OrderedTables, Versions
  <2>2. /\ Before(files[job.id], memtable.data)
        /\ \A n \in DOMAIN pendingFlushes : Before(files[job.id], pendingFlushes[n].data)
    BY <1>3 DEF PointsInv, OrderInv
  <2> QED BY <1>1, <1>2, <2>1, <2>2 DEF PointsInv, OrderInv, OrderedTables, Before
<1>5. PastInv(memtable.data, Len(log))'
  BY <1>1, <1>2 DEF PointsInv, PastInv, Past
<1>6. KeptInv(memtable.data, log, gone)'
  <2>1. ASSUME NEW k \in Keys, NEW i \in DOMAIN log, NEW t \in tables, Has(files[t], k, i)
        PROVE  Has(files[job.id], k, i)
    <3>1. PICK j \in files[t][k] : i <= j
      BY <2>1 DEF Has
    <3>2. PICK h \in files[job.id][k] : j <= h
      BY <1>2, <3>1 DEF MergeOf, Has
    <3>3. i \in Nat /\ j \in Nat /\ h \in Nat
      BY <1>2, <3>1, <3>2 DEF EngineInv, EngineTypeOK, TablesExist, Runs, Versions
    <3> QED BY <3>1, <3>2, <3>3 DEF Has
  <2>2. ASSUME NEW k \in Keys, NEW i \in DOMAIN log, Kept(memtable.data, k, i)
        PROVE  Kept(memtable.data, k, i)'
    BY <1>1, <1>2, <2>1, <2>2 DEF Kept, Has
  <2>3. \A i \in DOMAIN log : \A k \in log[i] : k \in Keys
    BY DEF EngineInv, EngineTypeOK
  <2> QED BY <1>1, <2>2, <2>3 DEF PointsInv, KeptInv
<1>7. FileInv'
  BY <1>1 DEF PointsInv, FileInv, Active
<1> QED BY <1>4, <1>5, <1>6, <1>7 DEF PointsInv

\* Only files that neither the tables nor a manifest name are deleted.
LEMMA UnlinkNextData ==
    ASSUME EngineInv, NEW gone, PointsInv(gone), NEW c \in Clients, UnlinkNext(c)
    PROVE  PointsInv(gone)'
<1>1. /\ stage = "unlink" /\ stage' = "unlink"
      /\ \/ UNCHANGED files
         \/ \E t \in job.candidates : files' = [u \in DOMAIN files \ {t} |-> files[u]]
      /\ UNCHANGED <<memtable, tables, nextTableId, pendingFlushes, primary, backup,
                     log, lost>>
  BY DEF UnlinkNext
<1>2. \A t \in tables : t \notin job.candidates /\ t \in DOMAIN files
  BY <1>1 DEF EngineInv, JobInv, TablesExist
<1>3. /\ \A t \in tables : files'[t] = files[t]
      /\ \A t \in DOMAIN files' : t \in DOMAIN files /\ files'[t] = files[t]
  <2>1. ASSUME NEW t \in job.candidates,
               files' = [u \in DOMAIN files \ {t} |-> files[u]]
        PROVE  /\ \A u \in tables : files'[u] = files[u]
               /\ \A u \in DOMAIN files' : u \in DOMAIN files /\ files'[u] = files[u]
    <3>1. DOMAIN files' = DOMAIN files \ {t}
      BY <2>1
    <3>2. \A u \in DOMAIN files \ {t} : files'[u] = files[u]
      BY <2>1
    <3> QED BY <1>2, <3>1, <3>2
  <2> QED BY <1>1, <2>1
<1>4. ~FlushInProgress /\ ~FlushInProgress'
  BY <1>1 DEF FlushInProgress
<1>5. \A t \in DOMAIN files' : Past(files'[t], Len(log))
  BY <1>3 DEF PointsInv, PastInv
<1>6. /\ OrderInv(memtable.data)' /\ PastInv(memtable.data, Len(log))'
      /\ KeptInv(memtable.data, log, gone)'
  BY <1>1, <1>3, <1>4, <1>5, RunsStay
<1>7. FileInv'
  BY <1>1, <1>3 DEF PointsInv, FileInv, Active
<1> QED BY <1>6, <1>7 DEF PointsInv

LEMMA UnlinkDoneData ==
    ASSUME EngineInv, NEW gone, PointsInv(gone), NEW c \in Clients, UnlinkDone(c)
    PROVE  PointsInv(gone)'
<1>1. /\ stage = "unlink" /\ stage' = "pick"
      /\ UNCHANGED <<memtable, tables, nextTableId, pendingFlushes, files, primary, backup,
                     log, lost>>
  BY DEF UnlinkDone, diskVars, historyVars
<1>2. ~FlushInProgress /\ ~FlushInProgress'
  BY <1>1 DEF FlushInProgress
<1>3. FileInv'
  BY <1>1 DEF PointsInv, FileInv, Active
<1> QED BY <1>1, <1>2, <1>3, QuietData

\* Whoever held nothing but the run of a flush that raised is lost.
LEMMA TaskRaisesData ==
    ASSUME EngineInv, NEW gone, PointsInv(gone), NEW c \in Clients, TaskRaises(c)
    PROVE  PointsInv(gone)'
<1>1. /\ stage' = "free"
      /\ lost' = lost \cup UNION {job.data[k] : k \in Keys}
      /\ UNCHANGED <<memtable, tables, nextTableId, pendingFlushes, files, primary, backup, log>>
  BY DEF TaskRaises, ReleaseLock, diskVars
<1>2. ~FlushInProgress'
  BY <1>1 DEF FlushInProgress
<1>3. OrderInv(memtable.data)' /\ PastInv(memtable.data, Len(log))'
  BY <1>1, <1>2 DEF PointsInv, OrderInv, OrderedTables, Before, PastInv, Past
<1>4. KeptInv(memtable.data, log, gone)'
  <2>1. ASSUME NEW i \in DOMAIN log, NEW k \in log[i], i \notin lost' \cup gone
        PROVE  Kept(memtable.data, k, i)'
    <3>1. k \in Keys
      BY DEF EngineInv, EngineTypeOK
    <3>2. i \notin lost \cup gone /\ i \notin job.data[k]
      BY <1>1, <2>1, <3>1
    <3>3. Kept(memtable.data, k, i)
      BY <2>1, <3>2 DEF PointsInv, KeptInv
    <3> QED BY <1>1, <3>2, <3>3 DEF Kept, Has
  <2> QED BY <1>1, <2>1 DEF KeptInv
<1>5. FileInv'
  BY <1>1 DEF PointsInv, FileInv, Active
<1> QED BY <1>3, <1>4, <1>5 DEF PointsInv

\* Steps that move a client or a reader.
LEMMA IdleData ==
    ASSUME EngineInv, NEW gone, PointsInv(gone), ~Active', ~Active \/ UNCHANGED <<stage, job>>,
           UNCHANGED <<memtable, tables, nextTableId, pendingFlushes, files, primary, backup,
                       log, lost>>
    PROVE  PointsInv(gone)'
<1>1. FlushInProgress' <=> FlushInProgress
  BY DEF FlushInProgress, Active
<1>2. FlushInProgress => job'.data = job.data
  BY DEF FlushInProgress, Active
<1>3. FileInv'
  BY DEF PointsInv, FileInv, Active
<1> QED BY <1>1, <1>2, <1>3, QuietData

LEMMA AcquireData ==
    ASSUME EngineInv, NEW gone, PointsInv(gone), NEW c \in Clients, Acquire(c)
    PROVE  PointsInv(gone)'
<1>1. stage = "free" /\ stage' = "pick"
  BY DEF Acquire, TakeLock, EngineInv, EngineTypeOK
<1> QED BY <1>1, IdleData DEF Acquire, Active, diskVars, historyVars

LEMMA SameData ==
    ASSUME EngineInv, NEW gone, PointsInv(gone),
           UNCHANGED <<memtable, tables, nextTableId, pendingFlushes, stage, job, files,
                       primary, backup, log, lost>>
    PROVE  PointsInv(gone)'
<1>1. FlushInProgress' <=> FlushInProgress
  BY DEF FlushInProgress
<1>2. FileInv'
  BY DEF PointsInv, FileInv, Active, MergeOf, Has
<1> QED BY <1>1, <1>2, QuietData

LEMMA ReaderData ==
    ASSUME EngineInv, NEW gone, PointsInv(gone), NEW r \in Readers, QueryBegin(r) \/ Read(r)
    PROVE  PointsInv(gone)'
BY SameData DEF QueryBegin, Read, ReadTable, FileMissing, CheckActive, QueryEnd,
                lockVars, diskVars, historyVars

LEMMA MoveData ==
    ASSUME EngineInv, NEW gone, PointsInv(gone), NEW c \in Clients, Compact(c) \/ Close(c) \/ CloseAgain(c)
    PROVE  PointsInv(gone)'
BY SameData DEF Compact, Close, CloseAgain, lockVars, diskVars, historyVars

-----------------------------------------------------------------------------
(* DataInv is an invariant, and what follows from it.                      *)

LEMMA InitData == Init => DataInv
<1> SUFFICES ASSUME Init PROVE DataInv
  OBVIOUS
<1>1. ~FlushInProgress /\ ~Active /\ stage # "write"
  BY DEF Init, FlushInProgress, Active
<1>2. OrderInv(memtable.data) /\ PastInv(memtable.data, Len(log)) /\ KeptInv(memtable.data, log, {})
  BY <1>1 DEF Init, OrderInv, OrderedTables, PastInv, Past, KeptInv, EmptyMemtable, NoPoints
<1>3. FileInv
  BY <1>1 DEF Init, FileInv
<1> QED BY <1>2, <1>3 DEF DataInv, PointsInv

LEMMA NextPoints ==
    ASSUME EngineInv, NEW gone, PointsInv(gone), [Next]_vars
    PROVE  PointsInv(gone)'
<1>1. ASSUME NEW c \in Clients, Call(c) PROVE PointsInv(gone)'
  BY <1>1, AppendRowsData, FlushData, MoveData DEF Call
<1>2. ASSUME NEW c \in Clients, LockStep(c) PROVE PointsInv(gone)'
  BY <1>2, AcquireData, CloseFirstData, MoveData DEF LockStep
<1>3. ASSUME NEW c \in Clients, Drain(c) PROVE PointsInv(gone)'
  BY <1>3, PickFlushData, PickCompactionData, DrainDoneData, WriteTableData,
     BuildManifestData, SavePrimaryData, SaveBackupData, CommitFlushData,
     CommitCompactionData, UnlinkNextData, UnlinkDoneData DEF Drain
<1>4. ASSUME NEW c \in Clients, TaskRaises(c) PROVE PointsInv(gone)'
  BY <1>4, TaskRaisesData
<1>5. ASSUME NEW r \in Readers, QueryBegin(r) \/ Read(r) PROVE PointsInv(gone)'
  BY <1>5, ReaderData
<1>6. CASE UNCHANGED vars
  BY <1>6, SameData DEF vars, lockVars, diskVars, historyVars
<1> QED BY <1>1, <1>2, <1>3, <1>4, <1>5, <1>6 DEF Next

LEMMA NextData == EngineInv /\ DataInv /\ [Next]_vars => DataInv'
BY NextPoints DEF DataInv

\* EngineInv and DataInv hold in every reachable state.
THEOREM DataInvariance == Spec => [](EngineInv /\ DataInv)
<1>1. Init => EngineInv /\ DataInv
  BY InitEngine, InitData
<1>2. EngineInv /\ DataInv /\ [Next]_vars => (EngineInv /\ DataInv)'
  BY NextEngine, NextData
<1> QED BY <1>1, <1>2, PTL DEF Spec

LEMMA RunsInOrder ==
    ASSUME EngineInv, NEW gone, PointsInv(gone)
    PROVE  RunsOrdered
<1> SUFFICES ASSUME NEW x \in Held, NEW y \in Held, x.id < y.id
             PROVE  Before(x.data, y.data)
  BY DEF RunsOrdered, Before
<1>1. ASSUME NEW z \in Held
      PROVE  \/ \E t \in tables : z.id = t /\ z.data = files[t]
             \/ FlushInProgress /\ z.id = job.id /\ z.data = job.data
             \/ \E n \in DOMAIN pendingFlushes : z = pendingFlushes[n]
             \/ z.id = nextTableId /\ z.data = memtable.data
  BY DEF Held
<1>2. /\ nextTableId \in Nat /\ \A t \in tables : t \in Nat /\ t < nextTableId
      /\ \A n \in DOMAIN pendingFlushes :
            n \in Nat /\ pendingFlushes[n].id \in Nat /\ pendingFlushes[n].id < nextTableId
      /\ \A t \in tables, n \in DOMAIN pendingFlushes : t < pendingFlushes[n].id
      /\ \A m, n \in DOMAIN pendingFlushes :
            m < n => pendingFlushes[m].id < pendingFlushes[n].id
  BY PendingType DEF EngineInv, EngineTypeOK, IdInv, Versions
<1>3. FlushInProgress => /\ job.id \in Nat /\ job.id < nextTableId
                         /\ \A t \in tables : t < job.id
                         /\ \A n \in DOMAIN pendingFlushes : job.id < pendingFlushes[n].id
  BY DEF EngineInv, IdInv, JobInv, FlushInProgress, Active, Versions
<1>4. CASE \E t \in tables : x.id = t /\ x.data = files[t]
  BY <1>1, <1>4 DEF PointsInv, OrderInv, OrderedTables
<1>5. CASE FlushInProgress /\ x.id = job.id /\ x.data = job.data
  <2>1. ~ \E t \in tables : y.id = t
    BY <1>2, <1>3, <1>5
  <2>2. y.id # job.id
    BY <1>3, <1>5
  <2> QED BY <1>1, <1>5, <2>1, <2>2 DEF PointsInv, OrderInv
<1>6. CASE \E n \in DOMAIN pendingFlushes : x = pendingFlushes[n]
  <2>1. PICK n \in DOMAIN pendingFlushes : x = pendingFlushes[n]
    BY <1>6
  <2>2. ~ \E t \in tables : y.id = t
    BY <1>2, <2>1
  <2>3. ~(FlushInProgress /\ y.id = job.id)
    BY <1>2, <1>3, <2>1
  <2>4. ASSUME NEW p \in DOMAIN pendingFlushes, y = pendingFlushes[p] PROVE n < p
    BY <1>2, <2>1, <2>4
  <2> QED BY <1>1, <2>1, <2>2, <2>3, <2>4 DEF PointsInv, OrderInv
<1>7. CASE x.id = nextTableId
  BY <1>1, <1>2, <1>3, <1>7
<1> QED BY <1>1, <1>4, <1>5, <1>6, <1>7

\* Of two runs that hold a key, the one with the higher id has the newer
\* versions, wherever in the engine the two are: the newest wins of merge_runs
\* and query_range picks what the last append_rows call brought.
THEOREM RunsStayOrdered == Spec => []RunsOrdered
<1>1. EngineInv /\ DataInv => RunsOrdered
  BY RunsInOrder DEF DataInv
<1> QED BY <1>1, DataInvariance, PTL

\* No interleaving loses an accepted point but that of a flush that raised.
THEOREM NoPointIsLost == Spec => []NothingLost
<1>1. EngineInv /\ DataInv => NothingLost
  <2> SUFFICES ASSUME EngineInv, DataInv, NEW i \in DOMAIN log, NEW k \in log[i], i \notin lost
               PROVE  \E x \in Held : \E j \in x.data[k] : i <= j
    BY DEF NothingLost
  <2>1. i \in Nat /\ k \in Keys
    BY DEF EngineInv, EngineTypeOK
  <2>2. Kept(memtable.data, k, i)
    BY DEF DataInv, PointsInv, KeptInv
  <2>3. CASE \E t \in tables : Has(files[t], k, i)
    <3>1. \A t \in tables : [id |-> t, data |-> files[t]] \in Held
      BY DEF Held
    <3> QED BY <2>3, <3>1 DEF Has
  <2>4. CASE FlushInProgress /\ i \in job.data[k]
    <3>1. [id |-> job.id, data |-> job.data] \in Held
      BY <2>4 DEF Held
    <3> QED BY <2>1, <2>4, <3>1
  <2>5. CASE \E n \in DOMAIN pendingFlushes : i \in pendingFlushes[n].data[k]
    <3>1. \A n \in DOMAIN pendingFlushes : pendingFlushes[n] \in Held
      BY DEF Held
    <3> QED BY <2>1, <2>5, <3>1
  <2>6. CASE i \in memtable.data[k]
    <3>1. [id |-> nextTableId, data |-> memtable.data] \in Held
      BY DEF Held
    <3> QED BY <2>1, <2>6, <3>1
  <2> QED BY <2>2, <2>3, <2>4, <2>5, <2>6 DEF Kept
<1> QED BY <1>1, DataInvariance, PTL

-----------------------------------------------------------------------------
(* What a step may do to the tables and to their files.                    *)

LEMMA WhoChangesTables ==
    ASSUME EngineInv, [Next]_vars
    PROVE  \/ UNCHANGED <<tables, files>>
           \/ /\ stage = "write" /\ UNCHANGED tables
              /\ \A t \in DOMAIN files \ {job.id} : files'[t] = files[t]
           \/ /\ stage = "commit" /\ job.kind = "flush" /\ UNCHANGED files
              /\ tables' = tables \cup {job.id}
           \/ /\ stage = "commit" /\ job.kind = "compaction" /\ UNCHANGED files
              /\ tables' = job.manifest.tables
           \/ /\ stage = "unlink" /\ UNCHANGED tables
              /\ \A t \in DOMAIN files \ job.candidates : files'[t] = files[t]
<1>1. ASSUME NEW c \in Clients, WriteTable(c)
      PROVE  /\ stage = "write" /\ UNCHANGED tables
             /\ \A t \in DOMAIN files \ {job.id} : files'[t] = files[t]
  BY <1>1 DEF WriteTable
<1>2. ASSUME NEW c \in Clients, CommitFlush(c)
      PROVE  /\ stage = "commit" /\ job.kind = "flush" /\ UNCHANGED files
             /\ tables' = tables \cup {job.id}
  BY <1>2 DEF CommitFlush, diskVars
<1>3. ASSUME NEW c \in Clients, CommitCompaction(c)
      PROVE  /\ stage = "commit" /\ job.kind = "compaction" /\ UNCHANGED files
             /\ tables' = job.manifest.tables
  BY <1>3 DEF CommitCompaction, diskVars
<1>4. ASSUME NEW c \in Clients, UnlinkNext(c)
      PROVE  /\ stage = "unlink" /\ UNCHANGED tables
             /\ \A t \in DOMAIN files \ job.candidates : files'[t] = files[t]
  <2>1. ASSUME NEW t \in job.candidates, files' = [u \in DOMAIN files \ {t} |-> files[u]]
        PROVE  \A u \in DOMAIN files \ job.candidates : files'[u] = files[u]
    BY <2>1
  <2> QED BY <1>4, <2>1 DEF UnlinkNext
<1>5. ASSUME NEW c \in Clients, Call(c) PROVE UNCHANGED <<tables, files>>
  BY <1>5 DEF Call, AppendRows, Flush, Compact, Close, diskVars
<1>6. ASSUME NEW c \in Clients, LockStep(c) PROVE UNCHANGED <<tables, files>>
  BY <1>6 DEF LockStep, Acquire, CloseFirst, CloseAgain, diskVars
<1>7. ASSUME NEW c \in Clients, Drain(c)
      PROVE  \/ WriteTable(c) \/ CommitFlush(c) \/ CommitCompaction(c) \/ UnlinkNext(c)
             \/ UNCHANGED <<tables, files>>
  BY <1>7 DEF Drain, PickFlush, PickCompaction, DrainDone, BuildManifest, SavePrimary,
              SaveBackup, UnlinkDone, diskVars
<1>8. ASSUME NEW c \in Clients, TaskRaises(c) PROVE UNCHANGED <<tables, files>>
  BY <1>8 DEF TaskRaises, diskVars
<1>9. ASSUME NEW r \in Readers, QueryBegin(r) \/ Read(r) PROVE UNCHANGED <<tables, files>>
  BY <1>9 DEF QueryBegin, Read, ReadTable, FileMissing, CheckActive, QueryEnd, diskVars
<1>10. UNCHANGED vars => UNCHANGED <<tables, files>>
  BY DEF vars, diskVars
<1> QED BY <1>1, <1>2, <1>3, <1>4, <1>5, <1>6, <1>7, <1>8, <1>9, <1>10 DEF Next

LEMMA AsNewAsItself ==
    ASSUME EngineInv
    PROVE  \A t \in DOMAIN files, k \in Keys : \A i \in files[t][k] : Has(files[t], k, i)
BY DEF EngineInv, EngineTypeOK, Runs, Versions, Has

-----------------------------------------------------------------------------
(* What the manifests on disk cover.                                       *)

\* The manifest of the job covers the tables, whether it adds one to them or
\* puts the merge in their place.
LEMMA JobManifestCovers ==
    ASSUME EngineInv, NEW gone, PointsInv(gone), stage \in {"primary", "backup", "commit"}
    PROVE  CoversTables(job.manifest.tables)
<1>1. /\ job.id \in Versions /\ job.id \in DOMAIN files
      /\ job.manifest.tables = (tables \ job.candidates) \cup {job.id}
      /\ \A t \in tables : t < job.id
      /\ tables \subseteq DOMAIN files
  BY DEF EngineInv, JobInv, IdInv, Active, TablesExist
<1>2. \A t \in DOMAIN files, k \in Keys : \A i \in files[t][k] : Has(files[t], k, i)
  BY DEF EngineInv, EngineTypeOK, Runs, Versions, Has
<1>3. CASE job.kind = "flush" /\ job.candidates = {}
  <2>1. files[job.id] = job.data /\ \A t \in tables : Before(files[t], job.data)
    BY <1>3 DEF PointsInv, FileInv, Active, OrderInv, FlushInProgress
  <2>2. \A t \in tables : t \in Nat
    BY DEF EngineInv, EngineTypeOK, Versions
  <2>3. OrderedTables(tables \cup {job.id})
    BY <1>1, <2>1, <2>2 DEF PointsInv, OrderInv, OrderedTables, Versions
  <2> QED BY <1>1, <1>2, <1>3, <2>3 DEF CoversTables
<1>4. CASE job.kind = "compaction" /\ job.candidates = tables
  <2>1. MergeOf(files[job.id], tables)
    BY <1>4 DEF PointsInv, FileInv, Active
  <2>2. OrderedTables({job.id})
    BY <1>1 DEF OrderedTables, Versions
  <2>3. job.manifest.tables = {job.id}
    BY <1>1, <1>4
  <2> QED BY <2>1, <2>2, <2>3 DEF CoversTables, MergeOf
<1> QED BY <1>3, <1>4 DEF EngineInv, JobInv, Active

\* A manifest that is not written covers the tables still: a commit makes them
\* the ones it names.
LEMMA CoverStays ==
    ASSUME EngineInv, NEW gone, PointsInv(gone), [Next]_vars,
           NEW m, NEW saved, SavedInv(m, saved), saved \in {AfterPrimary, AfterBackup},
           CoversTables(m.tables)
    PROVE  CoversTables(m.tables)'
<1>1. CASE UNCHANGED tables /\ \A t \in tables \cup m.tables : files'[t] = files[t]
  BY <1>1 DEF CoversTables, OrderedTables, Before, Has
<1>2. CASE /\ stage = "write" /\ UNCHANGED tables
           /\ \A t \in DOMAIN files \ {job.id} : files'[t] = files[t]
  <2>1. \A t \in tables \cup m.tables : t \in DOMAIN files /\ t \in Nat /\ t < job.id
    BY <1>2 DEF SavedInv, AfterPrimary, AfterBackup, Active, Manifests, Versions,
                EngineInv, EngineTypeOK, TablesExist, IdInv
  <2> QED BY <1>1, <1>2, <2>1
<1>3. CASE stage = "commit" /\ UNCHANGED files /\ tables' = m.tables
  <2>1. m.tables \subseteq DOMAIN files
    BY DEF SavedInv
  <2> QED BY <1>3, <2>1, AsNewAsItself DEF CoversTables, OrderedTables, Before, Has
<1>4. CASE stage = "commit" /\ UNCHANGED files
           /\ \/ job.kind = "flush" /\ tables' = tables \cup {job.id}
              \/ job.kind = "compaction" /\ tables' = job.manifest.tables
  <2>1. /\ m = job.manifest /\ job.manifest.tables = (tables \ job.candidates) \cup {job.id}
        /\ job.kind = "flush" => job.candidates = {}
    BY <1>4 DEF SavedInv, AfterPrimary, AfterBackup, EngineInv, JobInv, Active
  <2> QED BY <1>3, <1>4, <2>1
<1>5. CASE /\ stage = "unlink" /\ UNCHANGED tables
           /\ \A t \in DOMAIN files \ job.candidates : files'[t] = files[t]
  <2>1. m.tables = {job.id} /\ tables = {job.id} /\ job.id \in DOMAIN files \ job.candidates
    BY <1>5 DEF SavedInv, EngineInv, JobInv
  <2> QED BY <1>1, <1>5, <2>1
<1>6. CASE UNCHANGED <<tables, files>>
  BY <1>1, <1>6
<1> QED BY <1>2, <1>4, <1>5, <1>6, WhoChangesTables

PrimaryCovers == CoversTables(primary.tables)
BackupCovers == CoversTables(backup.tables)

LEMMA NextPrimaryCovers ==
    ASSUME EngineInv, PrimaryInv, NEW gone, PointsInv(gone), PrimaryCovers, [Next]_vars
    PROVE  PrimaryCovers'
<1>1. CASE UNCHANGED primary
  <2>1. PICK m : m = primary
    OBVIOUS
  <2>2. CoversTables(m.tables)'
    BY <2>1, CoverStays DEF PrimaryInv, PrimaryCovers
  <2> QED BY <1>1, <2>1, <2>2 DEF PrimaryCovers
<1>2. CASE /\ stage = "primary" /\ primary' = job.manifest
           /\ UNCHANGED <<files, job, tables, nextTableId, pendingFlushes>>
  BY <1>2, JobManifestCovers DEF PrimaryCovers, CoversTables, OrderedTables, Before, Has
<1> QED BY <1>1, <1>2, WhoWritesManifests

LEMMA NextBackupCovers ==
    ASSUME EngineInv, BackupInv, NEW gone, PointsInv(gone), BackupCovers, [Next]_vars
    PROVE  BackupCovers'
<1>1. CASE UNCHANGED backup
  <2>1. PICK m : m = backup
    OBVIOUS
  <2>2. CoversTables(m.tables)'
    BY <2>1, CoverStays DEF BackupInv, BackupCovers
  <2> QED BY <1>1, <2>1, <2>2 DEF BackupCovers
<1>2. CASE /\ stage = "backup" /\ backup' = job.manifest
           /\ UNCHANGED <<files, job, tables, nextTableId, pendingFlushes>>
  BY <1>2, JobManifestCovers DEF BackupCovers, CoversTables, OrderedTables, Before, Has
<1> QED BY <1>1, <1>2, WhoWritesManifests

LEMMA MergedAsNew ==
    ASSUME EngineInv, NEW gone, PointsInv(gone),
           NEW ids \in SUBSET DOMAIN files, CoversTables(ids)
    PROVE  Covers(MergeRuns(ids), MergeRuns(tables))
<1> SUFFICES ASSUME NEW k \in Keys, NEW i \in MergeRuns(tables)[k]
             PROVE  \E j \in MergeRuns(ids)[k] : i <= j
  BY DEF Covers
<1>1. MergeOf(MergeRuns(ids), ids)
  BY MergeRunsIsMerge DEF CoversTables, PointsInv, PastInv, EngineInv, EngineTypeOK
<1>2. PICK t \in tables : i \in files[t][k]
  BY DEF MergeRuns
<1>3. PICK u \in ids : Has(files[u], k, i)
  BY <1>2 DEF CoversTables
<1>4. PICK h \in files[u][k] : i <= h
  BY <1>3 DEF Has
<1>5. PICK j \in MergeRuns(ids)[k] : h <= j
  BY <1>1, <1>4 DEF MergeOf, Has
<1>6. MergeRuns(ids) \in Runs
  BY MergeRunsType DEF EngineInv
<1>7. i \in Nat /\ h \in Nat /\ j \in Nat
  BY <1>2, <1>4, <1>5, <1>6 DEF EngineInv, EngineTypeOK, TablesExist, Runs, Versions
<1> QED BY <1>4, <1>5, <1>7

\* At every instant both manifests name existing files only, and what they would
\* be merged to is as new, key by key, as what queries see: whenever the process
\* dies, no durable point is gone.
THEOREM ManifestsCoverTables == Spec => []CrashSafe
<1>1. Init => PrimaryCovers /\ BackupCovers
  BY DEF Init, PrimaryCovers, BackupCovers, CoversTables, OrderedTables, EmptyManifest
<1>2. /\ Inv /\ DataInv /\ PrimaryCovers /\ BackupCovers
      /\ [Next]_vars
      => PrimaryCovers' /\ BackupCovers'
  BY NextPrimaryCovers, NextBackupCovers DEF Inv, DataInv
<1>3. Inv /\ DataInv /\ PrimaryCovers /\ BackupCovers => CrashSafe
  <2> SUFFICES ASSUME Inv, DataInv, PrimaryCovers, BackupCovers PROVE CrashSafe
    OBVIOUS
  <2>1. /\ EngineInv /\ PointsInv({}) /\ FilesExist
        /\ primary.tables \in SUBSET DOMAIN files /\ backup.tables \in SUBSET DOMAIN files
    BY DEF Inv, DataInv, EngineInv, TablesExist, PrimaryInv, BackupInv, SavedInv, FilesExist
  <2>2. Covers(MergeRuns(primary.tables), MergeRuns(tables))
    BY <2>1, MergedAsNew DEF PrimaryCovers
  <2>3. Covers(MergeRuns(backup.tables), MergeRuns(tables))
    BY <2>1, MergedAsNew DEF BackupCovers
  <2> QED BY <2>1, <2>2, <2>3 DEF CrashSafe
<1> QED BY <1>1, <1>2, <1>3, Invariance, DataInvariance, PTL DEF Spec

-----------------------------------------------------------------------------
(* What a step may do to the points of the tables.                         *)

\* What queries merge the tables to is as new as every point of theirs.
TablesMerge == MergeOf(MergeRuns(tables), tables)

LEMMA MergedTables ==
    ASSUME EngineInv, NEW gone, PointsInv(gone) PROVE TablesMerge
BY MergeRunsIsMerge
   DEF TablesMerge, PointsInv, OrderInv, PastInv, EngineInv, EngineTypeOK, TablesExist

\* No step takes a point out of the tables, unless a newer one stays.
LEMMA TablesKeep ==
    ASSUME EngineInv, NEW gone, PointsInv(gone), [Next]_vars
    PROVE  \A t \in tables, k \in Keys : \A i \in files[t][k] :
              \E u \in tables' : Has(files'[u], k, i)
<1>1. tables \subseteq DOMAIN files
  BY DEF EngineInv, TablesExist
<1>2. CASE tables \subseteq tables' /\ \A t \in tables : files'[t] = files[t]
  BY <1>1, <1>2, AsNewAsItself DEF Has
<1>3. CASE /\ stage = "write" /\ UNCHANGED tables
           /\ \A t \in DOMAIN files \ {job.id} : files'[t] = files[t]
  <2>1. \A t \in tables : t \in Nat /\ t < job.id
    BY <1>3 DEF EngineInv, EngineTypeOK, IdInv, Active, Versions
  <2> QED BY <1>1, <1>2, <1>3, <2>1
<1>4. CASE /\ stage = "commit" /\ job.kind = "compaction" /\ UNCHANGED files
           /\ tables' = job.manifest.tables
  <2>1. tables' = {job.id} /\ MergeOf(files[job.id], tables)
    BY <1>4 DEF EngineInv, JobInv, Active, PointsInv, FileInv
  <2> QED BY <1>4, <2>1 DEF MergeOf, Has
<1>5. CASE /\ stage = "unlink" /\ UNCHANGED tables
           /\ \A t \in DOMAIN files \ job.candidates : files'[t] = files[t]
  <2>1. \A t \in tables : t \in DOMAIN files \ job.candidates
    BY <1>5 DEF EngineInv, JobInv
  <2> QED BY <1>2, <1>5, <2>1
<1> QED BY <1>2, <1>3, <1>4, <1>5, WhoChangesTables

\* No commit, of a flush or a compaction, takes from the tables the newest
\* version of a key that queries found there.
THEOREM TablesDoNotRegress == Spec => TablesNeverRegress
<1>1. EngineInv /\ DataInv /\ TablesMerge' /\ EngineInv' /\ [Next]_vars
        => Covers(MergeRuns(tables)', MergeRuns(tables))
  <2> SUFFICES ASSUME EngineInv, DataInv, TablesMerge', EngineInv', [Next]_vars,
                      NEW k \in Keys, NEW i \in MergeRuns(tables)[k]
               PROVE  \E j \in MergeRuns(tables)'[k] : i <= j
    BY DEF Covers
  <2>1. PICK t \in tables : i \in files[t][k]
    BY DEF MergeRuns
  <2>2. PICK u \in tables' : \E h \in files'[u][k] : i <= h
    BY <2>1, TablesKeep DEF DataInv, Has
  <2>3. PICK h \in files'[u][k] : i <= h
    BY <2>2
  <2>4. PICK j \in MergeRuns(tables)'[k] : h <= j
    BY <2>3 DEF TablesMerge, MergeOf, Has
  <2>5. i \in Nat /\ h \in Nat
    BY <2>1, <2>3 DEF EngineInv, EngineTypeOK, TablesExist, Runs, Versions
  <2>6. j \in Nat
    <3>1. \E v \in tables' : j \in files'[v][k]
      BY <2>4 DEF TablesMerge, MergeOf
    <3> QED BY <3>1 DEF EngineInv, EngineTypeOK, TablesExist, Runs, Versions
  <2> QED BY <2>4, <2>5, <2>6, <2>3
<1>2. Spec => [](EngineInv /\ DataInv /\ TablesMerge)
  <2>1. EngineInv /\ DataInv => TablesMerge
    BY MergedTables DEF DataInv
  <2> QED BY <2>1, DataInvariance, PTL
<1>3. EngineInv /\ DataInv /\ TablesMerge' /\ EngineInv' /\ [Next]_vars
        => [Covers(MergeRuns(tables)', MergeRuns(tables))]_vars
  BY <1>1
<1> QED BY <1>2, <1>3, PTL DEF Spec, TablesNeverRegress

-----------------------------------------------------------------------------
(* Who drains the queue.                                                   *)

Waiting == {c \in Clients : pc[c] = "waiting"}

\* Each snapshot was queued by a client that waits for the lock or holds it, and
\* a holder that has popped one has nothing of its own in the queue any more.
DrainerInv ==
    /\ IsFiniteSet(Waiting)
    /\ Len(pendingFlushes) <= Cardinality(Waiting) + (IF stage = "pick" THEN 1 ELSE 0)

LEMMA DrainerFacts ==
    ASSUME EngineTypeOK, DrainerInv
    PROVE  /\ Len(pendingFlushes) \in Nat
           /\ Cardinality(Waiting) \in Nat
           /\ pendingFlushes = <<>> <=> Len(pendingFlushes) = 0
<1>1. pendingFlushes \in Seq([id : Versions, data : Runs])
  BY DEF EngineTypeOK
<1>2. Cardinality(Waiting) \in Nat
  BY FS_CardinalityType DEF DrainerInv
<1> QED BY <1>1, <1>2, EmptySeq

\* A client that starts to wait.
LEMMA OneMoreWaits ==
    ASSUME EngineTypeOK, DrainerInv, NEW c \in Clients, pc[c] = "idle",
           pc' = [pc EXCEPT ![c] = "waiting"]
    PROVE  IsFiniteSet(Waiting') /\ Cardinality(Waiting') = Cardinality(Waiting) + 1
<1>1. Waiting' = Waiting \cup {c} /\ c \notin Waiting
  BY DEF EngineTypeOK, Waiting
<1> QED BY <1>1, FS_AddElement DEF DrainerInv

\* A client that neither waited nor waits.
LEMMA SameWait ==
    ASSUME EngineTypeOK, NEW c \in Clients, pc[c] # "waiting", NEW v, v # "waiting",
           pc' = [pc EXCEPT ![c] = v]
    PROVE  Waiting' = Waiting
BY DEF EngineTypeOK, Waiting

LEMMA EnqueueLength ==
    ASSUME EngineTypeOK, NEW mt, EnqueueFlush(mt)
    PROVE  Len(pendingFlushes') = Len(pendingFlushes) + 1
BY DEF EngineTypeOK, EnqueueFlush

LEMMA CallDrainer ==
    ASSUME EngineTypeOK, DrainerInv, NEW c \in Clients, Call(c)
    PROVE  DrainerInv'
<1> USE DrainerFacts
<1>1. ASSUME NEW b \in Batches, AppendRows(c, b) PROVE DrainerInv'
  <2>1. stage' = stage /\ pc[c] = "idle"
    BY <1>1 DEF AppendRows, lockVars
  <2>2. CASE pc' = [pc EXCEPT ![c] = "waiting"] /\ EnqueueFlush(Appended(b))
    <3>1. IsFiniteSet(Waiting') /\ Cardinality(Waiting') = Cardinality(Waiting) + 1
      BY <2>1, <2>2, OneMoreWaits
    <3>2. Len(pendingFlushes') = Len(pendingFlushes) + 1
      BY <2>2, EnqueueLength
    <3> QED BY <2>1, <3>1, <3>2 DEF DrainerInv
  <2>3. CASE UNCHANGED <<pendingFlushes, pc>>
    BY <2>1, <2>3 DEF DrainerInv, Waiting
  <2> QED BY <1>1, <2>2, <2>3 DEF AppendRows
<1>2. ASSUME Flush(c) PROVE DrainerInv'
  <2>1. /\ stage' = stage /\ pc[c] = "idle"
        /\ pc' = [pc EXCEPT ![c] = "waiting"] /\ EnqueueFlush(memtable)
    BY <1>2 DEF Flush, lockVars
  <2>2. IsFiniteSet(Waiting') /\ Cardinality(Waiting') = Cardinality(Waiting) + 1
    BY <2>1, OneMoreWaits
  <2>3. Len(pendingFlushes') = Len(pendingFlushes) + 1
    BY <2>1, EnqueueLength
  <2> QED BY <2>1, <2>2, <2>3 DEF DrainerInv
<1>3. ASSUME Compact(c) PROVE DrainerInv'
  <2>1. /\ stage' = stage /\ pc[c] = "idle" /\ pendingFlushes' = pendingFlushes
        /\ pc' = [pc EXCEPT ![c] = "waiting"]
    BY <1>3 DEF Compact, lockVars
  <2>2. IsFiniteSet(Waiting') /\ Cardinality(Waiting') = Cardinality(Waiting) + 1
    BY <2>1, OneMoreWaits
  <2> QED BY <2>1, <2>2 DEF DrainerInv
<1>4. ASSUME Close(c) PROVE DrainerInv'
  <2>1. stage' = stage /\ pendingFlushes' = pendingFlushes
    BY <1>4 DEF Close, lockVars
  <2>2. Waiting' = Waiting
    BY <1>4, SameWait DEF Close
  <2> QED BY <2>1, <2>2 DEF DrainerInv
<1> QED BY <1>1, <1>2, <1>3, <1>4 DEF Call

LEMMA LockStepDrainer ==
    ASSUME EngineTypeOK, DrainerInv, NEW c \in Clients, LockStep(c)
    PROVE  DrainerInv'
<1> USE DrainerFacts
<1>1. ASSUME Acquire(c) PROVE DrainerInv'
  <2>1. /\ stage = "free" /\ stage' = "pick" /\ pendingFlushes' = pendingFlushes
        /\ pc[c] = "waiting" /\ pc' = [pc EXCEPT ![c] = "draining"]
    BY <1>1 DEF Acquire, TakeLock, EngineTypeOK
  <2>2. Waiting' = Waiting \ {c} /\ c \in Waiting
    BY <2>1 DEF EngineTypeOK, Waiting
  <2>3. IsFiniteSet(Waiting') /\ Cardinality(Waiting') = Cardinality(Waiting) - 1
    BY <2>2, FS_RemoveElement DEF DrainerInv
  <2> QED BY <2>1, <2>3 DEF DrainerInv
<1>2. ASSUME CloseFirst(c) PROVE DrainerInv'
  <2>1. stage = "free" /\ stage' = "pick"
    BY <1>2 DEF CloseFirst, TakeLock, EngineTypeOK
  <2>2. Waiting' = Waiting
    BY <1>2, SameWait DEF CloseFirst, TakeLock
  <2>3. Len(pendingFlushes') \in {Len(pendingFlushes), Len(pendingFlushes) + 1}
    BY <1>2, EnqueueLength DEF CloseFirst, NothingEnqueued
  <2> QED BY <2>1, <2>2, <2>3 DEF DrainerInv
<1>3. ASSUME CloseAgain(c) PROVE DrainerInv'
  <2>1. stage' = stage /\ pendingFlushes' = pendingFlushes
    BY <1>3 DEF CloseAgain, lockVars
  <2>2. Waiting' = Waiting
    BY <1>3, SameWait DEF CloseAgain
  <2> QED BY <2>1, <2>2 DEF DrainerInv
<1> QED BY <1>1, <1>2, <1>3 DEF LockStep

LEMMA DrainDrainer ==
    ASSUME EngineTypeOK, DrainerInv, NEW c \in Clients, Drain(c)
    PROVE  DrainerInv'
<1> USE DrainerFacts
<1>1. ASSUME PickFlush(c) PROVE DrainerInv'
  <2>1. /\ stage = "pick" /\ stage' \in {"pick", "write"} /\ Waiting' = Waiting
        /\ pendingFlushes # <<>> /\ pendingFlushes' = Tail(pendingFlushes)
    BY <1>1 DEF PickFlush, StartFlush, Waiting
  <2>2. Len(pendingFlushes') = Len(pendingFlushes) - 1
    BY <2>1, HeadTailProperties DEF EngineTypeOK
  <2> QED BY <2>1, <2>2 DEF DrainerInv
<1>2. ASSUME PickCompaction(c) PROVE DrainerInv'
  <2>1. Waiting' = Waiting /\ pendingFlushes = <<>> /\ pendingFlushes' = pendingFlushes
    BY <1>2 DEF PickCompaction, Waiting
  <2> QED BY <2>1 DEF DrainerInv
<1>3. ASSUME DrainDone(c) PROVE DrainerInv'
  <2>1. Waiting' = Waiting
    BY <1>3, SameWait DEF DrainDone, ReleaseLock, EngineTypeOK
  <2>2. pendingFlushes = <<>> /\ pendingFlushes' = pendingFlushes
    BY <1>3 DEF DrainDone
  <2> QED BY <2>1, <2>2 DEF DrainerInv
<1>4. ASSUME \/ WriteTable(c) \/ BuildManifest(c) \/ SavePrimary(c) \/ SaveBackup(c)
             \/ CommitFlush(c) \/ CommitCompaction(c) \/ UnlinkNext(c) \/ UnlinkDone(c)
      PROVE  DrainerInv'
  <2>1. stage # "pick" /\ UNCHANGED <<pc, pendingFlushes>>
    BY <1>4 DEF WriteTable, BuildManifest, SavePrimary, SaveBackup, CommitFlush,
                CommitCompaction, UnlinkNext, UnlinkDone
  <2> QED BY <2>1 DEF DrainerInv, Waiting
<1> QED BY <1>1, <1>2, <1>3, <1>4 DEF Drain

LEMMA TaskRaisesDrainer ==
    ASSUME EngineTypeOK, DrainerInv, NEW c \in Clients, TaskRaises(c)
    PROVE  DrainerInv'
<1> USE DrainerFacts
<1>1. stage # "pick" /\ stage' = "free" /\ pendingFlushes' = pendingFlushes
  BY DEF TaskRaises, ReleaseLock
<1>2. Waiting' = Waiting
  BY SameWait DEF TaskRaises, ReleaseLock, EngineTypeOK
<1> QED BY <1>1, <1>2 DEF DrainerInv

LEMMA NextDrainer == EngineTypeOK /\ DrainerInv /\ [Next]_vars => DrainerInv'
<1> SUFFICES ASSUME EngineTypeOK, DrainerInv, [Next]_vars PROVE DrainerInv'
  OBVIOUS
<1>1. CASE UNCHANGED <<pc, pendingFlushes, stage>>
  BY <1>1 DEF DrainerInv, Waiting
<1>2. ASSUME NEW r \in Readers, QueryBegin(r) \/ Read(r)
      PROVE  UNCHANGED <<pc, pendingFlushes, stage>>
  BY <1>2 DEF QueryBegin, Read, ReadTable, FileMissing, CheckActive, QueryEnd, lockVars
<1>3. UNCHANGED vars => UNCHANGED <<pc, pendingFlushes, stage>>
  BY DEF vars, lockVars
<1> QED BY <1>1, <1>2, <1>3, CallDrainer, LockStepDrainer, DrainDrainer, TaskRaisesDrainer
        DEF Next

\* A queued flush always has a thread that will come for it, however many drains
\* raise and leave the rest of the queue behind: every client that queues a
\* snapshot takes the lock for itself afterwards.
THEOREM QueueHasDrainer == Spec => []PendingHasDrainer
<1>1. Init => DrainerInv
  <2> SUFFICES ASSUME Init PROVE DrainerInv
    OBVIOUS
  <2>1. Waiting = {} /\ Len(pendingFlushes) = 0 /\ stage = "free"
    BY DEF Init, Waiting
  <2> QED BY <2>1, FS_EmptySet DEF DrainerInv
<1>2. EngineTypeOK /\ DrainerInv => PendingHasDrainer
  <2> SUFFICES ASSUME EngineTypeOK, DrainerInv, pendingFlushes # <<>>, holder = NoClient
               PROVE  \E c \in Clients : pc[c] = "waiting"
    BY DEF PendingHasDrainer
  <2>1. stage # "pick"
    BY DEF EngineTypeOK
  <2>2. Cardinality(Waiting) > 0
    BY <2>1, DrainerFacts DEF DrainerInv
  <2>3. Waiting # {}
    BY <2>2, FS_EmptySet
  <2> QED BY <2>3 DEF Waiting
<1>3. TypeOK => EngineTypeOK
  BY DEF TypeOK
<1> QED BY <1>1, <1>2, <1>3, NextDrainer, TypeCorrect, PTL DEF Spec

-----------------------------------------------------------------------------
(* What a query makes of the files it finds.                               *)

\* Table t is the first one reader q will find that has key k.
FirstWith(q, k, t) ==
    /\ t \in q.todo
    /\ t \in DOMAIN files
    /\ files[t][k] # {}
    /\ \A u \in q.todo : t < u => u \in DOMAIN files /\ files[u][k] = {}

\* What the tables that are left to read add to the result is what the snapshot had.
OnCourse(q) ==
    \A k \in Keys :
        /\ q.result[k] # {} => q.result[k] = q.want[k]
        /\ q.result[k] = {} =>
             /\ \A t \in q.todo : FirstWith(q, k, t) => Latest(files[t][k]) = q.want[k]
             /\ (\A t \in q.todo : t \in DOMAIN files /\ files[t][k] = {}) => q.want[k] = {}

CourseInv ==
    \A r \in Readers :
        query[r].pc \in {"reading", "missing"} /\ ~query[r].skipped => OnCourse(query[r])

\* Candidates that a compaction has yet to delete.
Obsolete == IF stage = "unlink" THEN job.candidates ELSE {}

DeletedInOrder(q) ==
    /\ \A t, u \in q.todo : t < u /\ u \notin DOMAIN files => t \notin DOMAIN files
    /\ q.todo \cap DOMAIN files \subseteq tables \cup Obsolete
    /\ q.skipped => q.todo \cap DOMAIN files = {}
    /\ \A k \in Keys : q.result[k] = {} \/ q.result[k] = q.want[k]

DeletionInv ==
    /\ \A t \in Obsolete : t < job.id
    /\ \A r \in Readers :
         /\ query[r].faults <= unlinkFaults
         /\ query[r].faults = unlinkFaults => DeletedInOrder(query[r])

-----------------------------------------------------------------------------
(* The steps of a reader.                                                  *)

\* The newest table that has a key decides it.
LEMMA FirstTableWins ==
    ASSUME EngineTypeOK, TablesExist, NEW k \in Keys
    PROVE  /\ \A t \in tables :
                 files[t][k] # {} /\ (\A u \in tables : t < u => files[u][k] = {})
                   => Latest(files[t][k]) = MergeRuns(tables)[k]
           /\ (\A t \in tables : files[t][k] = {}) => MergeRuns(tables)[k] = {}
<1>1. \A t \in tables : t \in Nat
  BY DEF EngineTypeOK, Versions
<1>2. ASSUME NEW t \in tables, files[t][k] # {},
             \A u \in tables : t < u => files[u][k] = {}
      PROVE  Latest(files[t][k]) = MergeRuns(tables)[k]
  <2>1. ASSUME NEW i \in Latest(files[t][k]) PROVE i \in MergeRuns(tables)[k]
    <3>1. i \in files[t][k] /\ \A j \in files[t][k] : j <= i
      BY DEF Latest
    <3>2. \A u \in tables : \A j \in files[u][k] : u < t \/ (u = t /\ j <= i)
      BY <1>1, <1>2, <3>1
    <3> QED BY <3>1, <3>2 DEF MergeRuns
  <2>2. ASSUME NEW i \in MergeRuns(tables)[k] PROVE i \in Latest(files[t][k])
    <3>1. PICK v \in tables :
            /\ i \in files[v][k]
            /\ \A u \in tables : \A j \in files[u][k] : u < v \/ (u = v /\ j <= i)
      BY DEF MergeRuns
    <3>2. v = t
      BY <1>1, <1>2, <3>1
    <3> QED BY <1>1, <3>1, <3>2 DEF Latest
  <2> QED BY <2>1, <2>2
<1>3. (\A t \in tables : files[t][k] = {}) => MergeRuns(tables)[k] = {}
  BY DEF MergeRuns
<1> QED BY <1>2, <1>3

\* A step of reader r, which leaves it with q.
LEMMA ReaderCourse ==
    ASSUME EngineTypeOK, CourseInv, DeletionInv, NEW r \in Readers, NEW q,
           query' = [query EXCEPT ![r] = q],
           UNCHANGED <<tables, files, stage, job, unlinkFaults>>,
           q.pc \in {"reading", "missing"} /\ ~q.skipped => OnCourse(q),
           q.faults <= unlinkFaults, q.faults = unlinkFaults => DeletedInOrder(q)
    PROVE  CourseInv' /\ DeletionInv'
<1>1. \A s \in Readers : query'[s] = IF s = r THEN q ELSE query[s]
  BY DEF EngineTypeOK
<1>2. CourseInv'
  <2> SUFFICES ASSUME NEW s \in Readers, query'[s].pc \in {"reading", "missing"},
                      ~query'[s].skipped
               PROVE  OnCourse(query[s])'
    BY DEF CourseInv
  <2>1. OnCourse(query'[s])
    BY <1>1 DEF CourseInv
  <2> QED BY <2>1 DEF OnCourse, FirstWith
<1>3. DeletionInv'
  <2>1. Obsolete' = Obsolete
    BY DEF Obsolete
  <2>2. ASSUME NEW s \in Readers, query'[s].faults = unlinkFaults
        PROVE  DeletedInOrder(query[s])'
    <3>1. DeletedInOrder(query'[s])
      BY <1>1, <2>2 DEF DeletionInv
    <3> QED BY <2>1, <3>1 DEF DeletedInOrder
  <2>3. \A s \in Readers : query'[s].faults <= unlinkFaults
    BY <1>1 DEF DeletionInv
  <2> QED BY <2>1, <2>2, <2>3 DEF DeletionInv
<1> QED BY <1>2, <1>3

\* A run that has a key has a newest version of it.
LEMMA LatestExists ==
    ASSUME NEW a \in Runs, NEW now \in Nat, Past(a, now), NEW k \in Keys, a[k] # {}
    PROVE  Latest(a[k]) # {}
<1>1. a[k] \in SUBSET Nat /\ \A i \in a[k] : i <= now
  BY DEF Runs, Versions, Past
<1>2. PICK i \in a[k] : \A j \in a[k] : j <= i
  BY <1>1, MaxExists
<1> QED BY <1>2 DEF Latest

LEMMA QueryBeginCourse ==
    ASSUME EngineInv, DataInv, CourseInv, DeletionInv, NEW r \in Readers, QueryBegin(r)
    PROVE  CourseInv' /\ DeletionInv'
<1> DEFINE q == [pc |-> "reading", todo |-> tables,
                 result |-> [k \in Keys |-> Latest(memtable.data[k])],
                 want |-> SnapshotView, seen |-> Accepted, skipped |-> FALSE,
                 faults |-> unlinkFaults]
<1>1. /\ query' = [query EXCEPT ![r] = q]
      /\ UNCHANGED <<tables, files, stage, job, unlinkFaults>>
  BY DEF QueryBegin, lockVars, diskVars, historyVars
<1>2. /\ EngineTypeOK /\ TablesExist /\ tables \subseteq DOMAIN files /\ Len(log) \in Nat
      /\ memtable.data \in Runs /\ Past(memtable.data, Len(log))
  BY DEF EngineInv, DataInv, PointsInv, TablesExist, EngineTypeOK, PastInv
<1>3. ASSUME NEW k \in Keys
      PROVE  /\ q.result[k] # {} => q.result[k] = q.want[k]
             /\ q.result[k] = {} => q.want[k] = MergeRuns(tables)[k]
  <2>1. memtable.data[k] # {} <=> Latest(memtable.data[k]) # {}
    BY <1>2, LatestExists DEF Latest
  <2> QED BY <2>1 DEF SnapshotView
<1>4. q.todo = tables /\ q.skipped = FALSE /\ q.faults = unlinkFaults /\ unlinkFaults \in Nat
  BY <1>2 DEF EngineTypeOK
<1> HIDE DEF q
<1>5. OnCourse(q)
  <2> SUFFICES ASSUME NEW k \in Keys, q.result[k] = {}
               PROVE  /\ \A t \in q.todo : FirstWith(q, k, t) => Latest(files[t][k]) = q.want[k]
                      /\ (\A t \in q.todo : t \in DOMAIN files /\ files[t][k] = {})
                           => q.want[k] = {}
    BY <1>3 DEF OnCourse
  <2>1. q.want[k] = MergeRuns(tables)[k]
    BY <1>3
  <2>2. \A t \in tables : FirstWith(q, k, t) =>
            files[t][k] # {} /\ \A u \in tables : t < u => files[u][k] = {}
    BY <1>4 DEF FirstWith
  <2> QED BY <1>2, <1>4, <2>1, <2>2, FirstTableWins
<1>6. DeletedInOrder(q)
  BY <1>2, <1>3, <1>4 DEF DeletedInOrder
<1>7. q.faults <= unlinkFaults
  BY <1>4
<1> QED BY <1>1, <1>2, <1>5, <1>6, <1>7, ReaderCourse

\* A table is the next one: those above it have been read, or were not there.
LEMMA ReadTableCourse ==
    ASSUME EngineInv, DataInv, CourseInv, DeletionInv, NEW r \in Readers, ReadTable(r)
    PROVE  CourseInv' /\ DeletionInv'
<1>1. PICK t \in query[r].todo :
        /\ NextRead(r, t)
        /\ t \in DOMAIN files
        /\ query' = [query EXCEPT
              ![r].todo = @ \ {t},
              ![r].result = [k \in Keys |->
                  IF @[k] # {} THEN @[k] ELSE Latest(files[t][k])]]
  BY DEF ReadTable
<1> DEFINE old == query[r]
           merged == [k \in Keys |-> IF old.result[k] # {} THEN old.result[k]
                                     ELSE Latest(files[t][k])]
           q == [old EXCEPT !.todo = old.todo \ {t}, !.result = merged]
<1>2. /\ old \in Queries /\ query \in [Readers -> Queries] /\ files[t] \in Runs
      /\ EngineTypeOK /\ Past(files[t], Len(log)) /\ Len(log) \in Nat /\ old.todo \subseteq Nat
  BY <1>1 DEF EngineInv, EngineTypeOK, DataInv, PointsInv, PastInv, Queries, Versions
<1>3. /\ query' = [query EXCEPT ![r] = q]
      /\ UNCHANGED <<tables, files, stage, job, unlinkFaults>>
  BY <1>1, <1>2 DEF ReadTable, lockVars, diskVars, historyVars
<1>4. /\ q.pc = "reading" /\ old.pc = "reading" /\ q.skipped = old.skipped
      /\ q.todo = old.todo \ {t} /\ q.want = old.want /\ q.result = merged
      /\ q.faults = old.faults
  BY <1>2 DEF ReadTable, Queries
<1>5. \A k \in Keys : files[t][k] # {} => Latest(files[t][k]) # {}
  BY <1>2, LatestExists
<1>6. \A u \in old.todo : u <= t /\ (u \in q.todo => u < t)
  BY <1>1, <1>2, <1>4 DEF NextRead
<1> HIDE DEF q
<1>7. \A k \in Keys : /\ old.result[k] # {} => q.result[k] = old.result[k]
                      /\ old.result[k] = {} => q.result[k] = Latest(files[t][k])
  BY <1>4
<1> HIDE DEF merged
<1>8. ASSUME ~q.skipped PROVE OnCourse(q)
  <2>1. OnCourse(old)
    BY <1>4, <1>8 DEF CourseInv
  <2> SUFFICES ASSUME NEW k \in Keys
               PROVE  /\ q.result[k] # {} => q.result[k] = q.want[k]
                      /\ q.result[k] = {} =>
                           /\ \A u \in q.todo : FirstWith(q, k, u)
                                                  => Latest(files[u][k]) = q.want[k]
                           /\ (\A u \in q.todo : u \in DOMAIN files /\ files[u][k] = {})
                                => q.want[k] = {}
    BY DEF OnCourse
  <2>2. CASE old.result[k] # {}
    BY <1>4, <1>7, <2>1, <2>2 DEF OnCourse
  <2>3. CASE old.result[k] = {} /\ files[t][k] # {}
    <3>1. FirstWith(old, k, t)
      BY <1>1, <1>2, <1>6, <2>3 DEF FirstWith
    <3> QED BY <1>4, <1>5, <1>7, <2>1, <2>3, <3>1 DEF OnCourse
  <2>4. CASE old.result[k] = {} /\ files[t][k] = {}
    <3>1. q.result[k] = {}
      BY <1>7, <2>4 DEF Latest
    <3>2. \A u \in q.todo : FirstWith(q, k, u) => FirstWith(old, k, u)
      BY <1>1, <1>4, <2>4 DEF FirstWith
    <3>3. (\A u \in q.todo : u \in DOMAIN files /\ files[u][k] = {})
            => \A u \in old.todo : u \in DOMAIN files /\ files[u][k] = {}
      BY <1>1, <1>4, <2>4
    <3> QED BY <1>4, <2>1, <2>4, <3>1, <3>2, <3>3 DEF OnCourse
  <2> QED BY <2>2, <2>3, <2>4
<1>9. ASSUME q.faults = unlinkFaults PROVE DeletedInOrder(q)
  <2>1. DeletedInOrder(old)
    BY <1>4, <1>9 DEF DeletionInv
  <2>2. ~q.skipped
    BY <1>1, <1>4, <2>1 DEF DeletedInOrder
  <2>3. \A k \in Keys : q.result[k] = {} \/ q.result[k] = q.want[k]
    BY <1>8, <2>2 DEF OnCourse
  <2> QED BY <1>4, <2>1, <2>2, <2>3 DEF DeletedInOrder
<1>10. q.faults <= unlinkFaults
  BY <1>4 DEF DeletionInv
<1> HIDE DEF old
<1> QED BY <1>2, <1>3, <1>8, <1>9, <1>10, ReaderCourse

LEMMA FileMissingCourse ==
    ASSUME EngineInv, CourseInv, DeletionInv, NEW r \in Readers, FileMissing(r)
    PROVE  CourseInv' /\ DeletionInv'
<1> DEFINE old == query[r]
           q == [old EXCEPT !.pc = "missing"]
<1>1. old \in Queries /\ query \in [Readers -> Queries] /\ EngineTypeOK
  BY DEF EngineInv, EngineTypeOK
<1>2. /\ query' = [query EXCEPT ![r] = q]
      /\ UNCHANGED <<tables, files, stage, job, unlinkFaults>>
  BY <1>1 DEF FileMissing, lockVars, diskVars, historyVars
<1>3. /\ old.pc = "reading" /\ q.skipped = old.skipped /\ q.todo = old.todo
      /\ q.want = old.want /\ q.result = old.result /\ q.faults = old.faults
  BY <1>1 DEF FileMissing, Queries
<1> HIDE DEF q
<1>4. ~q.skipped => OnCourse(q)
  BY <1>3 DEF CourseInv, OnCourse, FirstWith
<1>5. q.faults <= unlinkFaults /\ (q.faults = unlinkFaults => DeletedInOrder(q))
  BY <1>3 DEF DeletionInv, DeletedInOrder
<1> HIDE DEF old
<1> QED BY <1>1, <1>2, <1>4, <1>5, ReaderCourse

\* The newest table left is gone, and all older ones went before it.
LEMMA CheckActiveCourse ==
    ASSUME EngineInv, CourseInv, DeletionInv, NEW r \in Readers, CheckActive(r)
    PROVE  CourseInv' /\ DeletionInv'
<1>1. PICK t \in query[r].todo :
        /\ NextRead(r, t)
        /\ query' = [query EXCEPT
              ![r].pc = IF t \in tables THEN "raised" ELSE "reading",
              ![r].todo = @ \ {t},
              ![r].skipped = TRUE]
  BY DEF CheckActive
<1> DEFINE old == query[r]
           q == [old EXCEPT !.pc = IF t \in tables THEN "raised" ELSE "reading",
                            !.todo = old.todo \ {t}, !.skipped = TRUE]
<1>2. /\ old \in Queries /\ query \in [Readers -> Queries] /\ EngineTypeOK
      /\ old.todo \subseteq Nat
  BY DEF EngineInv, EngineTypeOK, Queries, Versions
<1>3. /\ query' = [query EXCEPT ![r] = q]
      /\ UNCHANGED <<tables, files, stage, job, unlinkFaults>>
  BY <1>1, <1>2 DEF CheckActive, lockVars, diskVars, historyVars
<1>4. /\ q.skipped /\ q.todo = old.todo \ {t} /\ q.want = old.want
      /\ q.result = old.result /\ q.faults = old.faults
  BY <1>2 DEF Queries
<1> HIDE DEF q
<1>5. t \notin DOMAIN files /\ \A u \in old.todo : u <= t
  BY <1>1 DEF CheckActive, EngineInv, QueryInv, NextRead
<1>6. ASSUME q.faults = unlinkFaults PROVE DeletedInOrder(q)
  <2>1. DeletedInOrder(old)
    BY <1>4, <1>6 DEF DeletionInv
  <2>2. \A u \in q.todo : u < t /\ u \notin DOMAIN files
    BY <1>1, <1>2, <1>4, <1>5, <2>1 DEF DeletedInOrder
  <2> QED BY <1>4, <2>1, <2>2 DEF DeletedInOrder
<1>7. q.faults <= unlinkFaults
  BY <1>4 DEF DeletionInv
<1> HIDE DEF old
<1> QED BY <1>2, <1>3, <1>4, <1>6, <1>7, ReaderCourse

LEMMA QueryEndCourse ==
    ASSUME EngineInv, CourseInv, DeletionInv, NEW r \in Readers, QueryEnd(r)
    PROVE  CourseInv' /\ DeletionInv'
<1>1. /\ query' = [query EXCEPT ![r] = NoQuery] /\ EngineTypeOK
      /\ UNCHANGED <<tables, files, stage, job, unlinkFaults>>
  BY DEF QueryEnd, EngineInv, lockVars, diskVars, historyVars
<1>2. /\ NoQuery.pc = "idle" /\ DeletedInOrder(NoQuery)
      /\ NoQuery.faults <= unlinkFaults
  BY <1>1 DEF NoQuery, NoPoints, DeletedInOrder, EngineTypeOK
<1> QED BY <1>1, <1>2, ReaderCourse

-----------------------------------------------------------------------------
(* The steps of the others.                                                *)

\* A query keeps its course while files it is to read may go but never change.
LEMMA FilesOnlyGo ==
    ASSUME CourseInv, query' = query,
           \A r \in Readers : \A t \in query[r].todo :
              t \in DOMAIN files' => t \in DOMAIN files /\ files'[t] = files[t]
    PROVE  CourseInv'
<1> SUFFICES ASSUME NEW r \in Readers, query[r].pc \in {"reading", "missing"},
                    ~query[r].skipped
             PROVE  OnCourse(query[r])'
  BY DEF CourseInv
<1>1. OnCourse(query[r])
  BY DEF CourseInv
<1>2. \A k, t : FirstWith(query[r], k, t)' => /\ FirstWith(query[r], k, t)
                                            /\ files'[t] = files[t] /\ t \in query[r].todo
  BY DEF FirstWith
<1>3. \A k \in Keys : \A t \in query[r].todo :
         FirstWith(query[r], k, t)' => Latest(files'[t][k]) = query[r].want[k]
           \/ query[r].result[k] # {}
  BY <1>1, <1>2 DEF OnCourse
<1>4. \A k \in Keys :
         (\A t \in query[r].todo : t \in DOMAIN files' /\ files'[t][k] = {})
           => \A t \in query[r].todo : t \in DOMAIN files /\ files[t][k] = {}
  OBVIOUS
<1> QED BY <1>1, <1>3, <1>4 DEF OnCourse, Latest

\* No file a query has yet to read is deleted, and none of them becomes one that
\* nobody accounts for.
LEMMA OrderStays ==
    ASSUME DeletionInv, UNCHANGED <<query, unlinkFaults>>,
           \A r \in Readers : \A t \in query[r].todo : t \in DOMAIN files' <=> t \in DOMAIN files,
           tables \cup Obsolete \subseteq tables' \cup Obsolete',
           \A t \in Obsolete' : t < job'.id
    PROVE  DeletionInv'
BY DEF DeletionInv, DeletedInOrder

LEMMA QuietCourse ==
    ASSUME CourseInv, DeletionInv,
           UNCHANGED <<query, unlinkFaults, files, tables>>, Obsolete' = {}, Obsolete = {}
    PROVE  CourseInv' /\ DeletionInv'
BY FilesOnlyGo, OrderStays

LEMMA SameCourse ==
    ASSUME CourseInv, DeletionInv,
           UNCHANGED <<query, unlinkFaults, files, tables, stage, job>>
    PROVE  CourseInv' /\ DeletionInv'
<1>1. Obsolete' = Obsolete
  BY DEF Obsolete
<1> QED BY <1>1, FilesOnlyGo, OrderStays DEF DeletionInv

\* The new file has an id that no query knows.
LEMMA WriteTableCourse ==
    ASSUME EngineInv, CourseInv, DeletionInv, NEW c \in Clients, WriteTable(c)
    PROVE  CourseInv' /\ DeletionInv'
<1>1. /\ stage = "write" /\ stage' = "build" /\ UNCHANGED <<query, unlinkFaults, tables>>
      /\ DOMAIN files' = DOMAIN files \cup {job.id}
      /\ \A t \in DOMAIN files : t # job.id => files'[t] = files[t]
  BY DEF WriteTable, historyVars
<1>2. \A r \in Readers : \A t \in query[r].todo : t < job.id /\ t \in Nat /\ job.id \in Nat
  BY <1>1 DEF EngineInv, QueryInv, Active, EngineTypeOK, Queries, Jobs, Versions
<1>3. \A r \in Readers : \A t \in query[r].todo : t # job.id
  BY <1>2
<1>4. Obsolete = {} /\ Obsolete' = {}
  BY <1>1 DEF Obsolete
<1> QED BY <1>1, <1>3, <1>4, FilesOnlyGo, OrderStays

\* The replaced tables become obsolete, and all of them are older than the merge.
LEMMA CommitCourse ==
    ASSUME EngineInv, CourseInv, DeletionInv, NEW c \in Clients,
           CommitFlush(c) \/ CommitCompaction(c)
    PROVE  CourseInv' /\ DeletionInv'
<1>1. /\ stage = "commit" /\ UNCHANGED <<query, unlinkFaults, files>>
      /\ Obsolete = {}
  BY DEF CommitFlush, CommitCompaction, diskVars, historyVars, Obsolete
<1>2. CASE CommitFlush(c)
  <2>1. Obsolete' = {} /\ tables \subseteq tables'
    BY <1>2 DEF CommitFlush, Obsolete
  <2> QED BY <1>1, <2>1, FilesOnlyGo, OrderStays
<1>3. CASE CommitCompaction(c)
  <2>1. Obsolete' = tables /\ job' = job /\ \A t \in tables : t < job.id
    BY <1>1, <1>3 DEF CommitCompaction, Obsolete, EngineInv, JobInv, IdInv, Active
  <2> QED BY <1>1, <2>1, FilesOnlyGo, OrderStays
<1> QED BY <1>2, <1>3

\* The oldest obsolete table is deleted: an older file that a query still wants
\* would be obsolete too.
LEMMA UnlinkNextCourse ==
    ASSUME EngineInv, CourseInv, DeletionInv, NEW c \in Clients, UnlinkNext(c)
    PROVE  CourseInv' /\ DeletionInv'
<1>1. PICK t \in job.candidates :
        /\ NextUnlink(t)
        /\ job' = [job EXCEPT !.candidates = @ \ {t}]
        /\ \/ /\ files' = [u \in DOMAIN files \ {t} |-> files[u]]
              /\ UNCHANGED unlinkFaults
           \/ /\ unlinkFaults' = unlinkFaults + 1
              /\ UNCHANGED files
  BY DEF UnlinkNext
<1>2. /\ stage = "unlink" /\ stage' = "unlink" /\ UNCHANGED <<query, tables>>
      /\ tables = {job.id} /\ job \in Jobs /\ job.id \in Nat /\ job.candidates \subseteq Nat
      /\ query \in [Readers -> Queries] /\ unlinkFaults \in Nat
  BY DEF UnlinkNext, EngineInv, JobInv, EngineTypeOK, Jobs, Versions
<1>3. /\ Obsolete = job.candidates /\ Obsolete' = job.candidates \ {t}
      /\ job'.id = job.id
      /\ \A u \in Obsolete : t <= u /\ u < job.id
  BY <1>1, <1>2 DEF Obsolete, NextUnlink, DeletionInv, Jobs
<1>4. /\ \A u \in DOMAIN files' : u \in DOMAIN files /\ files'[u] = files[u]
      /\ unlinkFaults <= unlinkFaults' /\ unlinkFaults' \in Nat
      /\ unlinkFaults' = unlinkFaults => DOMAIN files' = DOMAIN files \ {t}
  BY <1>1, <1>2
<1>7. \A r \in Readers :
        /\ query[r].faults <= unlinkFaults'
        /\ query[r].faults = unlinkFaults' => query[r].faults = unlinkFaults
  BY <1>2, <1>4 DEF DeletionInv, Queries
<1>5. CourseInv'
  BY <1>2, <1>4, FilesOnlyGo
<1>6. ASSUME NEW r \in Readers, query[r].faults = unlinkFaults'
      PROVE  DeletedInOrder(query[r])'
  <2>1. DeletedInOrder(query[r]) /\ query[r].todo \subseteq Nat
    BY <1>2, <1>6, <1>7 DEF DeletionInv, Queries, Versions
  <2>0. unlinkFaults' = unlinkFaults
    BY <1>6, <1>7
  <2>2. ASSUME NEW a \in query[r].todo, a < t, a \in DOMAIN files PROVE FALSE
    <3>1. a \in tables \cup Obsolete
      BY <2>1, <2>2 DEF DeletedInOrder
    <3> QED BY <1>2, <1>3, <2>1, <2>2, <3>1
  <2>3. \A a, u \in query[r].todo : a < u /\ u \notin DOMAIN files' => a \notin DOMAIN files'
    BY <1>4, <2>0, <2>1, <2>2 DEF DeletedInOrder
  <2>4. query[r].todo \cap DOMAIN files' \subseteq tables' \cup Obsolete'
    BY <1>2, <1>3, <1>4, <2>0, <2>1 DEF DeletedInOrder
  <2> QED BY <1>2, <1>4, <2>0, <2>1, <2>3, <2>4 DEF DeletedInOrder
<1> QED BY <1>2, <1>3, <1>5, <1>6, <1>7 DEF DeletionInv

LEMMA NextCourse ==
    EngineInv /\ DataInv /\ CourseInv /\ DeletionInv /\ [Next]_vars => CourseInv' /\ DeletionInv'
<1> SUFFICES ASSUME EngineInv, DataInv, CourseInv, DeletionInv, [Next]_vars
             PROVE  CourseInv' /\ DeletionInv'
  OBVIOUS
<1>1. ASSUME NEW c \in Clients, Call(c) PROVE CourseInv' /\ DeletionInv'
  BY <1>1, SameCourse
  DEF Call, AppendRows, Flush, Compact, Close, lockVars, diskVars, historyVars
<1>2. ASSUME NEW c \in Clients, LockStep(c) PROVE CourseInv' /\ DeletionInv'
  <2>1. CASE CloseAgain(c)
    BY <2>1, SameCourse DEF CloseAgain, lockVars, diskVars, historyVars
  <2>2. CASE Acquire(c) \/ CloseFirst(c)
    <3>1. /\ stage = "free" /\ stage' = "pick"
          /\ UNCHANGED <<query, unlinkFaults, files, tables>>
      BY <2>2 DEF Acquire, CloseFirst, TakeLock, diskVars, historyVars, EngineInv, EngineTypeOK
    <3> QED BY <3>1, QuietCourse DEF Obsolete
  <2> QED BY <1>2, <2>1, <2>2 DEF LockStep
<1>3. ASSUME NEW c \in Clients, Drain(c) PROVE CourseInv' /\ DeletionInv'
  <2>1. CASE \/ PickFlush(c) \/ PickCompaction(c) \/ DrainDone(c) \/ BuildManifest(c)
             \/ SavePrimary(c) \/ SaveBackup(c)
    <3>1. /\ stage # "unlink" /\ stage' # "unlink"
          /\ UNCHANGED <<query, unlinkFaults, files, tables>>
      BY <2>1 DEF PickFlush, StartFlush, PickCompaction, StartCompaction, DrainDone,
                  ReleaseLock, BuildManifest, SavePrimary, SaveBackup, diskVars, historyVars
    <3> QED BY <3>1, QuietCourse DEF Obsolete
  <2>2. CASE UnlinkDone(c)
    <3>1. /\ Obsolete = {} /\ Obsolete' = {}
          /\ UNCHANGED <<query, unlinkFaults, files, tables>>
      BY <2>2 DEF UnlinkDone, Obsolete, diskVars, historyVars
    <3> QED BY <3>1, QuietCourse
  <2> QED BY <1>3, <2>1, <2>2, WriteTableCourse, CommitCourse, UnlinkNextCourse DEF Drain
<1>4. ASSUME NEW c \in Clients, TaskRaises(c) PROVE CourseInv' /\ DeletionInv'
  <2>1. /\ stage # "unlink" /\ stage' # "unlink"
        /\ UNCHANGED <<query, unlinkFaults, files, tables>>
    BY <1>4 DEF TaskRaises, ReleaseLock, diskVars
  <2> QED BY <2>1, QuietCourse DEF Obsolete
<1>5. ASSUME NEW r \in Readers, QueryBegin(r) \/ Read(r) PROVE CourseInv' /\ DeletionInv'
  BY <1>5, QueryBeginCourse, ReadTableCourse, FileMissingCourse, CheckActiveCourse,
     QueryEndCourse DEF Read
<1>6. CASE UNCHANGED vars
  BY <1>6, SameCourse DEF vars, lockVars, diskVars, historyVars
<1> QED BY <1>1, <1>2, <1>3, <1>4, <1>5, <1>6 DEF Next

LEMMA InitCourse == Init => CourseInv /\ DeletionInv
<1> SUFFICES ASSUME Init PROVE CourseInv /\ DeletionInv
  OBVIOUS
<1>1. \A r \in Readers : query[r] = NoQuery
  BY DEF Init
<1>2. NoQuery.pc = "idle" /\ NoQuery.todo = {} /\ NoQuery.skipped = FALSE
      /\ NoQuery.faults = 0 /\ \A k \in Keys : NoQuery.result[k] = {}
  BY DEF NoQuery, NoPoints
<1>3. Obsolete = {} /\ unlinkFaults = 0
  BY DEF Init, Obsolete
<1> QED BY <1>1, <1>2, <1>3 DEF CourseInv, DeletionInv, DeletedInOrder

\* CourseInv and DeletionInv hold in every reachable state.
THEOREM CourseInvariance == Spec => [](EngineInv /\ CourseInv /\ DeletionInv)
<1>1. Init => CourseInv /\ DeletionInv
  BY InitCourse
<1> QED BY <1>1, NextCourse, DataInvariance, PTL DEF Spec

\* A query that met no deleted file returns the snapshot it took, for every key.
THEOREM QueriesAreComplete == Spec => []CompleteUnlessSkipped
<1>1. EngineInv /\ CourseInv => CompleteUnlessSkipped
  <2> SUFFICES ASSUME EngineInv, CourseInv, NEW r \in Readers, QueryReturns(r), ~query[r].skipped
               PROVE  query[r].result = query[r].want
    BY DEF CompleteUnlessSkipped
  <2>1. /\ OnCourse(query[r]) /\ query[r].todo = {}
        /\ query[r].result \in Runs /\ query[r].want \in Runs
    BY DEF CourseInv, QueryReturns, EngineInv, EngineTypeOK, Queries
  <2>2. \A k \in Keys : query[r].result[k] = query[r].want[k]
    BY <2>1 DEF OnCourse
  <2> QED BY <2>1, <2>2 DEF Runs
<1> QED BY <1>1, CourseInvariance, PTL

\* What a query has for a key is the newest version of its snapshot, also when a
\* compaction deletes tables under it, unless a deletion failed while it ran: that
\* leaves an older table behind which the query may still read.
THEOREM QueriesAreNotStale == Spec => []NoStaleRead
<1>1. DeletionInv => NoStaleRead
  BY DEF DeletionInv, DeletedInOrder, NoStaleRead, ReadsNewest
<1> QED BY <1>1, CourseInvariance, PTL
=============================================================================
