------------------------ MODULE StorageRefinementProofs ------------------------
(***************************************************************************)
(* StorageCore implements PrefixStore and MaintenanceLoop, and what close  *)
(* leaves behind.  Points move from the memtable through the queue and the *)
(* flush in progress to the tables in the order of the calls that brought  *)
(* them: all keys together, not key by key.                                *)
(***************************************************************************)
EXTENDS StorageRefinement, StorageDataProofs

InTables == UNION {VersionsOf(files[t]) : t \in tables}

Below(S, T) == \A i \in S, j \in T : i < j

\* For an engine whose memtable holds the versions in M.
CallOrder(M) ==
    /\ Below(InTables, InFlush) /\ Below(InTables, M) /\ Below(InFlush, M)
    /\ \A n \in DOMAIN pendingFlushes :
          Below(InTables, Queued(n)) /\ Below(InFlush, Queued(n)) /\ Below(Queued(n), M)
    /\ \A n, p \in DOMAIN pendingFlushes : n < p => Below(Queued(n), Queued(p))

\* Run a holds accepted points only, and none of a flush that raised.
Genuine(a, calls) ==
    \A k \in Keys : \A i \in a[k] : i \in DOMAIN calls /\ k \in calls[i] /\ i \notin lost

GenuineInv(m, calls) ==
    /\ \A t \in tables : Genuine(files[t], calls)
    /\ FlushInProgress => Genuine(job.data, calls)
    /\ \A n \in DOMAIN pendingFlushes : Genuine(pendingFlushes[n].data, calls)
    /\ Genuine(m, calls)

PrefixInv ==
    /\ CallOrder(VersionsOf(memtable.data))
    /\ GenuineInv(memtable.data, log)
    /\ job.kind # "flush" => job.data = NoPoints
    /\ \A i \in lost : i \in DOMAIN log

\* close() rotated the memtable, its drain emptied the queue, and the primary
\* manifest is ahead of _tables only between a save and the commit.
CloseInv ==
    /\ closed => memtable.points = 0
    /\ memtable.points = 0 => memtable.data = NoPoints
    /\ faults = 0 =>
          /\ closed /\ holder = NoClient => pendingFlushes = <<>>
          /\ stage \notin {"backup", "commit"} => primary.tables = tables

-----------------------------------------------------------------------------
(* The order of the calls.                                                 *)

\* Versions in the engine are numbers of calls made so far.
LEMMA VersionFacts ==
    ASSUME EngineInv, DataInv
    PROVE  /\ Len(log) \in Nat
           /\ \A i \in InTables : i \in Nat /\ 0 < i /\ i <= Len(log)
           /\ \A i \in InFlush : i \in Nat /\ 0 < i /\ i <= Len(log)
           /\ \A n \in DOMAIN pendingFlushes : \A i \in Queued(n) :
                 i \in Nat /\ 0 < i /\ i <= Len(log)
           /\ \A i \in VersionsOf(memtable.data) : i \in Nat /\ 0 < i /\ i <= Len(log)
<1>1. ASSUME NEW a \in Runs, Past(a, Len(log)), NEW i \in VersionsOf(a)
      PROVE  i \in Nat /\ 0 < i /\ i <= Len(log)
  <2>1. PICK k \in Keys : i \in a[k]
    BY <1>1 DEF VersionsOf
  <2> QED BY <1>1, <2>1 DEF Runs, Versions, Past
<1>2. /\ \A t \in tables : files[t] \in Runs /\ Past(files[t], Len(log))
      /\ job.data \in Runs /\ (FlushInProgress => Past(job.data, Len(log)))
      /\ \A n \in DOMAIN pendingFlushes :
            pendingFlushes[n].data \in Runs /\ Past(pendingFlushes[n].data, Len(log))
      /\ memtable.data \in Runs /\ Past(memtable.data, Len(log))
  BY PendingType DEF EngineInv, EngineTypeOK, TablesExist, Jobs, DataInv, PointsInv, PastInv
<1>3. Len(log) \in Nat
  BY DEF EngineInv, EngineTypeOK
<1>4. \A i \in InTables : i \in Nat /\ 0 < i /\ i <= Len(log)
  BY <1>1, <1>2 DEF InTables
<1>5. \A i \in InFlush : i \in Nat /\ 0 < i /\ i <= Len(log)
  BY <1>1, <1>2 DEF InFlush
<1>6. \A n \in DOMAIN pendingFlushes : \A i \in Queued(n) :
         i \in Nat /\ 0 < i /\ i <= Len(log)
  BY <1>1, <1>2 DEF Queued
<1>7. \A i \in VersionsOf(memtable.data) : i \in Nat /\ 0 < i /\ i <= Len(log)
  BY <1>1, <1>2
<1> QED BY <1>3, <1>4, <1>5, <1>6, <1>7

\* The new call is the last of all.
LEMMA AppendedPrefix ==
    ASSUME EngineInv, DataInv, PrefixInv, NEW b \in Batches
    PROVE  /\ CallOrder(VersionsOf(Appended(b).data))
           /\ GenuineInv(Appended(b).data, Append(log, b.keys))
<1> DEFINE m == Appended(b).data
           calls == Append(log, b.keys)
<1>1. \A k \in Keys : /\ m[k] \subseteq memtable.data[k] \cup {Len(log) + 1}
                      /\ k \notin b.keys => m[k] = memtable.data[k]
  BY DEF Appended
<1>2. /\ Len(calls) = Len(log) + 1 /\ calls[Len(log) + 1] = b.keys
      /\ Len(log) + 1 \in DOMAIN calls
      /\ \A i \in DOMAIN log : i \in DOMAIN calls /\ calls[i] = log[i]
      /\ Len(log) + 1 \notin lost
  BY BatchesAssumption DEF EngineInv, EngineTypeOK, PrefixInv
<1> HIDE DEF m, calls
<1>3. VersionsOf(m) \subseteq VersionsOf(memtable.data) \cup {Len(log) + 1}
  BY <1>1 DEF VersionsOf
<1>4. CallOrder(VersionsOf(m))
  BY <1>3, VersionFacts DEF PrefixInv, CallOrder, Below
<1>5. \A a : Genuine(a, log) => Genuine(a, calls)
  BY <1>2 DEF Genuine
<1>6. Genuine(m, calls)
  <2>1. Genuine(memtable.data, calls)
    BY <1>5 DEF PrefixInv, GenuineInv
  <2> SUFFICES ASSUME NEW k \in Keys, NEW i \in m[k], i \notin memtable.data[k]
               PROVE  i \in DOMAIN calls /\ k \in calls[i] /\ i \notin lost
    BY <2>1 DEF Genuine
  <2>2. i = Len(log) + 1 /\ k \in b.keys
    BY <1>1
  <2> QED BY <1>2, <2>2
<1>7. GenuineInv(m, calls)
  BY <1>5, <1>6 DEF PrefixInv, GenuineInv
<1> QED BY <1>4, <1>7 DEF m, calls

\* The rotated memtable is the last of the queue.
LEMMA EnqueuePrefix ==
    ASSUME EngineInv, NEW mt \in [rows : Nat, points : Nat, data : Runs], EnqueueFlush(mt),
           CallOrder(VersionsOf(mt.data)), GenuineInv(mt.data, log'),
           UNCHANGED <<tables, files, job, lost>>, FlushInProgress' <=> FlushInProgress
    PROVE  CallOrder(VersionsOf(memtable.data))' /\ GenuineInv(memtable.data, log)'
<1>1. /\ pendingFlushes \in Seq([id : Versions, data : Runs])
      /\ [id |-> nextTableId, data |-> mt.data] \in [id : Versions, data : Runs]
  BY DEF EngineInv, EngineTypeOK
<1> PICK top \in Nat : top = Len(pendingFlushes) + 1
  BY <1>1
<1>2. /\ memtable'.data = NoPoints
      /\ pendingFlushes' = Append(pendingFlushes, [id |-> nextTableId, data |-> mt.data])
  BY DEF EnqueueFlush, EmptyMemtable
<1>3. /\ top \in DOMAIN pendingFlushes' /\ pendingFlushes'[top].data = mt.data
      /\ \A n \in DOMAIN pendingFlushes : /\ n \in Nat /\ n < top
                                          /\ n \in DOMAIN pendingFlushes'
                                          /\ pendingFlushes'[n] = pendingFlushes[n]
      /\ \A n \in DOMAIN pendingFlushes' : n \in DOMAIN pendingFlushes \/ n = top
  BY <1>1, <1>2
<1>4. /\ InTables' = InTables /\ InFlush' = InFlush
      /\ VersionsOf(memtable.data)' = {}
      /\ Queued(top)' = VersionsOf(mt.data)
      /\ \A n \in DOMAIN pendingFlushes : Queued(n)' = Queued(n)
  BY <1>2, <1>3 DEF InTables, InFlush, Queued, VersionsOf, NoPoints
<1>5. CallOrder(VersionsOf(memtable.data))'
  <2>1. \A n \in DOMAIN pendingFlushes' : Below(InTables', Queued(n)') /\ Below(InFlush', Queued(n)')
    BY <1>3, <1>4 DEF CallOrder
  <2>2. \A n, p \in DOMAIN pendingFlushes' : n < p => Below(Queued(n)', Queued(p)')
    BY <1>3, <1>4 DEF CallOrder
  <2>3. Below(InTables', InFlush')
    BY <1>4 DEF CallOrder
  <2> QED BY <1>4, <2>1, <2>2, <2>3 DEF CallOrder, Below
<1>6. GenuineInv(memtable.data, log)'
  <2>1. \A n \in DOMAIN pendingFlushes' : Genuine(pendingFlushes'[n].data, log')
    BY <1>3 DEF GenuineInv
  <2>2. Genuine(NoPoints, log')
    BY DEF Genuine, NoPoints
  <2> QED BY <1>2, <2>1, <2>2 DEF GenuineInv, Genuine
<1> QED BY <1>5, <1>6

LEMMA AppendRowsPrefix ==
    ASSUME EngineInv, DataInv, PrefixInv, NEW c \in Clients, NEW b \in Batches, AppendRows(c, b)
    PROVE  PrefixInv'
<1>1. /\ log' = Append(log, b.keys)
      /\ UNCHANGED <<tables, stage, job, files, lost>>
  BY DEF AppendRows, lockVars, diskVars
<1>2. FlushInProgress' <=> FlushInProgress
  BY <1>1 DEF FlushInProgress
<1>3. CallOrder(VersionsOf(Appended(b).data)) /\ GenuineInv(Appended(b).data, log')
  BY <1>1, AppendedPrefix
<1>4. /\ job'.kind # "flush" => job'.data = NoPoints
      /\ \A i \in lost' : i \in DOMAIN log'
  BY <1>1 DEF PrefixInv, EngineInv, EngineTypeOK
<1>5. CASE ShouldFlush(Appended(b))
  <2>1. EnqueueFlush(Appended(b))
    BY <1>5 DEF AppendRows
  <2>2. Appended(b) \in [rows : Nat, points : Nat, data : Runs]
    BY AppendedType DEF EngineInv
  <2> QED BY <1>1, <1>2, <1>3, <1>4, <2>1, <2>2, EnqueuePrefix DEF PrefixInv
<1>6. CASE ~ShouldFlush(Appended(b))
  <2>1. memtable' = Appended(b) /\ pendingFlushes' = pendingFlushes
    BY <1>6 DEF AppendRows
  <2>2. /\ InTables' = InTables /\ InFlush' = InFlush
        /\ \A n : Queued(n)' = Queued(n)
    BY <1>1, <1>2, <2>1 DEF InTables, InFlush, Queued, VersionsOf
  <2>3. CallOrder(VersionsOf(memtable.data))'
    BY <1>3, <2>1, <2>2 DEF CallOrder, VersionsOf
  <2>4. GenuineInv(memtable.data, log)'
    BY <1>1, <1>2, <1>3, <2>1 DEF GenuineInv, Genuine
  <2> QED BY <1>4, <2>3, <2>4 DEF PrefixInv
<1> QED BY <1>5, <1>6

\* flush() and close() rotate the memtable as it is.
LEMMA RotatePrefix ==
    ASSUME EngineInv, PrefixInv, EnqueueFlush(memtable),
           UNCHANGED <<tables, job, files, log, lost>>,
           stage' = stage \/ (~Active /\ ~Active')
    PROVE  PrefixInv'
<1>1. FlushInProgress' <=> FlushInProgress
  BY DEF FlushInProgress, Active
<1>2. memtable \in [rows : Nat, points : Nat, data : Runs]
  BY DEF EngineInv, EngineTypeOK
<1>3. CallOrder(VersionsOf(memtable.data))' /\ GenuineInv(memtable.data, log)'
  BY <1>1, <1>2, EnqueuePrefix DEF PrefixInv
<1> QED BY <1>3 DEF PrefixInv

\* Steps that move no run from one place to another.
LEMMA SamePrefix ==
    ASSUME PrefixInv, UNCHANGED <<memtable, pendingFlushes, tables, log, lost>>,
           FlushInProgress' <=> FlushInProgress, FlushInProgress => job'.data = job.data,
           \A t \in tables : files'[t] = files[t],
           job'.kind # "flush" => job'.data = NoPoints
    PROVE  PrefixInv'
<1>1. InFlush' = InFlush /\ \A n : Queued(n)' = Queued(n)
  BY DEF InFlush, Queued, VersionsOf
<1>2. InTables' = InTables
  BY DEF InTables, VersionsOf
<1>3. CallOrder(VersionsOf(memtable.data))'
  BY <1>1, <1>2 DEF PrefixInv, CallOrder, VersionsOf
<1>4. GenuineInv(memtable.data, log)'
  BY DEF PrefixInv, GenuineInv, Genuine
<1> QED BY <1>3, <1>4 DEF PrefixInv

\* The head of the queue becomes the flush in progress.
LEMMA PickFlushPrefix ==
    ASSUME EngineInv, PrefixInv, NEW c \in Clients, PickFlush(c)
    PROVE  PrefixInv'
<1>1. /\ stage = "pick" /\ pendingFlushes # <<>> /\ pendingFlushes' = Tail(pendingFlushes)
      /\ UNCHANGED <<memtable, tables, files, log, lost>>
  BY DEF PickFlush, diskVars, historyVars
<1>2. /\ 1 \in DOMAIN pendingFlushes /\ Head(pendingFlushes) = pendingFlushes[1]
      /\ \A n \in DOMAIN pendingFlushes' :
            /\ n \in Nat /\ 1 < n + 1 /\ n + 1 \in DOMAIN pendingFlushes
            /\ pendingFlushes'[n] = pendingFlushes[n + 1]
  BY <1>1, TailFacts DEF EngineInv
<1>3. InFlush = {}
  BY <1>1 DEF InFlush, FlushInProgress
<1>4. /\ InFlush' \in {{}, Queued(1)}
      /\ FlushInProgress' => job'.data = pendingFlushes[1].data
      /\ job'.kind # "flush" => job'.data = NoPoints
  <2>1. CASE stage' = stage /\ job' = job
    BY <1>1, <2>1 DEF InFlush, FlushInProgress, PrefixInv
  <2>2. CASE StartFlush(Head(pendingFlushes))
    <3>1. job'.kind = "flush" /\ job'.data = pendingFlushes[1].data
      BY <1>2, <2>2 DEF StartFlush, NoJob
    <3> QED BY <3>1 DEF InFlush, Queued, VersionsOf
  <2> QED BY <2>1, <2>2 DEF PickFlush
<1>5. /\ InTables' = InTables /\ VersionsOf(memtable.data)' = VersionsOf(memtable.data)
      /\ \A n \in DOMAIN pendingFlushes' : Queued(n)' = Queued(n + 1)
  BY <1>1, <1>2 DEF InTables, VersionsOf, Queued
<1>6. CallOrder(VersionsOf(memtable.data))'
  <2>1. /\ Below(InTables, InFlush') /\ Below(InFlush', VersionsOf(memtable.data))
        /\ \A n \in DOMAIN pendingFlushes' : Below(InFlush', Queued(n + 1))
    BY <1>2, <1>4 DEF PrefixInv, CallOrder, Below
  <2>2. \A n, p \in DOMAIN pendingFlushes' : n < p => n + 1 < p + 1
    BY <1>2
  <2> QED BY <1>2, <1>5, <2>1, <2>2 DEF PrefixInv, CallOrder
<1>7. GenuineInv(memtable.data, log)'
  BY <1>1, <1>2, <1>4 DEF PrefixInv, GenuineInv, Genuine
<1> QED BY <1>1, <1>4, <1>6, <1>7 DEF PrefixInv

LEMMA CommitFlushPrefix ==
    ASSUME EngineInv, DataInv, PrefixInv, NEW c \in Clients, CommitFlush(c)
    PROVE  PrefixInv'
<1>1. /\ stage = "commit" /\ stage' = "pick" /\ job.kind = "flush" /\ job' = NoJob
      /\ tables' = tables \cup {job.id}
      /\ UNCHANGED <<memtable, pendingFlushes, files, log, lost>>
  BY DEF CommitFlush, diskVars, historyVars
<1>2. FlushInProgress /\ ~FlushInProgress' /\ files[job.id] = job.data
  BY <1>1 DEF FlushInProgress, DataInv, PointsInv, FileInv, Active
<1>3. /\ InTables' = InTables \cup InFlush /\ InFlush' = {}
      /\ VersionsOf(memtable.data)' = VersionsOf(memtable.data)
      /\ \A n : Queued(n)' = Queued(n)
  BY <1>1, <1>2 DEF InTables, InFlush, VersionsOf, Queued
<1>4. CallOrder(VersionsOf(memtable.data))'
  BY <1>1, <1>3 DEF PrefixInv, CallOrder, Below
<1>5. GenuineInv(memtable.data, log)'
  BY <1>1, <1>2 DEF PrefixInv, GenuineInv, Genuine
<1> QED BY <1>1, <1>4, <1>5 DEF PrefixInv, NoJob

\* The merge has points of the tables only.
LEMMA CommitCompactionPrefix ==
    ASSUME EngineInv, DataInv, PrefixInv, NEW c \in Clients, CommitCompaction(c)
    PROVE  PrefixInv'
<1>1. /\ stage = "commit" /\ stage' = "unlink" /\ job.kind = "compaction" /\ job' = job
      /\ tables' = job.manifest.tables
      /\ UNCHANGED <<memtable, pendingFlushes, files, log, lost>>
  BY DEF CommitCompaction, diskVars, historyVars
<1>2. /\ ~FlushInProgress /\ ~FlushInProgress'
      /\ MergeOf(files[job.id], tables) /\ tables' = {job.id}
  BY <1>1 DEF FlushInProgress, DataInv, PointsInv, FileInv, EngineInv, JobInv, Active
<1>3. /\ InTables' \subseteq InTables /\ InFlush' = InFlush
      /\ VersionsOf(memtable.data)' = VersionsOf(memtable.data)
      /\ \A n : Queued(n)' = Queued(n)
  BY <1>1, <1>2 DEF InTables, InFlush, VersionsOf, Queued, MergeOf
<1>4. CallOrder(VersionsOf(memtable.data))'
  BY <1>1, <1>3 DEF PrefixInv, CallOrder, Below
<1>5. Genuine(files[job.id], log)
  BY <1>2 DEF PrefixInv, GenuineInv, Genuine, MergeOf
<1>6. GenuineInv(memtable.data, log)'
  BY <1>1, <1>2, <1>5 DEF PrefixInv, GenuineInv, Genuine
<1> QED BY <1>1, <1>4, <1>6 DEF PrefixInv

\* Calls whose flush raised are in no other run: a call is in one place only.
LEMMA TaskRaisesPrefix ==
    ASSUME EngineInv, DataInv, PrefixInv, NEW c \in Clients, TaskRaises(c)
    PROVE  PrefixInv' /\ lost' = lost \cup InFlush
<1>1. /\ stage \in {"write", "primary", "backup"} /\ stage' = "free" /\ job' = NoJob
      /\ lost' = lost \cup VersionsOf(job.data)
      /\ UNCHANGED <<memtable, tables, pendingFlushes, files, log>>
  BY DEF TaskRaises, ReleaseLock, diskVars, VersionsOf
<1>2. ~FlushInProgress' /\ (FlushInProgress \/ job.data = NoPoints)
  BY <1>1 DEF FlushInProgress, PrefixInv
<1>3. lost' = lost \cup InFlush
  BY <1>1, <1>2 DEF InFlush, VersionsOf, NoPoints
<1>4. /\ InTables' = InTables /\ InFlush' = {}
      /\ VersionsOf(memtable.data)' = VersionsOf(memtable.data)
      /\ \A n : Queued(n)' = Queued(n)
  BY <1>1, <1>2 DEF InTables, InFlush, VersionsOf, Queued
<1>5. CallOrder(VersionsOf(memtable.data))'
  BY <1>1, <1>4 DEF PrefixInv, CallOrder, Below
<1>6. ASSUME NEW a, Genuine(a, log), \A i \in VersionsOf(a) : i \notin InFlush
      PROVE  \A k \in Keys : \A i \in a[k] : i \in DOMAIN log /\ k \in log[i] /\ i \notin lost'
  BY <1>1, <1>3, <1>6 DEF Genuine, VersionsOf
<1>7. /\ \A i \in InTables : i \notin InFlush
      /\ \A n \in DOMAIN pendingFlushes : \A i \in Queued(n) : i \notin InFlush
      /\ \A i \in VersionsOf(memtable.data) : i \notin InFlush
  BY VersionFacts DEF PrefixInv, CallOrder, Below
<1>8. GenuineInv(memtable.data, log)'
  <2> DEFINE Stays(a) == \A k \in Keys : \A i \in a[k] :
                            i \in DOMAIN log /\ k \in log[i] /\ i \notin lost'
  <2>1. \A t \in tables : Stays(files[t])
    BY <1>6, <1>7 DEF PrefixInv, GenuineInv, InTables
  <2>2. \A n \in DOMAIN pendingFlushes : Stays(pendingFlushes[n].data)
    BY <1>6, <1>7 DEF PrefixInv, GenuineInv, Queued
  <2>3. Stays(memtable.data)
    BY <1>6, <1>7 DEF PrefixInv, GenuineInv
  <2> QED BY <1>1, <1>2, <2>1, <2>2, <2>3 DEF GenuineInv, Genuine
<1>9. \A i \in lost' : i \in DOMAIN log'
  <2>1. \A i \in InFlush : i \in 1..Len(log)
    BY VersionFacts
  <2> QED BY <1>1, <1>3, <2>1 DEF PrefixInv, EngineInv, EngineTypeOK
<1> QED BY <1>1, <1>3, <1>5, <1>8, <1>9 DEF PrefixInv, NoJob

\* Files come and go, but none that a table is read from changes.
LEMMA FilesStay ==
    ASSUME EngineInv, DataInv, NEW c \in Clients, WriteTable(c) \/ UnlinkNext(c)
    PROVE  \A t \in tables : files'[t] = files[t]
<1>1. CASE WriteTable(c)
  <2>1. \A t \in tables : t \in DOMAIN files /\ t < job.id /\ t \in Nat /\ job.id \in Nat
    BY <1>1 DEF WriteTable, EngineInv, EngineTypeOK, TablesExist, IdInv, Active, Jobs, Versions
  <2>2. \A t \in tables : t \in DOMAIN files /\ t # job.id
    BY <2>1
  <2> QED BY <1>1, <2>2 DEF WriteTable
<1>2. CASE UnlinkNext(c)
  <2>1. PICK t \in job.candidates :
          files' = files \/ files' = [u \in DOMAIN files \ {t} |-> files[u]]
    BY <1>2 DEF UnlinkNext
  <2>2. \A u \in tables : u # t /\ u \in DOMAIN files
    BY <1>2, <2>1 DEF UnlinkNext, EngineInv, JobInv, TablesExist
  <2> QED BY <2>1, <2>2
<1> QED BY <1>1, <1>2

LEMMA DrainPrefix ==
    ASSUME EngineInv, DataInv, PrefixInv, NEW c \in Clients, Drain(c)
    PROVE  PrefixInv'
<1>1. CASE PickCompaction(c) \/ DrainDone(c) \/ UnlinkDone(c)
  <2>1. /\ UNCHANGED <<memtable, pendingFlushes, tables, files, log, lost>>
        /\ stage \in {"pick", "unlink"}
    BY <1>1 DEF PickCompaction, DrainDone, UnlinkDone, diskVars, historyVars
  <2>2. job' = NoJob \/ job' = [NoJob EXCEPT !.kind = "compaction", !.id = nextTableId,
                                              !.candidates = tables]
    BY <1>1 DEF PickCompaction, StartCompaction, DrainDone, ReleaseLock, UnlinkDone
  <2>3. NoJob.kind # "flush" /\ NoJob.data = NoPoints
    BY DEF NoJob
  <2>4. job'.kind # "flush" /\ job'.data = NoPoints
    <3>1. CASE job' = NoJob
      BY <2>3, <3>1
    <3>2. CASE job' # NoJob
      BY <2>2, <3>2 DEF NoJob
    <3> QED BY <3>1, <3>2
  <2> QED BY <2>1, <2>4, SamePrefix DEF FlushInProgress
<1>2. CASE \/ WriteTable(c) \/ BuildManifest(c) \/ SavePrimary(c) \/ SaveBackup(c)
           \/ UnlinkNext(c)
  <2>1. /\ UNCHANGED <<memtable, pendingFlushes, tables, log, lost>>
        /\ \A t \in tables : files'[t] = files[t]
    BY <1>2, FilesStay DEF WriteTable, BuildManifest, SavePrimary, SaveBackup, UnlinkNext,
                           diskVars, historyVars
  <2>2. job'.kind = job.kind /\ job'.data = job.data
    BY <1>2 DEF WriteTable, BuildManifest, SavePrimary, SaveBackup, UnlinkNext, EngineInv, EngineTypeOK, Jobs
  <2>3. FlushInProgress' <=> FlushInProgress
    BY <1>2, <2>2 DEF WriteTable, BuildManifest, SavePrimary, SaveBackup, UnlinkNext,
                      FlushInProgress
  <2> QED BY <2>1, <2>2, <2>3, SamePrefix DEF PrefixInv
<1> QED BY <1>1, <1>2, PickFlushPrefix, CommitFlushPrefix, CommitCompactionPrefix DEF Drain

\* Steps that leave the places of the points alone.
LEMMA IdlePrefix ==
    ASSUME PrefixInv, UNCHANGED <<memtable, pendingFlushes, tables, files, job, log, lost>>,
           stage' = stage \/ (~Active /\ ~Active')
    PROVE  PrefixInv'
<1>1. FlushInProgress' <=> FlushInProgress
  BY DEF FlushInProgress, Active
<1> QED BY <1>1, SamePrefix DEF PrefixInv

LEMMA NextPrefix == EngineInv /\ DataInv /\ PrefixInv /\ [Next]_vars => PrefixInv'
<1> SUFFICES ASSUME EngineInv, DataInv, PrefixInv, [Next]_vars PROVE PrefixInv'
  OBVIOUS
<1>1. ASSUME NEW c \in Clients, Call(c) PROVE PrefixInv'
  <2>1. CASE Flush(c)
    BY <2>1, RotatePrefix DEF Flush, lockVars, diskVars, historyVars
  <2>2. CASE Compact(c) \/ Close(c)
    BY <2>2, IdlePrefix DEF Compact, Close, lockVars, diskVars, historyVars
  <2> QED BY <1>1, <2>1, <2>2, AppendRowsPrefix DEF Call
<1>2. ASSUME NEW c \in Clients, LockStep(c) PROVE PrefixInv'
  <2>1. CASE CloseAgain(c)
    BY <2>1, IdlePrefix DEF CloseAgain, lockVars, diskVars, historyVars
  <2>2. CASE Acquire(c) \/ CloseFirst(c)
    <3>1. /\ stage = "free" /\ stage' = "pick" /\ ~Active /\ ~Active'
          /\ UNCHANGED <<tables, files, job, log, lost>>
      BY <2>2 DEF Acquire, CloseFirst, TakeLock, diskVars, historyVars, EngineInv, EngineTypeOK, Active
    <3>2. EnqueueFlush(memtable) \/ UNCHANGED <<memtable, pendingFlushes>>
      BY <2>2 DEF Acquire, CloseFirst, NothingEnqueued
    <3> QED BY <3>1, <3>2, IdlePrefix, RotatePrefix
  <2> QED BY <1>2, <2>1, <2>2 DEF LockStep
<1>3. ASSUME NEW r \in Readers, QueryBegin(r) \/ Read(r) PROVE PrefixInv'
  BY <1>3, IdlePrefix DEF QueryBegin, Read, ReadTable, FileMissing, CheckActive, QueryEnd,
                          lockVars, diskVars, historyVars
<1>4. CASE UNCHANGED vars
  BY <1>4, IdlePrefix DEF vars, lockVars, diskVars, historyVars
<1> QED BY <1>1, <1>2, <1>3, <1>4, DrainPrefix, TaskRaisesPrefix DEF Next

LEMMA InitPrefix == Init => PrefixInv
<1> SUFFICES ASSUME Init PROVE PrefixInv
  OBVIOUS
<1>1. /\ InTables = {} /\ InFlush = {} /\ DOMAIN pendingFlushes = {}
      /\ VersionsOf(memtable.data) = {}
  BY DEF Init, InTables, InFlush, FlushInProgress, VersionsOf, EmptyMemtable, NoPoints
<1>2. CallOrder(VersionsOf(memtable.data))
  BY <1>1 DEF CallOrder, Below
<1>3. GenuineInv(memtable.data, log)
  BY DEF Init, GenuineInv, Genuine, FlushInProgress, EmptyMemtable, NoPoints
<1> QED BY <1>2, <1>3 DEF Init, PrefixInv, NoJob

\* PrefixInv holds in every reachable state.
THEOREM PrefixInvariance == Spec => [](EngineInv /\ DataInv /\ PrefixInv)
BY DataInvariance, InitPrefix, NextPrefix, PTL DEF Spec

-----------------------------------------------------------------------------
(* The tables are a replay of the calls up to Persisted.                   *)

\* Persisted is the last call before those that no table has yet.
LEMMA PersistedFacts ==
    ASSUME EngineInv, DataInv
    PROVE  /\ Persisted \in Nat /\ Persisted <= Len(log) /\ Len(log) \in Nat
           /\ \A i \in Outstanding : i \in Nat /\ Persisted < i /\ i <= Len(log)
           /\ Outstanding = {} => Persisted = Len(log)
           /\ Outstanding # {} => Persisted + 1 \in Outstanding
<1>1. /\ Len(log) \in Nat
      /\ \A i \in Outstanding : i \in Nat /\ 0 < i /\ i <= Len(log)
  BY VersionFacts DEF Outstanding
<1>2. CASE Outstanding = {}
  BY <1>1, <1>2 DEF Persisted
<1>3. CASE Outstanding # {}
  <2>1. \E n \in Outstanding : \A m \in Outstanding : n <= m
    BY <1>1, <1>3, MinExists
  <2>2. PICK first \in Outstanding :
          /\ \A m \in Outstanding : first <= m
          /\ Persisted = first - 1
    BY <1>3, <2>1 DEF Persisted
  <2> QED BY <1>1, <1>3, <2>2
<1> QED BY <1>2, <1>3

\* In a set of tables whose order is that of their points the merge picks the
\* newest point of all.
LEMMA MergeIsLatest ==
    ASSUME EngineInv, NEW ids \in SUBSET DOMAIN files, OrderedTables(ids), NEW k \in Keys
    PROVE  MergeRuns(ids)[k] = Latest(UNION {files[t][k] : t \in ids})
<1>1. \A t \in ids : t \in Nat /\ files[t][k] \subseteq Nat
  BY DEF EngineInv, EngineTypeOK, Runs, Versions
<1>2. ASSUME NEW i \in MergeRuns(ids)[k]
      PROVE  i \in Latest(UNION {files[t][k] : t \in ids})
  <2>1. PICK t \in ids :
          /\ i \in files[t][k]
          /\ \A u \in ids : \A j \in files[u][k] : u < t \/ (u = t /\ j <= i)
    BY DEF MergeRuns
  <2>2. ASSUME NEW u \in ids, NEW j \in files[u][k] PROVE j <= i
    BY <1>1, <2>1 DEF OrderedTables, Before
  <2> QED BY <2>1, <2>2 DEF Latest
<1>3. ASSUME NEW i \in Latest(UNION {files[t][k] : t \in ids})
      PROVE  i \in MergeRuns(ids)[k]
  <2>1. PICK t \in ids : i \in files[t][k]
    BY DEF Latest
  <2>2. ASSUME NEW u \in ids, NEW j \in files[u][k] PROVE u < t \/ (u = t /\ j <= i)
    <3>1. j <= i
      BY DEF Latest
    <3>2. ~(t < u)
      BY <1>1, <2>1, <3>1 DEF OrderedTables, Before
    <3> QED BY <1>1, <3>1, <3>2
  <2> QED BY <2>1, <2>2 DEF MergeRuns
<1> QED BY <1>2, <1>3

\* Tables that hold nothing but calls up to n, and each of those or a newer one,
\* are a replay of the first n calls.
LEMMA MergeIsReplay ==
    ASSUME EngineInv, NEW ids \in SUBSET DOMAIN files, OrderedTables(ids),
           NEW n \in Nat, n <= Len(log),
           \A t \in ids : Genuine(files[t], log),
           \A t \in ids : \A i \in VersionsOf(files[t]) : i <= n,
           \A i \in 1..n : \A k \in log[i] : i \in lost \/ \E t \in ids : Has(files[t], k, i)
    PROVE  MergeRuns(ids) = Store!Replay(log, lost, n)
<1> SUFFICES ASSUME NEW k \in Keys
             PROVE  MergeRuns(ids)[k] = Store!Replay(log, lost, n)[k]
  BY DEF MergeRuns, Store!Replay
<1> DEFINE held == UNION {files[t][k] : t \in ids}
           replayed == {i \in 1..n : k \in log[i] /\ i \notin lost}
<1>1. MergeRuns(ids)[k] = Latest(held)
  BY MergeIsLatest
<1>2. Len(log) \in Nat /\ DOMAIN log = 1..Len(log)
  BY DEF EngineInv, EngineTypeOK
<1>3. Store!Replay(log, lost, n)[k] = Latest(replayed)
  BY DEF Store!Replay, Latest
<1>4. ASSUME NEW i \in held PROVE i \in replayed
  <2>1. PICK t \in ids : i \in files[t][k]
    OBVIOUS
  <2>2. i \in DOMAIN log /\ k \in log[i] /\ i \notin lost
    BY <2>1 DEF Genuine
  <2>3. i \in VersionsOf(files[t])
    BY <2>1 DEF VersionsOf
  <2>4. i <= n
    BY <2>3
  <2> QED BY <1>2, <2>2, <2>4
<1>5. ASSUME NEW i \in replayed PROVE \E j \in held : i <= j
  <2>1. \E t \in ids : Has(files[t], k, i)
    OBVIOUS
  <2> QED BY <2>1 DEF Has
<1>6. Latest(held) = Latest(replayed)
  <2>1. replayed \subseteq Nat
    OBVIOUS
  <2> HIDE DEF held, replayed
  <2>2. ASSUME NEW i \in Latest(replayed) PROVE i \in held
    <3>1. i \in replayed /\ \A j \in replayed : j <= i
      BY DEF Latest
    <3>2. PICK j \in held : i <= j
      BY <1>5, <3>1
    <3>3. j \in replayed /\ j <= i
      BY <1>4, <3>1, <3>2
    <3>4. i \in Nat /\ j \in Nat
      BY <2>1, <3>1, <3>3
    <3>5. i = j
      BY <3>2, <3>3, <3>4
    <3> QED BY <3>2, <3>5
  <2>3. ASSUME NEW i \in Latest(held), NEW j \in replayed PROVE j <= i
    <3>1. PICK h \in held : j <= h
      BY <1>5
    <3>2. h <= i /\ i \in replayed /\ h \in replayed
      BY <1>4 DEF Latest
    <3> QED BY <2>1, <3>1, <3>2
  <2> QED BY <1>4, <2>2, <2>3 DEF Latest
<1> QED BY <1>1, <1>3, <1>6

\* A call before the outstanding ones is in the tables or overwritten there, and
\* the tables have no others.
LEMMA TablesReplay ==
    ASSUME EngineInv, DataInv, PrefixInv
    PROVE  MergeRuns(tables) = Store!Replay(log, lost, Persisted)
<1>1. /\ Persisted \in Nat /\ Persisted <= Len(log) /\ Len(log) \in Nat
      /\ DOMAIN log = 1..Len(log)
  BY PersistedFacts DEF EngineInv, EngineTypeOK
<1>2. tables \in SUBSET DOMAIN files /\ OrderedTables(tables)
  BY DEF EngineInv, TablesExist, DataInv, PointsInv, OrderInv
<1>3. \A t \in tables : Genuine(files[t], log)
  BY DEF PrefixInv, GenuineInv
<1>4. ASSUME NEW t \in tables, NEW i \in VersionsOf(files[t]) PROVE i <= Persisted
  <2>1. i \in InTables
    BY DEF InTables
  <2>2. /\ i \in Nat /\ i <= Len(log)
        /\ \A j \in Outstanding : i < j
    BY <2>1, VersionFacts DEF PrefixInv, CallOrder, Below, Outstanding
  <2>3. CASE Outstanding = {}
    BY <1>1, <2>2, <2>3, PersistedFacts
  <2>4. CASE Outstanding # {}
    <3>1. i < Persisted + 1
      BY <2>2, <2>4, PersistedFacts
    <3> QED BY <1>1, <2>2, <3>1
  <2> QED BY <2>3, <2>4
<1>5. ASSUME NEW i \in 1..Persisted, NEW k \in log[i], i \notin lost
      PROVE  \E t \in tables : Has(files[t], k, i)
  <2>1. i \in DOMAIN log /\ k \in Keys /\ i \in Nat /\ i <= Persisted
    BY <1>1 DEF EngineInv, EngineTypeOK
  <2>2. i \notin Outstanding
    <3>1. ASSUME i \in Outstanding PROVE Persisted < i
      BY <3>1, PersistedFacts
    <3> QED BY <1>1, <2>1, <3>1
  <2>3. Kept(memtable.data, k, i)
    BY <1>5, <2>1 DEF DataInv, PointsInv, KeptInv
  <2> QED BY <2>1, <2>2, <2>3 DEF Kept, Outstanding, VersionsOf, InFlush, Queued
<1> QED BY <1>1, <1>2, <1>3, <1>4, <1>5, MergeIsReplay

-----------------------------------------------------------------------------
(* Every step is a step of PrefixStore.                                    *)

LEMMA OutstandingShrinks ==
    ASSUME UNCHANGED <<memtable, pendingFlushes>>,
           FlushInProgress' => FlushInProgress /\ job'.data = job.data
    PROVE  Outstanding' \subseteq Outstanding
<1>1. InFlush' \subseteq InFlush /\ \A n : Queued(n)' = Queued(n)
  BY DEF InFlush, Queued, VersionsOf
<1> QED BY <1>1 DEF Outstanding, VersionsOf

LEMMA EnqueueOutstanding ==
    ASSUME EngineTypeOK, NEW mt \in [rows : Nat, points : Nat, data : Runs], EnqueueFlush(mt),
           InFlush' = InFlush
    PROVE  Outstanding' \subseteq Outstanding \cup VersionsOf(mt.data)
<1>1. /\ pendingFlushes \in Seq([id : Versions, data : Runs])
      /\ [id |-> nextTableId, data |-> mt.data] \in [id : Versions, data : Runs]
  BY DEF EngineTypeOK
<1>2. \A n \in DOMAIN pendingFlushes' :
        \/ n \in DOMAIN pendingFlushes /\ pendingFlushes'[n] = pendingFlushes[n]
        \/ pendingFlushes'[n].data = mt.data
  BY <1>1 DEF EnqueueFlush
<1>3. \A n \in DOMAIN pendingFlushes' :
        \/ n \in DOMAIN pendingFlushes /\ Queued(n)' = Queued(n)
        \/ Queued(n)' = VersionsOf(mt.data)
  BY <1>2 DEF Queued, VersionsOf
<1>4. VersionsOf(memtable.data)' = {}
  BY DEF EnqueueFlush, EmptyMemtable, VersionsOf, NoPoints
<1> QED BY <1>3, <1>4 DEF Outstanding

\* What a step may do to the history and to the calls that are yet to be stored.
HistoryStep ==
    /\ \A i \in Outstanding' : i \in Outstanding \/ i = Len(log) + 1
    /\ \/ lost' = lost /\ \E b \in Batches : log' = Append(log, b.keys)
       \/ log' = log /\ lost' \in {lost, lost \cup InFlush}

LEMMA AppendRowsHistory ==
    ASSUME EngineInv, NEW c \in Clients, NEW b \in Batches, AppendRows(c, b)
    PROVE  HistoryStep
<1>1. /\ log' = Append(log, b.keys) /\ UNCHANGED <<stage, job, lost>>
  BY DEF AppendRows, lockVars
<1>2. InFlush' = InFlush
  BY <1>1 DEF InFlush, FlushInProgress, VersionsOf
<1>3. VersionsOf(Appended(b).data) \subseteq VersionsOf(memtable.data) \cup {Len(log) + 1}
  BY DEF Appended, VersionsOf
<1>4. CASE EnqueueFlush(Appended(b))
  <2>1. Appended(b) \in [rows : Nat, points : Nat, data : Runs]
    BY AppendedType DEF EngineInv
  <2>2. Outstanding' \subseteq Outstanding \cup VersionsOf(Appended(b).data)
    BY <1>2, <1>4, <2>1, EnqueueOutstanding DEF EngineInv
  <2> QED BY <1>1, <1>3, <2>2 DEF HistoryStep, Outstanding
<1>5. CASE memtable' = Appended(b) /\ pendingFlushes' = pendingFlushes
  <2>1. VersionsOf(memtable.data)' = VersionsOf(Appended(b).data) /\ \A n : Queued(n)' = Queued(n)
    BY <1>5 DEF VersionsOf, Queued
  <2>2. Outstanding' \subseteq Outstanding \cup VersionsOf(Appended(b).data)
    BY <1>2, <1>5, <2>1 DEF Outstanding
  <2> QED BY <1>1, <1>3, <2>2 DEF HistoryStep, Outstanding
<1> QED BY <1>4, <1>5 DEF AppendRows

LEMMA RotateHistory ==
    ASSUME EngineInv, EnqueueFlush(memtable), UNCHANGED <<job, log, lost>>,
           stage' = stage \/ (~Active /\ ~Active')
    PROVE  HistoryStep
<1>1. InFlush' = InFlush
  BY DEF InFlush, FlushInProgress, Active, VersionsOf
<1>2. memtable \in [rows : Nat, points : Nat, data : Runs]
  BY DEF EngineInv, EngineTypeOK
<1>3. Outstanding' \subseteq Outstanding \cup VersionsOf(memtable.data)
  BY <1>1, <1>2, EnqueueOutstanding DEF EngineInv
<1> QED BY <1>3 DEF HistoryStep, Outstanding

LEMMA PickFlushHistory ==
    ASSUME EngineInv, NEW c \in Clients, PickFlush(c)
    PROVE  HistoryStep
<1>1. /\ stage = "pick" /\ pendingFlushes # <<>> /\ pendingFlushes' = Tail(pendingFlushes)
      /\ UNCHANGED <<memtable, log, lost>>
  BY DEF PickFlush, historyVars
<1>2. /\ 1 \in DOMAIN pendingFlushes /\ Head(pendingFlushes) = pendingFlushes[1]
      /\ \A n \in DOMAIN pendingFlushes' :
            n + 1 \in DOMAIN pendingFlushes /\ pendingFlushes'[n] = pendingFlushes[n + 1]
  BY <1>1, TailFacts DEF EngineInv
<1>3. InFlush' \in {{}, Queued(1)}
  <2>1. CASE stage' = stage
    BY <1>1, <2>1 DEF InFlush, FlushInProgress
  <2>2. CASE StartFlush(Head(pendingFlushes))
    <3>1. job'.data = pendingFlushes[1].data
      BY <1>2, <2>2 DEF StartFlush, NoJob
    <3> QED BY <3>1 DEF InFlush, Queued, VersionsOf
  <2> QED BY <2>1, <2>2 DEF PickFlush
<1>4. /\ VersionsOf(memtable.data)' = VersionsOf(memtable.data)
      /\ \A n \in DOMAIN pendingFlushes' :
            n + 1 \in DOMAIN pendingFlushes /\ Queued(n)' = Queued(n + 1)
  BY <1>1, <1>2 DEF VersionsOf, Queued
<1>5. Outstanding' \subseteq Outstanding
  BY <1>2, <1>3, <1>4 DEF Outstanding
<1> QED BY <1>1, <1>5 DEF HistoryStep

LEMMA NextHistory == EngineInv /\ DataInv /\ PrefixInv /\ [Next]_vars => HistoryStep
<1> SUFFICES ASSUME EngineInv, DataInv, PrefixInv, [Next]_vars PROVE HistoryStep
  OBVIOUS
<1>1. ASSUME UNCHANGED <<memtable, pendingFlushes, log, lost>>,
             FlushInProgress' => FlushInProgress /\ job'.data = job.data
      PROVE  HistoryStep
  BY <1>1, OutstandingShrinks DEF HistoryStep
<1>2. ASSUME NEW c \in Clients, Call(c) PROVE HistoryStep
  <2>1. CASE Flush(c)
    BY <2>1, RotateHistory DEF Flush, lockVars, historyVars
  <2>2. CASE Compact(c) \/ Close(c)
    BY <1>1, <2>2 DEF Compact, Close, lockVars, historyVars, FlushInProgress
  <2> QED BY <1>2, <2>1, <2>2, AppendRowsHistory DEF Call
<1>3. ASSUME NEW c \in Clients, LockStep(c) PROVE HistoryStep
  <2>1. CASE CloseAgain(c)
    BY <1>1, <2>1 DEF CloseAgain, lockVars, historyVars, FlushInProgress
  <2>2. CASE Acquire(c) \/ CloseFirst(c)
    <3>1. stage = "free" /\ stage' = "pick" /\ UNCHANGED <<job, log, lost>>
      BY <2>2 DEF Acquire, CloseFirst, TakeLock, historyVars, EngineInv, EngineTypeOK
    <3>2. EnqueueFlush(memtable) \/ UNCHANGED <<memtable, pendingFlushes>>
      BY <2>2 DEF Acquire, CloseFirst, NothingEnqueued
    <3> QED BY <1>1, <3>1, <3>2, RotateHistory DEF FlushInProgress, Active
  <2> QED BY <1>3, <2>1, <2>2 DEF LockStep
<1>4. ASSUME NEW c \in Clients, Drain(c) PROVE HistoryStep
  <2>1. CASE PickCompaction(c)
    BY <1>1, <2>1 DEF PickCompaction, StartCompaction, NoJob, historyVars, FlushInProgress
  <2>2. CASE DrainDone(c) \/ CommitFlush(c) \/ CommitCompaction(c) \/ UnlinkDone(c)
             \/ UnlinkNext(c)
    <3>1. ~FlushInProgress'
      BY <2>2 DEF DrainDone, CommitFlush, CommitCompaction, UnlinkNext, UnlinkDone, ReleaseLock,
                  FlushInProgress
    <3> QED BY <1>1, <2>2, <3>1
        DEF DrainDone, CommitFlush, CommitCompaction, UnlinkNext, UnlinkDone, historyVars
  <2>3. CASE WriteTable(c) \/ BuildManifest(c) \/ SavePrimary(c) \/ SaveBackup(c)
    <3>1. /\ job'.kind = job.kind /\ job'.data = job.data
          /\ stage \in {"write", "build", "primary", "backup"}
          /\ UNCHANGED <<memtable, pendingFlushes, log, lost>>
      BY <2>3 DEF WriteTable, BuildManifest, SavePrimary, SaveBackup, historyVars, EngineInv, EngineTypeOK,
                  Jobs
    <3> QED BY <1>1, <3>1 DEF FlushInProgress
  <2> QED BY <1>4, <2>1, <2>2, <2>3, PickFlushHistory DEF Drain
<1>5. ASSUME NEW c \in Clients, TaskRaises(c) PROVE HistoryStep
  <2>1. lost' = lost \cup InFlush
    BY <1>5, TaskRaisesPrefix
  <2>2. Outstanding' \subseteq Outstanding /\ log' = log
    BY <1>5, OutstandingShrinks DEF TaskRaises, ReleaseLock, FlushInProgress
  <2> QED BY <2>1, <2>2 DEF HistoryStep
<1>6. ASSUME NEW r \in Readers, QueryBegin(r) \/ Read(r) PROVE HistoryStep
  BY <1>1, <1>6 DEF QueryBegin, Read, ReadTable, FileMissing, CheckActive, QueryEnd,
                    lockVars, historyVars, FlushInProgress
<1>7. CASE UNCHANGED vars
  BY <1>1, <1>7 DEF vars, lockVars, historyVars, FlushInProgress
<1> QED BY <1>2, <1>3, <1>4, <1>5, <1>6, <1>7 DEF Next

\* The tables and the prefix they account for.
ReplayInv ==
    /\ Persisted \in Nat /\ Persisted <= Len(log) /\ Len(log) \in Nat
    /\ \A i \in Outstanding : i \in Nat /\ Persisted < i /\ i <= Len(log)
    /\ Outstanding = {} => Persisted = Len(log)
    /\ Outstanding # {} => Persisted + 1 \in Outstanding
    /\ MergeRuns(tables) = Store!Replay(log, lost, Persisted)

LEMMA ReplayHolds == EngineInv /\ DataInv /\ PrefixInv => ReplayInv
BY PersistedFacts, TablesReplay DEF ReplayInv

\* When a step adds at most the next call to those still to be stored, the prefix
\* before them does not shrink.
LEMMA PrefixGrows ==
    ASSUME NEW now \in Nat, NEW later \in Nat, now <= later,
           NEW p \in Nat, p <= now, NEW q \in Nat, q <= later,
           NEW rest, \A i \in rest : p < i,
           NEW left, left = {} => q = later, left # {} => q + 1 \in left,
           \A i \in left : i \in rest \/ i = now + 1
    PROVE  q \in p..later
<1>1. CASE left = {}
  BY <1>1
<1>2. CASE left # {}
  <2>1. q + 1 \in rest \/ q + 1 = now + 1
    BY <1>2
  <2>2. p < q + 1
    BY <2>1
  <2> QED BY <2>2
<1> QED BY <1>1, <1>2

\* The prefix only grows, and what a failed flush drops was not yet part of it.
LEMMA StoreStep ==
    ASSUME EngineInv, ReplayInv, ReplayInv', HistoryStep
    PROVE  Store!Next
<1>1. log \in Seq(SUBSET Keys) /\ Len(log) \in Nat
  BY DEF EngineInv, EngineTypeOK
<1>2. \/ Store!Accept /\ UNCHANGED lost /\ Len(log') = Len(log) + 1
      \/ Store!Drop /\ UNCHANGED log
  <2>1. CASE lost' = lost /\ \E b \in Batches : log' = Append(log, b.keys)
    BY <1>1, <2>1, BatchesAssumption DEF Store!Accept
  <2>2. CASE log' = log /\ lost' \in {lost, lost \cup InFlush}
    <3>1. InFlush \subseteq (Persisted + 1)..Len(log)
      BY <1>1 DEF ReplayInv, Outstanding
    <3>2. \E S \in SUBSET ((Persisted + 1)..Len(log)) : lost' = lost \cup S
      <4>1. CASE lost' = lost
        <5>1. lost' = lost \cup {} /\ {} \in SUBSET ((Persisted + 1)..Len(log))
          BY <4>1
        <5> QED BY <5>1
      <4>2. CASE lost' = lost \cup InFlush
        BY <3>1, <4>2
      <4> QED BY <2>2, <4>1, <4>2
    <3> QED BY <2>2, <3>2 DEF Store!Drop
  <2> QED BY <2>1, <2>2 DEF HistoryStep
<1>3. Persisted' \in Persisted..Len(log')
  <2>1. /\ Persisted \in Nat /\ Persisted' \in Nat /\ Persisted <= Len(log)
        /\ Persisted' <= Len(log') /\ Len(log') \in Nat
        /\ \A i \in Outstanding : Persisted < i
        /\ Outstanding' = {} => Persisted' = Len(log')
        /\ Outstanding' # {} => Persisted' + 1 \in Outstanding'
    BY DEF ReplayInv
  <2>2. Len(log) <= Len(log') /\ \A i \in Outstanding' : i \in Outstanding \/ i = Len(log) + 1
    BY <1>1, <1>2 DEF HistoryStep
  <2> QED BY <1>1, <2>1, <2>2, PrefixGrows
<1>4. MergeRuns(tables)' = Store!Replay(log, lost, Persisted)'
  BY DEF ReplayInv
<1> QED BY <1>2, <1>3, <1>4 DEF Store!Next

\* Whatever the threads do, the tables hold a replay of a prefix of the accepted
\* calls, without those whose flush raised, and every step only extends it.
THEOREM TablesArePrefix == Spec => ImplementsPrefixStore
<1>1. Init /\ ReplayInv => Store!Init
  <2> SUFFICES ASSUME Init, ReplayInv PROVE Store!Init
    OBVIOUS
  <2>1. log = <<>> /\ lost = {} /\ Len(log) = 0
    BY DEF Init
  <2>2. Persisted = 0
    BY <2>1 DEF ReplayInv
  <2> QED BY <2>1, <2>2 DEF Store!Init, ReplayInv
<1>2. EngineInv /\ DataInv /\ PrefixInv /\ ReplayInv /\ ReplayInv' /\ [Next]_vars
        => [Store!Next]_(Store!vars)
  BY NextHistory, StoreStep
<1>3. Spec => [](EngineInv /\ DataInv /\ PrefixInv /\ ReplayInv)
  BY PrefixInvariance, ReplayHolds, PTL
<1> QED BY <1>1, <1>2, <1>3, PTL DEF Spec, ImplementsPrefixStore, Store!Spec

-----------------------------------------------------------------------------
(* What close leaves behind.                                               *)

\* A batch that brings no point leaves the points alone.
LEMMA AppendedPoints ==
    ASSUME EngineTypeOK, CloseInv, NEW b \in Batches
    PROVE  Appended(b).points = 0 => Appended(b).data = NoPoints
<1> SUFFICES ASSUME Appended(b).points = 0 PROVE Appended(b).data = NoPoints
  OBVIOUS
<1>1. memtable.points \in Nat /\ memtable.data \in Runs /\ IsFiniteSet(b.keys)
  BY BatchesAssumption DEF EngineTypeOK
<1>2. memtable.points + Cardinality(b.keys) = 0
  BY DEF Appended
<1>3. Cardinality(b.keys) \in Nat
  BY <1>1, FS_CardinalityType
<1>4. memtable.points = 0 /\ Cardinality(b.keys) = 0
  BY <1>1, <1>2, <1>3
<1>5. b.keys = {}
  BY <1>1, <1>4, FS_EmptySet
<1>6. Appended(b).data = [k \in Keys |-> memtable.data[k]]
  BY <1>5 DEF Appended
<1> QED BY <1>1, <1>4, <1>6 DEF CloseInv, Runs

\* Without an I/O error no task raises.
LEMMA NothingMustRaise == ASSUME EngineInv PROVE ~MustRaise
<1>1. stage = "write" => job.candidates \subseteq DOMAIN files
  BY DEF EngineInv, JobInv, TablesExist, Active
<1>2. ASSUME stage = "primary" PROVE ValidManifest(job.manifest, job.id)
  <2>1. /\ job.manifest.tables = (tables \ job.candidates) \cup {job.id}
        /\ job.id < job.manifest.next
    BY <1>2 DEF EngineInv, JobInv
  <2>2. \A t \in tables : t < job.id
    BY <1>2 DEF EngineInv, IdInv, Active
  <2> QED BY <2>1, <2>2 DEF ValidManifest
<1> QED BY <1>1, <1>2 DEF MustRaise

\* Only an I/O error loses points.
LEMMA LossIsFault ==
    ASSUME EngineInv, [Next]_vars
    PROVE  \/ UNCHANGED <<lost, faults>>
           \/ faults < MaxFaults /\ faults' = faults + 1
<1>1. ASSUME NEW c \in Clients, TaskRaises(c)
      PROVE  faults < MaxFaults /\ faults' = faults + 1
  BY <1>1, NothingMustRaise DEF TaskRaises
<1>2. ASSUME NEW c \in Clients, Call(c) \/ LockStep(c) PROVE UNCHANGED <<lost, faults>>
  BY <1>2 DEF Call, LockStep, AppendRows, Flush, Compact, Close, Acquire, CloseFirst,
              CloseAgain, historyVars
<1>3. ASSUME NEW c \in Clients, Drain(c) PROVE UNCHANGED <<lost, faults>>
  BY <1>3 DEF Drain, PickFlush, PickCompaction, DrainDone, WriteTable, BuildManifest,
              SavePrimary, SaveBackup, CommitFlush, CommitCompaction, UnlinkNext, UnlinkDone,
              historyVars
<1>4. ASSUME NEW r \in Readers, QueryBegin(r) \/ Read(r) PROVE UNCHANGED <<lost, faults>>
  BY <1>4 DEF QueryBegin, Read, ReadTable, FileMissing, CheckActive, QueryEnd, historyVars
<1>5. CASE UNCHANGED vars
  BY <1>5 DEF vars, historyVars
<1> QED BY <1>1, <1>2, <1>3, <1>4, <1>5 DEF Next

\* Calls are lost with a failure only.
LossInv == faults = 0 => lost = {}

LEMMA NextLoss == EngineInv /\ LossInv /\ [Next]_vars => LossInv'
<1> SUFFICES ASSUME EngineInv, LossInv, [Next]_vars PROVE LossInv'
  OBVIOUS
<1>1. faults \in Nat
  BY DEF EngineInv, EngineTypeOK
<1> QED BY <1>1, LossIsFault DEF LossInv

\* The parts of CloseInv that steps without a failure have to keep.
LEMMA CloseStays ==
    ASSUME CloseInv, faults' = faults,
           closed' => memtable'.points = 0,
           memtable'.points = 0 => memtable'.data = NoPoints,
           faults = 0 /\ closed' /\ holder' = NoClient => pendingFlushes' = <<>>,
           faults = 0 /\ stage' \notin {"backup", "commit"} => primary'.tables = tables'
    PROVE  CloseInv'
BY DEF CloseInv

LEMMA CallClose ==
    ASSUME EngineInv, CloseInv, NEW c \in Clients, Call(c)
    PROVE  CloseInv'
<1>1. UNCHANGED <<closed, tables, stage, holder, primary, faults>>
  BY DEF Call, AppendRows, Flush, Compact, Close, lockVars, diskVars, historyVars
<1>2. CASE UNCHANGED <<memtable, pendingFlushes>>
  BY <1>1, <1>2 DEF CloseInv
<1>3. CASE ~closed /\ EnqueueFlush(memtable)
  BY <1>1, <1>3, CloseStays DEF CloseInv, EnqueueFlush, EmptyMemtable
<1>4. ASSUME NEW b \in Batches, AppendRows(c, b) PROVE CloseInv'
  <2>1. ~closed /\ memtable' \in {EmptyMemtable, Appended(b)}
    BY <1>4 DEF AppendRows, EnqueueFlush
  <2>2. memtable'.points = 0 => memtable'.data = NoPoints
    <3>1. CASE memtable' = EmptyMemtable
      BY <3>1 DEF EmptyMemtable
    <3>2. CASE memtable' = Appended(b)
      BY <3>2, AppendedPoints DEF EngineInv
    <3> QED BY <2>1, <3>1, <3>2
  <2>3. faults = 0 /\ stage' \notin {"backup", "commit"} => primary'.tables = tables'
    BY <1>1 DEF CloseInv
  <2> QED BY <1>1, <2>1, <2>2, <2>3, CloseStays
<1> QED BY <1>2, <1>3, <1>4 DEF Call, Flush, Compact, Close

LEMMA LockStepClose ==
    ASSUME EngineInv, CloseInv, NEW c \in Clients, LockStep(c)
    PROVE  CloseInv'
<1>1. CASE CloseAgain(c)
  BY <1>1 DEF CloseAgain, CloseInv, lockVars, diskVars, historyVars
<1>2. CASE Acquire(c)
  BY <1>2, NoClientAssumption
  DEF Acquire, TakeLock, CloseInv, diskVars, historyVars, EngineInv, EngineTypeOK
<1>3. CASE CloseFirst(c)
  <2>1. /\ holder' # NoClient /\ stage = "free" /\ stage' = "pick"
        /\ UNCHANGED <<tables, primary, faults>>
    BY <1>3, NoClientAssumption
    DEF CloseFirst, TakeLock, diskVars, historyVars, EngineInv, EngineTypeOK
  <2>2. memtable'.points = 0 /\ (memtable'.points = 0 => memtable'.data = NoPoints)
    <3>1. CASE memtable.points > 0
      BY <1>3, <3>1 DEF CloseFirst, EnqueueFlush, EmptyMemtable
    <3>2. CASE ~(memtable.points > 0)
      <4>1. memtable' = memtable /\ memtable.points = 0
        BY <1>3, <3>2 DEF CloseFirst, NothingEnqueued, EngineInv, EngineTypeOK
      <4> QED BY <4>1 DEF CloseInv
    <3> QED BY <3>1, <3>2
  <2>3. faults = 0 /\ stage' \notin {"backup", "commit"} => primary'.tables = tables'
    BY <2>1 DEF CloseInv
  <2> QED BY <2>1, <2>2, <2>3, CloseStays
<1> QED BY <1>1, <1>2, <1>3 DEF LockStep

LEMMA DrainClose ==
    ASSUME EngineInv, PrimaryInv, CloseInv, NEW c \in Clients, Drain(c)
    PROVE  CloseInv'
<1>1. UNCHANGED <<memtable, closed, faults>>
  BY DEF Drain, PickFlush, PickCompaction, DrainDone, WriteTable, BuildManifest, SavePrimary,
         SaveBackup, CommitFlush, CommitCompaction, UnlinkNext, UnlinkDone, historyVars
<1>2. holder' = NoClient => pendingFlushes' = <<>>
  <2>1. CASE DrainDone(c)
    BY <2>1 DEF DrainDone
  <2>2. CASE ~DrainDone(c)
    <3>1. holder' = holder /\ holder = c
      BY <2>2 DEF Drain, PickFlush, PickCompaction, WriteTable, BuildManifest, SavePrimary,
         SaveBackup, CommitFlush, CommitCompaction, UnlinkNext, UnlinkDone
    <3> QED BY <3>1, NoClientAssumption
  <2> QED BY <2>1, <2>2
<1>3. faults = 0 /\ stage' \notin {"backup", "commit"} => primary'.tables = tables'
  <2>1. CASE CommitFlush(c) \/ CommitCompaction(c)
    <3>1. /\ stage = "commit" /\ primary' = primary /\ primary = job.manifest
          /\ job.manifest.tables = (tables \ job.candidates) \cup {job.id}
          /\ job.kind = "flush" => job.candidates = {}
      BY <2>1 DEF CommitFlush, CommitCompaction, diskVars, EngineInv, JobInv, Active, PrimaryInv,
                  SavedInv, AfterPrimary
    <3>2. tables' = job.manifest.tables
      BY <2>1, <3>1 DEF CommitFlush, CommitCompaction
    <3> QED BY <3>1, <3>2
  <2>2. CASE SavePrimary(c) \/ SaveBackup(c)
    BY <2>2 DEF SavePrimary, SaveBackup
  <2>3. CASE ~(CommitFlush(c) \/ CommitCompaction(c) \/ SavePrimary(c) \/ SaveBackup(c))
    <3>1. UNCHANGED <<tables, primary>> /\ stage \notin {"backup", "commit"}
      BY <2>3 DEF Drain, PickFlush, PickCompaction, DrainDone, WriteTable, BuildManifest,
                  UnlinkNext, UnlinkDone, diskVars
    <3> QED BY <3>1 DEF CloseInv
  <2> QED BY <2>1, <2>2, <2>3
<1> QED BY <1>1, <1>2, <1>3, CloseStays DEF CloseInv

LEMMA NextClose == EngineInv /\ PrimaryInv /\ CloseInv /\ [Next]_vars => CloseInv'
<1> SUFFICES ASSUME EngineInv, PrimaryInv, CloseInv, [Next]_vars PROVE CloseInv'
  OBVIOUS
<1>1. ASSUME NEW c \in Clients, TaskRaises(c) PROVE CloseInv'
  <2>1. faults' = faults + 1 /\ faults \in Nat
    BY <1>1, NothingMustRaise DEF TaskRaises, EngineInv, EngineTypeOK
  <2>2. UNCHANGED <<memtable, closed>> /\ faults' # 0
    BY <1>1, <2>1 DEF TaskRaises
  <2> QED BY <2>2 DEF CloseInv
<1>2. CASE UNCHANGED <<memtable, tables, pendingFlushes, closed, holder, stage, primary,
                       faults>>
  BY <1>2 DEF CloseInv
<1>3. ASSUME NEW r \in Readers, QueryBegin(r) \/ Read(r) PROVE CloseInv'
  BY <1>2, <1>3 DEF QueryBegin, Read, ReadTable, FileMissing, CheckActive, QueryEnd,
                    lockVars, diskVars, historyVars
<1>4. CASE UNCHANGED vars
  BY <1>2, <1>4 DEF vars, lockVars, diskVars, historyVars
<1> QED BY <1>1, <1>3, <1>4, CallClose, LockStepClose, DrainClose DEF Next

\* When close() has returned and no task failed, the primary manifest alone yields
\* the newest accepted version of every key: the memtable was rotated, the queue
\* drained, and so the prefix that the tables replay is the whole log.
THEOREM ClosedIsDurable == Spec => []CloseIsDurable
<1>1. Init => CloseInv /\ LossInv
  BY DEF Init, CloseInv, LossInv, EmptyMemtable, EmptyManifest
<1>2. EngineInv /\ CloseInv /\ LossInv /\ ReplayInv => CloseIsDurable
  <2> SUFFICES ASSUME EngineInv, CloseInv, LossInv, ReplayInv, closed, holder = NoClient, faults = 0
               PROVE  MergeRuns(primary.tables) = Accepted
    BY DEF CloseIsDurable
  <2>1. stage = "free" /\ pendingFlushes = <<>> /\ memtable.data = NoPoints /\ lost = {}
        /\ primary.tables = tables
    BY DEF CloseInv, LossInv, EngineInv, EngineTypeOK
  <2>2. Outstanding = {}
    BY <2>1 DEF Outstanding, InFlush, FlushInProgress, VersionsOf, NoPoints
  <2>3. MergeRuns(tables) = Store!Replay(log, {}, Len(log))
    BY <2>1, <2>2 DEF ReplayInv
  <2>4. DOMAIN log = 1..Len(log)
    BY DEF EngineInv, EngineTypeOK
  <2>5. Store!Replay(log, {}, Len(log)) = Accepted
    <3> SUFFICES ASSUME NEW k \in Keys
                 PROVE  Store!Replay(log, {}, Len(log))[k] = Accepted[k]
      BY DEF Store!Replay, Accepted
    <3> QED BY <2>1, <2>4 DEF Store!Replay, Accepted, Latest
  <2> QED BY <2>1, <2>3, <2>5
<1>3. Inv => EngineInv /\ PrimaryInv
  BY DEF Inv
<1> QED BY <1>1, <1>2, <1>3, NextClose, NextLoss, Invariance, PrefixInvariance, ReplayHolds, PTL DEF Spec

-----------------------------------------------------------------------------
(* A drain is the loop of MaintenanceLoop.                                 *)

LEMMA TablesFinite ==
    ASSUME EngineInv
    PROVE  /\ IsFiniteSet(tables) /\ Cardinality(tables) \in Nat
           /\ EnoughTables <=> Loop!EnoughTables
<1>1. nextTableId \in Nat /\ \A t \in tables : t \in 1..nextTableId
  BY DEF EngineInv, EngineTypeOK, IdInv, Versions
<1>2. IsFiniteSet(1..nextTableId)
  BY <1>1, FS_Interval
<1>3. IsFiniteSet(tables)
  <2>1. tables \subseteq 1..nextTableId
    BY <1>1
  <2> QED BY <1>2, <2>1, FS_Subset
<1>4. Cardinality(tables) \in Nat
  BY <1>3, FS_CardinalityType
<1>5. EnoughTables <=> Loop!EnoughTables
  BY <1>4, ThresholdsAssumption DEF EnoughTables, Loop!EnoughTables
<1> QED BY <1>3, <1>4, <1>5

Task == IF stage \in {"write", "build", "primary", "backup", "commit"} THEN job.kind ELSE "none"

LEMMA LoopStep == EngineInv /\ [Next]_vars => [Loop!Next]_(Loop!vars)
<1> SUFFICES ASSUME EngineInv, [Next]_vars PROVE Loop!Next \/ UNCHANGED Loop!vars
  OBVIOUS
<1>1. ASSUME UNCHANGED <<pendingFlushes, tables, holder>>, Task' = Task
      PROVE  UNCHANGED Loop!vars
  BY <1>1 DEF Loop!vars, Task
<1>2. pendingFlushes \in Seq([id : Versions, data : Runs]) /\ Len(pendingFlushes) \in Nat
  BY DEF EngineInv, EngineTypeOK
<1>3. \A mt : EnqueueFlush(mt) => Len(pendingFlushes') = Len(pendingFlushes) + 1
  BY <1>2 DEF EnqueueFlush
<1>4. ASSUME NEW c \in Clients, Call(c) PROVE Loop!Next \/ UNCHANGED Loop!vars
  <2>1. UNCHANGED <<tables, holder, stage, job>>
    BY <1>4 DEF Call, AppendRows, Flush, Compact, Close, lockVars
  <2>2. pendingFlushes' = pendingFlushes \/ Len(pendingFlushes') = Len(pendingFlushes) + 1
    BY <1>3, <1>4 DEF Call, AppendRows, Flush, Compact, Close
  <2>3. Len(pendingFlushes') = Len(pendingFlushes) + 1 => Loop!Enqueue
    BY <2>1 DEF Loop!Enqueue
  <2> QED BY <1>1, <2>1, <2>2, <2>3 DEF Loop!Next, Task
<1>5. ASSUME NEW c \in Clients, LockStep(c) PROVE Loop!Next \/ UNCHANGED Loop!vars
  <2>1. CASE CloseAgain(c)
    BY <1>1, <2>1 DEF CloseAgain, lockVars, Task
  <2>2. CASE Acquire(c) \/ CloseFirst(c)
    <3>1. /\ holder = NoClient /\ holder' # NoClient /\ stage = "free" /\ stage' = "pick"
          /\ tables' = tables
      BY <2>2, NoClientAssumption DEF Acquire, CloseFirst, TakeLock, EngineInv, EngineTypeOK
    <3>2. pendingFlushes' = pendingFlushes \/ Len(pendingFlushes') = Len(pendingFlushes) + 1
      BY <1>3, <2>2 DEF Acquire, CloseFirst, NothingEnqueued
    <3>3. pendingFlushes' = pendingFlushes => Loop!Start
      BY <3>1 DEF Loop!Start
    <3>4. Len(pendingFlushes') = Len(pendingFlushes) + 1 => Loop!CloseStart
      BY <3>1 DEF Loop!CloseStart
    <3> QED BY <3>2, <3>3, <3>4 DEF Loop!Next
  <2> QED BY <1>5, <2>1, <2>2 DEF LockStep
<1>6. ASSUME NEW c \in Clients, Drain(c) PROVE Loop!Next \/ UNCHANGED Loop!vars
  <2> USE NoClientAssumption
  <2>1. CASE PickFlush(c)
    <3>1. /\ stage = "pick" /\ holder = c /\ pendingFlushes # <<>> /\ UNCHANGED <<tables, holder>>
          /\ pendingFlushes' = Tail(pendingFlushes) /\ Task = "none"
      BY <2>1 DEF PickFlush, Task
    <3>2. Task' \in {"none", "flush"}
      BY <2>1 DEF PickFlush, StartFlush, NoJob, Task
    <3>3. Len(pendingFlushes) > 0 /\ Len(pendingFlushes') = Len(pendingFlushes) - 1
      BY <1>2, <3>1, EmptySeq, HeadTailProperties
    <3>4. Loop!PickFlush
      BY <3>1, <3>2, <3>3 DEF Loop!PickFlush, Task
    <3> QED BY <3>4 DEF Loop!Next, Loop!Work
  <2>2. CASE PickCompaction(c)
    <3>1. Loop!PickCompaction
      BY <2>2, TablesFinite DEF PickCompaction, StartCompaction, NoJob, Loop!PickCompaction
    <3> QED BY <3>1 DEF Loop!Next, Loop!Work
  <2>3. CASE DrainDone(c)
    <3>1. Loop!Return
      BY <2>3, TablesFinite DEF DrainDone, ReleaseLock, Loop!Return
    <3> QED BY <3>1 DEF Loop!Next, Loop!Work
  <2>4. CASE CommitFlush(c)
    <3>1. /\ stage = "commit" /\ stage' = "pick" /\ job.kind = "flush"
          /\ tables' = tables \cup {job.id} /\ UNCHANGED <<pendingFlushes, holder>>
      BY <2>4 DEF CommitFlush
    <3>2. job.id \notin tables
      <4>1. job.id \in Nat /\ \A t \in tables : t < job.id
        BY <3>1 DEF EngineInv, JobInv, IdInv, Active, Versions
      <4> QED BY <4>1
    <3>3. Cardinality(tables') = Cardinality(tables) + 1
      BY <3>1, <3>2, TablesFinite, FS_AddElement
    <3>4. Loop!FinishFlush
      BY <3>1, <3>3 DEF Loop!FinishFlush
    <3> QED BY <3>4 DEF Loop!Next, Loop!Work
  <2>5. CASE CommitCompaction(c)
    <3>1. /\ stage = "commit" /\ stage' = "unlink" /\ job.kind = "compaction"
          /\ tables' = {job.id} /\ UNCHANGED <<pendingFlushes, holder>>
      BY <2>5 DEF CommitCompaction, EngineInv, JobInv, Active
    <3>2. Cardinality(tables') = 1
      BY <3>1, FS_Singleton
    <3>3. Loop!FinishCompaction
      BY <3>1, <3>2 DEF Loop!FinishCompaction
    <3> QED BY <3>3 DEF Loop!Next, Loop!Work
  <2>6. CASE WriteTable(c) \/ BuildManifest(c) \/ SavePrimary(c) \/ SaveBackup(c)
             \/ UnlinkNext(c) \/ UnlinkDone(c)
    <3>1. UNCHANGED <<pendingFlushes, tables, holder>>
      BY <2>6 DEF WriteTable, BuildManifest, SavePrimary, SaveBackup, UnlinkNext, UnlinkDone
    <3>2. Task' = Task
      BY <2>6 DEF WriteTable, BuildManifest, SavePrimary, SaveBackup, UnlinkNext, UnlinkDone,
                  EngineInv, EngineTypeOK, Jobs, Task
    <3> QED BY <1>1, <3>1, <3>2
  <2> QED BY <1>6, <2>1, <2>2, <2>3, <2>4, <2>5, <2>6 DEF Drain
<1>7. ASSUME NEW c \in Clients, TaskRaises(c) PROVE Loop!Next \/ UNCHANGED Loop!vars
  <2>1. /\ stage \in {"write", "primary", "backup"} /\ stage' = "free" /\ holder' = NoClient
        /\ UNCHANGED <<pendingFlushes, tables>> /\ job.kind \in {"flush", "compaction"}
    BY <1>7 DEF TaskRaises, ReleaseLock, EngineInv, JobInv, Active
  <2>2. Loop!Raise
    BY <2>1 DEF Loop!Raise
  <2> QED BY <2>2 DEF Loop!Next
<1>8. ASSUME NEW r \in Readers, QueryBegin(r) \/ Read(r) PROVE UNCHANGED Loop!vars
  BY <1>1, <1>8 DEF QueryBegin, Read, ReadTable, FileMissing, CheckActive, QueryEnd,
                    lockVars, Task
<1>9. CASE UNCHANGED vars
  BY <1>1, <1>9 DEF vars, lockVars, Task
<1> QED BY <1>4, <1>5, <1>6, <1>7, <1>8, <1>9 DEF Next

\* A drain performs one task at a time, never compacts while a flush waits, leaves
\* one table after a compaction and returns only when nothing is left to do.
THEOREM DrainIsTheLoop == Spec => ImplementsMaintenanceLoop
<1>1. Init => Loop!Init
  BY FS_EmptySet DEF Init, Loop!Init
<1>2. Inv => EngineInv
  BY DEF Inv
<1> QED BY <1>1, <1>2, LoopStep, Invariance, PTL DEF Spec, ImplementsMaintenanceLoop, Loop!Spec
=============================================================================
