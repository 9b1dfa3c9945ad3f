--------------------------- MODULE StorageCoreProofs ---------------------------
(***************************************************************************)
(* What holds of StorageCore for every value of its constants.             *)
(*                                                                         *)
(* EngineInv says what the steps of one job rely on: who else may reserve  *)
(* an id, change _tables or delete a file while the owner of               *)
(* _maintenance_lock is between two of them.  It does not speak of the     *)
(* manifests, which no step reads: SavedInv does, for one of them at a     *)
(* time, since after a crash only the primary can be relied on.            *)
(***************************************************************************)
EXTENDS StorageCore, FiniteSetTheorems, SequenceTheorems, TLAPS

\* Between the pick of a task and its commit.
Active == stage \in {"write", "build", "primary", "backup", "commit"}

\* Ids grow in the order in which their tables become visible: tables, then the
\* job, then the queue, then the ids nobody has reserved.
IdInv ==
    /\ \A t \in tables : t < nextTableId
    /\ \A t \in tables, n \in DOMAIN pendingFlushes : t < pendingFlushes[n].id
    /\ \A n \in DOMAIN pendingFlushes : pendingFlushes[n].id < nextTableId
    /\ \A m, n \in DOMAIN pendingFlushes :
          m < n => pendingFlushes[m].id < pendingFlushes[n].id
    /\ Active =>
          /\ job.id < nextTableId
          /\ \A t \in tables : t < job.id
          /\ \A n \in DOMAIN pendingFlushes : job.id < pendingFlushes[n].id

\* What the owner of the lock knows at each stage of its job.
JobInv ==
    /\ stage \in {"free", "pick"} => job = NoJob
    /\ Active => \/ job.kind = "flush" /\ job.candidates = {}
                 \/ job.kind = "compaction" /\ job.candidates = tables
    /\ Active => job.id \in Versions
    /\ Active /\ stage # "write" => job.id \in DOMAIN files
    /\ stage \in {"primary", "backup", "commit"} =>
          /\ job.manifest.tables = (tables \ job.candidates) \cup {job.id}
          /\ job.id < job.manifest.next
    /\ stage = "unlink" =>
          /\ tables = {job.id}
          /\ job.id \in DOMAIN files
          /\ job.id \notin job.candidates
          /\ job.kind = "compaction"

\* A table that a query has yet to open never gets its id back.
QueryInv ==
    \A r \in Readers :
        /\ query[r].pc # "raised"
        /\ query[r].pc = "missing" =>
              \A t \in query[r].todo : NextRead(r, t) => t \notin DOMAIN files
        /\ \A t \in query[r].todo :
              /\ t < nextTableId
              /\ Active => t < job.id
              /\ \A n \in DOMAIN pendingFlushes : t < pendingFlushes[n].id

TablesExist == tables \subseteq DOMAIN files

EngineInv == EngineTypeOK /\ TablesExist /\ IdInv /\ JobInv /\ QueryInv

\* What is on disk as a manifest m that a job has written by the time it is at
\* one of the stages in saved.  Its ids are below those that are yet to be used,
\* although a task that raised may leave it with one that tables does not have.
SavedInv(m, saved) ==
    /\ m \in Manifests
    /\ m.tables \subseteq DOMAIN files
    /\ stage \in saved => m = job.manifest
    /\ stage = "unlink" => m.tables = {job.id}
    /\ \A t \in m.tables :
          /\ t < nextTableId
          /\ \A n \in DOMAIN pendingFlushes : t < pendingFlushes[n].id
          /\ Active /\ stage \notin saved => t < job.id

AfterPrimary == {"backup", "commit"}
AfterBackup == {"commit"}
PrimaryInv == SavedInv(primary, AfterPrimary)
BackupInv == SavedInv(backup, AfterBackup)

Inv == EngineInv /\ PrimaryInv /\ BackupInv

-----------------------------------------------------------------------------
(* Facts about runs.                                                       *)

LEMMA LatestType == ASSUME NEW S \in SUBSET Versions PROVE Latest(S) \in SUBSET Versions
BY DEF Latest

\* A merge yields points of its inputs only.
LEMMA MergeRunsType ==
    ASSUME EngineTypeOK, NEW ids, ids \subseteq DOMAIN files
    PROVE MergeRuns(ids) \in Runs
BY DEF MergeRuns, EngineTypeOK, Runs

LEMMA NoPointsType == NoPoints \in Runs
BY DEF NoPoints, Runs

LEMMA NoJobType == NoJob \in Jobs
BY NoPointsType DEF NoJob, Jobs, EmptyManifest, Manifests, Versions

LEMMA PendingType ==
    ASSUME EngineTypeOK
    PROVE  /\ DOMAIN pendingFlushes = 1..Len(pendingFlushes)
           /\ \A n \in DOMAIN pendingFlushes :
                 pendingFlushes[n] \in [id : Versions, data : Runs]
<1>1. pendingFlushes \in Seq([id : Versions, data : Runs])
  BY DEF EngineTypeOK
<1>2. DOMAIN pendingFlushes = 1..Len(pendingFlushes)
  BY <1>1
<1> QED BY <1>1, <1>2, ElementOfSeq

\* The constructor establishes EngineInv.
LEMMA InitEngine == Init => EngineInv
<1> SUFFICES ASSUME Init PROVE EngineInv OBVIOUS
<1>1. EngineTypeOK
  <2>1. memtable \in [rows : Nat, points : Nat, data : Runs]
    BY NoPointsType DEF Init, EmptyMemtable
  <2>2. query \in [Readers -> Queries]
    BY NoPointsType DEF Init, NoQuery, Queries
  <2>3. DOMAIN files \subseteq Versions /\ \A t \in DOMAIN files : files[t] \in Runs
    BY DEF Init
  <2>4. /\ holder \in Clients \cup {NoClient} /\ stage \in Stages
        /\ holder = NoClient <=> stage = "free"
    BY DEF Init, Stages
  <2>5. \A c \in Clients : pc[c] = "draining" <=> holder = c
    BY NoClientAssumption DEF Init
  <2>6. /\ pendingFlushes \in Seq([id : Versions, data : Runs])
        /\ log \in Seq(SUBSET Keys)
    BY DEF Init
  <2>7. /\ tables \subseteq Versions /\ nextTableId \in Versions
        /\ lost \subseteq Versions /\ faults \in Nat /\ unlinkFaults \in Nat
        /\ job \in Jobs
        /\ pc \in [Clients -> {"idle", "waiting", "closing", "draining"}]
    BY NoJobType DEF Init, Versions
  <2>8. closed \in BOOLEAN
    BY DEF Init
  <2> QED
    BY <2>1, <2>2, <2>3, <2>4, <2>5, <2>6, <2>7, <2>8 DEF EngineTypeOK
<1>2. TablesExist
  BY DEF Init, TablesExist
<1>3. IdInv
  BY DEF Init, IdInv, Active
<1>4. JobInv
  BY DEF Init, JobInv, Active
<1>5. QueryInv
  BY DEF Init, QueryInv, NoQuery
<1> QED BY <1>1, <1>2, <1>3, <1>4, <1>5 DEF EngineInv

-----------------------------------------------------------------------------
(* Calls of the clients.                                                   *)

LEMMA AppendedType ==
    ASSUME EngineTypeOK, NEW b \in Batches
    PROVE Appended(b) \in [rows : Nat, points : Nat, data : Runs]
<1>1. Cardinality(b.keys) \in Nat
  BY BatchesAssumption, FS_CardinalityType
<1>2. [k \in Keys |-> IF k \in b.keys THEN memtable.data[k] \cup {Len(log) + 1}
                                    ELSE memtable.data[k]] \in Runs
  <2>1. memtable.data \in Runs /\ Len(log) \in Nat
    BY DEF EngineTypeOK
  <2> QED BY <2>1 DEF Runs, Versions
<1> QED
  BY <1>1, <1>2, BatchesAssumption DEF EngineTypeOK, Appended

\* The queue grows at its end, by the id that comes next.
LEMMA EnqueueFlushInv ==
    ASSUME EngineTypeOK, IdInv, QueryInv,
           NEW mt \in [rows : Nat, points : Nat, data : Runs], EnqueueFlush(mt),
           UNCHANGED <<tables, job, files, query>>, Active' => Active
    PROVE  /\ memtable' \in [rows : Nat, points : Nat, data : Runs]
           /\ nextTableId' \in Versions
           /\ pendingFlushes' \in Seq([id : Versions, data : Runs])
           /\ IdInv'
           /\ QueryInv'
<1>1. memtable' \in [rows : Nat, points : Nat, data : Runs]
  BY NoPointsType DEF EnqueueFlush, EmptyMemtable
<1>2. nextTableId \in Versions /\ nextTableId' = nextTableId + 1 /\ nextTableId' \in Versions
  BY DEF EnqueueFlush, EngineTypeOK, Versions
<1>3. [id |-> nextTableId, data |-> mt.data] \in [id : Versions, data : Runs]
  BY <1>2
<1>4. pendingFlushes \in Seq([id : Versions, data : Runs])
  BY DEF EngineTypeOK
<1>5. /\ pendingFlushes' \in Seq([id : Versions, data : Runs])
      /\ DOMAIN pendingFlushes' = 1..(Len(pendingFlushes) + 1)
      /\ pendingFlushes'[Len(pendingFlushes) + 1].id = nextTableId
      /\ \A n \in DOMAIN pendingFlushes :
            n \in 1..Len(pendingFlushes) /\ pendingFlushes'[n] = pendingFlushes[n]
  BY <1>3, <1>4 DEF EnqueueFlush
<1>6. /\ tables \subseteq Nat /\ job.id \in Nat
      /\ \A n \in DOMAIN pendingFlushes : pendingFlushes[n].id \in Nat
  <2>1. tables \subseteq Nat /\ job.id \in Nat
    BY DEF EngineTypeOK, Jobs, Versions
  <2>2. \A n \in DOMAIN pendingFlushes : pendingFlushes[n].id \in Nat
    BY PendingType DEF Versions
  <2> QED BY <2>1, <2>2
<1>7. \A n \in DOMAIN pendingFlushes' :
          \/ n \in DOMAIN pendingFlushes /\ pendingFlushes'[n] = pendingFlushes[n]
          \/ n = Len(pendingFlushes) + 1 /\ pendingFlushes'[n].id = nextTableId
  BY <1>4, <1>5
<1>8. IdInv'
  <2>1. \A t \in tables' : t < nextTableId'
    <3>1. \A t \in tables : t \in Nat /\ t < nextTableId
      BY <1>6 DEF IdInv
    <3> QED BY <1>2, <3>1 DEF Versions
  <2>2. \A t \in tables', n \in DOMAIN pendingFlushes' : t < pendingFlushes'[n].id
    BY <1>7 DEF IdInv
  <2>3. \A n \in DOMAIN pendingFlushes' : pendingFlushes'[n].id < nextTableId'
    BY <1>2, <1>6, <1>7 DEF IdInv, Versions
  <2>4. \A m, n \in DOMAIN pendingFlushes' :
            m < n => pendingFlushes'[m].id < pendingFlushes'[n].id
    BY <1>4, <1>5, <1>7 DEF IdInv
  <2>5. Active' => /\ job'.id < nextTableId'
                   /\ \A t \in tables' : t < job'.id
                   /\ \A n \in DOMAIN pendingFlushes' : job'.id < pendingFlushes'[n].id
    BY <1>2, <1>6, <1>7 DEF IdInv, Versions
  <2> QED BY <2>1, <2>2, <2>3, <2>4, <2>5 DEF IdInv
<1>9. QueryInv'
  <2> SUFFICES ASSUME NEW r \in Readers
               PROVE  /\ query[r].pc # "raised"
                      /\ query[r].pc = "missing" =>
                            \A t \in query[r].todo : NextRead(r, t) => t \notin DOMAIN files
                      /\ \A t \in query[r].todo :
                            /\ t < nextTableId'
                            /\ Active' => t < job.id
                            /\ \A n \in DOMAIN pendingFlushes' : t < pendingFlushes'[n].id
    BY DEF QueryInv, NextRead
  <2>1. query[r].todo \subseteq Nat
    BY DEF EngineTypeOK, Queries, Versions
  <2> QED BY <1>2, <1>7, <2>1 DEF QueryInv, Versions
<1> QED BY <1>1, <1>2, <1>5, <1>8, <1>9

LEMMA AppendRowsInv ==
    ASSUME EngineInv, NEW c \in Clients, NEW b \in Batches, AppendRows(c, b)
    PROVE  EngineInv'
<1> USE DEF EngineInv
<1>1. /\ Appended(b) \in [rows : Nat, points : Nat, data : Runs]
      /\ log' \in Seq(SUBSET Keys)
  <2>1. log \in Seq(SUBSET Keys) /\ b.keys \in SUBSET Keys
    BY BatchesAssumption DEF EngineTypeOK
  <2>2. log' \in Seq(SUBSET Keys)
    BY <2>1 DEF AppendRows
  <2> QED BY <2>2, AppendedType
<1>2. UNCHANGED <<tables, closed, holder, stage, job, files, primary, backup, query,
                  lost, faults, unlinkFaults>>
  BY DEF AppendRows, lockVars, diskVars
<1>3. TablesExist' /\ JobInv' /\ (Active' <=> Active)
  BY <1>2 DEF TablesExist, JobInv, Active
<1>4. CASE ShouldFlush(Appended(b))
  <2>1. EnqueueFlush(Appended(b)) /\ pc' = [pc EXCEPT ![c] = "waiting"] /\ pc[c] = "idle"
    BY <1>4 DEF AppendRows
  <2>2. /\ memtable' \in [rows : Nat, points : Nat, data : Runs]
        /\ nextTableId' \in Versions
        /\ pendingFlushes' \in Seq([id : Versions, data : Runs])
        /\ IdInv' /\ QueryInv'
    BY <1>1, <1>2, <1>3, <2>1, EnqueueFlushInv
  <2>3. /\ pc' \in [Clients -> {"idle", "waiting", "closing", "draining"}]
        /\ \A d \in Clients : pc'[d] = "draining" <=> holder' = d
    BY <1>2, <2>1 DEF EngineTypeOK
  <2>4. EngineTypeOK'
    BY <1>1, <1>2, <2>2, <2>3 DEF EngineTypeOK
  <2> QED BY <1>3, <2>2, <2>4
<1>5. CASE ~ShouldFlush(Appended(b))
  <2>1. memtable' = Appended(b) /\ UNCHANGED <<nextTableId, pendingFlushes, pc>>
    BY <1>5 DEF AppendRows
  <2>2. EngineTypeOK'
    BY <1>1, <1>2, <2>1 DEF EngineTypeOK
  <2>3. IdInv' /\ QueryInv'
    BY <1>2, <1>3, <2>1 DEF IdInv, QueryInv, NextRead
  <2> QED BY <1>3, <2>2, <2>3
<1> QED BY <1>4, <1>5

LEMMA FlushInv ==
    ASSUME EngineInv, NEW c \in Clients, Flush(c)
    PROVE  EngineInv'
<1> USE DEF EngineInv
<1>1. /\ UNCHANGED <<tables, closed, holder, stage, job, files, primary, backup, query,
                     log, lost, faults, unlinkFaults>>
      /\ EnqueueFlush(memtable)
      /\ pc[c] = "idle" /\ pc' = [pc EXCEPT ![c] = "waiting"]
  BY DEF Flush, lockVars, diskVars, historyVars
<1>2. TablesExist' /\ JobInv' /\ (Active' <=> Active)
  BY <1>1 DEF TablesExist, JobInv, Active
<1>3. /\ memtable' \in [rows : Nat, points : Nat, data : Runs]
      /\ nextTableId' \in Versions
      /\ pendingFlushes' \in Seq([id : Versions, data : Runs])
      /\ IdInv' /\ QueryInv'
  <2>1. memtable \in [rows : Nat, points : Nat, data : Runs]
    BY DEF EngineTypeOK
  <2> QED BY <1>1, <1>2, <2>1, EnqueueFlushInv
<1>4. /\ pc' \in [Clients -> {"idle", "waiting", "closing", "draining"}]
      /\ \A d \in Clients : pc'[d] = "draining" <=> holder' = d
  BY <1>1 DEF EngineTypeOK
<1>5. EngineTypeOK'
  BY <1>1, <1>3, <1>4 DEF EngineTypeOK
<1> QED BY <1>2, <1>3, <1>5

\* Compact, Close and CloseAgain only move a client that does not drain.
LEMMA MoveInv ==
    ASSUME EngineInv, NEW c \in Clients, Compact(c) \/ Close(c) \/ CloseAgain(c)
    PROVE  EngineInv'
<1> USE DEF EngineInv
<1>1. UNCHANGED <<memtable, tables, nextTableId, pendingFlushes, closed, holder, stage, job,
                  files, primary, backup, query, log, lost, faults, unlinkFaults>>
  BY DEF Compact, Close, CloseAgain, lockVars, diskVars, historyVars
<1>2. /\ pc' \in [Clients -> {"idle", "waiting", "closing", "draining"}]
      /\ \A d \in Clients : pc'[d] = "draining" <=> holder' = d
  BY <1>1 DEF EngineTypeOK, Compact, Close, CloseAgain
<1>3. EngineTypeOK'
  BY <1>1, <1>2 DEF EngineTypeOK
<1>4. TablesExist' /\ IdInv' /\ JobInv' /\ QueryInv'
  BY <1>1 DEF TablesExist, IdInv, JobInv, QueryInv, Active, NextRead
<1> QED BY <1>3, <1>4

\* The new owner of the lock finds no job.
LEMMA TakeLockInv ==
    ASSUME EngineTypeOK, JobInv, NEW c \in Clients, TakeLock(c), pc[c] # "draining",
           UNCHANGED <<tables, job, files, primary, backup>>
    PROVE  /\ holder' \in Clients \cup {NoClient} /\ stage' \in Stages
           /\ holder' = NoClient <=> stage' = "free"
           /\ pc' \in [Clients -> {"idle", "waiting", "closing", "draining"}]
           /\ \A d \in Clients : pc'[d] = "draining" <=> holder' = d
           /\ ~Active' /\ JobInv'
<1>1. holder = NoClient /\ stage = "free" /\ stage' = "pick" /\ holder' = c
  BY DEF TakeLock, EngineTypeOK
<1>2. /\ holder' \in Clients \cup {NoClient} /\ stage' \in Stages
      /\ holder' = NoClient <=> stage' = "free"
  BY <1>1, NoClientAssumption DEF Stages
<1>3. /\ pc' \in [Clients -> {"idle", "waiting", "closing", "draining"}]
      /\ \A d \in Clients : pc'[d] = "draining" <=> holder' = d
  BY <1>1, NoClientAssumption DEF EngineTypeOK, TakeLock
<1>4. ~Active' /\ JobInv'
  BY <1>1 DEF JobInv, Active
<1> QED BY <1>2, <1>3, <1>4

LEMMA AcquireInv ==
    ASSUME EngineInv, NEW c \in Clients, Acquire(c)
    PROVE  EngineInv'
<1> USE DEF EngineInv
<1>1. UNCHANGED <<memtable, tables, nextTableId, pendingFlushes, closed, job, files,
                  primary, backup, query, log, lost, faults, unlinkFaults>>
  BY DEF Acquire, diskVars, historyVars
<1>2. TakeLock(c) /\ pc[c] # "draining"
  BY DEF Acquire
<1>3. /\ holder' \in Clients \cup {NoClient} /\ stage' \in Stages
      /\ holder' = NoClient <=> stage' = "free"
      /\ pc' \in [Clients -> {"idle", "waiting", "closing", "draining"}]
      /\ \A d \in Clients : pc'[d] = "draining" <=> holder' = d
      /\ ~Active' /\ JobInv'
  BY <1>1, <1>2, TakeLockInv
<1>4. EngineTypeOK'
  BY <1>1, <1>3 DEF EngineTypeOK
<1>5. TablesExist' /\ IdInv' /\ QueryInv'
  BY <1>1, <1>3 DEF TablesExist, IdInv, QueryInv, NextRead
<1> QED BY <1>3, <1>4, <1>5

LEMMA CloseFirstInv ==
    ASSUME EngineInv, NEW c \in Clients, CloseFirst(c)
    PROVE  EngineInv'
<1> USE DEF EngineInv
<1>1. UNCHANGED <<tables, job, files, primary, backup, query, log, lost, faults,
                  unlinkFaults>>
  BY DEF CloseFirst, diskVars, historyVars
<1>2. TakeLock(c) /\ pc[c] # "draining"
  BY DEF CloseFirst
<1>3. /\ holder' \in Clients \cup {NoClient} /\ stage' \in Stages
      /\ holder' = NoClient <=> stage' = "free"
      /\ pc' \in [Clients -> {"idle", "waiting", "closing", "draining"}]
      /\ \A d \in Clients : pc'[d] = "draining" <=> holder' = d
      /\ ~Active' /\ JobInv'
  BY <1>1, <1>2, TakeLockInv
<1>4. /\ memtable' \in [rows : Nat, points : Nat, data : Runs]
      /\ nextTableId' \in Versions
      /\ pendingFlushes' \in Seq([id : Versions, data : Runs])
      /\ IdInv' /\ QueryInv'
  <2>1. memtable \in [rows : Nat, points : Nat, data : Runs]
    BY DEF EngineTypeOK
  <2>2. CASE memtable.points > 0
    BY <1>1, <1>3, <2>1, <2>2, EnqueueFlushInv DEF CloseFirst
  <2>3. CASE ~(memtable.points > 0)
    <3>1. UNCHANGED <<memtable, nextTableId, pendingFlushes>>
      BY <2>3 DEF CloseFirst, NothingEnqueued
    <3>2. IdInv' /\ QueryInv'
      BY <1>1, <1>3, <3>1 DEF IdInv, QueryInv, NextRead
    <3> QED BY <3>1, <3>2 DEF EngineTypeOK
  <2> QED BY <2>2, <2>3
<1>5. closed' \in BOOLEAN
  BY DEF CloseFirst
<1>6. EngineTypeOK'
  BY <1>1, <1>3, <1>4, <1>5 DEF EngineTypeOK
<1>7. TablesExist'
  BY <1>1 DEF TablesExist
<1> QED BY <1>3, <1>4, <1>6, <1>7

-----------------------------------------------------------------------------
(* Steps of the client that drains.                                        *)

LEMMA TailFacts ==
    ASSUME EngineTypeOK, pendingFlushes # <<>>
    PROVE  /\ Tail(pendingFlushes) \in Seq([id : Versions, data : Runs])
           /\ 1 \in DOMAIN pendingFlushes /\ Head(pendingFlushes) = pendingFlushes[1]
           /\ Head(pendingFlushes) \in [id : Versions, data : Runs]
           /\ \A n \in DOMAIN Tail(pendingFlushes) :
                 /\ n \in Nat /\ 1 < n + 1 /\ n + 1 \in DOMAIN pendingFlushes
                 /\ Tail(pendingFlushes)[n] = pendingFlushes[n + 1]
<1> DEFINE T == [id : Versions, data : Runs]
<1>1. pendingFlushes \in Seq(T)
  BY DEF EngineTypeOK
<1> HIDE DEF T
<1>2. /\ Tail(pendingFlushes) \in Seq(T) /\ Head(pendingFlushes) \in T
      /\ Len(Tail(pendingFlushes)) = Len(pendingFlushes) - 1
      /\ \A n \in 1..Len(Tail(pendingFlushes)) :
            Tail(pendingFlushes)[n] = pendingFlushes[n + 1]
  BY <1>1, HeadTailProperties
<1>3. /\ DOMAIN pendingFlushes = 1..Len(pendingFlushes) /\ Len(pendingFlushes) \in Nat
      /\ DOMAIN Tail(pendingFlushes) = 1..Len(Tail(pendingFlushes))
      /\ Len(pendingFlushes) > 0
  BY <1>1, <1>2, EmptySeq, LenProperties
<1>4. Head(pendingFlushes) = pendingFlushes[1]
  BY <1>1
<1> QED BY <1>2, <1>3, <1>4 DEF T

LEMMA PickFlushInv ==
    ASSUME EngineInv, NEW c \in Clients, PickFlush(c)
    PROVE  EngineInv'
<1> USE DEF EngineInv
<1>1. /\ holder = c /\ stage = "pick" /\ pendingFlushes # <<>>
      /\ pendingFlushes' = Tail(pendingFlushes)
      /\ UNCHANGED <<memtable, tables, nextTableId, closed, holder, files, primary, backup,
                     pc, query, log, lost, faults, unlinkFaults>>
  BY DEF PickFlush, diskVars, historyVars
<1>2. /\ pendingFlushes' \in Seq([id : Versions, data : Runs])
      /\ 1 \in DOMAIN pendingFlushes /\ Head(pendingFlushes) = pendingFlushes[1]
      /\ Head(pendingFlushes) \in [id : Versions, data : Runs]
      /\ \A n \in DOMAIN pendingFlushes' :
            /\ n \in Nat /\ 1 < n + 1 /\ n + 1 \in DOMAIN pendingFlushes
            /\ pendingFlushes'[n] = pendingFlushes[n + 1]
  BY <1>1, TailFacts
<1>3. TablesExist'
  BY <1>1 DEF TablesExist
<1>4. /\ \A t \in tables' : t < nextTableId'
      /\ \A t \in tables', n \in DOMAIN pendingFlushes' : t < pendingFlushes'[n].id
      /\ \A n \in DOMAIN pendingFlushes' : pendingFlushes'[n].id < nextTableId'
      /\ \A m, n \in DOMAIN pendingFlushes' :
            m < n => pendingFlushes'[m].id < pendingFlushes'[n].id
  BY <1>1, <1>2 DEF IdInv
<1>5. /\ \A t \in tables' : t < Head(pendingFlushes).id
      /\ Head(pendingFlushes).id < nextTableId'
      /\ \A n \in DOMAIN pendingFlushes' : Head(pendingFlushes).id < pendingFlushes'[n].id
  BY <1>1, <1>2 DEF IdInv
<1>6. \A r \in Readers :
        /\ query'[r].pc # "raised"
        /\ query'[r].pc = "missing" =>
              \A t \in query'[r].todo : NextRead(r, t)' => t \notin DOMAIN files'
        /\ \A t \in query'[r].todo :
              /\ t < nextTableId'
              /\ t < Head(pendingFlushes).id
              /\ \A n \in DOMAIN pendingFlushes' : t < pendingFlushes'[n].id
  BY <1>1, <1>2 DEF QueryInv, NextRead
<1>7. CASE Head(pendingFlushes).data = NoPoints
  <2>1. UNCHANGED <<stage, job>>
    BY <1>7 DEF PickFlush
  <2>2. EngineTypeOK'
    BY <1>1, <1>2, <2>1 DEF EngineTypeOK
  <2>3. IdInv' /\ QueryInv' /\ JobInv'
    BY <1>1, <1>4, <1>6, <2>1 DEF IdInv, QueryInv, JobInv, Active
  <2> QED BY <1>3, <2>2, <2>3
<1>8. CASE Head(pendingFlushes).data # NoPoints
  <2>1. /\ stage' = "write"
        /\ job' = [NoJob EXCEPT !.kind = "flush", !.id = Head(pendingFlushes).id,
                                !.data = Head(pendingFlushes).data]
    BY <1>8 DEF PickFlush, StartFlush
  <2>2. /\ job' \in Jobs /\ stage' \in Stages
        /\ job'.kind = "flush" /\ job'.id = Head(pendingFlushes).id
        /\ job'.candidates = {} /\ job'.id \in Versions
    BY <1>2, <2>1, NoJobType DEF Jobs, Stages, NoJob, Versions
  <2>3. holder' = NoClient <=> stage' = "free"
    BY <1>1, <2>1, NoClientAssumption
  <2>4. EngineTypeOK'
    BY <1>1, <1>2, <2>2, <2>3 DEF EngineTypeOK
  <2>5. IdInv' /\ QueryInv' /\ JobInv'
    BY <1>4, <1>5, <1>6, <2>1, <2>2 DEF IdInv, QueryInv, JobInv, Active
  <2> QED BY <1>3, <2>4, <2>5
<1> QED BY <1>7, <1>8

LEMMA PickCompactionInv ==
    ASSUME EngineInv, NEW c \in Clients, PickCompaction(c)
    PROVE  EngineInv'
<1> USE DEF EngineInv
<1>1. /\ holder = c /\ stage = "pick" /\ pendingFlushes = <<>> /\ stage' = "write"
      /\ job' = [NoJob EXCEPT !.kind = "compaction", !.id = nextTableId,
                              !.candidates = tables]
      /\ nextTableId' = nextTableId + 1
      /\ UNCHANGED <<memtable, tables, pendingFlushes, closed, holder, files, primary,
                     backup, pc, query, log, lost, faults, unlinkFaults>>
  BY DEF PickCompaction, StartCompaction, diskVars, historyVars
<1>2. /\ nextTableId \in Versions /\ nextTableId' \in Versions
      /\ tables \subseteq Versions
  BY <1>1 DEF EngineTypeOK, Versions
<1>3. /\ job' \in Jobs /\ stage' \in Stages
      /\ job'.kind = "compaction" /\ job'.id = nextTableId
      /\ job'.candidates = tables
  BY <1>1, <1>2, NoJobType DEF Jobs, Stages, NoJob, Versions
<1>4. holder' = NoClient <=> stage' = "free"
  BY <1>1, NoClientAssumption
<1>5. EngineTypeOK'
  BY <1>1, <1>2, <1>3, <1>4 DEF EngineTypeOK
<1>6. TablesExist'
  BY <1>1 DEF TablesExist
<1>7. DOMAIN pendingFlushes' = {}
  BY <1>1
<1>8. \A t \in Nat : t < nextTableId => t < nextTableId'
  BY <1>1, <1>2 DEF Versions
<1>9. IdInv'
  BY <1>1, <1>2, <1>3, <1>7, <1>8 DEF IdInv, Versions
<1>10. JobInv'
  BY <1>1, <1>2, <1>3 DEF JobInv, Active
<1>11. QueryInv'
  <2>1. \A r \in Readers : query[r].todo \subseteq Nat
    BY DEF EngineTypeOK, Queries, Versions
  <2> QED BY <1>1, <1>3, <1>7, <1>8, <2>1 DEF QueryInv, NextRead
<1> QED BY <1>5, <1>6, <1>9, <1>10, <1>11

\* Whether the drain is done or its task raised, the lock goes and the job with it.
LEMMA ReleaseLockInv ==
    ASSUME EngineInv, NEW c \in Clients, holder = c, ReleaseLock(c),
           UNCHANGED <<memtable, tables, nextTableId, pendingFlushes, closed, files,
                       primary, backup, query, log, unlinkFaults>>,
           lost' \subseteq Versions, faults' \in Nat
    PROVE  EngineInv'
<1> USE DEF EngineInv
<1>1. holder' = NoClient /\ stage' = "free" /\ job' = NoJob /\ pc' = [pc EXCEPT ![c] = "idle"]
  BY DEF ReleaseLock
<1>2. /\ pc' \in [Clients -> {"idle", "waiting", "closing", "draining"}]
      /\ \A d \in Clients : pc'[d] = "draining" <=> holder' = d
  BY <1>1, NoClientAssumption DEF EngineTypeOK
<1>3. holder' \in Clients \cup {NoClient} /\ stage' \in Stages
  BY <1>1 DEF Stages
<1>4. EngineTypeOK'
  BY <1>1, <1>2, <1>3, NoJobType DEF EngineTypeOK
<1>5. TablesExist' /\ IdInv' /\ JobInv' /\ QueryInv'
  BY <1>1 DEF TablesExist, IdInv, JobInv, QueryInv, Active, NextRead
<1> QED BY <1>4, <1>5

LEMMA DrainDoneInv ==
    ASSUME EngineInv, NEW c \in Clients, DrainDone(c)
    PROVE  EngineInv'
<1>1. lost' \subseteq Versions /\ faults' \in Nat
  BY DEF EngineInv, EngineTypeOK, DrainDone, historyVars
<1> QED BY <1>1, ReleaseLockInv DEF DrainDone, diskVars, historyVars

LEMMA TaskRaisesInv ==
    ASSUME EngineInv, NEW c \in Clients, TaskRaises(c)
    PROVE  EngineInv'
<1>1. job \in Jobs /\ lost \subseteq Versions /\ faults \in Nat
  BY DEF EngineInv, EngineTypeOK
<1>2. \A k \in Keys : job.data[k] \subseteq Versions
  BY <1>1 DEF Jobs, Runs
<1>3. lost' \subseteq Versions /\ faults' \in Nat
  BY <1>1, <1>2 DEF TaskRaises
<1> QED BY <1>3, ReleaseLockInv DEF TaskRaises, diskVars

LEMMA WriteTableInv ==
    ASSUME EngineInv, NEW c \in Clients, WriteTable(c)
    PROVE  EngineInv'
<1> USE DEF EngineInv
<1> DEFINE run == IF job.kind = "flush" THEN job.data ELSE MergeRuns(job.candidates)
<1>1. /\ holder = c /\ stage = "write" /\ stage' = "build"
      /\ files' = [t \in DOMAIN files \cup {job.id} |-> IF t = job.id THEN run ELSE files[t]]
      /\ UNCHANGED <<memtable, tables, nextTableId, pendingFlushes, closed, holder, job,
                     primary, backup, pc, query, log, lost, faults, unlinkFaults>>
  BY DEF WriteTable, historyVars
<1>2. run \in Runs
  <2>1. job.data \in Runs
    BY DEF EngineTypeOK, Jobs
  <2>2. MergeRuns(job.candidates) \in Runs
    BY MergeRunsType DEF WriteTable
  <2> QED BY <2>1, <2>2
<1>3. job.id \in Versions
  BY <1>1 DEF JobInv, Active
<1> HIDE DEF run
<1>4. DOMAIN files' = DOMAIN files \cup {job.id}
  BY <1>1
<1>5. /\ DOMAIN files' \subseteq Versions
      /\ \A t \in DOMAIN files' : files'[t] \in Runs
  <2>1. DOMAIN files \subseteq Versions /\ \A t \in DOMAIN files : files[t] \in Runs
    BY DEF EngineTypeOK
  <2> QED BY <1>1, <1>2, <1>3, <1>4, <2>1
<1>6. stage' \in Stages /\ (holder' = NoClient <=> stage' = "free")
  BY <1>1, NoClientAssumption DEF Stages
<1>7. EngineTypeOK'
  BY <1>1, <1>5, <1>6 DEF EngineTypeOK
<1>8. TablesExist'
  BY <1>1, <1>4 DEF TablesExist
<1>9. IdInv'
  BY <1>1 DEF IdInv, Active
<1>10. JobInv'
  BY <1>1, <1>4 DEF JobInv, Active
<1>11. QueryInv'
  <2> SUFFICES ASSUME NEW r \in Readers
               PROVE  /\ query[r].pc # "raised"
                      /\ query[r].pc = "missing" =>
                            \A t \in query[r].todo : NextRead(r, t) => t \notin DOMAIN files'
                      /\ \A t \in query[r].todo :
                            /\ t < nextTableId
                            /\ t < job.id
                            /\ \A n \in DOMAIN pendingFlushes : t < pendingFlushes[n].id
    BY <1>1 DEF QueryInv, NextRead
  <2>1. \A t \in query[r].todo : t < job.id
    BY <1>1 DEF QueryInv, Active
  <2>2. \A t \in query[r].todo : t # job.id
    BY <1>3, <2>1 DEF Versions
  <2> QED BY <1>4, <2>1, <2>2 DEF QueryInv
<1> QED BY <1>7, <1>8, <1>9, <1>10, <1>11

LEMMA BuildManifestInv ==
    ASSUME EngineInv, NEW c \in Clients, BuildManifest(c)
    PROVE  EngineInv'
<1> USE DEF EngineInv
<1> DEFINE built == [next |-> nextTableId, tables |-> (tables \ job.candidates) \cup {job.id}]
<1>1. /\ holder = c /\ stage = "build" /\ stage' = "primary"
      /\ job' = [job EXCEPT !.manifest = built]
      /\ UNCHANGED <<memtable, tables, nextTableId, pendingFlushes, closed, holder, files,
                     primary, backup, pc, query, log, lost, faults, unlinkFaults>>
  BY DEF BuildManifest, diskVars, historyVars
<1>2. job.id \in Versions /\ job \in Jobs /\ nextTableId \in Versions /\ tables \subseteq Versions
  BY <1>1 DEF EngineTypeOK, JobInv, Active
<1>3. built \in Manifests
  BY <1>2 DEF Manifests
<1>4. /\ job' \in Jobs /\ job'.manifest = built /\ job'.id = job.id
      /\ job'.kind = job.kind /\ job'.candidates = job.candidates
  <2> HIDE DEF built
  <2> QED BY <1>1, <1>2, <1>3 DEF Jobs
<1>5. stage' \in Stages /\ (holder' = NoClient <=> stage' = "free")
  BY <1>1, NoClientAssumption DEF Stages
<1>6. EngineTypeOK'
  BY <1>1, <1>4, <1>5 DEF EngineTypeOK
<1>7. TablesExist' /\ IdInv' /\ QueryInv'
  BY <1>1, <1>4 DEF TablesExist, IdInv, QueryInv, Active, NextRead
<1>8. JobInv'
  <2>1. job.id < nextTableId
    BY <1>1 DEF IdInv, Active
  <2> QED BY <1>1, <1>4, <2>1 DEF JobInv, Active
<1> QED BY <1>6, <1>7, <1>8

LEMMA SavePrimaryInv ==
    ASSUME EngineInv, NEW c \in Clients, SavePrimary(c)
    PROVE  EngineInv'
<1> USE DEF EngineInv
<1>1. /\ holder = c /\ stage = "primary" /\ stage' = "backup" /\ primary' = job.manifest
      /\ UNCHANGED <<memtable, tables, nextTableId, pendingFlushes, closed, holder, job,
                     files, backup, pc, query, log, lost, faults, unlinkFaults>>
  BY DEF SavePrimary, historyVars
<1>2. stage' \in Stages /\ (holder' = NoClient <=> stage' = "free")
  BY <1>1, NoClientAssumption DEF Stages
<1>3. EngineTypeOK'
  BY <1>1, <1>2 DEF EngineTypeOK
<1>4. TablesExist' /\ IdInv' /\ JobInv' /\ QueryInv'
  BY <1>1 DEF TablesExist, IdInv, JobInv, QueryInv, Active, NextRead
<1> QED BY <1>3, <1>4

LEMMA SaveBackupInv ==
    ASSUME EngineInv, NEW c \in Clients, SaveBackup(c)
    PROVE  EngineInv'
<1> USE DEF EngineInv
<1>1. /\ holder = c /\ stage = "backup" /\ stage' = "commit" /\ backup' = job.manifest
      /\ UNCHANGED <<memtable, tables, nextTableId, pendingFlushes, closed, holder, job,
                     files, primary, pc, query, log, lost, faults, unlinkFaults>>
  BY DEF SaveBackup, historyVars
<1>2. stage' \in Stages /\ (holder' = NoClient <=> stage' = "free")
  BY <1>1, NoClientAssumption DEF Stages
<1>3. EngineTypeOK'
  BY <1>1, <1>2 DEF EngineTypeOK
<1>4. TablesExist' /\ IdInv' /\ JobInv' /\ QueryInv'
  BY <1>1 DEF TablesExist, IdInv, JobInv, QueryInv, Active, NextRead
<1> QED BY <1>3, <1>4

LEMMA CommitFlushInv ==
    ASSUME EngineInv, NEW c \in Clients, CommitFlush(c)
    PROVE  EngineInv'
<1> USE DEF EngineInv
<1>1. /\ holder = c /\ stage = "commit" /\ stage' = "pick" /\ job' = NoJob
      /\ tables' = tables \cup {job.id}
      /\ UNCHANGED <<memtable, nextTableId, pendingFlushes, closed, holder, files, primary,
                     backup, pc, query, log, lost, faults, unlinkFaults>>
  BY DEF CommitFlush, diskVars, historyVars
<1>2. job.id \in Versions /\ job.id \in DOMAIN files
  BY <1>1 DEF JobInv, Active
<1>3. stage' \in Stages /\ (holder' = NoClient <=> stage' = "free")
  BY <1>1, NoClientAssumption DEF Stages
<1>4. EngineTypeOK'
  BY <1>1, <1>2, <1>3, NoJobType DEF EngineTypeOK
<1>5. TablesExist'
  BY <1>1, <1>2 DEF TablesExist
<1>6. IdInv'
  BY <1>1 DEF IdInv, Active
<1>7. JobInv' /\ QueryInv'
  BY <1>1 DEF JobInv, QueryInv, Active, NextRead
<1> QED BY <1>4, <1>5, <1>6, <1>7

LEMMA CommitCompactionInv ==
    ASSUME EngineInv, NEW c \in Clients, CommitCompaction(c)
    PROVE  EngineInv'
<1> USE DEF EngineInv
<1>1. /\ holder = c /\ stage = "commit" /\ stage' = "unlink" /\ job.kind = "compaction"
      /\ tables' = job.manifest.tables
      /\ UNCHANGED <<memtable, nextTableId, pendingFlushes, closed, holder, job, files,
                     primary, backup, pc, query, log, lost, faults, unlinkFaults>>
  BY DEF CommitCompaction, diskVars, historyVars
<1>2. /\ job.id \in Versions /\ job.id \in DOMAIN files
      /\ job.candidates = tables
      /\ job.manifest.tables = {job.id}
  BY <1>1 DEF JobInv, Active
<1>3. stage' \in Stages /\ (holder' = NoClient <=> stage' = "free")
  BY <1>1, NoClientAssumption DEF Stages
<1>4. EngineTypeOK'
  BY <1>1, <1>2, <1>3 DEF EngineTypeOK
<1>5. TablesExist'
  BY <1>1, <1>2 DEF TablesExist
<1>6. IdInv' /\ QueryInv'
  BY <1>1, <1>2 DEF IdInv, QueryInv, Active, NextRead
<1>7. job.id \notin job.candidates
  <2>1. \A t \in tables : t < job.id
    BY <1>1 DEF IdInv, Active
  <2> QED BY <1>2, <2>1 DEF Versions
<1>8. JobInv'
  BY <1>1, <1>2, <1>7 DEF JobInv, Active
<1> QED BY <1>4, <1>5, <1>6, <1>8

LEMMA UnlinkNextInv ==
    ASSUME EngineInv, NEW c \in Clients, UnlinkNext(c)
    PROVE  EngineInv'
<1> USE DEF EngineInv
<1>1. /\ holder = c /\ stage = "unlink"
      /\ UNCHANGED <<memtable, tables, nextTableId, pendingFlushes, closed, holder, stage,
                     primary, backup, pc, query, log, lost, faults>>
  BY DEF UnlinkNext
<1>2. PICK t \in job.candidates :
        /\ job' = [job EXCEPT !.candidates = @ \ {t}]
        /\ \/ files' = [u \in DOMAIN files \ {t} |-> files[u]] /\ UNCHANGED unlinkFaults
           \/ unlinkFaults' = unlinkFaults + 1 /\ UNCHANGED files
  BY DEF UnlinkNext
<1>3. job \in Jobs /\ unlinkFaults \in Nat
  BY DEF EngineTypeOK
<1>4. /\ job' \in Jobs /\ job'.id = job.id /\ job'.kind = job.kind
      /\ job'.candidates = job.candidates \ {t}
  BY <1>2, <1>3 DEF Jobs
<1>5. /\ DOMAIN files \ {t} \subseteq DOMAIN files' /\ DOMAIN files' \subseteq DOMAIN files
      /\ \A u \in DOMAIN files' : files'[u] = files[u]
      /\ unlinkFaults' \in Nat
  BY <1>2, <1>3
<1>6. EngineTypeOK'
  <2>1. DOMAIN files \subseteq Versions /\ \A u \in DOMAIN files : files[u] \in Runs
    BY DEF EngineTypeOK
  <2>2. DOMAIN files' \subseteq Versions /\ \A u \in DOMAIN files' : files'[u] \in Runs
    BY <1>5, <2>1
  <2> QED BY <1>1, <1>4, <1>5, <2>2 DEF EngineTypeOK
<1>7. /\ tables = {job.id} /\ job.id \in DOMAIN files
      /\ job.id \notin job.candidates /\ job.kind = "compaction"
  BY <1>1 DEF JobInv
<1>8. TablesExist'
  BY <1>1, <1>5, <1>7 DEF TablesExist
<1>9. IdInv'
  BY <1>1 DEF IdInv, Active
<1>10. JobInv'
  BY <1>1, <1>4, <1>5, <1>7 DEF JobInv, Active
<1>11. QueryInv'
  BY <1>1, <1>5 DEF QueryInv, Active, NextRead
<1> QED BY <1>6, <1>8, <1>9, <1>10, <1>11

LEMMA UnlinkDoneInv ==
    ASSUME EngineInv, NEW c \in Clients, UnlinkDone(c)
    PROVE  EngineInv'
<1> USE DEF EngineInv
<1>1. /\ holder = c /\ stage = "unlink" /\ stage' = "pick" /\ job' = NoJob
      /\ UNCHANGED <<memtable, tables, nextTableId, pendingFlushes, closed, holder, files,
                     primary, backup, pc, query, log, lost, faults, unlinkFaults>>
  BY DEF UnlinkDone, diskVars, historyVars
<1>2. stage' \in Stages /\ (holder' = NoClient <=> stage' = "free")
  BY <1>1, NoClientAssumption DEF Stages
<1>3. EngineTypeOK'
  BY <1>1, <1>2, NoJobType DEF EngineTypeOK
<1>4. TablesExist' /\ IdInv' /\ JobInv' /\ QueryInv'
  BY <1>1 DEF TablesExist, IdInv, JobInv, QueryInv, Active, NextRead
<1> QED BY <1>3, <1>4

-----------------------------------------------------------------------------
(* Steps of the readers.                                                   *)

LEMMA AcceptedType == ASSUME EngineTypeOK PROVE Accepted \in Runs
<1>1. \A i \in DOMAIN log : i \in Versions
  BY DEF EngineTypeOK, Versions
<1> QED BY <1>1 DEF Accepted, Latest, Runs

LEMMA SnapshotViewType == ASSUME EngineTypeOK, TablesExist PROVE SnapshotView \in Runs
<1>1. MergeRuns(tables) \in Runs
  BY MergeRunsType DEF TablesExist
<1>2. memtable.data \in Runs
  BY DEF EngineTypeOK
<1> QED BY <1>1, <1>2 DEF SnapshotView, Latest, Runs

\* A step that only changes what reader r knows.
LEMMA ReaderStepInv ==
    ASSUME EngineInv, NEW r \in Readers, NEW q \in Queries, query' = [query EXCEPT ![r] = q],
           UNCHANGED <<memtable, tables, nextTableId, pendingFlushes, closed, lockVars,
                       diskVars, pc, historyVars>>,
           q.pc # "raised",
           q.pc = "missing" =>
             \A t \in q.todo : (\A u \in q.todo : u <= t) => t \notin DOMAIN files,
           q.todo \subseteq tables \/ q.todo \subseteq query[r].todo
    PROVE  EngineInv'
<1> USE DEF EngineInv
<1>1. UNCHANGED <<memtable, tables, nextTableId, pendingFlushes, closed, holder, stage, job,
                  files, primary, backup, pc, log, lost, faults, unlinkFaults>>
  BY DEF lockVars, diskVars, historyVars
<1>2. query' \in [Readers -> Queries]
  BY DEF EngineTypeOK
<1>3. EngineTypeOK'
  BY <1>1, <1>2 DEF EngineTypeOK
<1>4. TablesExist' /\ IdInv' /\ JobInv'
  BY <1>1 DEF TablesExist, IdInv, JobInv, Active
<1>5. ASSUME NEW s \in Readers
      PROVE  /\ query'[s].pc # "raised"
             /\ query'[s].pc = "missing" =>
                   \A t \in query'[s].todo : NextRead(s, t)' => t \notin DOMAIN files
             /\ \A t \in query'[s].todo :
                   /\ t < nextTableId
                   /\ Active => t < job.id
                   /\ \A n \in DOMAIN pendingFlushes : t < pendingFlushes[n].id
  <2>1. CASE s # r
    <3>1. query'[s] = query[s]
      BY <2>1 DEF EngineTypeOK
    <3> QED BY <3>1 DEF QueryInv, NextRead
  <2>2. CASE s = r
    <3>1. query'[s] = q
      BY <2>2 DEF EngineTypeOK
    <3>2. \A t \in q.todo : /\ t < nextTableId
                            /\ Active => t < job.id
                            /\ \A n \in DOMAIN pendingFlushes : t < pendingFlushes[n].id
      BY <2>2 DEF QueryInv, IdInv
    <3> QED BY <3>1, <3>2 DEF NextRead
  <2> QED BY <2>1, <2>2
<1>6. QueryInv'
  BY <1>1, <1>5 DEF QueryInv, Active
<1> QED BY <1>3, <1>4, <1>6

LEMMA QueryBeginInv ==
    ASSUME EngineInv, NEW r \in Readers, QueryBegin(r)
    PROVE  EngineInv'
<1> DEFINE q == [pc |-> "reading", todo |-> tables,
                 result |-> [k \in Keys |-> Latest(memtable.data[k])],
                 want |-> SnapshotView, seen |-> Accepted, skipped |-> FALSE,
                 faults |-> unlinkFaults]
<1>1. [k \in Keys |-> Latest(memtable.data[k])] \in Runs
  <2>1. memtable.data \in Runs
    BY DEF EngineInv, EngineTypeOK
  <2> QED BY <2>1 DEF Latest, Runs
<1>2. tables \in SUBSET Versions
  BY DEF EngineInv, EngineTypeOK
<1>3. q \in Queries
  BY <1>1, <1>2, SnapshotViewType, AcceptedType DEF EngineInv, EngineTypeOK, Queries
<1>4. query' = [query EXCEPT ![r] = q]
  BY DEF QueryBegin
<1>5. q.pc = "reading" /\ q.todo = tables
  OBVIOUS
<1> HIDE DEF q
<1> QED BY <1>3, <1>4, <1>5, ReaderStepInv DEF QueryBegin

LEMMA ReadTableInv ==
    ASSUME EngineInv, NEW r \in Readers, ReadTable(r)
    PROVE  EngineInv'
<1>1. PICK t \in query[r].todo :
        /\ t \in DOMAIN files
        /\ query' = [query EXCEPT
              ![r].todo = @ \ {t},
              ![r].result = [k \in Keys |->
                  IF @[k] # {} THEN @[k] ELSE Latest(files[t][k])]]
  BY DEF ReadTable
<1> DEFINE merged == [k \in Keys |-> IF query[r].result[k] # {} THEN query[r].result[k]
                                     ELSE Latest(files[t][k])]
           q == [query[r] EXCEPT !.todo = query[r].todo \ {t}, !.result = merged]
<1>2. query[r] \in Queries /\ query \in [Readers -> Queries] /\ files[t] \in Runs
  BY <1>1 DEF EngineInv, EngineTypeOK
<1>3. merged \in Runs
  BY <1>2 DEF Queries, Runs, Latest
<1>4. query' = [query EXCEPT ![r] = q]
  BY <1>1, <1>2
<1> HIDE DEF merged
<1>5. /\ q \in Queries /\ q.todo = query[r].todo \ {t} /\ q.pc = query[r].pc
  BY <1>2, <1>3 DEF Queries
<1>6. q.pc = "reading"
  BY <1>5 DEF ReadTable
<1> HIDE DEF q
<1> QED BY <1>4, <1>5, <1>6, ReaderStepInv DEF ReadTable

LEMMA FileMissingInv ==
    ASSUME EngineInv, NEW r \in Readers, FileMissing(r)
    PROVE  EngineInv'
<1> DEFINE q == [query[r] EXCEPT !.pc = "missing"]
<1>1. query[r] \in Queries /\ query \in [Readers -> Queries]
  BY DEF EngineInv, EngineTypeOK
<1>2. query' = [query EXCEPT ![r] = q]
  BY <1>1 DEF FileMissing
<1>3. q \in Queries /\ q.pc = "missing" /\ q.todo = query[r].todo
  BY <1>1 DEF Queries
<1> HIDE DEF q
<1>4. \A t \in q.todo : (\A u \in q.todo : u <= t) => t \notin DOMAIN files
  <2>1. PICK t \in q.todo : (\A u \in q.todo : u <= t) /\ t \notin DOMAIN files
    BY <1>3 DEF FileMissing, NextRead
  <2>2. q.todo \subseteq Nat
    BY <1>3 DEF Queries, Versions
  <2>3. ASSUME NEW v \in q.todo, \A u \in q.todo : u <= v PROVE v = t
    BY <2>1, <2>2, <2>3
  <2> QED BY <2>1, <2>3
<1> QED BY <1>2, <1>3, <1>4, ReaderStepInv DEF FileMissing

LEMMA CheckActiveInv ==
    ASSUME EngineInv, NEW r \in Readers, CheckActive(r)
    PROVE  EngineInv'
<1>1. PICK t \in query[r].todo :
        /\ NextRead(r, t)
        /\ query' = [query EXCEPT
              ![r].pc = IF t \in tables THEN "raised" ELSE "reading",
              ![r].todo = @ \ {t},
              ![r].skipped = TRUE]
  BY DEF CheckActive
<1>2. t \notin tables
  <2>1. t \notin DOMAIN files
    BY <1>1 DEF CheckActive, EngineInv, QueryInv
  <2> QED BY <2>1 DEF EngineInv, TablesExist
<1> DEFINE q == [query[r] EXCEPT !.pc = "reading", !.todo = query[r].todo \ {t},
                                !.skipped = TRUE]
<1>3. query[r] \in Queries /\ query \in [Readers -> Queries]
  BY DEF EngineInv, EngineTypeOK
<1>4. query' = [query EXCEPT ![r] = q]
  BY <1>1, <1>2, <1>3
<1>5. q \in Queries /\ q.pc = "reading" /\ q.todo \subseteq query[r].todo
  BY <1>3 DEF Queries
<1> HIDE DEF q
<1> QED BY <1>4, <1>5, ReaderStepInv DEF CheckActive

LEMMA QueryEndInv ==
    ASSUME EngineInv, NEW r \in Readers, QueryEnd(r)
    PROVE  EngineInv'
<1>1. NoQuery \in Queries /\ NoQuery.pc = "idle" /\ NoQuery.todo = {}
  BY NoPointsType DEF NoQuery, Queries
<1> QED BY <1>1, ReaderStepInv DEF QueryEnd

-----------------------------------------------------------------------------
(* EngineInv is an invariant.                                              *)

LEMMA NextEngine == EngineInv /\ [Next]_vars => EngineInv'
<1> SUFFICES ASSUME EngineInv, [Next]_vars PROVE EngineInv'
  OBVIOUS
<1>1. ASSUME NEW c \in Clients, Call(c) PROVE EngineInv'
  BY <1>1, AppendRowsInv, FlushInv, MoveInv DEF Call
<1>2. ASSUME NEW c \in Clients, LockStep(c) PROVE EngineInv'
  BY <1>2, AcquireInv, CloseFirstInv, MoveInv DEF LockStep
<1>3. ASSUME NEW c \in Clients, Drain(c) PROVE EngineInv'
  BY <1>3, PickFlushInv, PickCompactionInv, DrainDoneInv, WriteTableInv, BuildManifestInv,
     SavePrimaryInv, SaveBackupInv, CommitFlushInv, CommitCompactionInv, UnlinkNextInv,
     UnlinkDoneInv DEF Drain
<1>4. ASSUME NEW c \in Clients, TaskRaises(c) PROVE EngineInv'
  BY <1>4, TaskRaisesInv
<1>5. ASSUME NEW r \in Readers, QueryBegin(r) \/ Read(r) PROVE EngineInv'
  BY <1>5, QueryBeginInv, ReadTableInv, FileMissingInv, CheckActiveInv, QueryEndInv DEF Read
<1>6. CASE UNCHANGED vars
  <2>1. UNCHANGED <<memtable, tables, nextTableId, pendingFlushes, closed, holder, stage, job,
                    files, primary, backup, pc, query, log, lost, faults, unlinkFaults>>
    BY <1>6 DEF vars, lockVars, diskVars, historyVars
  <2>2. EngineTypeOK'
    BY <2>1 DEF EngineInv, EngineTypeOK
  <2>3. TablesExist' /\ IdInv' /\ JobInv' /\ QueryInv'
    BY <2>1 DEF EngineInv, TablesExist, IdInv, JobInv, QueryInv, Active, NextRead
  <2> QED BY <2>2, <2>3 DEF EngineInv
<1> QED BY <1>1, <1>2, <1>3, <1>4, <1>5, <1>6 DEF Next

-----------------------------------------------------------------------------
(* The manifests on disk.                                                  *)

\* A manifest may be saved: what it names exists.
LEMMA ManifestFilesExist ==
    ASSUME EngineInv, stage \in {"primary", "backup", "commit"}
    PROVE  job.manifest.tables \subseteq DOMAIN files /\ job.manifest \in Manifests
<1>1. /\ job.manifest.tables = (tables \ job.candidates) \cup {job.id}
      /\ job.id \in DOMAIN files
  BY DEF EngineInv, JobInv, Active
<1>2. tables \subseteq DOMAIN files
  BY DEF EngineInv, TablesExist
<1> QED BY <1>1, <1>2 DEF EngineInv, EngineTypeOK, Jobs

\* The manifest of a job names its table and older ones.
LEMMA JobManifestSaved ==
    ASSUME EngineInv, stage \in {"primary", "backup"}, NEW saved, stage' \in saved,
           stage' \in {"backup", "commit"},
           UNCHANGED <<files, job, nextTableId, pendingFlushes>>
    PROVE  SavedInv(job.manifest, saved)'
<1>1. /\ job.manifest \in Manifests /\ job.manifest.tables \subseteq DOMAIN files
      /\ job.manifest.tables = (tables \ job.candidates) \cup {job.id}
  BY ManifestFilesExist DEF EngineInv, JobInv
<1>2. /\ \A t \in tables \cup {job.id} :
            t < nextTableId /\ \A n \in DOMAIN pendingFlushes : t < pendingFlushes[n].id
  BY DEF EngineInv, IdInv, Active
<1> QED BY <1>1, <1>2 DEF SavedInv

\* Appends and rotations only reserve ids above those of the manifest.
LEMMA ManifestBelowQueue ==
    ASSUME EngineInv, NEW mt, EnqueueFlush(mt), NEW m, NEW saved, SavedInv(m, saved)
    PROVE  \A t \in m.tables :
              t < nextTableId' /\ \A n \in DOMAIN pendingFlushes' : t < pendingFlushes'[n].id
<1>1. pendingFlushes \in Seq([id : Versions, data : Runs]) /\ nextTableId \in Nat
  BY DEF EngineInv, EngineTypeOK, Versions
<1>2. \A n \in DOMAIN pendingFlushes' :
        \/ n \in DOMAIN pendingFlushes /\ pendingFlushes'[n] = pendingFlushes[n]
        \/ pendingFlushes'[n].id = nextTableId
  BY <1>1 DEF EnqueueFlush
<1>3. \A t \in m.tables : t \in Nat /\ t < nextTableId
  BY DEF SavedInv, Manifests, Versions
<1> QED BY <1>1, <1>2, <1>3 DEF EnqueueFlush, SavedInv

\* A step that does not change the job or a file.
LEMMA ManifestQuiet ==
    ASSUME EngineInv, NEW m, NEW saved, SavedInv(m, saved),
           UNCHANGED <<job, files>>,
           UNCHANGED stage \/ stage' \in {"free", "pick"},
           \A t \in m.tables :
              t < nextTableId' /\ \A n \in DOMAIN pendingFlushes' : t < pendingFlushes'[n].id,
           saved \in {AfterPrimary, AfterBackup}
    PROVE  SavedInv(m, saved)'
BY DEF SavedInv, Active, AfterPrimary, AfterBackup

\* A call of a client, or its taking of the lock.
LEMMA CallManifest ==
    ASSUME EngineInv, NEW c \in Clients, Call(c) \/ LockStep(c), NEW m, NEW saved,
           SavedInv(m, saved), saved \in {AfterPrimary, AfterBackup}
    PROVE  SavedInv(m, saved)'
<1>1. UNCHANGED <<job, files>> /\ (UNCHANGED stage \/ stage' \in {"free", "pick"})
  BY DEF Call, LockStep, AppendRows, Flush, Compact, Close, Acquire, CloseFirst, CloseAgain,
         TakeLock, lockVars, diskVars
<1>2. \/ \E mt : EnqueueFlush(mt)
      \/ UNCHANGED <<nextTableId, pendingFlushes>>
  BY DEF Call, LockStep, AppendRows, Flush, Compact, Close, Acquire, CloseFirst, CloseAgain,
         NothingEnqueued
<1>3. \A t \in m.tables :
        t < nextTableId' /\ \A n \in DOMAIN pendingFlushes' : t < pendingFlushes'[n].id
  BY <1>2, ManifestBelowQueue DEF SavedInv
<1> QED BY <1>1, <1>3, ManifestQuiet

\* A step of the drain up to the writing of its table.
LEMMA PickManifest ==
    ASSUME EngineInv, NEW c \in Clients, PickFlush(c) \/ PickCompaction(c), NEW m, NEW saved,
           SavedInv(m, saved), saved \in {AfterPrimary, AfterBackup}
    PROVE  SavedInv(m, saved)'
<1>1. /\ stage = "pick" /\ UNCHANGED files /\ nextTableId \in Nat
      /\ \A t \in m.tables : t \in Nat /\ t < nextTableId
  BY DEF PickFlush, PickCompaction, diskVars, EngineInv, EngineTypeOK, SavedInv, Manifests,
         Versions
<1>2. CASE PickFlush(c)
  <2>1. /\ 1 \in DOMAIN pendingFlushes /\ Head(pendingFlushes) = pendingFlushes[1]
        /\ \A n \in DOMAIN pendingFlushes' :
              n + 1 \in DOMAIN pendingFlushes /\ pendingFlushes'[n] = pendingFlushes[n + 1]
        /\ UNCHANGED nextTableId
    BY <1>2, TailFacts DEF PickFlush, EngineInv
  <2>2. \A t \in m.tables :
          /\ t < nextTableId' /\ t < Head(pendingFlushes).id
          /\ \A n \in DOMAIN pendingFlushes' : t < pendingFlushes'[n].id
    BY <2>1 DEF SavedInv
  <2>3. CASE UNCHANGED <<stage, job>>
    BY <1>1, <2>2, <2>3, ManifestQuiet
  <2>4. CASE StartFlush(Head(pendingFlushes))
    <3>1. stage' = "write" /\ job'.id = Head(pendingFlushes).id
      BY <2>4 DEF StartFlush, NoJob
    <3> QED BY <1>1, <2>2, <3>1 DEF SavedInv, AfterPrimary, AfterBackup
  <2> QED BY <1>2, <2>3, <2>4 DEF PickFlush
<1>3. CASE PickCompaction(c)
  <2>1. /\ stage' = "write" /\ job'.id = nextTableId /\ nextTableId' = nextTableId + 1
        /\ UNCHANGED pendingFlushes
    BY <1>3 DEF PickCompaction, StartCompaction, NoJob
  <2>2. \A t \in m.tables : t < nextTableId'
    BY <1>1, <2>1
  <2> QED BY <1>1, <2>1, <2>2 DEF SavedInv, AfterPrimary, AfterBackup
<1> QED BY <1>2, <1>3

\* A step that changes a file: no manifest names one that is deleted.
LEMMA FileManifest ==
    ASSUME EngineInv, EngineInv', NEW c \in Clients, WriteTable(c) \/ UnlinkNext(c), NEW m,
           NEW saved, SavedInv(m, saved), saved \in {AfterPrimary, AfterBackup}
    PROVE  SavedInv(m, saved)'
<1>1. CASE WriteTable(c)
  <2>1. /\ stage = "write" /\ stage' = "build" /\ UNCHANGED <<job, nextTableId, pendingFlushes>>
        /\ DOMAIN files \subseteq DOMAIN files'
    BY <1>1 DEF WriteTable
  <2> QED BY <2>1 DEF SavedInv, Active, AfterPrimary, AfterBackup
<1>2. CASE UnlinkNext(c)
  <2>1. /\ stage = "unlink" /\ stage' = "unlink" /\ job'.id = job.id
        /\ UNCHANGED <<nextTableId, pendingFlushes>>
    BY <1>2 DEF UnlinkNext, EngineInv, EngineTypeOK, Jobs
  <2>2. m.tables = {job.id} /\ job.id \in DOMAIN files'
    BY <2>1 DEF SavedInv, EngineInv, JobInv
  <2> QED BY <2>1, <2>2 DEF SavedInv, Active, AfterPrimary, AfterBackup
<1> QED BY <1>1, <1>2

\* A step that moves the job on, or ends it.
LEMMA JobManifest ==
    ASSUME EngineInv, NEW c \in Clients,
           \/ BuildManifest(c) \/ SavePrimary(c) \/ SaveBackup(c) \/ CommitFlush(c)
           \/ CommitCompaction(c) \/ UnlinkDone(c) \/ DrainDone(c) \/ TaskRaises(c),
           NEW m, NEW saved, SavedInv(m, saved), saved \in {AfterPrimary, AfterBackup},
           stage' \in saved => stage \in saved
    PROVE  SavedInv(m, saved)'
<1>1. UNCHANGED <<files, nextTableId, pendingFlushes>>
  BY DEF BuildManifest, SavePrimary, SaveBackup, CommitFlush, CommitCompaction, UnlinkDone,
         DrainDone, TaskRaises, diskVars
<1>2. CASE BuildManifest(c)
  <2>1. stage = "build" /\ stage' = "primary" /\ job'.id = job.id
    BY <1>2 DEF BuildManifest, EngineInv, EngineTypeOK, Jobs
  <2> QED BY <1>1, <2>1 DEF SavedInv, Active, AfterPrimary, AfterBackup
<1>3. CASE SavePrimary(c) \/ SaveBackup(c)
  <2>1. /\ UNCHANGED job /\ stage' \in {"backup", "commit"} /\ Active
        /\ stage \in saved => stage' \in saved
    BY <1>3 DEF SavePrimary, SaveBackup, Active, AfterPrimary, AfterBackup
  <2> QED BY <1>1, <2>1 DEF SavedInv
<1>4. CASE CommitCompaction(c)
  <2>1. /\ stage = "commit" /\ stage' = "unlink" /\ UNCHANGED job
        /\ job.manifest.tables = {job.id}
    BY <1>4 DEF CommitCompaction, EngineInv, JobInv, Active
  <2> QED BY <1>1, <2>1 DEF SavedInv, Active, AfterPrimary, AfterBackup
<1>5. CASE CommitFlush(c) \/ UnlinkDone(c) \/ DrainDone(c) \/ TaskRaises(c)
  <2>1. stage' \in {"pick", "free"}
    BY <1>5 DEF CommitFlush, UnlinkDone, DrainDone, TaskRaises, ReleaseLock
  <2> QED BY <1>1, <2>1 DEF SavedInv, Active, AfterPrimary, AfterBackup
<1> QED BY <1>2, <1>3, <1>4, <1>5

\* A manifest that is not written stays right, whatever the engine does.
LEMMA ManifestStays ==
    ASSUME EngineInv, [Next]_vars, NEW m, NEW saved, SavedInv(m, saved),
           saved \in {AfterPrimary, AfterBackup},
           stage' \in saved => stage \in saved
    PROVE  SavedInv(m, saved)'
<1>0. EngineInv'
  BY NextEngine
<1>1. ASSUME NEW c \in Clients, Call(c) \/ LockStep(c) PROVE SavedInv(m, saved)'
  BY <1>1, CallManifest
<1>2. ASSUME NEW c \in Clients, Drain(c) PROVE SavedInv(m, saved)'
  BY <1>0, <1>2, PickManifest, FileManifest, JobManifest DEF Drain
<1>3. ASSUME NEW c \in Clients, TaskRaises(c) PROVE SavedInv(m, saved)'
  BY <1>3, JobManifest
<1>4. CASE UNCHANGED <<stage, job, files, nextTableId, pendingFlushes>>
  BY <1>4, ManifestQuiet DEF SavedInv
<1>5. ASSUME NEW r \in Readers, QueryBegin(r) \/ Read(r) PROVE SavedInv(m, saved)'
  BY <1>4, <1>5 DEF QueryBegin, Read, ReadTable, FileMissing, CheckActive, QueryEnd,
                    lockVars, diskVars
<1>6. CASE UNCHANGED vars
  BY <1>4, <1>6 DEF vars, lockVars, diskVars
<1> QED BY <1>1, <1>2, <1>3, <1>5, <1>6 DEF Next

\* Only its own save writes a manifest.
LEMMA WhoWritesManifests ==
    ASSUME EngineInv, [Next]_vars
    PROVE  /\ \/ UNCHANGED primary /\ (stage' \in AfterPrimary => stage \in AfterPrimary)
              \/ /\ stage = "primary" /\ stage' = "backup" /\ primary' = job.manifest
                 /\ UNCHANGED <<files, job, tables, nextTableId, pendingFlushes>>
           /\ \/ UNCHANGED backup /\ (stage' \in AfterBackup => stage \in AfterBackup)
              \/ /\ stage = "backup" /\ stage' = "commit" /\ backup' = job.manifest
                 /\ UNCHANGED <<files, job, tables, nextTableId, pendingFlushes>>
<1> USE DEF AfterPrimary, AfterBackup
<1>1. ASSUME NEW c \in Clients, Call(c) \/ LockStep(c)
      PROVE  /\ UNCHANGED <<primary, backup>>
             /\ stage' = stage \/ stage' = "pick"
  BY <1>1 DEF Call, LockStep, AppendRows, Flush, Compact, Close, Acquire, CloseFirst,
              CloseAgain, TakeLock, lockVars, diskVars
<1>2. ASSUME NEW c \in Clients,
             \/ PickFlush(c) \/ PickCompaction(c) \/ DrainDone(c) \/ WriteTable(c)
             \/ BuildManifest(c) \/ CommitFlush(c) \/ CommitCompaction(c) \/ UnlinkNext(c)
             \/ UnlinkDone(c) \/ TaskRaises(c)
      PROVE  /\ UNCHANGED <<primary, backup>>
             /\ stage' = stage \/ stage' \notin {"backup", "commit"}
  BY <1>2 DEF PickFlush, PickCompaction, DrainDone, WriteTable, BuildManifest, CommitFlush,
              CommitCompaction, UnlinkNext, UnlinkDone, TaskRaises, StartFlush,
              StartCompaction, ReleaseLock, diskVars
<1>3. ASSUME NEW c \in Clients, SavePrimary(c)
      PROVE  /\ stage = "primary" /\ stage' = "backup" /\ primary' = job.manifest
             /\ UNCHANGED <<backup, files, job, tables, nextTableId, pendingFlushes>>
  BY <1>3 DEF SavePrimary
<1>4. ASSUME NEW c \in Clients, SaveBackup(c)
      PROVE  /\ stage = "backup" /\ stage' = "commit" /\ backup' = job.manifest
             /\ UNCHANGED <<primary, files, job, tables, nextTableId, pendingFlushes>>
  BY <1>4 DEF SaveBackup
<1>5. ASSUME NEW r \in Readers, QueryBegin(r) \/ Read(r)
      PROVE  UNCHANGED <<primary, backup, stage>>
  BY <1>5 DEF QueryBegin, Read, ReadTable, FileMissing, CheckActive, QueryEnd, lockVars,
              diskVars
<1>6. CASE UNCHANGED vars
  BY <1>6 DEF vars, lockVars, diskVars
<1> QED BY <1>1, <1>2, <1>3, <1>4, <1>5, <1>6 DEF Next, Drain

LEMMA NextPrimary ==
    ASSUME EngineInv, PrimaryInv, [Next]_vars PROVE PrimaryInv'
<1>1. CASE UNCHANGED primary /\ (stage' \in AfterPrimary => stage \in AfterPrimary)
  <2>1. PICK m : m = primary
    OBVIOUS
  <2>2. SavedInv(m, AfterPrimary)'
    BY <1>1, <2>1, ManifestStays DEF PrimaryInv
  <2> QED BY <1>1, <2>1, <2>2 DEF PrimaryInv
<1>2. CASE /\ stage = "primary" /\ stage' = "backup" /\ primary' = job.manifest
           /\ UNCHANGED <<files, job, tables, nextTableId, pendingFlushes>>
  BY <1>2, JobManifestSaved DEF PrimaryInv, AfterPrimary
<1> QED BY <1>1, <1>2, WhoWritesManifests

LEMMA NextBackup ==
    ASSUME EngineInv, BackupInv, [Next]_vars PROVE BackupInv'
<1>1. CASE UNCHANGED backup /\ (stage' \in AfterBackup => stage \in AfterBackup)
  <2>1. PICK m : m = backup
    OBVIOUS
  <2>2. SavedInv(m, AfterBackup)'
    BY <1>1, <2>1, ManifestStays DEF BackupInv
  <2> QED BY <1>1, <2>1, <2>2 DEF BackupInv
<1>2. CASE /\ stage = "backup" /\ stage' = "commit" /\ backup' = job.manifest
           /\ UNCHANGED <<files, job, tables, nextTableId, pendingFlushes>>
  BY <1>2, JobManifestSaved DEF BackupInv, AfterBackup
<1> QED BY <1>1, <1>2, WhoWritesManifests

LEMMA InitInv == Init => Inv
<1> SUFFICES ASSUME Init PROVE Inv
  OBVIOUS
<1>1. EmptyManifest \in Manifests
  BY DEF EmptyManifest, Manifests, Versions
<1>2. PrimaryInv /\ BackupInv
  BY <1>1 DEF Init, PrimaryInv, BackupInv, SavedInv, EmptyManifest, AfterPrimary, AfterBackup
<1> QED BY <1>2, InitEngine DEF Inv

LEMMA NextInv == Inv /\ [Next]_vars => Inv'
BY NextEngine, NextPrimary, NextBackup DEF Inv

-----------------------------------------------------------------------------
(* What follows from the invariants.                                       *)

\* Inv holds in every reachable state, whatever the threads, batches and
\* thresholds are.
THEOREM Invariance == Spec => []Inv
BY InitInv, NextInv, PTL DEF Spec

\* The state keeps its shape and one client at most drains, between its taking
\* _maintenance_lock and its return.
THEOREM TypeCorrect == Spec => []TypeOK
<1>1. Inv => TypeOK
  BY DEF Inv, EngineInv, PrimaryInv, BackupInv, SavedInv, TypeOK
<1> QED BY <1>1, Invariance, PTL

\* ManifestStore.save never raises for the manifest of a flush or a compaction,
\* however the reservations of ids by appenders and by the drainer interleave.
THEOREM ManifestsAreValid == Spec => []ManifestAlwaysValid
<1>1. Inv => ManifestAlwaysValid
  <2> SUFFICES ASSUME Inv, stage = "primary" PROVE ValidManifest(job.manifest, job.id)
    BY DEF ManifestAlwaysValid
  <2>1. /\ job.manifest.tables = (tables \ job.candidates) \cup {job.id}
        /\ job.id < job.manifest.next
    BY DEF Inv, EngineInv, JobInv
  <2>2. \A t \in tables : t < job.id
    BY DEF Inv, EngineInv, IdInv, Active
  <2> QED BY <2>1, <2>2 DEF ValidManifest
<1> QED BY <1>1, Invariance, PTL

\* At every instant each file that _tables or one of the two manifests names
\* exists: a process that dies there finds a manifest it can open.
THEOREM NamedFilesExist == Spec => []FilesExist
<1>1. Inv => FilesExist
  BY DEF Inv, EngineInv, TablesExist, PrimaryInv, BackupInv, SavedInv, FilesExist
<1> QED BY <1>1, Invariance, PTL

\* query_range never raises because of a compaction that runs beside it.
THEOREM QueriesDoNotRaise == Spec => []QueryNeverRaises
<1>1. Inv => QueryNeverRaises
  BY DEF Inv, EngineInv, QueryInv, QueryNeverRaises
<1> QED BY <1>1, Invariance, PTL
=============================================================================
