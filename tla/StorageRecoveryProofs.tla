------------------------- MODULE StorageRecoveryProofs -------------------------
(***************************************************************************)
(* What holds of StorageRecovery for every value of its constants: the     *)
(* shape of the state through any crashes, exits and damage; that no name  *)
(* of a file is used twice; that recover() opens what was durable, and     *)
(* orders it; and that the disk implements PrefixStore.                    *)
(***************************************************************************)
EXTENDS RecoveryRefinement, StorageRefinementProofs

\* The memory of a process that has not accepted anything yet, with the tables
\* ids and next as the first id to give.
Fresh(ids, next) ==
    /\ memtable = EmptyMemtable
    /\ tables = ids
    /\ nextTableId = next
    /\ pendingFlushes = <<>>
    /\ holder = NoClient
    /\ stage = "free"
    /\ job = NoJob
    /\ closed = FALSE
    /\ pc = [c \in Clients |-> "idle"]
    /\ query = [r \in Readers |-> NoQuery]

\* A manifest that opens: its next id is above those of its tables.
WellFormed(m) == \A t \in m.tables : t < m.next

\* What is on disk, whatever happened to it.
DiskInv ==
    /\ \E bound \in Nat : \A t \in DOMAIN files : t <= bound
    /\ damaged \subseteq DOMAIN files
    /\ primary \in Manifests \cup {Unreadable} /\ WellFormed(primary)
    /\ backup \in Manifests \cup {Unreadable} /\ WellFormed(backup)

\* Where recover() goes on with a manifest it has chosen.
Chosen == {"orphans", "save primary", "save backup", "open"}

RecoverInv ==
    /\ phase \in Phases
    /\ resave \in BOOLEAN
    /\ found \in Manifests /\ WellFormed(found)
    /\ todo \subseteq DOMAIN files
    /\ phase \notin {"rebuild", "orphans"} => todo = {}
    /\ phase \in Chosen => found.tables \subseteq DOMAIN files \ damaged
    /\ phase = "orphans" => todo \cap found.tables = {}

\* The stages of a job that has written its file.
Written == {"build", "primary", "backup", "commit", "unlink"}

\* The engine uses whole files only, and has nothing in memory unless it is open.
OpenInv ==
    /\ phase # "up" => Fresh({}, 1)
    /\ tables \cap damaged = {}
    /\ job.candidates \cap damaged = {}
    /\ stage \in Written => job.id \notin damaged

RestartInv == EngineInv /\ DiskInv /\ RecoverInv /\ OpenInv

-----------------------------------------------------------------------------
(* A new process.                                                          *)

\* The types of what outlives a process.
OutlivesOK ==
    /\ DOMAIN files \subseteq Versions
    /\ \A t \in DOMAIN files : files[t] \in Runs
    /\ log \in Seq(SUBSET Keys)
    /\ lost \subseteq Versions
    /\ faults \in Nat /\ unlinkFaults \in Nat

\* A process that has just opened tables of which the files exist.
Opened ==
    /\ Fresh(tables, nextTableId)
    /\ tables \subseteq DOMAIN files
    /\ nextTableId \in Versions
    /\ \A t \in tables : t < nextTableId
    /\ OutlivesOK

LEMMA FreshEngine == Opened => EngineInv
<1> SUFFICES ASSUME Opened PROVE EngineInv
  OBVIOUS
<1> USE DEF Opened
<1>1. NoPoints \in Runs /\ NoJob \in Jobs /\ NoJob.candidates = {}
  BY NoPointsType, NoJobType DEF NoJob
<1>2. memtable \in [rows : Nat, points : Nat, data : Runs]
  BY <1>1 DEF Fresh, EmptyMemtable
<1>3. NoQuery \in Queries /\ NoQuery.pc = "idle" /\ NoQuery.todo = {}
  BY <1>1 DEF NoQuery, Queries
<1>4. EngineTypeOK
  <2>1. /\ pendingFlushes \in Seq([id : Versions, data : Runs])
        /\ stage \in Stages /\ closed \in BOOLEAN /\ holder \in Clients \cup {NoClient}
    BY EmptySeq DEF Fresh, Stages
  <2>2. /\ pc \in [Clients -> {"idle", "waiting", "closing", "draining"}]
        /\ \A c \in Clients : pc[c] = "draining" <=> holder = c
    BY NoClientAssumption DEF Fresh
  <2>3. query \in [Readers -> Queries]
    BY <1>3 DEF Fresh
  <2>4. tables \subseteq Versions
    BY DEF OutlivesOK
  <2> QED BY <1>1, <1>2, <2>1, <2>2, <2>3, <2>4 DEF EngineTypeOK, Fresh, OutlivesOK
<1>5. IdInv /\ JobInv /\ TablesExist
  BY DEF Fresh, IdInv, JobInv, TablesExist, Active
<1>6. QueryInv
  BY <1>3 DEF Fresh, QueryInv
<1> QED BY <1>4, <1>5, <1>6 DEF EngineInv

LEMMA NextFreshEngine == Opened' => EngineInv'
BY FreshEngine, PTL

LEMMA Outlives == EngineInv => OutlivesOK
BY DEF EngineInv, EngineTypeOK, OutlivesOK

LEMMA ResetEngine == OutlivesOK' /\ Fresh({}, 1)' => EngineInv'
<1> SUFFICES ASSUME OutlivesOK', Fresh({}, 1)' PROVE Opened'
  BY NextFreshEngine
<1> QED BY DEF Opened, Fresh, Versions

-----------------------------------------------------------------------------
(* The open engine.                                                        *)

\* Which files a step of the engine writes and deletes, and which it takes up.
LEMMA StepOfFiles ==
    ASSUME EngineInv, Next
    PROVE  \/ /\ stage = "write" /\ stage' = "build" /\ UNCHANGED <<tables, job>>
              /\ UNCHANGED <<nextTableId, pendingFlushes>>
              /\ DOMAIN files' = DOMAIN files \cup {job.id}
              /\ \A t \in DOMAIN files \ {job.id} : files'[t] = files[t]
              /\ files'[job.id] = IF job.kind = "flush" THEN job.data
                                  ELSE MergeRuns(job.candidates)
           \/ /\ stage = "unlink" /\ stage' = "unlink" /\ UNCHANGED tables
              /\ job'.id = job.id /\ job'.candidates \subseteq job.candidates
              /\ DOMAIN files' \subseteq DOMAIN files
              /\ DOMAIN files \ DOMAIN files' \subseteq job.candidates \ job'.candidates
              /\ \A t \in DOMAIN files' : files'[t] = files[t]
           \/ /\ UNCHANGED files /\ ~(stage = "write" /\ stage' = "build")
              /\ tables' \subseteq tables \cup (IF stage = "commit" THEN {job.id} ELSE {})
              /\ job'.candidates \subseteq job.candidates \cup tables
              /\ stage' \in Written => stage \in Written /\ job'.id = job.id
<1> USE DEF Written
<1>1. ASSUME NEW c \in Clients, WriteTable(c)
      PROVE  /\ stage = "write" /\ stage' = "build" /\ UNCHANGED <<tables, job>>
             /\ UNCHANGED <<nextTableId, pendingFlushes>>
             /\ DOMAIN files' = DOMAIN files \cup {job.id}
             /\ \A t \in DOMAIN files \ {job.id} : files'[t] = files[t]
             /\ files'[job.id] = IF job.kind = "flush" THEN job.data
                                 ELSE MergeRuns(job.candidates)
  BY <1>1 DEF WriteTable
<1>2. ASSUME NEW c \in Clients, UnlinkNext(c)
      PROVE  /\ stage = "unlink" /\ stage' = "unlink" /\ UNCHANGED tables
             /\ job'.id = job.id /\ job'.candidates \subseteq job.candidates
             /\ DOMAIN files' \subseteq DOMAIN files
             /\ DOMAIN files \ DOMAIN files' \subseteq job.candidates \ job'.candidates
             /\ \A t \in DOMAIN files' : files'[t] = files[t]
  <2>1. PICK t \in job.candidates :
          /\ job' = [job EXCEPT !.candidates = @ \ {t}]
          /\ files' = [u \in DOMAIN files \ {t} |-> files[u]] \/ UNCHANGED files
    BY <1>2 DEF UnlinkNext
  <2>2. job'.id = job.id /\ job'.candidates = job.candidates \ {t}
    BY <2>1 DEF EngineInv, EngineTypeOK, Jobs
  <2> QED BY <1>2, <2>1, <2>2 DEF UnlinkNext
<1>3. ASSUME NEW c \in Clients,
             \/ PickFlush(c) \/ PickCompaction(c) \/ DrainDone(c) \/ CommitFlush(c)
             \/ UnlinkDone(c) \/ TaskRaises(c)
      PROVE  /\ UNCHANGED files /\ stage' \notin Written
             /\ tables' \subseteq tables \cup (IF stage = "commit" THEN {job.id} ELSE {})
             /\ job'.candidates \subseteq job.candidates \cup tables
  <2>1. stage = "pick" => stage' \in {"pick", "write", "free"}
    BY <1>3 DEF PickFlush, PickCompaction, DrainDone, CommitFlush, UnlinkDone, TaskRaises,
                StartFlush, StartCompaction, ReleaseLock
  <2>2. stage # "pick" => stage' \in {"pick", "free"}
    BY <1>3 DEF PickFlush, PickCompaction, DrainDone, CommitFlush, UnlinkDone, TaskRaises,
                ReleaseLock
  <2>3. job'.candidates \subseteq job.candidates \cup tables
    <3>1. CASE PickFlush(c)
      BY <3>1 DEF PickFlush, StartFlush, NoJob
    <3>2. CASE PickCompaction(c)
      BY <3>2 DEF PickCompaction, StartCompaction, NoJob
    <3>3. CASE DrainDone(c) \/ CommitFlush(c) \/ UnlinkDone(c) \/ TaskRaises(c)
      BY <3>3 DEF DrainDone, CommitFlush, UnlinkDone, TaskRaises, ReleaseLock, NoJob
    <3> QED BY <1>3, <3>1, <3>2, <3>3
  <2>4. /\ UNCHANGED files
        /\ tables' \subseteq tables \cup (IF stage = "commit" THEN {job.id} ELSE {})
    BY <1>3 DEF PickFlush, PickCompaction, DrainDone, CommitFlush, UnlinkDone, TaskRaises,
                diskVars
  <2> QED BY <2>1, <2>2, <2>3, <2>4
<1>4. ASSUME NEW c \in Clients,
             BuildManifest(c) \/ SavePrimary(c) \/ SaveBackup(c) \/ CommitCompaction(c)
      PROVE  /\ UNCHANGED files /\ stage \in Written
             /\ tables' \subseteq tables \cup (IF stage = "commit" THEN {job.id} ELSE {})
             /\ job'.candidates = job.candidates /\ job'.id = job.id
  <2>1. CASE BuildManifest(c)
    BY <2>1 DEF BuildManifest, diskVars, EngineInv, EngineTypeOK, Jobs
  <2>2. CASE SavePrimary(c) \/ SaveBackup(c)
    BY <2>2 DEF SavePrimary, SaveBackup
  <2>3. CASE CommitCompaction(c)
    BY <2>3 DEF CommitCompaction, diskVars, EngineInv, JobInv, Active
  <2> QED BY <1>4, <2>1, <2>2, <2>3
<1>5. ASSUME NEW c \in Clients, Call(c) \/ LockStep(c)
      PROVE  /\ UNCHANGED <<files, tables, job>>
             /\ UNCHANGED stage \/ stage' = "pick"
  BY <1>5 DEF Call, LockStep, AppendRows, Flush, Compact, Close, Acquire, CloseFirst,
              CloseAgain, TakeLock, lockVars, diskVars
<1>6. ASSUME NEW r \in Readers, QueryBegin(r) \/ Read(r)
      PROVE  UNCHANGED <<files, tables, job, stage>>
  BY <1>6 DEF QueryBegin, Read, ReadTable, FileMissing, CheckActive, QueryEnd, lockVars,
              diskVars
<1> QED BY <1>1, <1>2, <1>3, <1>4, <1>5, <1>6 DEF Next, Drain

\* The manifest of a job opens.
LEMMA JobWellFormed ==
    ASSUME EngineInv, stage \in {"primary", "backup", "commit"}
    PROVE  job.manifest \in Manifests /\ WellFormed(job.manifest)
<1>1. /\ job.manifest.tables = (tables \ job.candidates) \cup {job.id}
      /\ job.id < job.manifest.next /\ job.id \in Nat /\ job.manifest \in Manifests
      /\ \A t \in tables : t \in Nat /\ t < job.id
  BY DEF EngineInv, EngineTypeOK, JobInv, IdInv, Active, Versions, Jobs
<1>2. job.manifest.next \in Nat
  BY <1>1 DEF Manifests, Versions
<1> QED BY <1>1, <1>2 DEF WellFormed

LEMMA RunningRestart ==
    ASSUME RestartInv, Running
    PROVE  RestartInv'
<1>1. /\ EngineInv /\ DiskInv /\ RecoverInv /\ OpenInv
      /\ phase = "up" /\ Next
      /\ damaged' = IF stage = "write" /\ stage' = "build" THEN damaged \ {job.id} ELSE damaged
      /\ UNCHANGED <<phase, found, todo, resave>>
  BY DEF RestartInv, Running, recoverVars
<1>2. EngineInv'
  BY <1>1, NextEngine
<1>3. RecoverInv'
  BY <1>1 DEF RecoverInv, Chosen, WellFormed
<1>4. /\ primary' \in Manifests \cup {Unreadable} /\ WellFormed(primary')
      /\ backup' \in Manifests \cup {Unreadable} /\ WellFormed(backup')
  BY <1>1, WhoWritesManifests, JobWellFormed DEF DiskInv
<1>5. /\ \E bound \in Nat : \A t \in DOMAIN files' : t <= bound
      /\ damaged' \subseteq DOMAIN files'
      /\ OpenInv'
  <2>1. PICK bound \in Nat : \A t \in DOMAIN files : t <= bound
    BY <1>1 DEF DiskInv
  <2>2. CASE /\ stage = "write" /\ stage' = "build" /\ UNCHANGED <<tables, job>>
             /\ DOMAIN files' = DOMAIN files \cup {job.id}
    <3>1. job.id \in Nat /\ \A t \in DOMAIN files : t \in Nat
      BY <1>1, <2>2 DEF EngineInv, EngineTypeOK, JobInv, Active, Versions
    <3>2. bound + job.id \in Nat /\ \A t \in DOMAIN files' : t <= bound + job.id
      BY <2>1, <2>2, <3>1
    <3> QED BY <1>1, <2>2, <3>2 DEF DiskInv, OpenInv
  <2>3. CASE /\ stage = "unlink" /\ stage' = "unlink" /\ UNCHANGED tables
             /\ job'.id = job.id /\ job'.candidates \subseteq job.candidates
             /\ DOMAIN files' \subseteq DOMAIN files
             /\ DOMAIN files \ DOMAIN files' \subseteq job.candidates \ job'.candidates
    BY <1>1, <2>1, <2>3 DEF DiskInv, OpenInv, Written
  <2>4. CASE /\ UNCHANGED files /\ ~(stage = "write" /\ stage' = "build")
             /\ tables' \subseteq tables \cup (IF stage = "commit" THEN {job.id} ELSE {})
             /\ job'.candidates \subseteq job.candidates \cup tables
             /\ stage' \in Written => stage \in Written /\ job'.id = job.id
    BY <1>1, <2>1, <2>4 DEF DiskInv, OpenInv, Written
  <2> QED BY <1>1, <2>2, <2>3, <2>4, StepOfFiles
<1> QED BY <1>2, <1>3, <1>4, <1>5 DEF RestartInv, DiskInv

-----------------------------------------------------------------------------
(* The end of a process, and what happens to its disk.                     *)

LEMMA InMemoryType == EngineInv => InMemoryOnly \subseteq Versions
<1> SUFFICES ASSUME EngineInv PROVE InMemoryOnly \subseteq Versions
  OBVIOUS
<1>1. /\ \A k \in Keys : memtable.data[k] \subseteq Versions /\ job.data[k] \subseteq Versions
      /\ \A n \in DOMAIN pendingFlushes, k \in Keys :
            pendingFlushes[n].data[k] \subseteq Versions
  BY PendingType DEF EngineInv, EngineTypeOK, Runs, Jobs
<1>2. \A i \in InMemoryOnly :
         \/ \E k \in Keys : i \in memtable.data[k] \/ i \in job.data[k]
         \/ \E n \in DOMAIN pendingFlushes : \E k \in Keys : i \in pendingFlushes[n].data[k]
  <2> DEFINE mem == UNION {memtable.data[k] : k \in Keys}
             queued == UNION {UNION {pendingFlushes[n].data[k] : k \in Keys} :
                                n \in DOMAIN pendingFlushes}
             flushed == UNION {job.data[k] : k \in Keys}
  <2>1. \A i \in InMemoryOnly : i \in mem \/ i \in queued \/ i \in flushed
    <3>1. InMemoryOnly = mem \cup queued
                         \cup (IF FlushInProgress /\ job.id \notin primary.tables
                              THEN flushed ELSE {})
      BY DEF InMemoryOnly
    <3> HIDE DEF mem, queued, flushed
    <3> QED BY <3>1
  <2>2. ASSUME NEW run, NEW i \in UNION {run[k] : k \in Keys} PROVE \E k \in Keys : i \in run[k]
    OBVIOUS
  <2>3. ASSUME NEW i \in UNION {UNION {pendingFlushes[n].data[k] : k \in Keys} :
                              n \in DOMAIN pendingFlushes}
        PROVE  \E n \in DOMAIN pendingFlushes : \E k \in Keys : i \in pendingFlushes[n].data[k]
    OBVIOUS
  <2> QED BY <2>1, <2>2, <2>3
<1> QED BY <1>1, <1>2

LEMMA EmptyOpens ==
    /\ EmptyManifest \in Manifests /\ WellFormed(EmptyManifest)
    /\ EmptyManifest.tables = {}
BY DEF EmptyManifest, Manifests, Versions, WellFormed

LEMMA GoneRestart ==
    ASSUME RestartInv, MemoryGone, phase' = "down", UNCHANGED <<diskVars, damaged>>,
           OutlivesOK'
    PROVE  RestartInv'
<1>1. Fresh({}, 1)'
  BY DEF MemoryGone, Fresh
<1>2. EngineInv'
  BY <1>1, ResetEngine
<1>3. DiskInv'
  BY DEF RestartInv, DiskInv, diskVars, WellFormed
<1>4. RecoverInv'
  BY EmptyOpens DEF MemoryGone, LocalsGone, RecoverInv, Chosen, WellFormed, Phases
<1>5. OpenInv'
  BY <1>1 DEF OpenInv, Fresh, NoJob, Written
<1> QED BY <1>2, <1>3, <1>4, <1>5 DEF RestartInv

LEMMA CrashRestart == ASSUME RestartInv, Crash PROVE RestartInv'
<1>1. /\ MemoryGone /\ phase' = "down" /\ UNCHANGED <<diskVars, damaged>>
      /\ lost' = lost \cup InMemoryOnly /\ UNCHANGED <<files, log, faults, unlinkFaults>>
  BY DEF Crash, diskVars
<1>2. OutlivesOK /\ InMemoryOnly \subseteq Versions
  BY Outlives, InMemoryType DEF RestartInv
<1>3. OutlivesOK'
  BY <1>1, <1>2 DEF OutlivesOK
<1> QED BY <1>1, <1>3, GoneRestart

LEMMA ExitRestart == ASSUME RestartInv, Exit PROVE RestartInv'
<1>1. /\ MemoryGone /\ phase' = "down" /\ UNCHANGED <<diskVars, damaged>>
      /\ UNCHANGED <<files, log, lost, faults, unlinkFaults>>
  BY DEF Exit, diskVars, historyVars
<1>2. OutlivesOK'
  BY <1>1, Outlives DEF RestartInv, OutlivesOK
<1> QED BY <1>1, <1>2, GoneRestart

\* A step with no engine open, and of the files only fewer.
LEMMA ClosedStep ==
    ASSUME RestartInv, phase # "up", phase' # "up", UNCHANGED <<memoryVars, historyVars>>,
           DOMAIN files' \subseteq DOMAIN files, \A t \in DOMAIN files' : files'[t] = files[t],
           damaged' \subseteq DOMAIN files',
           primary' \in {primary, Unreadable, EmptyManifest, found},
           backup' \in {backup, Unreadable, EmptyManifest, found},
           RecoverInv'
    PROVE  RestartInv'
<1>1. Fresh({}, 1)'
  BY DEF RestartInv, OpenInv, Fresh, memoryVars, lockVars
<1>2. OutlivesOK'
  <2>1. OutlivesOK
    BY Outlives DEF RestartInv
  <2> QED BY <2>1 DEF OutlivesOK, historyVars
<1>3. EngineInv'
  BY <1>1, <1>2, ResetEngine
<1>4. OpenInv'
  BY <1>1 DEF OpenInv, Fresh, NoJob, Written
<1>5. DiskInv'
  <2>1. \A m \in {Unreadable, EmptyManifest} : m \in Manifests \cup {Unreadable} /\ WellFormed(m)
    BY DEF Unreadable, EmptyManifest, Manifests, Versions, WellFormed
  <2>2. found \in Manifests /\ WellFormed(found)
    BY DEF RestartInv, RecoverInv
  <2>3. \E bound \in Nat : \A t \in DOMAIN files' : t <= bound
    BY DEF RestartInv, DiskInv
  <2>4. /\ primary' \in Manifests \cup {Unreadable} /\ WellFormed(primary')
        /\ backup' \in Manifests \cup {Unreadable} /\ WellFormed(backup')
    BY <2>1, <2>2 DEF RestartInv, DiskInv
  <2> QED BY <2>3, <2>4 DEF DiskInv
<1> QED BY <1>3, <1>4, <1>5 DEF RestartInv

LEMMA DamageRestart == ASSUME RestartInv, Damage PROVE RestartInv'
<1>1. /\ phase = "down" /\ UNCHANGED <<memoryVars, historyVars, recoverVars, files>>
      /\ primary' \in {primary, Unreadable} /\ backup' \in {backup, Unreadable}
      /\ damaged' \subseteq DOMAIN files
  BY DEF Damage, DamageManifest, DamageTable, diskVars, RestartInv, DiskInv
<1>2. RecoverInv'
  BY <1>1 DEF RestartInv, RecoverInv, recoverVars, Chosen, WellFormed
<1> QED BY <1>1, <1>2, ClosedStep DEF recoverVars

-----------------------------------------------------------------------------
(* recover().                                                              *)

LEMMA NextIdFacts ==
    ASSUME NEW ids \in SUBSET Versions, NEW bound \in Nat, \A t \in ids : t <= bound
    PROVE  NextIdAfter(ids) \in Versions /\ \A t \in ids : t < NextIdAfter(ids)
<1>1. CASE ids = {}
  BY <1>1 DEF NextIdAfter, Versions
<1>2. CASE ids # {}
  <2>1. ids \in SUBSET Nat
    BY DEF Versions
  <2>2. \E x \in ids : \A y \in ids : y <= x
    BY <1>2, <2>1, MaxExists
  <2> DEFINE top == CHOOSE t \in ids : \A u \in ids : u <= t
  <2>3. top \in ids /\ \A u \in ids : u <= top
    BY <2>2
  <2>4. NextIdAfter(ids) = top + 1
    BY <1>2 DEF NextIdAfter
  <2> HIDE DEF top
  <2>5. top \in Nat /\ \A t \in ids : t \in Nat
    BY <2>1, <2>3
  <2> QED BY <2>3, <2>4, <2>5 DEF Versions
<1> QED BY <1>1, <1>2

\* recover() goes on with a manifest of which every file is whole.
LEMMA GoOnRestart ==
    ASSUME RestartInv, phase # "up", NEW m \in Manifests, WellFormed(m), NEW save \in BOOLEAN,
           m.tables \subseteq DOMAIN files \ damaged, GoOnWith(m, save),
           UNCHANGED <<diskVars, damaged>>, RecoverStep
    PROVE  RestartInv'
<1>1. RecoverInv'
  BY DEF GoOnWith, RecoverInv, Phases, Chosen, WellFormed, diskVars
<1> QED BY <1>1, ClosedStep DEF GoOnWith, RecoverStep, diskVars, RestartInv, DiskInv

LEMMA LoadRestart ==
    ASSUME RestartInv, LoadPrimary \/ LoadBackup
    PROVE  RestartInv'
<1>1. /\ phase \in {"load primary", "load backup"} /\ UNCHANGED <<diskVars, damaged>>
      /\ RecoverStep
  BY DEF LoadPrimary, LoadBackup
<1>2. \A m \in {primary, backup} :
         Valid(m) => m \in Manifests /\ WellFormed(m) /\ m.tables \subseteq DOMAIN files \ damaged
  BY DEF Valid, RestartInv, DiskInv
<1>3. CASE \E m \in {primary, backup}, save \in BOOLEAN : Valid(m) /\ GoOnWith(m, save)
  BY <1>1, <1>2, <1>3, GoOnRestart
<1>4. CASE phase' \in {"drop primary", "drop backup"} /\ UNCHANGED <<found, todo, resave>>
  <2>1. RecoverInv'
    BY <1>1, <1>4 DEF RestartInv, RecoverInv, Phases, Chosen, WellFormed, diskVars
  <2> QED BY <1>1, <1>4, <2>1, ClosedStep DEF RecoverStep, diskVars, RestartInv, DiskInv
<1> QED BY <1>3, <1>4 DEF LoadPrimary, LoadBackup

LEMMA RebuildDoneRestart ==
    ASSUME RestartInv, RebuildDone
    PROVE  RestartInv'
<1> DEFINE whole == DOMAIN files \ damaged
           m == [next |-> NextIdAfter(whole), tables |-> whole]
<1>1. GoOnWith(m, TRUE) /\ phase # "up" /\ UNCHANGED <<diskVars, damaged>> /\ RecoverStep
  BY DEF RebuildDone
<1>2. PICK bound \in Nat : \A t \in DOMAIN files : t <= bound
  BY DEF RestartInv, DiskInv
<1>3. whole \in SUBSET Versions /\ \A t \in whole : t <= bound
  BY <1>2 DEF RestartInv, EngineInv, EngineTypeOK
<1>4. NextIdAfter(whole) \in Versions /\ \A t \in whole : t < NextIdAfter(whole)
  <2> HIDE DEF whole
  <2> QED BY <1>3, NextIdFacts
<1>5. m \in Manifests /\ WellFormed(m) /\ m.tables \subseteq DOMAIN files \ damaged
  BY <1>3, <1>4 DEF Manifests, WellFormed
<1> HIDE DEF m
<1> QED BY <1>1, <1>5, GoOnRestart

LEMMA DropManifestRestart ==
    ASSUME RestartInv, DropPrimary \/ DropBackup \/ Restart
    PROVE  RestartInv'
<1>1. /\ phase # "up" /\ phase' # "up" /\ UNCHANGED <<found, resave, files, damaged>>
      /\ phase' \in {"load primary", "load backup", "rebuild"}
      /\ RecoverStep
      /\ primary' \in {primary, EmptyManifest} /\ backup' \in {backup, EmptyManifest}
  BY DEF DropPrimary, DropBackup, Restart, diskVars
<1>2. RecoverInv'
  <2>1. todo' = {} \/ (phase' = "rebuild" /\ todo' = damaged)
    BY DEF DropPrimary, DropBackup, Restart, RestartInv, RecoverInv
  <2> QED BY <1>1, <2>1 DEF RestartInv, DiskInv, RecoverInv, Phases, Chosen, WellFormed
<1> QED BY <1>1, <1>2, ClosedStep DEF RecoverStep, RestartInv, DiskInv

\* What quarantining the file t, or failing to, does to the disk.
LEMMA QuarantineFacts ==
    ASSUME NEW t, MoveFile(t) \/ KeepFile
    PROVE  /\ DOMAIN files' \in {DOMAIN files, DOMAIN files \ {t}}
           /\ \A u \in DOMAIN files' : files'[u] = files[u]
           /\ \/ DOMAIN files' = DOMAIN files /\ damaged' = damaged
              \/ DOMAIN files' = DOMAIN files \ {t} /\ damaged' = damaged \ {t}
BY DEF MoveFile, KeepFile

LEMMA QuarantineRestart ==
    ASSUME RestartInv, RebuildNext \/ DropOrphan
    PROVE  RestartInv'
<1>1. /\ phase \in {"rebuild", "orphans"} /\ UNCHANGED <<phase, found, primary, backup>>
      /\ RecoverStep
  BY DEF RebuildNext, DropOrphan
<1>2. PICK t \in todo : todo' = todo \ {t} /\ (MoveFile(t) \/ KeepFile)
  BY DEF RebuildNext, DropOrphan
<1>3. resave' \in BOOLEAN
  BY DEF RebuildNext, DropOrphan, RestartInv, RecoverInv
<1>4. RecoverInv'
  BY <1>1, <1>2, <1>3, QuarantineFacts DEF RestartInv, RecoverInv, Chosen, WellFormed
<1> QED BY <1>1, <1>2, <1>4, QuarantineFacts, ClosedStep DEF RecoverStep, RestartInv, DiskInv

LEMMA SaveRestart ==
    ASSUME RestartInv, OrphansDone \/ ResavePrimary \/ ResaveBackup
    PROVE  RestartInv'
<1>1. /\ phase # "up" /\ UNCHANGED <<found, todo, resave, files, damaged>>
      /\ phase' \in {"save primary", "save backup", "open"}
      /\ RecoverStep
      /\ primary' \in {primary, found} /\ backup' \in {backup, found}
  BY DEF OrphansDone, ResavePrimary, ResaveBackup, diskVars
<1>2. todo = {} /\ phase \in Chosen
  BY DEF OrphansDone, ResavePrimary, ResaveBackup, RestartInv, RecoverInv, Chosen
<1>3. RecoverInv'
  BY <1>1, <1>2 DEF RestartInv, RecoverInv, Phases, Chosen, WellFormed
<1> QED BY <1>1, <1>3, ClosedStep DEF RecoverStep, RestartInv, DiskInv

\* The engine that opens gives ids above those of its tables.
LEMMA OpenRestart ==
    ASSUME RestartInv, Open
    PROVE  RestartInv'
<1>1. /\ phase = "open" /\ phase' = "up" /\ tables' = found.tables /\ nextTableId' = found.next
      /\ UNCHANGED <<files, primary, backup, damaged, log, lost, faults, unlinkFaults>>
      /\ found' = EmptyManifest /\ todo' = {} /\ resave' = FALSE
      /\ Fresh({}, 1)
  BY DEF Open, LocalsGone, diskVars, historyVars, RestartInv, OpenInv
<1>2. /\ found \in Manifests /\ WellFormed(found)
      /\ found.tables \subseteq DOMAIN files \ damaged
  BY <1>1 DEF RestartInv, RecoverInv, Chosen
<1>3. Fresh(tables, nextTableId)'
  BY <1>1 DEF Open, Fresh, lockVars
<1>4. OutlivesOK'
  <2>1. OutlivesOK
    BY Outlives DEF RestartInv
  <2> QED BY <1>1, <2>1 DEF OutlivesOK
<1>5. EngineInv'
  <2>1. Opened'
    BY <1>1, <1>2, <1>3, <1>4 DEF Opened, Fresh, Manifests, WellFormed
  <2> QED BY <2>1, NextFreshEngine
<1>6. DiskInv'
  BY <1>1 DEF RestartInv, DiskInv, WellFormed
<1>7. RecoverInv'
  BY <1>1, EmptyOpens DEF RecoverInv, Phases, Chosen, WellFormed
<1>8. OpenInv'
  BY <1>1, <1>2, <1>3 DEF OpenInv, Fresh, NoJob, Written
<1> QED BY <1>5, <1>6, <1>7, <1>8 DEF RestartInv

-----------------------------------------------------------------------------
(* RestartInv is an invariant.                                             *)

LEMMA NextRestart == RestartInv /\ [RecoveryNext]_allVars => RestartInv'
<1> SUFFICES ASSUME RestartInv, [RecoveryNext]_allVars PROVE RestartInv'
  OBVIOUS
<1>1. CASE RecoveryNext
  BY <1>1, RunningRestart, CrashRestart, ExitRestart, DamageRestart, LoadRestart,
     RebuildDoneRestart, DropManifestRestart, QuarantineRestart, SaveRestart, OpenRestart
  DEF RecoveryNext, Recover
<1>2. CASE UNCHANGED allVars
  <2>1. EngineInv'
    BY <1>2, NextEngine DEF allVars, RestartInv
  <2>2. DiskInv' /\ RecoverInv' /\ OpenInv'
    BY <1>2 DEF allVars, vars, recoverVars, diskVars, lockVars, RestartInv, DiskInv, RecoverInv,
                OpenInv, WellFormed, Fresh
  <2> QED BY <2>1, <2>2 DEF RestartInv
<1> QED BY <1>1, <1>2

LEMMA InitRestart == RecoveryInit => RestartInv
<1> SUFFICES ASSUME RecoveryInit PROVE RestartInv
  OBVIOUS
<1>1. Init /\ EngineInv
  BY InitEngine DEF RecoveryInit
<1>2. EmptyManifest \in Manifests /\ WellFormed(EmptyManifest)
  BY DEF EmptyManifest, Manifests, Versions, WellFormed
<1>3. DiskInv
  BY <1>1, <1>2 DEF RecoveryInit, Init, DiskInv
<1>4. RecoverInv
  BY <1>2 DEF RecoveryInit, RecoverInv, Phases, Chosen
<1>5. OpenInv
  BY <1>1 DEF RecoveryInit, Init, OpenInv, NoJob, Written
<1> QED BY <1>1, <1>3, <1>4, <1>5 DEF RestartInv

\* RestartInv holds in every reachable state, whatever dies, exits, breaks or
\* cannot be moved, and at whatever step.
THEOREM RestartInvariance == RecoverySpec => []RestartInv
BY InitRestart, NextRestart, PTL DEF RecoverySpec

\* Through crashes, exits, damage and stuck files: recover() never goes on with a
\* manifest that does not open, its scans look at files that exist, and nothing
\* of a process survives it but its disk.
THEOREM RecoveryTyped == RecoverySpec => []RecoveryTypeOK
<1>1. RestartInv => RecoveryTypeOK
  BY DEF RestartInv, DiskInv, RecoverInv, OpenInv, Fresh, RecoveryTypeOK
<1> QED BY <1>1, RestartInvariance, PTL
-----------------------------------------------------------------------------
(* The names of files, as long as every file that has to can be moved.     *)

\* The ids of files that are yet to be written.
IdsToCome == {pendingFlushes[n].id : n \in DOMAIN pendingFlushes}
             \cup (IF stage = "write" THEN {job.id} ELSE {})

\* They are above those of every file.
FileIdInv ==
    \A t \in DOMAIN files : t < nextTableId /\ \A id \in IdsToCome : t < id

\* Nothing is left in the directory that the manifest of recover() does not name.
NamesInv ==
    /\ quarantineFaults = 0
    /\ phase = "up" => FileIdInv
    /\ phase = "orphans" => DOMAIN files \subseteq found.tables \cup todo
    /\ phase \in {"save primary", "save backup", "open"} => DOMAIN files \subseteq found.tables

LEMMA StepOfIds ==
    ASSUME EngineInv, Next
    PROVE  /\ nextTableId' \in {nextTableId, nextTableId + 1}
           /\ \A id \in IdsToCome' : id \in IdsToCome \/ id = nextTableId
<1> USE DEF IdsToCome
<1>1. /\ pendingFlushes \in Seq([id : Versions, data : Runs])
      /\ NoJob = [kind |-> "none", id |-> 0, data |-> NoPoints,
                  candidates |-> {}, manifest |-> EmptyManifest]
      /\ job \in Jobs
  BY DEF EngineInv, EngineTypeOK, NoJob
<1>2. ASSUME NEW mt, EnqueueFlush(mt), stage' = "write" => stage = "write" /\ job'.id = job.id
      PROVE  /\ nextTableId' = nextTableId + 1
             /\ \A id \in IdsToCome' : id \in IdsToCome \/ id = nextTableId
  <2>1. \A n \in DOMAIN pendingFlushes' :
          \/ n \in DOMAIN pendingFlushes /\ pendingFlushes'[n] = pendingFlushes[n]
          \/ pendingFlushes'[n].id = nextTableId
    BY <1>1, <1>2 DEF EnqueueFlush
  <2> QED BY <1>2, <2>1 DEF EnqueueFlush
<1>3. ASSUME NEW c \in Clients, NEW b \in Batches, AppendRows(c, b)
      PROVE  /\ nextTableId' \in {nextTableId, nextTableId + 1}
             /\ \A id \in IdsToCome' : id \in IdsToCome \/ id = nextTableId
  <2>1. UNCHANGED <<stage, job>>
    BY <1>3 DEF AppendRows, lockVars
  <2>2. CASE EnqueueFlush(Appended(b))
    BY <2>1, <2>2, <1>2
  <2>3. CASE UNCHANGED <<nextTableId, pendingFlushes>>
    BY <2>1, <2>3
  <2> QED BY <1>3, <2>2, <2>3 DEF AppendRows
<1>4. ASSUME NEW c \in Clients, Flush(c) \/ CloseFirst(c)
      PROVE  /\ nextTableId' \in {nextTableId, nextTableId + 1}
             /\ \A id \in IdsToCome' : id \in IdsToCome \/ id = nextTableId
  <2>1. UNCHANGED job /\ (stage' = "write" => stage = "write")
    BY <1>4 DEF Flush, CloseFirst, TakeLock, lockVars
  <2>2. CASE EnqueueFlush(memtable)
    BY <2>1, <2>2, <1>2
  <2>3. CASE UNCHANGED <<nextTableId, pendingFlushes>>
    BY <2>1, <2>3
  <2> QED BY <1>4, <2>2, <2>3 DEF Flush, CloseFirst, NothingEnqueued
<1>5. ASSUME NEW c \in Clients, PickFlush(c)
      PROVE  /\ nextTableId' = nextTableId
             /\ \A id \in IdsToCome' : id \in IdsToCome \/ id = nextTableId
  <2>1. /\ nextTableId' = nextTableId /\ pendingFlushes # <<>> /\ stage = "pick"
        /\ pendingFlushes' = Tail(pendingFlushes)
        /\ stage' = "write" => job'.id = Head(pendingFlushes).id
    BY <1>5 DEF PickFlush, StartFlush, NoJob
  <2>2. /\ 1 \in DOMAIN pendingFlushes /\ Head(pendingFlushes) = pendingFlushes[1]
        /\ \A n \in DOMAIN pendingFlushes' :
              n + 1 \in DOMAIN pendingFlushes /\ pendingFlushes'[n] = pendingFlushes[n + 1]
    BY <1>1, <2>1
  <2> QED BY <2>1, <2>2
<1>6. ASSUME NEW c \in Clients, PickCompaction(c)
      PROVE  /\ nextTableId' = nextTableId + 1
             /\ \A id \in IdsToCome' : id \in IdsToCome \/ id = nextTableId
  <2>1. UNCHANGED pendingFlushes /\ nextTableId' = nextTableId + 1 /\ job'.id = nextTableId
    BY <1>6, <1>1 DEF PickCompaction, StartCompaction
  <2> QED BY <2>1
<1>7. ASSUME NEW c \in Clients,
             \/ DrainDone(c) \/ CommitFlush(c) \/ UnlinkDone(c) \/ TaskRaises(c) \/ WriteTable(c)
             \/ UnlinkNext(c) \/ BuildManifest(c) \/ SavePrimary(c) \/ SaveBackup(c)
             \/ CommitCompaction(c)
      PROVE  UNCHANGED <<pendingFlushes, nextTableId>> /\ stage' # "write"
  BY <1>7 DEF DrainDone, CommitFlush, UnlinkDone, TaskRaises, WriteTable, UnlinkNext,
              BuildManifest, SavePrimary, SaveBackup, CommitCompaction, ReleaseLock
<1>8. ASSUME NEW c \in Clients, Compact(c) \/ Close(c) \/ Acquire(c) \/ CloseAgain(c)
      PROVE  /\ UNCHANGED <<pendingFlushes, nextTableId, job>>
             /\ stage' = "write" => stage = "write"
  BY <1>8 DEF Compact, Close, Acquire, CloseAgain, TakeLock, lockVars
<1>9. ASSUME NEW r \in Readers, QueryBegin(r) \/ Read(r)
      PROVE  UNCHANGED <<pendingFlushes, nextTableId, job, stage>>
  BY <1>9 DEF QueryBegin, Read, ReadTable, FileMissing, CheckActive, QueryEnd, lockVars
<1> QED BY <1>3, <1>4, <1>5, <1>6, <1>7, <1>8, <1>9 DEF Next, Call, LockStep, Drain

\* Only the engine writes files; everything else takes some away at most.
LEMMA ClosedFiles ==
    ASSUME RecoveryNext, ~Running
    PROVE  DOMAIN files' \subseteq DOMAIN files /\ \A t \in DOMAIN files' : files'[t] = files[t]
<1>1. CASE RebuildNext \/ DropOrphan
  <2>1. PICK t \in todo : MoveFile(t) \/ KeepFile
    BY <1>1 DEF RebuildNext, DropOrphan
  <2> QED BY <2>1, QuarantineFacts
<1>2. CASE UNCHANGED files
  BY <1>2
<1> QED BY <1>1, <1>2
  DEF RecoveryNext, Recover, Crash, Exit, Damage, DamageManifest, DamageTable, Restart,
      LoadPrimary, DropPrimary, LoadBackup, DropBackup, RebuildDone, OrphansDone, ResavePrimary,
      ResaveBackup, Open, diskVars

LEMMA RunningNames ==
    ASSUME RestartInv, NamesInv, Running
    PROVE  NamesInv'
<1>1. /\ EngineInv /\ Next /\ phase = "up" /\ phase' = "up" /\ FileIdInv
      /\ quarantineFaults' = quarantineFaults
  BY DEF RestartInv, NamesInv, Running, recoverVars, countVars
<1>2. /\ nextTableId' \in {nextTableId, nextTableId + 1} /\ nextTableId \in Nat
      /\ \A id \in IdsToCome' : id \in IdsToCome \/ id = nextTableId
      /\ \A t \in DOMAIN files : t \in Nat
  BY <1>1, StepOfIds DEF EngineInv, EngineTypeOK, Versions
<1>3. \A t \in DOMAIN files : t < nextTableId' /\ \A id \in IdsToCome' : t < id
  BY <1>1, <1>2 DEF FileIdInv
<1>4. FileIdInv'
  <2>1. CASE DOMAIN files' \subseteq DOMAIN files
    BY <1>3, <2>1 DEF FileIdInv
  <2>2. CASE /\ stage = "write" /\ stage' = "build"
             /\ UNCHANGED <<nextTableId, pendingFlushes>>
             /\ DOMAIN files' = DOMAIN files \cup {job.id}
    <3>1. job.id < nextTableId /\ \A n \in DOMAIN pendingFlushes : job.id < pendingFlushes[n].id
      BY <1>1, <2>2 DEF EngineInv, IdInv, Active
    <3> QED BY <1>3, <2>2, <3>1 DEF FileIdInv, IdsToCome
  <2> QED BY <1>1, <2>1, <2>2, StepOfFiles
<1> QED BY <1>1, <1>4 DEF NamesInv

LEMMA NextNames ==
    ASSUME MaxQuarantineFaults = 0
    PROVE  RestartInv /\ NamesInv /\ [RecoveryNext]_allVars => NamesInv'
<1> SUFFICES ASSUME RestartInv, NamesInv, [RecoveryNext]_allVars PROVE NamesInv'
  OBVIOUS
<1>1. ~Stuck
  <2>1. quarantineFaults = 0
    BY DEF NamesInv
  <2>2. ~(quarantineFaults < MaxQuarantineFaults)
    BY <2>1
  <2> QED BY <2>2 DEF Stuck
<1>2. CASE Crash \/ Exit \/ Damage \/ Restart \/ LoadPrimary \/ LoadBackup \/ RebuildDone
  <2>1. UNCHANGED quarantineFaults
    BY <1>2 DEF Crash, Exit, Damage, Restart, LoadPrimary, LoadBackup, RebuildDone
  <2>2. CASE phase' \in {"down", "load primary", "drop primary", "drop backup"}
    BY <2>1, <2>2 DEF NamesInv
  <2>3. CASE /\ phase' = "orphans" /\ todo' = DOMAIN files \ found'.tables /\ UNCHANGED files
    BY <2>1, <2>3 DEF NamesInv
  <2> QED BY <1>2, <2>2, <2>3
          DEF Crash, Exit, Damage, Restart, LoadPrimary, LoadBackup, RebuildDone, GoOnWith, diskVars,
              recoverVars
<1>3. CASE DropPrimary \/ DropBackup \/ RebuildNext
  <2>1. UNCHANGED quarantineFaults
    BY <1>1, <1>3 DEF DropPrimary, DropBackup, RebuildNext, MoveFile, KeepFile
  <2>2. phase' \in {"load backup", "rebuild"}
    BY <1>3 DEF DropPrimary, DropBackup, RebuildNext
  <2> QED BY <2>1, <2>2 DEF NamesInv
<1>4. CASE DropOrphan
  <2>1. PICK t \in todo : todo' = todo \ {t} /\ MoveFile(t)
    BY <1>1, <1>4 DEF DropOrphan, KeepFile
  <2>2. phase = "orphans" /\ UNCHANGED <<phase, found>>
    BY <1>4 DEF DropOrphan
  <2> QED BY <2>1, <2>2 DEF MoveFile, NamesInv
<1>5. CASE OrphansDone \/ ResavePrimary \/ ResaveBackup
  <2>1. /\ UNCHANGED <<quarantineFaults, found, files>>
        /\ phase' \in {"save primary", "save backup", "open"}
    BY <1>5 DEF OrphansDone, ResavePrimary, ResaveBackup, diskVars
  <2>2. DOMAIN files \subseteq found.tables
    BY <1>5 DEF OrphansDone, ResavePrimary, ResaveBackup, NamesInv
  <2> QED BY <2>1, <2>2 DEF NamesInv
<1>6. CASE Open
  <2>1. /\ phase' = "up" /\ nextTableId' = found.next /\ UNCHANGED <<files, quarantineFaults>>
        /\ UNCHANGED <<pendingFlushes, stage>>
    BY <1>6 DEF Open, lockVars, diskVars, countVars
  <2>2. DOMAIN files \subseteq found.tables /\ WellFormed(found)
        /\ pendingFlushes = <<>> /\ stage = "free"
    BY <1>6 DEF Open, NamesInv, RestartInv, RecoverInv, OpenInv, Fresh
  <2>3. IdsToCome' = {}
    BY <2>1, <2>2 DEF IdsToCome
  <2> QED BY <2>1, <2>2, <2>3 DEF NamesInv, FileIdInv, WellFormed
<1>7. CASE UNCHANGED allVars
  BY <1>7 DEF allVars, vars, lockVars, diskVars, recoverVars, countVars, NamesInv, FileIdInv,
              IdsToCome
<1> QED BY <1>2, <1>3, <1>4, <1>5, <1>6, <1>7, RunningNames DEF RecoveryNext, Recover

LEMMA NamesInvariance ==
    ASSUME MaxQuarantineFaults = 0
    PROVE  RecoverySpec => []NamesInv
<1>1. RecoveryInit => NamesInv
  BY DEF RecoveryInit, Init, NamesInv, FileIdInv
<1>2. RestartInv /\ NamesInv /\ [RecoveryNext]_allVars => NamesInv'
  BY NextNames
<1> QED BY <1>1, <1>2, RestartInvariance, PTL DEF RecoverySpec

\* As long as every file that recover() quarantines can be moved, no table takes
\* the place of a file that is there, whichever manifest the engine was opened
\* from and wherever the crash was (core.py 258-340, 564-613).
THEOREM NamesAreNotReused ==
    ASSUME MaxQuarantineFaults = 0
    PROVE  RecoverySpec => NoFileOverwritten
<1> DEFINE kept == \A t \in DOMAIN files : t \in DOMAIN files' => files'[t] = files[t]
<1>1. RestartInv /\ NamesInv /\ [RecoveryNext]_allVars => [kept]_allVars
  <2> SUFFICES ASSUME RestartInv, NamesInv, RecoveryNext PROVE kept
    OBVIOUS
  <2>1. CASE Running
    <3>1. EngineInv /\ Next /\ FileIdInv
      BY <2>1 DEF Running, RestartInv, NamesInv
    <3>2. stage = "write" => job.id \notin DOMAIN files
      <4>1. stage = "write" => job.id \in IdsToCome
        BY DEF IdsToCome
      <4>2. \A t \in DOMAIN files : t \in Nat
        BY <3>1 DEF EngineInv, EngineTypeOK, Versions
      <4> QED BY <3>1, <4>1, <4>2 DEF FileIdInv
    <3> QED BY <3>1, <3>2, StepOfFiles
  <2>2. CASE ~Running
    BY <2>2, ClosedFiles
  <2> QED BY <2>1, <2>2
<1> QED BY <1>1, NamesInvariance, RestartInvariance, PTL DEF RecoverySpec, NoFileOverwritten

-----------------------------------------------------------------------------
(* What is durable, as long as nothing that is on disk is damaged.         *)

\* The tables in ids have every promised version, or a newer one.
PromiseKept(ids) ==
    \A k \in Keys : \A i \in promised[k] : \E t \in ids : Has(files[t], k, i)

\* What the primary manifest names is all there and in order.
PrimaryOpens ==
    /\ damages = 0 /\ damaged = {}
    /\ primary \in Manifests
    /\ primary.tables \subseteq DOMAIN files
    /\ OrderedTables(primary.tables)
    /\ \A t \in DOMAIN files : Past(files[t], Len(log))
    /\ promised \in Runs
    /\ PromiseKept(primary.tables)

\* recover() takes the primary manifest.
TakesPrimary ==
    /\ phase \in {"up", "down", "load primary"} \cup Chosen
    /\ phase \in Chosen => found = primary

\* The invariants of an open engine, which knows nothing of the log of the
\* processes before it: the calls before now may be gone.
OpenKept ==
    phase = "up" => PrimaryInv /\ PointsInv(Nat) /\ PrimaryCovers /\ PromiseKept(tables)

DurableInv == PrimaryOpens /\ TakesPrimary /\ OpenKept

LEMMA CoveredPromise ==
    /\ EngineInv /\ PrimaryInv /\ PrimaryCovers
    /\ promised \in Runs /\ PromiseKept(tables)
    => PromiseKept(primary.tables)
<1> SUFFICES ASSUME EngineInv, PrimaryInv, PrimaryCovers, promised \in Runs, PromiseKept(tables),
                    NEW k \in Keys, NEW i \in promised[k]
             PROVE  \E u \in primary.tables : Has(files[u], k, i)
  BY DEF PromiseKept
<1>1. PICK t \in tables : \E j \in files[t][k] : i <= j
  BY DEF PromiseKept, Has
<1>2. PICK j \in files[t][k] : i <= j
  BY <1>1
<1>3. PICK u \in primary.tables : \E h \in files[u][k] : j <= h
  BY <1>2 DEF PrimaryCovers, CoversTables, Has
<1>4. PICK h \in files[u][k] : j <= h
  BY <1>3
<1>5. i \in Nat /\ j \in Nat /\ h \in Nat
  BY <1>2, <1>4 DEF EngineInv, EngineTypeOK, TablesExist, PrimaryInv, SavedInv,
                         Runs, Versions
<1>6. i <= h
  BY <1>2, <1>4, <1>5
<1> QED BY <1>4, <1>6 DEF Has

LEMMA NextCoveredPromise ==
    /\ EngineInv' /\ PrimaryInv' /\ PrimaryCovers'
    /\ (promised \in Runs)' /\ PromiseKept(tables)'
    => PromiseKept(primary.tables)'
BY CoveredPromise, PTL

\* What queries would find is a run.
TablesTyped == MergeRuns(tables) \in Runs

LEMMA NextTablesTyped == EngineInv' => TablesTyped'
<1>1. EngineInv => TablesTyped
  BY MergeRunsType DEF EngineInv, TablesExist, TablesTyped
<1> QED BY <1>1, PTL

\* What the tables have joins what was promised.
LEMMA NewestKept ==
    ASSUME NEW held \in Runs, NEW seen \in Runs
    PROVE  /\ Newest(held, seen) \in Runs
           /\ \A k \in Keys : \A i \in Newest(held, seen)[k] : i \in held[k] \/ i \in seen[k]
BY DEF Newest, Latest, Runs

LEMMA RunningDurable ==
    ASSUME RestartInv, DurableInv, Running
    PROVE  DurableInv'
<1>1. /\ EngineInv /\ [Next]_vars /\ phase = "up" /\ phase' = "up"
      /\ PrimaryInv /\ PointsInv(Nat) /\ PrimaryCovers /\ PromiseKept(tables)
      /\ promised \in Runs
      /\ promised' = Newest(MergeRuns(tables)', promised) /\ damaged' = {} /\ damages' = 0
  BY DEF RestartInv, DurableInv, PrimaryOpens, OpenKept, Running, recoverVars, countVars
<1>2. EngineInv' /\ PrimaryInv' /\ PointsInv(Nat)' /\ PrimaryCovers'
  BY <1>1, NextEngine, NextPrimary, NextPoints, NextPrimaryCovers
<1>3. /\ promised' \in Runs
      /\ \A k \in Keys : \A i \in promised'[k] : i \in MergeRuns(tables)'[k] \/ i \in promised[k]
  <2>1. MergeRuns(tables)' \in Runs
    BY <1>2, NextTablesTyped DEF TablesTyped
  <2> QED BY <1>1, <2>1, NewestKept
<1>4. PromiseKept(tables)'
  <2> SUFFICES ASSUME NEW k \in Keys, NEW i \in promised'[k]
               PROVE  \E u \in tables' : Has(files'[u], k, i)
    BY DEF PromiseKept
  <2>1. CASE i \in promised[k]
    <3>1. PICK t \in tables : \E j \in files[t][k] : i <= j
      BY <1>1, <2>1 DEF PromiseKept, Has
    <3>2. PICK j \in files[t][k] : i <= j
      BY <3>1
    <3>3. PICK u \in tables' : \E h \in files'[u][k] : j <= h
      BY <1>1, <3>2, TablesKeep DEF Has
    <3>4. PICK h \in files'[u][k] : j <= h
      BY <3>3
    <3>5. i \in Nat /\ j \in Nat /\ h \in Nat
      BY <1>1, <1>2, <2>1, <3>2, <3>4 DEF EngineInv, EngineTypeOK, TablesExist, Runs, Versions
    <3>6. i <= h
      BY <3>2, <3>4, <3>5
    <3> QED BY <3>4, <3>6 DEF Has
  <2>2. CASE i \in MergeRuns(tables)'[k]
    <3>1. PICK t \in tables' : i \in files'[t][k]
      BY <2>2 DEF MergeRuns
    <3>2. i \in Nat
      BY <1>2, <3>1 DEF EngineInv, EngineTypeOK, TablesExist, Runs, Versions
    <3> QED BY <3>1, <3>2 DEF Has
  <2> QED BY <1>3, <2>1, <2>2
<1>5. PromiseKept(primary.tables)'
  BY <1>2, <1>3, <1>4, NextCoveredPromise
<1>6. PrimaryOpens'
  BY <1>1, <1>2, <1>3, <1>5
  DEF PrimaryOpens, PrimaryInv, SavedInv, PrimaryCovers, CoversTables, PointsInv, PastInv
<1> QED BY <1>1, <1>2, <1>4, <1>6 DEF DurableInv, TakesPrimary, OpenKept, Chosen

\* Steps with no engine open before or after: the manifest in use keeps its
\* files, whatever else is quarantined.
LEMMA ClosedDurable ==
    ASSUME DurableInv, phase' # "up", TakesPrimary',
           UNCHANGED <<primary, log, promised, damages>>, damaged' = {},
           DOMAIN files' \subseteq DOMAIN files, \A t \in DOMAIN files' : files'[t] = files[t],
           primary.tables \subseteq DOMAIN files'
    PROVE  DurableInv'
<1>1. PrimaryOpens'
  BY DEF DurableInv, PrimaryOpens, PromiseKept, OrderedTables, Before, Past, Has
<1> QED BY <1>1 DEF DurableInv, OpenKept

\* A process that ends leaves a manifest that covers what it promised.
LEMMA GoneDurable ==
    ASSUME DurableInv, Crash \/ Exit
    PROVE  DurableInv'
<1>1. /\ phase' = "down" /\ UNCHANGED <<primary, files, log, promised, damages, damaged>>
  BY DEF Crash, Exit, diskVars, historyVars
<1> QED BY <1>1, ClosedDurable DEF DurableInv, PrimaryOpens, TakesPrimary, Chosen

LEMMA OpenDurable ==
    ASSUME RestartInv, DurableInv, Open
    PROVE  DurableInv'
<1>1. /\ phase = "open" /\ phase' = "up" /\ tables' = found.tables /\ found = primary
      /\ nextTableId' = found.next
      /\ promised' = Newest(MergeRuns(found.tables), promised)
      /\ UNCHANGED <<files, primary, damaged, damages, log, lost>>
      /\ Fresh({}, 1)
  BY DEF Open, diskVars, historyVars, countVars, DurableInv, TakesPrimary, Chosen, RestartInv,
         OpenInv
<1>2. EngineInv' /\ Fresh(tables, nextTableId)'
  <2>1. EngineInv'
    BY OpenRestart DEF RestartInv
  <2> QED BY <1>1, <2>1 DEF Open, Fresh, lockVars
<1>3. /\ PrimaryOpens /\ primary.tables \subseteq DOMAIN files /\ WellFormed(primary)
      /\ EngineInv
  BY <1>1 DEF DurableInv, PrimaryOpens, RestartInv, RecoverInv
<1>4. PrimaryInv'
  BY <1>1, <1>2, <1>3
  DEF PrimaryInv, SavedInv, Fresh, AfterPrimary, Active, WellFormed, PrimaryOpens
<1>5. PointsInv(Nat)'
  <2>1. /\ tables' = primary.tables /\ pendingFlushes' = <<>> /\ ~FlushInProgress' /\ ~Active'
        /\ \A k \in Keys : memtable'.data[k] = {}
    BY <1>1, <1>2 DEF Fresh, FlushInProgress, Active, EmptyMemtable, NoPoints
  <2>2. OrderInv(memtable.data)'
    BY <1>1, <1>3, <2>1 DEF OrderInv, OrderedTables, Before, PrimaryOpens
  <2>3. PastInv(memtable.data, Len(log))'
    BY <1>1, <1>3, <2>1 DEF PastInv, Past, PrimaryOpens
  <2>4. KeptInv(memtable.data, log, Nat)'
    BY <1>2 DEF KeptInv, EngineInv, EngineTypeOK
  <2>5. FileInv'
    BY <2>1 DEF FileInv
  <2> QED BY <2>2, <2>3, <2>4, <2>5 DEF PointsInv
<1>6. PrimaryCovers'
  BY <1>1, <1>3, AsNewAsItself
  DEF PrimaryCovers, CoversTables, OrderedTables, Before, Has, PrimaryOpens
<1>7. /\ promised' \in Runs
      /\ \A k \in Keys : \A i \in promised'[k] :
            i \in MergeRuns(primary.tables)[k] \/ i \in promised[k]
  <2>1. MergeRuns(primary.tables) \in Runs
    BY <1>3, MergeRunsType DEF EngineInv
  <2> QED BY <1>1, <1>3, <2>1, NewestKept DEF PrimaryOpens
<1>8. PromiseKept(primary.tables)'
  <2> SUFFICES ASSUME NEW k \in Keys, NEW i \in promised'[k]
               PROVE  \E t \in primary.tables : Has(files[t], k, i)
    BY <1>1 DEF PromiseKept, Has
  <2>1. CASE i \in promised[k]
    BY <1>3, <2>1 DEF PrimaryOpens, PromiseKept
  <2>2. CASE i \in MergeRuns(primary.tables)[k]
    <3>1. PICK t \in primary.tables : i \in files[t][k]
      BY <2>2 DEF MergeRuns
    <3> QED BY <1>3, <3>1, AsNewAsItself
  <2> QED BY <1>7, <2>1, <2>2
<1>9. PrimaryOpens'
  BY <1>1, <1>3, <1>7, <1>8 DEF PrimaryOpens, OrderedTables, Before, Past
<1>10. PromiseKept(tables)'
  BY <1>1, <1>8 DEF PromiseKept
<1> QED BY <1>1, <1>4, <1>5, <1>6, <1>9, <1>10 DEF DurableInv, TakesPrimary, OpenKept, Chosen

\* With no damage the primary manifest opens, so that recover() goes on with it
\* and never drops a manifest or rebuilds one.
LEMMA NextDurable ==
    ASSUME MaxDamage = 0
    PROVE  RestartInv /\ DurableInv /\ [RecoveryNext]_allVars => DurableInv'
<1> SUFFICES ASSUME RestartInv, DurableInv, [RecoveryNext]_allVars PROVE DurableInv'
  OBVIOUS
<1>1. Valid(primary) /\ ~Damage
  <2>1. damages = 0 /\ primary \in Manifests /\ primary.tables \subseteq DOMAIN files
        /\ damaged = {}
    BY DEF DurableInv, PrimaryOpens
  <2>2. ~(damages < MaxDamage)
    BY <2>1
  <2>3. primary # Unreadable
    BY <2>1 DEF Manifests, Unreadable, Versions
  <2> QED BY <2>1, <2>2, <2>3 DEF Valid, Damage
<1>2. CASE Restart \/ LoadPrimary \/ OrphansDone \/ ResavePrimary \/ ResaveBackup
  <2>1. /\ UNCHANGED <<primary, log, promised, damages, damaged, files>>
        /\ phase' # "up" /\ TakesPrimary'
    BY <1>1, <1>2
    DEF Restart, LoadPrimary, OrphansDone, ResavePrimary, ResaveBackup, RecoverStep, diskVars,
        historyVars, GoOnWith, DurableInv, TakesPrimary, Chosen
  <2> QED BY <2>1, ClosedDurable DEF DurableInv, PrimaryOpens
<1>3. CASE DropOrphan
  <2>1. PICK t \in todo : MoveFile(t) \/ KeepFile
    BY <1>3 DEF DropOrphan
  <2>2. /\ phase = "orphans" /\ phase' = phase
        /\ UNCHANGED <<found, primary, log, promised, damages>>
    BY <1>3 DEF DropOrphan, RecoverStep, historyVars
  <2>3. t \notin primary.tables /\ damaged = {}
    BY <2>1, <2>2 DEF RestartInv, RecoverInv, DurableInv, PrimaryOpens, TakesPrimary, Chosen
  <2>4. /\ DOMAIN files' \subseteq DOMAIN files /\ \A u \in DOMAIN files' : files'[u] = files[u]
        /\ damaged' = {} /\ primary.tables \subseteq DOMAIN files'
    BY <2>1, <2>3, QuarantineFacts DEF DurableInv, PrimaryOpens
  <2> QED BY <2>2, <2>4, ClosedDurable DEF DurableInv, TakesPrimary, Chosen
<1>4. CASE DropPrimary \/ LoadBackup \/ DropBackup \/ RebuildNext \/ RebuildDone
  BY <1>4 DEF DropPrimary, LoadBackup, DropBackup, RebuildNext, RebuildDone, DurableInv,
              TakesPrimary, Chosen
<1>5. CASE UNCHANGED allVars
  <2>1. UNCHANGED <<vars, phase, found, damaged, promised, damages>>
    BY <1>5 DEF allVars, recoverVars, countVars
  <2>2. UNCHANGED <<tables, files, primary, log>> /\ [Next]_vars
    BY <2>1 DEF vars, diskVars, historyVars
  <2>3. PrimaryOpens' /\ TakesPrimary'
    BY <2>1, <2>2 DEF DurableInv, PrimaryOpens, TakesPrimary, PromiseKept, OrderedTables, Before,
                      Past, Has
  <2>4. OpenKept'
    <3>1. CASE phase = "up"
      BY <2>1, <2>2, <3>1, NextPrimary, NextPoints, NextPrimaryCovers
      DEF RestartInv, DurableInv, OpenKept, PromiseKept, Has
    <3> QED BY <2>1, <3>1 DEF OpenKept
  <2> QED BY <2>3, <2>4 DEF DurableInv
<1> QED BY <1>1, <1>2, <1>3, <1>4, <1>5, RunningDurable, GoneDurable, OpenDurable
        DEF RecoveryNext, Recover

LEMMA InitDurable == RecoveryInit => DurableInv
<1> SUFFICES ASSUME RecoveryInit PROVE DurableInv
  OBVIOUS
<1>1. Init /\ Inv
  BY InitInv DEF RecoveryInit
<1>2. OrderInv(memtable.data) /\ PastInv(memtable.data, Len(log)) /\ FileInv
      /\ KeptInv(memtable.data, log, Nat)
  BY <1>1, InitData DEF DataInv, PointsInv, KeptInv, Init
<1>3. PrimaryInv /\ PointsInv(Nat)
  BY <1>1, <1>2 DEF Inv, PointsInv
<1>4. PrimaryCovers
  BY <1>1 DEF Init, PrimaryCovers, CoversTables, OrderedTables, EmptyManifest
<1>5. \A ids : PromiseKept(ids)
  BY DEF RecoveryInit, PromiseKept, NoPoints
<1>6. PrimaryOpens
  BY <1>3, <1>4, <1>5, NoPointsType
  DEF RecoveryInit, PrimaryOpens, PrimaryInv, SavedInv, PrimaryCovers, CoversTables, PointsInv,
      PastInv
<1> QED BY <1>3, <1>4, <1>5, <1>6 DEF RecoveryInit, DurableInv, TakesPrimary, OpenKept, Chosen

LEMMA DurableInvariance ==
    ASSUME MaxDamage = 0
    PROVE  RecoverySpec => []DurableInv
<1>1. RestartInv /\ DurableInv /\ [RecoveryNext]_allVars => DurableInv'
  BY NextDurable
<1> QED BY <1>1, InitDurable, RestartInvariance, PTL DEF RecoverySpec

\* As long as nothing on disk is damaged, what an open engine had in its tables
\* is there, in this version or a newer one, in every engine opened later: for
\* any number of crashes and exits, at any step of a flush, of a compaction and
\* of recover() itself, with tasks that raise and files that cannot be moved or
\* deleted (core.py 258-340, manifest.py 73-88).
THEOREM DurableIsThere ==
    ASSUME MaxDamage = 0
    PROVE  RecoverySpec => []DurableSurvives
<1>1. RestartInv /\ DurableInv => DurableSurvives
  <2> SUFFICES ASSUME RestartInv, DurableInv, phase = "up",
                      NEW k \in Keys, NEW i \in promised[k]
               PROVE  \E h \in MergeRuns(tables)[k] : i <= h
    BY DEF DurableSurvives, Covers
  <2>1. EngineInv /\ PromiseKept(tables) /\ TablesMerge /\ promised \in Runs /\ TablesTyped
    BY MergedTables, MergeRunsType
    DEF RestartInv, DurableInv, OpenKept, PrimaryOpens, EngineInv, TablesExist, TablesTyped
  <2>2. PICK t \in tables : \E j \in files[t][k] : i <= j
    BY <2>1 DEF PromiseKept, Has
  <2>3. PICK j \in files[t][k] : i <= j
    BY <2>2
  <2>4. PICK h \in MergeRuns(tables)[k] : j <= h
    BY <2>1, <2>3 DEF TablesMerge, MergeOf, Has
  <2>5. i \in Nat /\ j \in Nat /\ h \in Nat
    BY <2>1, <2>3, <2>4 DEF EngineInv, EngineTypeOK, TablesExist, TablesTyped, Runs, Versions
  <2> QED BY <2>3, <2>4, <2>5
<1> QED BY <1>1, DurableInvariance, RestartInvariance, PTL

\* As long as nothing on disk is damaged, newest wins by table id in every
\* engine that is opened, wherever the one before it died: no crash, no task
\* that raised and no file that cannot be moved puts a new version below an old
\* one (core.py 258-340, 486-494).
THEOREM OrderedWithoutDamage ==
    ASSUME MaxDamage = 0
    PROVE  RecoverySpec => []OrderedAcrossRestarts
<1>1. RestartInv /\ DurableInv => OrderedAcrossRestarts
  <2> SUFFICES ASSUME RestartInv, DurableInv, phase = "up",
                      NEW x \in Held, NEW y \in Held, x.id < y.id,
                      NEW k \in Keys, NEW i \in x.data[k], NEW j \in y.data[k]
               PROVE  i <= j
    BY DEF OrderedAcrossRestarts
  <2>1. EngineInv /\ PointsInv(Nat)
    BY DEF RestartInv, DurableInv, OpenKept
  <2>2. i < j
    BY <2>1, RunsInOrder DEF RunsOrdered
  <2>3. \A z \in Held : z.data \in Runs
    BY <2>1, PendingType
    DEF Held, EngineInv, EngineTypeOK, TablesExist, Jobs
  <2>4. i \in Nat /\ j \in Nat
    BY <2>3 DEF Runs, Versions
  <2> QED BY <2>2, <2>4
<1> QED BY <1>1, DurableInvariance, RestartInvariance, PTL

-----------------------------------------------------------------------------
(* The order of the versions through rebuilds.  A rebuild brings back what *)
(* a compaction failed to delete next to what it merged, so that here the  *)
(* order of the files is a weak one, and over all of them: any may become  *)
(* a table again.                                                          *)

\* Run a has no version that is newer than one of run b, key by key.
NotAfter(a, b) == \A k \in Keys : \A i \in a[k], j \in b[k] : i <= j

FilesOrdered ==
    /\ \A t, u \in DOMAIN files : t < u => NotAfter(files[t], files[u])
    /\ \A t \in DOMAIN files : Past(files[t], Len(log))

\* The flushes that are queued or running.
FlushesToCome ==
    {pendingFlushes[n] : n \in DOMAIN pendingFlushes}
      \cup (IF FlushInProgress THEN {[id |-> job.id, data |-> job.data]} ELSE {})

\* What is in memory, for a memtable that holds run m, is in the order of its ids
\* and newer than every file below it.
MemoryOrdered(m) ==
    /\ \A x, y \in FlushesToCome : x.id < y.id => Before(x.data, y.data)
    /\ \A t \in DOMAIN files, x \in FlushesToCome : t < x.id => Before(files[t], x.data)
    /\ \A x \in FlushesToCome : Before(x.data, m) /\ Past(x.data, Len(log))
    /\ \A t \in DOMAIN files : Before(files[t], m)
    /\ Past(m, Len(log))

\* No file but that of the running flush has a version that the tables have
\* neither in it nor in a newer one.
Behind(run, ids) == \A k \in Keys : \A i \in run[k] : \E t \in ids : Has(files[t], k, i)

FilesBehind ==
    /\ \A t \in DOMAIN files :
          (FlushInProgress /\ t = job.id) \/ Behind(files[t], tables)
    /\ Active /\ stage # "write" /\ job.kind = "compaction" =>
          \A t \in tables : Behind(files[t], {job.id})

OrderedInv ==
    /\ faults = 0
    /\ FilesOrdered
    /\ phase = "up" => MemoryOrdered(memtable.data) /\ FilesBehind


\* What a step of the engine does to what is in memory.
LEMMA StepOfMemory ==
    ASSUME EngineInv, Next
    PROVE  \/ /\ UNCHANGED <<log, memtable>> /\ FlushesToCome' \subseteq FlushesToCome
           \/ /\ UNCHANGED <<log, files>> /\ memtable' = EmptyMemtable
              /\ FlushesToCome' \subseteq
                    FlushesToCome \cup {[id |-> nextTableId, data |-> memtable.data]}
           \/ \E b \in Batches :
                 /\ log' = Append(log, b.keys) /\ UNCHANGED files
                 /\ \/ memtable' = Appended(b) /\ FlushesToCome' \subseteq FlushesToCome
                    \/ /\ memtable' = EmptyMemtable
                       /\ FlushesToCome' \subseteq
                             FlushesToCome \cup {[id |-> nextTableId, data |-> Appended(b).data]}
<1> USE DEF FlushesToCome
<1>1. pendingFlushes \in Seq([id : Versions, data : Runs]) /\ job \in Jobs
  BY DEF EngineInv, EngineTypeOK
<1>2. ASSUME NEW mt, EnqueueFlush(mt), UNCHANGED job, FlushInProgress' => FlushInProgress
      PROVE  /\ memtable' = EmptyMemtable
             /\ FlushesToCome' \subseteq FlushesToCome \cup {[id |-> nextTableId, data |-> mt.data]}
  <2>1. \A n \in DOMAIN pendingFlushes' :
          \/ n \in DOMAIN pendingFlushes /\ pendingFlushes'[n] = pendingFlushes[n]
          \/ pendingFlushes'[n] = [id |-> nextTableId, data |-> mt.data]
    BY <1>1, <1>2 DEF EnqueueFlush
  <2> QED BY <1>2, <2>1 DEF EnqueueFlush
<1>3. ASSUME NEW c \in Clients, NEW b \in Batches, AppendRows(c, b)
      PROVE  /\ log' = Append(log, b.keys) /\ UNCHANGED files
             /\ \/ memtable' = Appended(b) /\ FlushesToCome' \subseteq FlushesToCome
                \/ /\ memtable' = EmptyMemtable
                   /\ FlushesToCome' \subseteq
                         FlushesToCome \cup {[id |-> nextTableId, data |-> Appended(b).data]}
  <2>1. UNCHANGED <<stage, job, files>> /\ log' = Append(log, b.keys)
    BY <1>3 DEF AppendRows, lockVars, diskVars
  <2>2. FlushInProgress' <=> FlushInProgress
    BY <2>1 DEF FlushInProgress
  <2>3. CASE EnqueueFlush(Appended(b))
    BY <2>1, <2>2, <2>3, <1>2
  <2>4. CASE memtable' = Appended(b) /\ UNCHANGED pendingFlushes
    BY <2>1, <2>2, <2>4
  <2> QED BY <1>3, <2>3, <2>4 DEF AppendRows
<1>4. ASSUME NEW c \in Clients, Flush(c) \/ CloseFirst(c)
      PROVE  /\ UNCHANGED <<log, files>>
             /\ \/ UNCHANGED memtable /\ FlushesToCome' \subseteq FlushesToCome
                \/ /\ memtable' = EmptyMemtable
                   /\ FlushesToCome' \subseteq
                         FlushesToCome \cup {[id |-> nextTableId, data |-> memtable.data]}
  <2>1. UNCHANGED <<job, log, files>> /\ (FlushInProgress' => FlushInProgress)
    BY <1>4 DEF Flush, CloseFirst, TakeLock, lockVars, diskVars, historyVars, FlushInProgress
  <2>2. CASE EnqueueFlush(memtable)
    BY <2>1, <2>2, <1>2
  <2>3. CASE UNCHANGED <<memtable, pendingFlushes>>
    BY <2>1, <2>3
  <2> QED BY <1>4, <2>2, <2>3 DEF Flush, CloseFirst, NothingEnqueued
<1>5. ASSUME NEW c \in Clients, PickFlush(c)
      PROVE  UNCHANGED <<log, memtable>> /\ FlushesToCome' \subseteq FlushesToCome
  <2>1. /\ UNCHANGED <<log, memtable>> /\ pendingFlushes # <<>> /\ stage = "pick"
        /\ pendingFlushes' = Tail(pendingFlushes)
        /\ stage' = "pick" \/ /\ job'.id = Head(pendingFlushes).id
                              /\ job'.data = Head(pendingFlushes).data
    BY <1>5 DEF PickFlush, StartFlush, NoJob, historyVars
  <2>2. /\ 1 \in DOMAIN pendingFlushes /\ Head(pendingFlushes) = pendingFlushes[1]
        /\ pendingFlushes[1] \in [id : Versions, data : Runs]
        /\ \A n \in DOMAIN pendingFlushes' :
              n + 1 \in DOMAIN pendingFlushes /\ pendingFlushes'[n] = pendingFlushes[n + 1]
    BY <2>1, TailFacts DEF EngineInv
  <2>3. FlushInProgress' => [id |-> job'.id, data |-> job'.data] = pendingFlushes[1]
    BY <2>1, <2>2 DEF FlushInProgress
  <2> QED BY <2>1, <2>2, <2>3
<1>6. ASSUME NEW c \in Clients,
             \/ PickCompaction(c) \/ DrainDone(c) \/ CommitFlush(c) \/ UnlinkDone(c)
             \/ TaskRaises(c) \/ UnlinkNext(c) \/ CommitCompaction(c)
      PROVE  UNCHANGED <<log, memtable>> /\ FlushesToCome' \subseteq FlushesToCome
  <2>1. UNCHANGED <<log, memtable, pendingFlushes>>
    BY <1>6 DEF PickCompaction, DrainDone, CommitFlush, UnlinkDone, TaskRaises, UnlinkNext,
                CommitCompaction, historyVars
  <2>2. CASE PickCompaction(c)
    <3>1. job'.kind = "compaction"
      BY <2>2 DEF PickCompaction, StartCompaction, NoJob
    <3> QED BY <2>1, <3>1 DEF FlushInProgress
  <2>3. CASE ~PickCompaction(c)
    <3>1. ~FlushInProgress'
      BY <1>6, <2>3 DEF DrainDone, CommitFlush, UnlinkDone, TaskRaises, UnlinkNext,
                        CommitCompaction, ReleaseLock, FlushInProgress
    <3> QED BY <2>1, <3>1
  <2> QED BY <2>2, <2>3
<1>7. ASSUME NEW c \in Clients,
             WriteTable(c) \/ BuildManifest(c) \/ SavePrimary(c) \/ SaveBackup(c)
      PROVE  UNCHANGED <<log, memtable>> /\ FlushesToCome' \subseteq FlushesToCome
  <2>1. /\ UNCHANGED <<log, memtable, pendingFlushes>>
        /\ job'.id = job.id /\ job'.data = job.data /\ job'.kind = job.kind
        /\ stage \in {"write", "build", "primary", "backup"}
    BY <1>7, <1>1 DEF WriteTable, BuildManifest, SavePrimary, SaveBackup, historyVars, Jobs
  <2> QED BY <2>1 DEF FlushInProgress
<1>8. ASSUME NEW c \in Clients, Compact(c) \/ Close(c) \/ Acquire(c) \/ CloseAgain(c)
      PROVE  UNCHANGED <<log, memtable>> /\ FlushesToCome' \subseteq FlushesToCome
  BY <1>8 DEF Compact, Close, Acquire, CloseAgain, TakeLock, lockVars, historyVars,
              FlushInProgress
<1>9. ASSUME NEW r \in Readers, QueryBegin(r) \/ Read(r)
      PROVE  UNCHANGED <<log, memtable>> /\ FlushesToCome' \subseteq FlushesToCome
  BY <1>9 DEF QueryBegin, Read, ReadTable, FileMissing, CheckActive, QueryEnd, lockVars,
              historyVars, FlushInProgress
<1> QED BY <1>3, <1>4, <1>5, <1>6, <1>7, <1>8, <1>9 DEF Next, Call, LockStep, Drain

\* Over tables in weak order, whose ids have a bound, a merge keeps for each key
\* a version that none of them is newer than.
LEMMA MergeInOrder ==
    ASSUME EngineTypeOK, NEW ids \in SUBSET DOMAIN files, NEW bound \in Nat,
           \A t \in ids : t <= bound,
           FilesOrdered
    PROVE  /\ MergeOf(MergeRuns(ids), ids)
           /\ \A t \in ids : NotAfter(files[t], MergeRuns(ids))
<1>1. \A u \in ids, k \in Keys : u \in Nat /\ files[u][k] \subseteq Nat
  BY DEF EngineTypeOK, Runs, Versions
<1>2. ASSUME NEW k \in Keys, NEW t \in ids, NEW i \in files[t][k]
      PROVE  Has(MergeRuns(ids), k, i)
  <2> DEFINE S == {u \in ids : files[u][k] # {}}
  <2>1. S \in SUBSET Nat /\ S # {} /\ \A u \in S : u <= bound
    BY <1>1, <1>2
  <2>2. PICK u \in S : \A v \in S : v <= u
    <3> HIDE DEF S
    <3> QED BY <2>1, MaxExists
  <2>3. /\ files[u][k] \in SUBSET Nat /\ files[u][k] # {} /\ Len(log) \in Nat
        /\ \A h \in files[u][k] : h <= Len(log)
    BY <1>1 DEF FilesOrdered, Past, EngineTypeOK
  <2>4. PICK j \in files[u][k] : \A h \in files[u][k] : h <= j
    BY <2>3, MaxExists
  <2>5. ASSUME NEW v \in ids, NEW h \in files[v][k] PROVE v < u \/ (v = u /\ h <= j)
    <3>1. v \in Nat /\ u \in Nat /\ v <= u
      BY <1>1, <2>2
    <3> QED BY <2>4, <3>1
  <2>6. j \in MergeRuns(ids)[k]
    BY <2>4, <2>5 DEF MergeRuns
  <2>7. t < u \/ (t = u /\ i <= j)
    BY <1>2, <2>5
  <2>8. i <= j
    BY <1>2, <2>4, <2>7 DEF FilesOrdered, NotAfter
  <2> QED BY <2>6, <2>8 DEF Has
<1>3. ASSUME NEW k \in Keys, NEW j \in MergeRuns(ids)[k] PROVE \E t \in ids : j \in files[t][k]
  BY DEF MergeRuns
<1>4. ASSUME NEW t \in ids, NEW k \in Keys, NEW i \in files[t][k], NEW j \in MergeRuns(ids)[k]
      PROVE  i <= j
  <2>1. PICK u \in ids : /\ j \in files[u][k]
                         /\ t < u \/ (t = u /\ i <= j)
    BY DEF MergeRuns
  <2> QED BY <2>1 DEF FilesOrdered, NotAfter
<1> QED BY <1>2, <1>3, <1>4 DEF MergeOf, NotAfter

\* What a step does to the flush or compaction in progress, unless it raises.
LEMMA StepOfJob ==
    ASSUME EngineInv, Next, ~ \E c \in Clients : TaskRaises(c)
    PROVE  /\ FlushInProgress => \/ FlushInProgress' /\ job'.id = job.id
                                 \/ stage = "commit" /\ tables' = tables \cup {job.id}
           /\ Active' /\ stage' # "write" =>
                 /\ Active /\ job'.id = job.id /\ job'.kind = job.kind /\ UNCHANGED tables
                 /\ stage # "write" \/ stage' = "build"
<1>1. job \in Jobs
  BY DEF EngineInv, EngineTypeOK
<1>2. ASSUME NEW c \in Clients,
             WriteTable(c) \/ BuildManifest(c) \/ SavePrimary(c) \/ SaveBackup(c)
      PROVE  /\ stage \in {"write", "build", "primary", "backup"}
             /\ stage' \in {"build", "primary", "backup", "commit"}
             /\ stage # "write" \/ stage' = "build"
             /\ job'.id = job.id /\ job'.kind = job.kind /\ UNCHANGED tables
  BY <1>1, <1>2 DEF WriteTable, BuildManifest, SavePrimary, SaveBackup, Jobs
<1>3. ASSUME NEW c \in Clients,
             PickFlush(c) \/ PickCompaction(c) \/ DrainDone(c) \/ UnlinkNext(c) \/ UnlinkDone(c)
      PROVE  ~FlushInProgress /\ ~(Active' /\ stage' # "write")
  BY <1>3 DEF PickFlush, PickCompaction, StartFlush, StartCompaction, DrainDone, UnlinkNext,
              UnlinkDone, ReleaseLock, FlushInProgress, Active
<1>4. ASSUME NEW c \in Clients, CommitFlush(c) \/ CommitCompaction(c)
      PROVE  /\ stage = "commit" /\ ~Active'
             /\ FlushInProgress => tables' = tables \cup {job.id}
  BY <1>4 DEF CommitFlush, CommitCompaction, FlushInProgress, Active
<1>5. ASSUME NEW c \in Clients, Call(c) \/ LockStep(c)
      PROVE  /\ UNCHANGED <<tables, job>>
             /\ UNCHANGED stage \/ (stage = "free" /\ stage' = "pick")
  BY <1>5 DEF Call, LockStep, AppendRows, Flush, Compact, Close, Acquire, CloseFirst, CloseAgain,
              TakeLock, lockVars, EngineInv, EngineTypeOK
<1>6. ASSUME NEW r \in Readers, QueryBegin(r) \/ Read(r) PROVE UNCHANGED <<tables, job, stage>>
  BY <1>6 DEF QueryBegin, Read, ReadTable, FileMissing, CheckActive, QueryEnd, lockVars
<1>7. CASE \E c \in Clients :
              WriteTable(c) \/ BuildManifest(c) \/ SavePrimary(c) \/ SaveBackup(c)
  BY <1>2, <1>7 DEF FlushInProgress, Active
<1>8. CASE \E c \in Clients :
              PickFlush(c) \/ PickCompaction(c) \/ DrainDone(c) \/ UnlinkNext(c) \/ UnlinkDone(c)
  BY <1>3, <1>8
<1>9. CASE \E c \in Clients : CommitFlush(c) \/ CommitCompaction(c)
  BY <1>4, <1>9
<1>10. CASE UNCHANGED <<tables, job>> /\ (UNCHANGED stage \/ (stage = "free" /\ stage' = "pick"))
  BY <1>10 DEF FlushInProgress, Active
<1> QED BY <1>5, <1>6, <1>7, <1>8, <1>9, <1>10 DEF Next, Drain

LEMMA NothingRaises ==
    ASSUME EngineInv, faults = 0, MaxFaults = 0
    PROVE  ~ \E c \in Clients : TaskRaises(c)
BY NothingMustRaise DEF TaskRaises

\* The table that is written is in the order of the files and of the memory.
LEMMA WrittenRun ==
    ASSUME EngineInv, FileIdInv, FilesOrdered, MemoryOrdered(memtable.data), FilesBehind,
           stage = "write", NEW run,
           run = IF job.kind = "flush" THEN job.data ELSE MergeRuns(job.candidates)
    PROVE  /\ \A t \in DOMAIN files : t < job.id /\ NotAfter(files[t], run)
           /\ \A x \in FlushesToCome : job.id < x.id => Before(run, x.data)
           /\ Before(run, memtable.data) /\ Past(run, Len(log))
           /\ job.kind = "flush" \/ (MergeOf(run, tables) /\ job.kind = "compaction")
<1>1. /\ job.id \in IdsToCome /\ job.id \in Nat
      /\ \A t \in tables : t \in Nat /\ t < job.id
  BY DEF IdsToCome, EngineInv, EngineTypeOK, JobInv, IdInv, Active, Versions
<1>2. \A t \in DOMAIN files : t < job.id
  BY <1>1 DEF FileIdInv
<1>3. CASE job.kind = "flush"
  <2> DEFINE x == [id |-> job.id, data |-> job.data]
  <2>1. x \in FlushesToCome /\ run = x.data /\ x.id = job.id
    BY <1>3 DEF FlushesToCome, FlushInProgress
  <2> HIDE DEF x
  <2>2. \A t \in DOMAIN files : Before(files[t], run)
    BY <1>2, <2>1 DEF MemoryOrdered
  <2>3. \A t \in DOMAIN files : NotAfter(files[t], run)
    <3>1. run \in Runs
      BY <1>3 DEF EngineInv, EngineTypeOK, Jobs
    <3> QED BY <2>2, <3>1 DEF Before, NotAfter, EngineInv, EngineTypeOK, Runs, Versions
  <2> QED BY <1>2, <1>3, <2>1, <2>3 DEF MemoryOrdered
<1>4. CASE job.kind = "compaction" /\ job.candidates = tables
  <2>1. run = MergeRuns(tables) /\ tables \in SUBSET DOMAIN files /\ \A t \in tables : t <= job.id
    BY <1>1, <1>4 DEF EngineInv, TablesExist
  <2>2. /\ MergeOf(run, tables)
        /\ \A t \in tables : NotAfter(files[t], run)
    BY <1>1, <2>1, MergeInOrder DEF EngineInv
  <2>3. \A k \in Keys : \A j \in run[k] : \E t \in tables : j \in files[t][k]
    BY <2>2 DEF MergeOf
  <2>4. \A x \in FlushesToCome, t \in tables : job.id < x.id => Before(files[t], x.data)
    <3>1. ASSUME NEW x \in FlushesToCome, NEW t \in tables, job.id < x.id PROVE t < x.id
      <4>1. x \in {pendingFlushes[n] : n \in DOMAIN pendingFlushes}
        BY <1>4 DEF FlushesToCome, FlushInProgress
      <4>2. x.id \in Nat
        BY <4>1, PendingType DEF EngineInv, Versions
      <4> QED BY <1>1, <3>1, <4>2
    <3> QED BY <2>1, <3>1 DEF MemoryOrdered
  <2>5. \A x \in FlushesToCome : job.id < x.id => Before(run, x.data)
    BY <2>3, <2>4 DEF Before
  <2>6. Before(run, memtable.data) /\ Past(run, Len(log))
    BY <2>1, <2>3 DEF Before, Past, MemoryOrdered, FilesOrdered
  <2>7. \A t \in DOMAIN files : NotAfter(files[t], run)
    <3> SUFFICES ASSUME NEW t \in DOMAIN files, NEW k \in Keys, NEW i \in files[t][k],
                        NEW j \in run[k]
                 PROVE  i <= j
      BY DEF NotAfter
    <3>1. PICK u \in tables : \E h \in files[u][k] : i <= h
      BY <1>4 DEF FilesBehind, Behind, Has, FlushInProgress
    <3>2. PICK h \in files[u][k] : i <= h
      BY <3>1
    <3>3. h <= j
      BY <2>2, <3>2 DEF NotAfter
    <3>4. PICK v \in tables : j \in files[v][k]
      BY <2>3
    <3>5. i \in Nat /\ h \in Nat /\ j \in Nat
      BY <2>1, <3>2, <3>4 DEF EngineInv, EngineTypeOK, Runs, Versions
    <3> QED BY <3>2, <3>3, <3>5
  <2> QED BY <1>2, <1>4, <2>2, <2>5, <2>6, <2>7
<1> QED BY <1>3, <1>4 DEF EngineInv, JobInv, Active

\* Files that are written or deleted while the memory stays.
LEMMA FilesOrder ==
    ASSUME EngineInv, FileIdInv, FilesOrdered, MemoryOrdered(memtable.data), FilesBehind, Next,
           UNCHANGED <<log, memtable>>, FlushesToCome' \subseteq FlushesToCome
    PROVE  FilesOrdered' /\ MemoryOrdered(memtable.data)'
<1>1. CASE DOMAIN files' \subseteq DOMAIN files /\ \A t \in DOMAIN files' : files'[t] = files[t]
  BY <1>1 DEF FilesOrdered, MemoryOrdered, NotAfter, Before, Past
<1>2. CASE /\ stage = "write"
           /\ DOMAIN files' = DOMAIN files \cup {job.id}
           /\ \A t \in DOMAIN files \ {job.id} : files'[t] = files[t]
           /\ files'[job.id] = IF job.kind = "flush" THEN job.data ELSE MergeRuns(job.candidates)
  <2>1. PICK run : run = IF job.kind = "flush" THEN job.data ELSE MergeRuns(job.candidates)
    OBVIOUS
  <2>2. /\ \A t \in DOMAIN files : t < job.id /\ NotAfter(files[t], run)
        /\ \A x \in FlushesToCome : job.id < x.id => Before(run, x.data)
        /\ Before(run, memtable.data) /\ Past(run, Len(log))
    BY <1>2, <2>1, WrittenRun
  <2>3. job.id \in Nat /\ \A t \in DOMAIN files : t \in Nat /\ t # job.id
    BY <1>2, <2>2 DEF EngineInv, EngineTypeOK, JobInv, Active, Versions
  <2>4. files'[job.id] = run /\ \A t \in DOMAIN files : files'[t] = files[t]
    BY <1>2, <2>1, <2>3
  <2>5. FilesOrdered'
    <3>1. ASSUME NEW t \in DOMAIN files', NEW u \in DOMAIN files', t < u
          PROVE  NotAfter(files'[t], files'[u])
      <4>1. t \in DOMAIN files
        BY <1>2, <2>2, <2>3, <3>1
      <4>2. CASE u = job.id
        BY <2>2, <2>4, <4>1, <4>2
      <4>3. CASE u \in DOMAIN files
        BY <2>4, <3>1, <4>1, <4>3 DEF FilesOrdered
      <4> QED BY <1>2, <4>2, <4>3
    <3>2. \A t \in DOMAIN files' : Past(files'[t], Len(log))
      BY <1>2, <2>2, <2>4 DEF FilesOrdered
    <3> QED BY <3>1, <3>2 DEF FilesOrdered, NotAfter, Past
  <2>6. MemoryOrdered(memtable.data)'
    <3>1. \A t \in DOMAIN files', x \in FlushesToCome' : t < x.id => Before(files'[t], x.data)
      BY <1>2, <2>2, <2>4 DEF MemoryOrdered
    <3>2. \A t \in DOMAIN files' : Before(files'[t], memtable.data)
      BY <1>2, <2>2, <2>4 DEF MemoryOrdered
    <3> QED BY <3>1, <3>2 DEF MemoryOrdered, Before, Past
  <2> QED BY <2>5, <2>6
<1> QED BY <1>1, <1>2, StepOfFiles

\* Appends make the memtable newer, and rotations put it behind the queue.
LEMMA MemoryOrder ==
    ASSUME EngineInv, FilesOrdered, MemoryOrdered(memtable.data), UNCHANGED files, NEW m,
           Len(log') \in {Len(log), Len(log) + 1},
           \A k \in Keys : \A i \in m[k] :
              i \in memtable.data[k] \/ (i = Len(log') /\ Len(log') = Len(log) + 1),
           \/ memtable'.data = m /\ FlushesToCome' \subseteq FlushesToCome
           \/ /\ memtable' = EmptyMemtable
              /\ FlushesToCome' \subseteq FlushesToCome \cup {[id |-> nextTableId, data |-> m]}
    PROVE  FilesOrdered' /\ MemoryOrdered(memtable.data)'
<1>1. /\ Len(log) \in Nat /\ memtable.data \in Runs /\ nextTableId \in Nat
      /\ \A t \in DOMAIN files : files[t] \in Runs
  BY DEF EngineInv, EngineTypeOK, Versions
<1>2. \A x \in FlushesToCome : x.id \in Nat /\ x.id < nextTableId /\ x.data \in Runs
  BY PendingType DEF FlushesToCome, FlushInProgress, EngineInv, EngineTypeOK, IdInv, JobInv,
                     Active, Jobs, Versions
<1>3. ASSUME NEW a \in Runs, Before(a, memtable.data), Past(a, Len(log))
      PROVE  Before(a, m) /\ Past(a, Len(log'))
  <2>1. \A k \in Keys : \A i \in a[k] : i \in Nat /\ i <= Len(log)
    BY <1>3 DEF Past, Runs, Versions
  <2>2. \A k \in Keys : \A i \in a[k] : i <= Len(log') /\ i < Len(log) + 1
    BY <1>1, <2>1
  <2> QED BY <1>3, <2>2 DEF Before, Past
<1>4. Past(m, Len(log'))
  <2>1. \A k \in Keys : \A i \in memtable.data[k] : i \in Nat /\ i <= Len(log)
    BY <1>1 DEF MemoryOrdered, Past, Runs, Versions
  <2>2. \A k \in Keys : \A i \in memtable.data[k] : i <= Len(log')
    BY <1>1, <2>1
  <2>3. Len(log') <= Len(log')
    BY <1>1
  <2> QED BY <2>2, <2>3 DEF Past
<1>5. /\ \A t \in DOMAIN files : Before(files[t], m) /\ Past(files[t], Len(log'))
      /\ \A x \in FlushesToCome : Before(x.data, m) /\ Past(x.data, Len(log'))
  BY <1>1, <1>2, <1>3 DEF MemoryOrdered, FilesOrdered
<1>6. FilesOrdered'
  BY <1>5 DEF FilesOrdered, NotAfter, Past
<1>7. CASE memtable'.data = m /\ FlushesToCome' \subseteq FlushesToCome
  BY <1>4, <1>5, <1>6, <1>7 DEF MemoryOrdered, Before, Past
<1>8. CASE /\ memtable' = EmptyMemtable
           /\ FlushesToCome' \subseteq FlushesToCome \cup {[id |-> nextTableId, data |-> m]}
  <2> DEFINE new == [id |-> nextTableId, data |-> m]
  <2>1. new.id = nextTableId /\ new.data = m
    OBVIOUS
  <2> HIDE DEF new
  <2>2. FlushesToCome' \subseteq FlushesToCome \cup {new}
    BY <1>8 DEF new
  <2>3. \A x, y \in FlushesToCome' : x.id < y.id => Before(x.data, y.data)
    <3> SUFFICES ASSUME NEW x \in FlushesToCome', NEW y \in FlushesToCome', x.id < y.id
                 PROVE  Before(x.data, y.data)
      OBVIOUS
    <3>1. CASE x \in FlushesToCome /\ y \in FlushesToCome
      BY <3>1 DEF MemoryOrdered
    <3>2. CASE x \in FlushesToCome /\ y = new
      BY <1>5, <2>1, <3>2
    <3>3. CASE x = new
      <4>1. y \in FlushesToCome => y.id \in Nat /\ y.id < nextTableId
        BY <1>2
      <4> QED BY <1>1, <2>1, <2>2, <3>3, <4>1
    <3> QED BY <2>2, <3>1, <3>2, <3>3
  <2>4. \A t \in DOMAIN files, x \in FlushesToCome' : t < x.id => Before(files[t], x.data)
    BY <1>5, <2>1, <2>2 DEF MemoryOrdered
  <2>5. \A x \in FlushesToCome' : Past(x.data, Len(log'))
    BY <1>4, <1>5, <2>1, <2>2
  <2>6. \A k \in Keys : memtable'.data[k] = {}
    BY <1>8 DEF EmptyMemtable, NoPoints
  <2> QED BY <1>6, <2>3, <2>4, <2>5, <2>6 DEF MemoryOrdered, Before, Past
<1> QED BY <1>7, <1>8

LEMMA RunningMemory ==
    ASSUME EngineInv, FileIdInv, FilesOrdered, MemoryOrdered(memtable.data), FilesBehind, Next
    PROVE  FilesOrdered' /\ MemoryOrdered(memtable.data)'
<1>1. CASE UNCHANGED <<log, memtable>> /\ FlushesToCome' \subseteq FlushesToCome
  BY <1>1, FilesOrder
<1>2. CASE /\ UNCHANGED <<log, files>> /\ memtable' = EmptyMemtable
           /\ FlushesToCome' \subseteq
                 FlushesToCome \cup {[id |-> nextTableId, data |-> memtable.data]}
  <2>1. PICK m : m = memtable.data
    OBVIOUS
  <2> QED BY <1>2, <2>1, MemoryOrder
<1>3. ASSUME NEW b \in Batches, log' = Append(log, b.keys), UNCHANGED files,
             \/ memtable' = Appended(b) /\ FlushesToCome' \subseteq FlushesToCome
             \/ /\ memtable' = EmptyMemtable
                /\ FlushesToCome' \subseteq
                      FlushesToCome \cup {[id |-> nextTableId, data |-> Appended(b).data]}
      PROVE  FilesOrdered' /\ MemoryOrdered(memtable.data)'
  <2>1. PICK m : m = Appended(b).data
    OBVIOUS
  <2>2. Len(log') = Len(log) + 1
    BY <1>3 DEF EngineInv, EngineTypeOK
  <2>3. \A k \in Keys : \A i \in m[k] : i \in memtable.data[k] \/ i = Len(log) + 1
    BY <2>1 DEF Appended
  <2> QED BY <1>3, <2>1, <2>2, <2>3, MemoryOrder
<1> QED BY <1>1, <1>2, <1>3, StepOfMemory

\* No step but one that raises leaves a file with something the tables lack.
LEMMA RunningBehind ==
    ASSUME EngineInv, EngineInv', FileIdInv, FilesOrdered, MemoryOrdered(memtable.data),
           FilesBehind, Next, ~ \E c \in Clients : TaskRaises(c)
    PROVE  FilesBehind'
<1>1. tables \subseteq DOMAIN files /\ tables' \subseteq DOMAIN files'
  BY DEF EngineInv, TablesExist
<1>2. CASE /\ stage = "write" /\ stage' = "build" /\ UNCHANGED <<tables, job>>
           /\ DOMAIN files' = DOMAIN files \cup {job.id}
           /\ \A t \in DOMAIN files \ {job.id} : files'[t] = files[t]
           /\ files'[job.id] = IF job.kind = "flush" THEN job.data ELSE MergeRuns(job.candidates)
  <2>1. PICK run : run = IF job.kind = "flush" THEN job.data ELSE MergeRuns(job.candidates)
    OBVIOUS
  <2>2. /\ \A t \in DOMAIN files : t < job.id
        /\ job.kind = "flush" \/ (MergeOf(run, tables) /\ job.kind = "compaction")
    BY <1>2, <2>1, WrittenRun
  <2>3. job.id \in Nat /\ \A t \in DOMAIN files : t \in Nat /\ t # job.id
    BY <1>2, <2>2 DEF EngineInv, EngineTypeOK, JobInv, Active, Versions
  <2>4. files'[job.id] = run /\ \A t \in DOMAIN files : files'[t] = files[t]
    BY <1>2, <2>1, <2>3
  <2>5. \A t \in DOMAIN files : Behind(files[t], tables)'
    BY <1>1, <1>2, <2>3, <2>4 DEF FilesBehind, Behind, Has
  <2>6. CASE job.kind = "flush"
    BY <1>2, <2>5, <2>6 DEF FilesBehind, FlushInProgress
  <2>7. CASE MergeOf(run, tables) /\ job.kind = "compaction"
    <3>1. \A t \in tables : Behind(files[t], {job.id})'
      BY <1>1, <1>2, <2>3, <2>4, <2>7 DEF MergeOf, Behind, Has
    <3>2. \A k \in Keys : \A i \in run[k] : \E t \in tables : Has(files[t], k, i)
      BY <1>1, <2>7, AsNewAsItself DEF MergeOf
    <3>3. Behind(files[job.id], tables)'
      BY <1>1, <1>2, <2>3, <2>4, <3>2 DEF Behind, Has
    <3>4. \A t \in DOMAIN files' : Behind(files[t], tables)'
      BY <1>2, <2>5, <3>3
    <3> QED BY <1>2, <3>1, <3>4 DEF FilesBehind
  <2> QED BY <2>2, <2>6, <2>7
<1>3. CASE /\ DOMAIN files' \subseteq DOMAIN files /\ \A t \in DOMAIN files' : files'[t] = files[t]
           /\ ~(stage = "write" /\ stage' = "build")
  <2>1. ASSUME tables \subseteq tables', NEW t \in DOMAIN files'
        PROVE  (FlushInProgress' /\ t = job'.id) \/ Behind(files[t], tables)'
    <3>1. Behind(files[t], tables) => Behind(files[t], tables)'
      BY <1>1, <1>3, <2>1 DEF Behind, Has
    <3>2. t \in tables' => Behind(files[t], tables)'
      BY <1>1, <1>3, AsNewAsItself DEF Behind, Has
    <3>3. FlushInProgress => \/ FlushInProgress' /\ job'.id = job.id
                             \/ tables' = tables \cup {job.id}
      BY StepOfJob
    <3> QED BY <1>3, <2>1, <3>1, <3>2, <3>3 DEF FilesBehind
  <2>2. ASSUME stage = "commit", job.kind = "compaction", UNCHANGED files,
               tables' = job.manifest.tables, NEW t \in DOMAIN files'
        PROVE  Behind(files[t], tables)'
    <3>1. tables' = {job.id} /\ ~FlushInProgress
      BY <2>2 DEF EngineInv, JobInv, Active, FlushInProgress
    <3>2. ASSUME NEW k \in Keys, NEW i \in files[t][k]
          PROVE  \E h \in files[job.id][k] : i <= h
      <4>1. PICK u \in tables : \E j \in files[u][k] : i <= j
        BY <2>2, <3>1 DEF FilesBehind, Behind, Has
      <4>2. PICK j \in files[u][k] : i <= j
        BY <4>1
      <4>3. PICK h \in files[job.id][k] : j <= h
        BY <2>2, <4>2 DEF FilesBehind, Behind, Has, Active
      <4>4. i \in Nat /\ j \in Nat /\ h \in Nat /\ i <= j /\ j <= h
        BY <1>1, <2>2, <4>2, <4>3 DEF EngineInv, EngineTypeOK, JobInv, Active, Runs, Versions
      <4> QED BY <4>3, <4>4
    <3> QED BY <2>2, <3>1, <3>2 DEF Behind, Has
  <2>3. ASSUME NEW t \in DOMAIN files'
        PROVE  (FlushInProgress' /\ t = job'.id) \/ Behind(files[t], tables)'
    BY <1>3, <2>1, <2>2, WhoChangesTables DEF FilesBehind
  <2>4. ASSUME Active', stage' # "write", job'.kind = "compaction", NEW t \in tables'
        PROVE  Behind(files[t], {job.id})'
    <3>1. /\ Active /\ stage # "write" /\ job.kind = "compaction"
          /\ job'.id = job.id /\ UNCHANGED tables
      BY <1>3, <2>4, StepOfJob
    <3>2. job.id \in DOMAIN files'
      BY <2>4, <3>1 DEF EngineInv, JobInv
    <3> QED BY <1>1, <1>3, <2>4, <3>1, <3>2 DEF FilesBehind, Behind, Has
  <2> QED BY <2>3, <2>4 DEF FilesBehind
<1> QED BY <1>2, <1>3, StepOfFiles

LEMMA RunningOrder ==
    ASSUME MaxFaults = 0, RestartInv, NamesInv, OrderedInv, Running
    PROVE  OrderedInv'
<1>1. /\ EngineInv /\ Next /\ FileIdInv /\ faults = 0
      /\ FilesOrdered /\ MemoryOrdered(memtable.data) /\ FilesBehind
  BY DEF Running, RestartInv, NamesInv, OrderedInv
<1>2. ~ \E c \in Clients : TaskRaises(c)
  BY <1>1, NothingRaises
<1>3. faults' = 0
  BY <1>1, LossIsFault
<1>4. FilesOrdered' /\ MemoryOrdered(memtable.data)'
  BY <1>1, RunningMemory
<1>5. FilesBehind'
  <2>1. EngineInv'
    BY <1>1, NextEngine
  <2> QED BY <1>1, <1>2, <2>1, RunningBehind
<1> QED BY <1>3, <1>4, <1>5 DEF OrderedInv

\* The engine that opens has every file in its tables and nothing in memory.
LEMMA OpenOrder ==
    ASSUME RestartInv, NamesInv, OrderedInv, Open
    PROVE  OrderedInv'
<1>1. /\ phase = "open" /\ tables' = found.tables /\ UNCHANGED <<files, log, faults, stage>>
      /\ UNCHANGED <<memtable, pendingFlushes, job>> /\ Fresh({}, 1)
  BY DEF Open, diskVars, historyVars, lockVars, RestartInv, OpenInv
<1>2. EngineInv /\ DOMAIN files \subseteq found.tables
  BY <1>1 DEF RestartInv, NamesInv
<1>3. FilesOrdered'
  BY <1>1 DEF OrderedInv, FilesOrdered, NotAfter, Past
<1>4. /\ FlushesToCome' = {} /\ ~FlushInProgress' /\ ~Active'
      /\ \A k \in Keys : memtable'.data[k] = {}
  BY <1>1 DEF Fresh, FlushesToCome, FlushInProgress, Active, EmptyMemtable, NoPoints
<1>5. MemoryOrdered(memtable.data)'
  BY <1>4 DEF MemoryOrdered, Before, Past
<1>6. FilesBehind'
  BY <1>1, <1>2, <1>4, AsNewAsItself DEF FilesBehind, Behind, Has
<1> QED BY <1>1, <1>3, <1>5, <1>6 DEF OrderedInv

LEMMA NextOrder ==
    ASSUME MaxFaults = 0
    PROVE  RestartInv /\ NamesInv /\ OrderedInv /\ [RecoveryNext]_allVars => OrderedInv'
<1> SUFFICES ASSUME RestartInv, NamesInv, OrderedInv, [RecoveryNext]_allVars PROVE OrderedInv'
  OBVIOUS
<1>1. CASE RecoveryNext /\ ~Running /\ ~Open
  <2>1. /\ DOMAIN files' \subseteq DOMAIN files /\ \A t \in DOMAIN files' : files'[t] = files[t]
    BY <1>1, ClosedFiles
  <2>2. phase' # "up" /\ UNCHANGED <<log, faults>>
    BY <1>1 DEF RecoveryNext, Recover, Crash, Exit, Damage, Restart, LoadPrimary, DropPrimary,
                LoadBackup, DropBackup, RebuildNext, RebuildDone, DropOrphan, OrphansDone,
                ResavePrimary, ResaveBackup, GoOnWith, RecoverStep, historyVars, recoverVars
  <2>3. FilesOrdered'
    BY <2>1, <2>2 DEF OrderedInv, FilesOrdered, NotAfter, Past
  <2> QED BY <2>2, <2>3 DEF OrderedInv
<1>2. CASE UNCHANGED allVars
  <2>1. /\ UNCHANGED <<memtable, tables, pendingFlushes, stage, job, files, log, faults, phase>>
    BY <1>2 DEF allVars, vars, lockVars, diskVars, historyVars, recoverVars
  <2>2. FlushesToCome' = FlushesToCome /\ (FlushInProgress' <=> FlushInProgress)
        /\ (Active' <=> Active)
    BY <2>1 DEF FlushesToCome, FlushInProgress, Active
  <2>3. FilesOrdered' /\ (MemoryOrdered(memtable.data) => MemoryOrdered(memtable.data)')
    BY <2>1, <2>2 DEF OrderedInv, FilesOrdered, MemoryOrdered, NotAfter, Before, Past
  <2>4. FilesBehind => FilesBehind'
    BY <2>1, <2>2 DEF FilesBehind, Behind, Has
  <2> QED BY <2>1, <2>3, <2>4 DEF OrderedInv
<1> QED BY <1>1, <1>2, RunningOrder, OpenOrder DEF RecoveryNext, Recover

LEMMA InitOrder == RecoveryInit => OrderedInv
<1> SUFFICES ASSUME RecoveryInit PROVE OrderedInv
  OBVIOUS
<1>1. /\ DOMAIN files = {} /\ pendingFlushes = <<>> /\ stage = "free" /\ faults = 0
      /\ memtable = EmptyMemtable
  BY DEF RecoveryInit, Init
<1>2. /\ FlushesToCome = {} /\ ~FlushInProgress /\ ~Active
      /\ \A k \in Keys : memtable.data[k] = {}
  BY <1>1 DEF FlushesToCome, FlushInProgress, Active, EmptyMemtable, NoPoints
<1> QED BY <1>1, <1>2
        DEF OrderedInv, FilesOrdered, MemoryOrdered, FilesBehind, Before, Past

\* Whatever is damaged, newest wins by table id in every engine that is opened,
\* be it from a rebuild: no file that recover() finds can put an old version
\* above a new one, as long as no task raised and every file that has to can be
\* moved.  A flush that raised after it wrote its file leaves one that a later
\* compaction does not merge (core.py 486-494, 564-613).
THEOREM OrderedThroughRebuilds ==
    ASSUME MaxFaults = 0, MaxQuarantineFaults = 0
    PROVE  RecoverySpec => []OrderedAcrossRestarts
<1>1. RestartInv /\ OrderedInv => OrderedAcrossRestarts
  <2> SUFFICES ASSUME RestartInv, OrderedInv, phase = "up",
                      NEW x \in Held, NEW y \in Held, x.id < y.id
               PROVE  NotAfter(x.data, y.data)
    BY DEF OrderedAcrossRestarts, NotAfter
  <2>1. EngineInv /\ FilesOrdered /\ MemoryOrdered(memtable.data)
    BY DEF RestartInv, OrderedInv
  <2>2. ASSUME NEW z \in Held
        PROVE  /\ z.id \in Nat /\ z.data \in Runs /\ z.id <= nextTableId
               /\ \/ z.id \in tables /\ z.data = files[z.id]
                  \/ z \in FlushesToCome
                  \/ z.id = nextTableId /\ z.data = memtable.data
    <3>1. /\ nextTableId \in Nat /\ tables \subseteq DOMAIN files
          /\ \A t \in tables : t \in Nat /\ t < nextTableId /\ files[t] \in Runs
          /\ memtable.data \in Runs
      BY <2>1 DEF EngineInv, EngineTypeOK, IdInv, TablesExist, Versions
    <3>2. \A n \in DOMAIN pendingFlushes : /\ pendingFlushes[n].id \in Nat
                                          /\ pendingFlushes[n].id < nextTableId
                                          /\ pendingFlushes[n].data \in Runs
      BY <2>1, PendingType DEF EngineInv, IdInv, Versions
    <3>3. FlushInProgress => job.id \in Nat /\ job.id < nextTableId /\ job.data \in Runs
      BY <2>1 DEF EngineInv, EngineTypeOK, IdInv, JobInv, FlushInProgress, Active, Jobs, Versions
    <3>4. CASE z \in {[id |-> t, data |-> files[t]] : t \in tables}
      BY <3>1, <3>4
    <3>5. CASE z \in {pendingFlushes[n] : n \in DOMAIN pendingFlushes}
      BY <3>1, <3>2, <3>5 DEF FlushesToCome
    <3>6. CASE FlushInProgress /\ z = [id |-> job.id, data |-> job.data]
      BY <3>1, <3>3, <3>6 DEF FlushesToCome
    <3>7. CASE z = [id |-> nextTableId, data |-> memtable.data]
      BY <3>1, <3>7
    <3> QED BY <3>4, <3>5, <3>6, <3>7 DEF Held
  <2>3. /\ nextTableId \in Nat /\ tables \subseteq DOMAIN files
        /\ \A t \in tables : t \in Nat /\ \A z \in FlushesToCome : t < z.id
    BY <2>1, PendingType
    DEF FlushesToCome, FlushInProgress, EngineInv, EngineTypeOK, IdInv, TablesExist, Active,
        Versions
  <2>4. Before(x.data, y.data) => NotAfter(x.data, y.data)
    BY <2>2 DEF Before, NotAfter, Runs, Versions
  <2>5. CASE y.id = nextTableId /\ y.data = memtable.data
    <3>1. (x.id \in tables /\ x.data = files[x.id]) \/ x \in FlushesToCome
      BY <2>2, <2>3, <2>5
    <3> QED BY <2>1, <2>3, <2>4, <2>5, <3>1 DEF MemoryOrdered
  <2>6. CASE y \in FlushesToCome
    <3>1. (x.id \in tables /\ x.data = files[x.id]) \/ x \in FlushesToCome
      BY <2>2, <2>3, <2>6
    <3> QED BY <2>1, <2>3, <2>4, <2>6, <3>1 DEF MemoryOrdered
  <2>7. CASE y.id \in tables /\ y.data = files[y.id]
    <3>1. x.id \in tables /\ x.data = files[x.id]
      BY <2>2, <2>3, <2>7
    <3> QED BY <2>1, <2>3, <2>7, <3>1 DEF FilesOrdered
  <2> QED BY <2>2, <2>5, <2>6, <2>7
<1>2. RecoverySpec => []NamesInv
  BY NamesInvariance
<1>3. RestartInv /\ NamesInv /\ OrderedInv /\ [RecoveryNext]_allVars => OrderedInv'
  BY NextOrder
<1> QED BY <1>1, <1>2, <1>3, InitOrder, RestartInvariance, PTL DEF RecoverySpec

-----------------------------------------------------------------------------
(* What survives damage, between exits that are clean.                     *)

Whole == DOMAIN files \ damaged

\* If recover() takes the manifest m it opens what was promised.
Stands(m) == Valid(m) => PromiseKept(m.tables)

\* The backup manifest is the primary one, unless it was damaged.
BackupInStep == backup \in {primary, Unreadable}

\* Outside of a job both manifests have the tables.
SavedTwice ==
    /\ stage \in {"backup", "commit"} => primary = job.manifest
    /\ stage \notin {"backup", "commit"} => primary.tables = tables
    /\ stage # "backup" => BackupInStep

\* Until a manifest is chosen the whole files have what was promised, and so has
\* each manifest that may be chosen; then the one that is chosen.
LeftOnDisk ==
    /\ phase \in {"down", "load primary"} =>
          Stands(primary) /\ Stands(backup) /\ (Valid(primary) => BackupInStep)
    /\ phase \in {"drop primary", "load backup"} => Stands(backup)
    /\ phase \notin Chosen => PromiseKept(Whole)
    /\ phase = "rebuild" => todo \subseteq damaged
    /\ phase \in Chosen => PromiseKept(found.tables)
    /\ phase = "orphans" /\ ~resave => found = primary /\ BackupInStep
    /\ phase = "save backup" => found = primary
    /\ phase = "open" => found = primary /\ BackupInStep

SurvivesInv ==
    /\ crashes = 0
    /\ promised \in Runs
    /\ phase = "up" => PromiseKept(tables) /\ SavedTwice
    /\ phase # "up" => LeftOnDisk

\* No step of the engine takes a version out of the tables unless a newer one
\* stays, also where tables may have the same versions.
LEMMA WeakTablesKeep ==
    ASSUME EngineInv, EngineInv', FilesBehind, Next
    PROVE  \A t \in tables, k \in Keys : \A i \in files[t][k] :
              \E u \in tables' : Has(files'[u], k, i)
<1>1. tables \subseteq DOMAIN files
  BY DEF EngineInv, TablesExist
<1>2. CASE tables \subseteq tables' /\ \A t \in tables : files'[t] = files[t]
  BY <1>1, <1>2, AsNewAsItself DEF Has
<1>3. CASE /\ stage = "write" /\ UNCHANGED tables
           /\ \A t \in DOMAIN files \ {job.id} : files'[t] = files[t]
  <2>1. \A t \in tables : t \in Nat /\ t < job.id
    BY <1>3 DEF EngineInv, EngineTypeOK, IdInv, Active, Versions
  <2> QED BY <1>1, <1>2, <1>3, <2>1
<1>4. CASE /\ stage = "commit" /\ job.kind = "compaction" /\ UNCHANGED files
           /\ tables' = job.manifest.tables
  <2>1. job.id \in tables'
    BY <1>4 DEF EngineInv, JobInv
  <2>2. \A t \in tables : Behind(files[t], {job.id})
    BY <1>4 DEF FilesBehind, Active
  <2> QED BY <1>4, <2>1, <2>2 DEF Behind
<1>5. CASE /\ stage = "unlink" /\ UNCHANGED tables
           /\ \A t \in DOMAIN files \ job.candidates : files'[t] = files[t]
  <2>1. tables \cap job.candidates = {}
    BY <1>5 DEF EngineInv, JobInv
  <2> QED BY <1>1, <1>2, <1>5, <2>1
<1> QED BY <1>1, <1>2, <1>3, <1>4, <1>5, WhoChangesTables

\* Both manifests are written by every job, one after the other.
LEMMA StepOfManifests ==
    ASSUME EngineInv, SavedTwice, Next, ~ \E c \in Clients : TaskRaises(c)
    PROVE  SavedTwice'
<1>1. ASSUME NEW c \in Clients, Call(c) \/ LockStep(c) PROVE SavedTwice'
  <2>1. /\ UNCHANGED <<tables, primary, backup>>
        /\ UNCHANGED <<stage, job>> \/ (stage = "free" /\ stage' = "pick")
    BY <1>1 DEF Call, LockStep, AppendRows, Flush, Compact, Close, Acquire, CloseFirst,
                CloseAgain, TakeLock, lockVars, diskVars, EngineInv, EngineTypeOK
  <2> QED BY <2>1 DEF SavedTwice, BackupInStep
<1>2. ASSUME NEW c \in Clients,
             PickFlush(c) \/ PickCompaction(c) \/ DrainDone(c) \/ WriteTable(c) \/ BuildManifest(c)
               \/ UnlinkNext(c) \/ UnlinkDone(c)
      PROVE  SavedTwice'
  <2>1. /\ UNCHANGED <<tables, primary, backup>>
        /\ {stage, stage'} \cap {"backup", "commit"} = {}
    BY <1>2 DEF PickFlush, PickCompaction, DrainDone, WriteTable, BuildManifest, UnlinkNext,
                UnlinkDone, StartFlush, StartCompaction, ReleaseLock, diskVars
  <2> QED BY <2>1 DEF SavedTwice, BackupInStep
<1>3. ASSUME NEW c \in Clients, SavePrimary(c) PROVE SavedTwice'
  BY <1>3 DEF SavePrimary, SavedTwice
<1>4. ASSUME NEW c \in Clients, SaveBackup(c) PROVE SavedTwice'
  BY <1>4 DEF SaveBackup, SavedTwice, BackupInStep
<1>5. ASSUME NEW c \in Clients, CommitFlush(c) \/ CommitCompaction(c) PROVE SavedTwice'
  <2>1. /\ stage = "commit" /\ stage' \in {"pick", "unlink"} /\ UNCHANGED <<primary, backup>>
        /\ tables' = job.manifest.tables
    <3>1. job.manifest.tables = (tables \ job.candidates) \cup {job.id}
          /\ (job.kind = "flush" => job.candidates = {})
      BY <1>5 DEF CommitFlush, CommitCompaction, EngineInv, JobInv, Active
    <3> QED BY <1>5, <3>1 DEF CommitFlush, CommitCompaction, diskVars
  <2> QED BY <2>1 DEF SavedTwice, BackupInStep
<1>6. ASSUME NEW r \in Readers, QueryBegin(r) \/ Read(r) PROVE SavedTwice'
  <2>1. UNCHANGED <<tables, primary, backup, stage, job>>
    BY <1>6 DEF QueryBegin, Read, ReadTable, FileMissing, CheckActive, QueryEnd, lockVars, diskVars
  <2> QED BY <2>1 DEF SavedTwice, BackupInStep
<1> QED BY <1>1, <1>2, <1>3, <1>4, <1>5, <1>6 DEF Next, Drain

LEMMA RunningSurvives ==
    ASSUME MaxFaults = 0, RestartInv, OrderedInv, SurvivesInv, Running
    PROVE  SurvivesInv'
<1>1. /\ EngineInv /\ Next /\ phase = "up" /\ phase' = "up" /\ faults = 0 /\ FilesBehind
      /\ PromiseKept(tables) /\ SavedTwice /\ promised \in Runs
      /\ promised' = Newest(MergeRuns(tables)', promised) /\ crashes' = 0
  BY DEF RestartInv, SurvivesInv, OrderedInv, Running, recoverVars, countVars
<1>2. EngineInv' /\ ~ \E c \in Clients : TaskRaises(c)
  BY <1>1, NextEngine, NothingRaises
<1>3. /\ promised' \in Runs
      /\ \A k \in Keys : \A i \in promised'[k] : i \in MergeRuns(tables)'[k] \/ i \in promised[k]
  <2>1. MergeRuns(tables)' \in Runs
    BY <1>2, NextTablesTyped DEF TablesTyped
  <2> QED BY <1>1, <2>1, NewestKept
<1>4. PromiseKept(tables)'
  <2> SUFFICES ASSUME NEW k \in Keys, NEW i \in promised'[k]
               PROVE  \E u \in tables' : Has(files'[u], k, i)
    BY DEF PromiseKept
  <2>1. CASE i \in promised[k]
    <3>1. PICK t \in tables : \E j \in files[t][k] : i <= j
      BY <1>1, <2>1 DEF PromiseKept, Has
    <3>2. PICK j \in files[t][k] : i <= j
      BY <3>1
    <3>3. PICK u \in tables' : \E h \in files'[u][k] : j <= h
      BY <1>1, <1>2, <3>2, WeakTablesKeep DEF Has
    <3>4. PICK h \in files'[u][k] : j <= h
      BY <3>3
    <3>5. i \in Nat /\ j \in Nat /\ h \in Nat
      BY <1>1, <1>2, <2>1, <3>2, <3>4 DEF EngineInv, EngineTypeOK, TablesExist, Runs, Versions
    <3>6. i <= h
      BY <3>2, <3>4, <3>5
    <3> QED BY <3>4, <3>6 DEF Has
  <2>2. CASE i \in MergeRuns(tables)'[k]
    <3>1. PICK t \in tables' : i \in files'[t][k]
      BY <2>2 DEF MergeRuns
    <3>2. i \in Nat
      BY <1>2, <3>1 DEF EngineInv, EngineTypeOK, TablesExist, Runs, Versions
    <3> QED BY <3>1, <3>2 DEF Has
  <2> QED BY <1>3, <2>1, <2>2
<1>5. SavedTwice'
  BY <1>1, <1>2, StepOfManifests
<1> QED BY <1>1, <1>3, <1>4, <1>5 DEF SurvivesInv

\* An engine that was closed leaves its tables in the primary manifest, and the
\* same ones in the backup unless that is damaged.
LEMMA ExitSurvives ==
    ASSUME RestartInv, SurvivesInv, Exit
    PROVE  SurvivesInv'
<1>1. /\ phase = "up" /\ phase' = "down" /\ \A c \in Clients : pc[c] = "idle"
      /\ UNCHANGED <<files, primary, backup, promised, damaged, crashes>>
      /\ PromiseKept(tables) /\ SavedTwice /\ EngineInv /\ tables \cap damaged = {}
  BY DEF Exit, diskVars, SurvivesInv, RestartInv, OpenInv
<1>2. stage = "free"
  BY <1>1 DEF EngineInv, EngineTypeOK
<1>3. primary.tables = tables /\ BackupInStep /\ tables \subseteq Whole
  BY <1>1, <1>2 DEF SavedTwice, EngineInv, TablesExist, Whole
<1>4. Stands(primary)' /\ Stands(backup)' /\ BackupInStep'
  BY <1>1, <1>3 DEF Stands, Valid, PromiseKept, Has, BackupInStep
<1>5. PromiseKept(Whole)'
  BY <1>1, <1>3 DEF PromiseKept, Has, Whole
<1> QED BY <1>1, <1>4, <1>5 DEF SurvivesInv, LeftOnDisk, Chosen

LEMMA DamageSurvives ==
    ASSUME RestartInv, SurvivesInv, Damage
    PROVE  SurvivesInv'
<1>1. /\ phase = "down" /\ phase' = "down" /\ crashes' = crashes /\ promised \in Runs
      /\ Stands(primary) /\ Stands(backup) /\ (Valid(primary) => BackupInStep)
      /\ PromiseKept(Whole) /\ EngineInv
  BY DEF Damage, recoverVars, SurvivesInv, LeftOnDisk, Chosen, RestartInv
<1>2. CASE DamageManifest
  <2>1. /\ UNCHANGED <<files, damaged, promised>>
        /\ \/ primary' = Unreadable /\ UNCHANGED backup
           \/ backup' = Unreadable /\ UNCHANGED primary
    BY <1>2 DEF DamageManifest
  <2>2. Stands(primary)' /\ Stands(backup)' /\ (Valid(primary) => BackupInStep)'
    BY <1>1, <2>1 DEF Stands, Valid, PromiseKept, Has, BackupInStep
  <2>3. PromiseKept(Whole)'
    BY <1>1, <2>1 DEF PromiseKept, Has, Whole
  <2> QED BY <1>1, <2>1, <2>2, <2>3 DEF SurvivesInv, LeftOnDisk, Chosen
<1>3. CASE DamageTable
  <2>1. PICK t \in DOMAIN files \ damaged :
          /\ damaged' = damaged \cup {t} /\ promised' = StillWhole(damaged \cup {t})
          /\ UNCHANGED <<files, primary, backup>>
    BY <1>3 DEF DamageTable, diskVars
  <2>2. /\ promised' \in Runs
        /\ \A k \in Keys : \A i \in promised'[k] :
              /\ \E u \in Whole' : i \in files[u][k]
              /\ \E j \in promised[k] : i <= j
    BY <1>1, <2>1 DEF StillWhole, Latest, Whole, EngineInv, EngineTypeOK, Runs
  <2>3. ASSUME NEW ids, PromiseKept(ids), ids \subseteq DOMAIN files
        PROVE  \A k \in Keys : \A i \in promised'[k] : \E u \in ids : Has(files[u], k, i)
    <3> SUFFICES ASSUME NEW k \in Keys, NEW i \in promised'[k]
                 PROVE  \E u \in ids : Has(files[u], k, i)
      OBVIOUS
    <3>1. PICK j \in promised[k] : i <= j
      BY <2>2
    <3>2. PICK u \in ids : \E h \in files[u][k] : j <= h
      BY <2>3 DEF PromiseKept, Has
    <3>3. PICK h \in files[u][k] : j <= h
      BY <3>2
    <3>4. i \in Nat /\ j \in Nat /\ h \in Nat
      BY <1>1, <2>2, <2>3 DEF EngineInv, EngineTypeOK, Runs, Versions
    <3>5. i <= h
      BY <3>1, <3>3, <3>4
    <3> QED BY <3>3, <3>5 DEF Has
  <2>4. (Valid(primary)' => Valid(primary)) /\ (Valid(backup)' => Valid(backup))
    BY <2>1 DEF Valid
  <2>5. Stands(primary)' /\ Stands(backup)'
    <3>1. Valid(primary) => PromiseKept(primary.tables)'
      BY <1>1, <2>1, <2>3 DEF Stands, Valid, PromiseKept
    <3>2. Valid(backup) => PromiseKept(backup.tables)'
      BY <1>1, <2>1, <2>3 DEF Stands, Valid, PromiseKept
    <3> QED BY <2>4, <3>1, <3>2 DEF Stands
  <2>6. (Valid(primary) => BackupInStep)'
    BY <1>1, <2>1, <2>4 DEF BackupInStep
  <2>7. PromiseKept(Whole)'
    BY <1>1, <2>1, <2>2, AsNewAsItself DEF PromiseKept, Whole
  <2> QED BY <1>1, <2>2, <2>5, <2>6, <2>7 DEF SurvivesInv, LeftOnDisk, Chosen
<1> QED BY <1>2, <1>3 DEF Damage

\* Recovery before a manifest is chosen, and the choice.
LEMMA LoadSurvives ==
    ASSUME SurvivesInv,
           Restart \/ LoadPrimary \/ DropPrimary \/ LoadBackup \/ DropBackup \/ RebuildDone
    PROVE  SurvivesInv'
<1>1. /\ UNCHANGED <<files, promised, damaged, crashes>> /\ phase # "up" /\ phase' # "up"
      /\ promised \in Runs /\ crashes = 0 /\ LeftOnDisk
  BY DEF Restart, LoadPrimary, DropPrimary, LoadBackup, DropBackup, RebuildDone, RecoverStep,
         diskVars, GoOnWith, SurvivesInv
<1>2. PromiseKept(Whole) => PromiseKept(Whole)'
  BY <1>1 DEF PromiseKept, Whole
<1>3. CASE Restart
  <2>1. phase = "down" /\ phase' = "load primary" /\ UNCHANGED <<primary, backup>>
    BY <1>3 DEF Restart, diskVars
  <2>2. Stands(primary)' /\ Stands(backup)' /\ (Valid(primary) => BackupInStep)'
    BY <1>1, <2>1 DEF LeftOnDisk, Stands, Valid, PromiseKept, BackupInStep
  <2> QED BY <1>1, <1>2, <2>1, <2>2 DEF SurvivesInv, LeftOnDisk, Chosen
<1>4. CASE LoadPrimary
  <2>1. phase = "load primary" /\ UNCHANGED <<primary, backup>>
    BY <1>4 DEF LoadPrimary, diskVars
  <2>2. CASE Valid(primary) /\ GoOnWith(primary, FALSE)
    <3>1. /\ phase' = "orphans" /\ found' = primary /\ BackupInStep'
          /\ PromiseKept(found.tables)'
      BY <1>1, <2>1, <2>2 DEF GoOnWith, LeftOnDisk, Stands, PromiseKept, BackupInStep
    <3> QED BY <1>1, <2>1, <3>1 DEF SurvivesInv, LeftOnDisk, Chosen
  <2>3. CASE phase' = "drop primary"
    <3>1. Stands(backup)'
      BY <1>1, <2>1 DEF LeftOnDisk, Stands, Valid, PromiseKept
    <3> QED BY <1>1, <1>2, <2>1, <2>3, <3>1 DEF SurvivesInv, LeftOnDisk, Chosen
  <2> QED BY <1>4, <2>2, <2>3 DEF LoadPrimary
<1>5. CASE DropPrimary
  <2>1. phase = "drop primary" /\ phase' = "load backup" /\ UNCHANGED backup
    BY <1>5 DEF DropPrimary
  <2>2. Stands(backup)'
    BY <1>1, <2>1 DEF LeftOnDisk, Stands, Valid, PromiseKept
  <2> QED BY <1>1, <1>2, <2>1, <2>2 DEF SurvivesInv, LeftOnDisk, Chosen
<1>6. CASE LoadBackup
  <2>1. phase = "load backup" /\ UNCHANGED <<primary, backup>>
    BY <1>6 DEF LoadBackup, diskVars
  <2>2. CASE Valid(backup) /\ GoOnWith(backup, TRUE)
    <3>1. /\ phase' = "orphans" /\ found' = backup /\ resave' = TRUE
          /\ PromiseKept(found.tables)'
      BY <1>1, <2>1, <2>2 DEF GoOnWith, LeftOnDisk, Stands, PromiseKept
    <3> QED BY <1>1, <2>1, <3>1 DEF SurvivesInv, LeftOnDisk, Chosen
  <2>3. CASE phase' = "drop backup"
    BY <1>1, <1>2, <2>1, <2>3 DEF SurvivesInv, LeftOnDisk, Chosen
  <2> QED BY <1>6, <2>2, <2>3 DEF LoadBackup
<1>7. CASE DropBackup
  <2>1. phase = "drop backup" /\ phase' = "rebuild" /\ todo' = damaged'
    BY <1>1, <1>7 DEF DropBackup
  <2> QED BY <1>1, <1>2, <2>1 DEF SurvivesInv, LeftOnDisk, Chosen
<1>8. CASE RebuildDone
  <2>1. /\ phase = "rebuild" /\ phase' = "orphans" /\ resave' = TRUE
        /\ found'.tables = Whole
    BY <1>8 DEF RebuildDone, GoOnWith, Whole
  <2>2. PromiseKept(found.tables)'
    BY <1>1, <2>1 DEF LeftOnDisk, PromiseKept, Chosen
  <2> QED BY <1>1, <2>1, <2>2 DEF SurvivesInv, LeftOnDisk, Chosen
<1> QED BY <1>3, <1>4, <1>5, <1>6, <1>7, <1>8

\* What is put aside is damaged, or not in the manifest that was chosen.
LEMMA QuarantineSurvives ==
    ASSUME RestartInv, SurvivesInv, RebuildNext \/ DropOrphan
    PROVE  SurvivesInv'
<1>1. PICK t \in todo : /\ todo' = todo \ {t}
                        /\ MoveFile(t) \/ KeepFile
  BY DEF RebuildNext, DropOrphan
<1>2. /\ UNCHANGED <<phase, found, primary, backup, promised, crashes>>
      /\ promised \in Runs /\ crashes = 0 /\ phase \in {"rebuild", "orphans"} /\ LeftOnDisk
      /\ (phase = "orphans" /\ ~resave' => ~resave)
  BY DEF RebuildNext, DropOrphan, RecoverStep, SurvivesInv, RestartInv, RecoverInv
<1>3. /\ DOMAIN files' \in {DOMAIN files, DOMAIN files \ {t}}
      /\ \A u \in DOMAIN files' : files'[u] = files[u]
      /\ \/ DOMAIN files' = DOMAIN files /\ damaged' = damaged
         \/ DOMAIN files' = DOMAIN files \ {t} /\ damaged' = damaged \ {t}
  BY <1>1, QuarantineFacts
<1>4. CASE phase = "rebuild"
  <2>1. todo \subseteq damaged /\ PromiseKept(Whole)
    BY <1>2, <1>4 DEF LeftOnDisk, Chosen
  <2>2. Whole' = Whole /\ \A u \in Whole : files'[u] = files[u]
    BY <1>1, <1>3, <2>1 DEF Whole
  <2>3. PromiseKept(Whole)'
    BY <1>2, <2>1, <2>2 DEF PromiseKept
  <2>4. todo' \subseteq damaged'
    BY <1>1, <1>3, <2>1
  <2> QED BY <1>2, <1>4, <2>3, <2>4 DEF SurvivesInv, LeftOnDisk, Chosen
<1>5. CASE phase = "orphans"
  <2>1. found.tables \subseteq DOMAIN files /\ t \notin found.tables
    BY <1>1, <1>5 DEF RestartInv, RecoverInv, Chosen
  <2>2. \A u \in found.tables : files'[u] = files[u]
    BY <1>3, <2>1
  <2>3. PromiseKept(found.tables)'
    BY <1>2, <1>5, <2>2 DEF LeftOnDisk, Chosen, PromiseKept
  <2>4. ~resave' => found' = primary' /\ BackupInStep'
    BY <1>2, <1>5 DEF LeftOnDisk, BackupInStep
  <2> QED BY <1>2, <1>5, <2>3, <2>4 DEF SurvivesInv, LeftOnDisk, Chosen
<1> QED BY <1>2, <1>4, <1>5

LEMMA SaveSurvives ==
    ASSUME SurvivesInv, OrphansDone \/ ResavePrimary \/ ResaveBackup
    PROVE  SurvivesInv'
<1>1. /\ UNCHANGED <<files, promised, damaged, crashes, found>>
      /\ phase \in Chosen /\ phase' \in Chosen \ {"orphans"}
      /\ promised \in Runs /\ crashes = 0 /\ LeftOnDisk
  BY DEF OrphansDone, ResavePrimary, ResaveBackup, RecoverStep, diskVars, SurvivesInv, Chosen
<1>2. PromiseKept(found.tables)'
  BY <1>1 DEF LeftOnDisk, PromiseKept
<1>3. /\ phase' = "save backup" => found' = primary'
      /\ phase' = "open" => found' = primary' /\ BackupInStep'
  BY <1>1 DEF OrphansDone, ResavePrimary, ResaveBackup, diskVars, LeftOnDisk, BackupInStep
<1> QED BY <1>1, <1>2, <1>3 DEF SurvivesInv, LeftOnDisk, Chosen

LEMMA OpenSurvives ==
    ASSUME RestartInv, SurvivesInv, Open
    PROVE  SurvivesInv'
<1>1. /\ phase = "open" /\ phase' = "up" /\ tables' = found.tables
      /\ promised' = Newest(MergeRuns(found.tables), promised)
      /\ UNCHANGED <<files, primary, backup, crashes, stage>> /\ stage = "free"
      /\ PromiseKept(found.tables) /\ found = primary /\ BackupInStep
      /\ promised \in Runs /\ crashes = 0
      /\ EngineInv /\ found.tables \subseteq DOMAIN files
  BY DEF Open, diskVars, countVars, lockVars, SurvivesInv, LeftOnDisk, Chosen, RestartInv,
         RecoverInv, OpenInv, Fresh
<1>2. /\ promised' \in Runs
      /\ \A k \in Keys : \A i \in promised'[k] :
            i \in MergeRuns(found.tables)[k] \/ i \in promised[k]
  <2>1. MergeRuns(found.tables) \in Runs
    BY <1>1, MergeRunsType DEF EngineInv
  <2> QED BY <1>1, <2>1, NewestKept
<1>3. PromiseKept(tables)'
  <2> SUFFICES ASSUME NEW k \in Keys, NEW i \in promised'[k]
               PROVE  \E t \in found.tables : Has(files[t], k, i)
    BY <1>1 DEF PromiseKept
  <2>1. CASE i \in promised[k]
    BY <1>1, <2>1 DEF PromiseKept
  <2>2. CASE i \in MergeRuns(found.tables)[k]
    <3>1. PICK t \in found.tables : i \in files[t][k]
      BY <2>2 DEF MergeRuns
    <3> QED BY <1>1, <3>1, AsNewAsItself
  <2> QED BY <1>2, <2>1, <2>2
<1>4. SavedTwice'
  BY <1>1 DEF SavedTwice, BackupInStep
<1> QED BY <1>1, <1>2, <1>3, <1>4 DEF SurvivesInv

LEMMA NextSurvives ==
    ASSUME MaxFaults = 0, MaxCrashes = 0
    PROVE  RestartInv /\ OrderedInv /\ SurvivesInv /\ [RecoveryNext]_allVars => SurvivesInv'
<1> SUFFICES ASSUME RestartInv, OrderedInv, SurvivesInv, [RecoveryNext]_allVars
             PROVE  SurvivesInv'
  OBVIOUS
<1>1. ~Crash
  BY DEF Crash, SurvivesInv
<1>2. CASE UNCHANGED allVars
  <2>1. UNCHANGED <<tables, stage, job, files, primary, backup, phase, found, todo, resave,
                    damaged, promised, crashes>>
    BY <1>2 DEF allVars, vars, lockVars, diskVars, recoverVars, countVars
  <2>2. \A ids : PromiseKept(ids) => PromiseKept(ids)'
    BY <2>1 DEF PromiseKept
  <2>3. SavedTwice => SavedTwice'
    BY <2>1 DEF SavedTwice, BackupInStep
  <2>4. LeftOnDisk => LeftOnDisk'
    BY <2>1 DEF LeftOnDisk, Stands, Valid, PromiseKept, BackupInStep, Whole
  <2>5. PromiseKept(tables) => PromiseKept(tables)'
    BY <2>1 DEF PromiseKept
  <2> QED BY <2>1, <2>3, <2>4, <2>5 DEF SurvivesInv
<1> QED BY <1>1, <1>2, RunningSurvives, ExitSurvives, DamageSurvives, LoadSurvives,
           QuarantineSurvives, SaveSurvives, OpenSurvives DEF RecoveryNext, Recover

LEMMA InitSurvives == RecoveryInit => SurvivesInv
BY NoPointsType
DEF RecoveryInit, Init, SurvivesInv, PromiseKept, NoPoints, SavedTwice, BackupInStep,
    EmptyManifest

\* What an open engine had in its tables is there in every engine opened later,
\* in this version or a newer one, as far as a whole file has it, when manifests and
\* tables are damaged in any number while the engine is down: for engines that
\* were closed without a task that raised, and with files that can be moved
\* (core.py 258-340, 564-613, manifest.py 73-88).
THEOREM DamageCostsItsFiles ==
    ASSUME MaxFaults = 0, MaxCrashes = 0, MaxQuarantineFaults = 0
    PROVE  RecoverySpec => []DurableSurvives
<1>1. RestartInv /\ NamesInv /\ OrderedInv /\ SurvivesInv => DurableSurvives
  <2> SUFFICES ASSUME RestartInv, NamesInv, OrderedInv, SurvivesInv, phase = "up",
                      NEW k \in Keys, NEW i \in promised[k]
               PROVE  \E h \in MergeRuns(tables)[k] : i <= h
    BY DEF DurableSurvives, Covers
  <2>1. EngineInv /\ EngineTypeOK /\ PromiseKept(tables) /\ promised \in Runs /\ FilesOrdered
        /\ tables \in SUBSET DOMAIN files
    BY DEF RestartInv, SurvivesInv, OrderedInv, EngineInv, TablesExist
  <2>2. MergeOf(MergeRuns(tables), tables)
    <3>1. nextTableId \in Nat /\ \A t \in tables : t <= nextTableId
      BY <2>1 DEF EngineInv, EngineTypeOK, IdInv, Versions
    <3> QED BY <2>1, <3>1, MergeInOrder
  <2>3. PICK t \in tables : \E j \in files[t][k] : i <= j
    BY <2>1 DEF PromiseKept, Has
  <2>4. PICK j \in files[t][k] : i <= j
    BY <2>3
  <2>5. PICK h \in MergeRuns(tables)[k] : j <= h
    BY <2>2, <2>4 DEF MergeOf, Has
  <2>6. MergeRuns(tables) \in Runs
    BY <2>1, MergeRunsType
  <2>7. i \in Nat /\ j \in Nat /\ h \in Nat
    BY <2>1, <2>4, <2>5, <2>6 DEF EngineTypeOK, Runs, Versions
  <2> QED BY <2>4, <2>5, <2>7
<1>2. RecoverySpec => []NamesInv
  BY NamesInvariance
<1>3. RestartInv /\ NamesInv /\ OrderedInv /\ [RecoveryNext]_allVars => OrderedInv'
  BY NextOrder
<1>4. RestartInv /\ OrderedInv /\ SurvivesInv /\ [RecoveryNext]_allVars => SurvivesInv'
  BY NextSurvives
<1> QED BY <1>1, <1>2, <1>3, <1>4, InitOrder, InitSurvives, RestartInvariance, PTL
        DEF RecoverySpec

-----------------------------------------------------------------------------
(* Without damage and without failing tasks the disk is a PrefixStore.     *)

\* What the primary manifest describes: every call that is neither lost nor only
\* in memory, nothing of a call that is lost, and only calls before those in
\* memory.
DiskStands ==
    /\ InMemoryOnly \subseteq DOMAIN log
    /\ \A i \in DOMAIN log : \A k \in log[i] :
          \/ i \in lost \cup InMemoryOnly
          \/ \E t \in primary.tables : Has(files[t], k, i)
    /\ \A t \in primary.tables :
          Genuine(files[t], log) /\ Below(VersionsOf(files[t]), InMemoryOnly)

NoFaults == faults = 0

\* The open engine is one that implements PrefixStore by its tables.
OpenPrefix == DataInv /\ PrefixInv /\ CloseInv

DiskPrefixInv ==
    /\ NoFaults
    /\ \A i \in lost : i \in DOMAIN log
    /\ DiskStands
    /\ phase = "up" => OpenPrefix

LEMMA MemoryIsOutstanding == InMemoryOnly \subseteq Outstanding
BY DEF InMemoryOnly, Outstanding, VersionsOf, InFlush, Queued

LEMMA NextMemoryIsOutstanding == InMemoryOnly' \subseteq Outstanding'
BY DEF InMemoryOnly, Outstanding, VersionsOf, InFlush, Queued, FlushInProgress

\* A flush of which the primary manifest knows has its points in its file.
LEMMA SavedFlush ==
    ASSUME EngineInv, PrimaryInv, DataInv, FlushInProgress, job.id \in primary.tables
    PROVE  stage \in AfterPrimary /\ files[job.id] = job.data
<1>1. job.kind = "flush" /\ stage \in {"write", "build", "primary", "backup", "commit"}
  BY DEF FlushInProgress
<1>2. job.id \in Nat
  BY <1>1 DEF EngineInv, JobInv, Active, Versions
<1>3. stage \in AfterPrimary
  BY <1>1, <1>2 DEF PrimaryInv, SavedInv, Active, AfterPrimary
<1> QED BY <1>1, <1>3 DEF AfterPrimary, DataInv, PointsInv, FileInv, Active

\* The primary manifest has the tables, but for the one of a job that has just
\* been saved.
LEMMA PrimaryTables ==
    ASSUME EngineInv, PrimaryInv, CloseInv, faults = 0, NEW t \in primary.tables, t \notin tables
    PROVE  t = job.id /\ stage \in AfterPrimary
<1>1. stage \in AfterPrimary
  BY DEF CloseInv, AfterPrimary
<1>2. primary = job.manifest /\ stage \in {"primary", "backup", "commit"}
  BY <1>1 DEF PrimaryInv, SavedInv, AfterPrimary
<1>3. t \in (tables \ job.candidates) \cup {job.id}
  BY <1>2 DEF EngineInv, JobInv
<1> QED BY <1>1, <1>3

LEMMA OpenDisk ==
    /\ EngineInv /\ PrimaryInv /\ PrimaryCovers /\ OpenPrefix /\ NoFaults
    => DiskStands
<1> SUFFICES ASSUME EngineInv, PrimaryInv, PrimaryCovers, OpenPrefix, NoFaults PROVE DiskStands
  OBVIOUS
<1> USE DEF OpenPrefix, NoFaults
<1>1. InMemoryOnly \subseteq DOMAIN log
  <2>1. \A i \in Outstanding : i \in 1..Len(log)
    BY VersionFacts DEF Outstanding
  <2> QED BY <2>1, MemoryIsOutstanding DEF EngineInv, EngineTypeOK
<1>2. ASSUME NEW i \in DOMAIN log, NEW k \in log[i], i \notin lost, i \notin InMemoryOnly
      PROVE  \E t \in primary.tables : Has(files[t], k, i)
  <2>1. k \in Keys /\ i \in Nat
    BY DEF EngineInv, EngineTypeOK
  <2>2. Kept(memtable.data, k, i)
    BY <1>2 DEF DataInv, PointsInv, KeptInv
  <2>3. \/ \E t \in tables : Has(files[t], k, i)
        \/ FlushInProgress /\ i \in job.data[k] /\ job.id \in primary.tables
    BY <1>2, <2>1, <2>2 DEF Kept, InMemoryOnly
  <2>4. CASE \E t \in tables : Has(files[t], k, i)
    <3>1. PICK t \in tables : \E j \in files[t][k] : i <= j
      BY <2>4 DEF Has
    <3>2. PICK j \in files[t][k] : i <= j
      BY <3>1
    <3>3. PICK u \in primary.tables : \E h \in files[u][k] : j <= h
      BY <2>1, <3>2 DEF PrimaryCovers, CoversTables, Has
    <3>4. PICK h \in files[u][k] : j <= h
      BY <3>3
    <3>5. j \in Nat /\ h \in Nat
      BY <2>1, <3>2, <3>4
      DEF EngineInv, EngineTypeOK, TablesExist, PrimaryInv, SavedInv, Runs, Versions
    <3>6. i <= h
      BY <2>1, <3>2, <3>4, <3>5
    <3> QED BY <3>4, <3>6 DEF Has
  <2>5. CASE FlushInProgress /\ i \in job.data[k] /\ job.id \in primary.tables
    BY <2>1, <2>5, SavedFlush DEF Has
  <2> QED BY <2>3, <2>4, <2>5
<1>3. ASSUME NEW t \in tables
      PROVE  Genuine(files[t], log) /\ Below(VersionsOf(files[t]), InMemoryOnly)
  <2>1. Below(InTables, Outstanding)
    BY DEF PrefixInv, CallOrder, Below, Outstanding
  <2>2. VersionsOf(files[t]) \subseteq InTables
    BY DEF InTables
  <2> QED BY <2>1, <2>2, MemoryIsOutstanding DEF PrefixInv, GenuineInv, Below
<1>4. ASSUME NEW t \in primary.tables, t \notin tables
      PROVE  Genuine(files[t], log) /\ Below(VersionsOf(files[t]), InMemoryOnly)
  <2>1. t = job.id /\ stage \in AfterPrimary
    BY <1>4, PrimaryTables
  <2>2. CASE job.kind = "flush"
    <3>1. FlushInProgress /\ files[t] = job.data
      BY <2>1, <2>2 DEF FlushInProgress, AfterPrimary, DataInv, PointsInv, FileInv, Active
    <3>2. VersionsOf(files[t]) = InFlush
      BY <3>1 DEF InFlush
    <3>3. \A i \in InMemoryOnly :
            i \in VersionsOf(memtable.data) \/ \E n \in DOMAIN pendingFlushes : i \in Queued(n)
      BY <2>1, <1>4 DEF InMemoryOnly, VersionsOf, Queued
    <3>4. Below(InFlush, InMemoryOnly)
      BY <3>3 DEF PrefixInv, CallOrder, Below
    <3> QED BY <3>1, <3>2, <3>4 DEF PrefixInv, GenuineInv
  <2>3. CASE job.kind = "compaction"
    <3>1. MergeOf(files[t], tables)
      BY <2>1, <2>3 DEF AfterPrimary, DataInv, PointsInv, FileInv, Active
    <3>2. ASSUME NEW k \in Keys, NEW i \in files[t][k]
          PROVE  /\ i \in DOMAIN log /\ k \in log[i] /\ i \notin lost
                 /\ \A j \in InMemoryOnly : i < j
      <4>1. PICK u \in tables : i \in files[u][k]
        BY <3>1 DEF MergeOf
      <4> QED BY <4>1, <1>3 DEF Genuine, Below, VersionsOf
    <3> QED BY <3>2 DEF Genuine, Below, VersionsOf
  <2> QED BY <2>1, <2>2, <2>3 DEF EngineInv, JobInv, Active, AfterPrimary
<1> QED BY <1>1, <1>2, <1>3, <1>4 DEF DiskStands

LEMMA NextOpenDisk ==
    /\ EngineInv' /\ PrimaryInv' /\ PrimaryCovers' /\ OpenPrefix' /\ NoFaults'
    => DiskStands'
BY OpenDisk, PTL

-----------------------------------------------------------------------------
(* The disk is a replay of a prefix.                                       *)

\* The primary manifest and the prefix of the calls that it accounts for.
DiskReplay ==
    /\ PersistedOnDisk \in Nat /\ PersistedOnDisk <= Len(log) /\ Len(log) \in Nat
    /\ \A i \in InMemoryOnly : i \in Nat /\ PersistedOnDisk < i /\ i <= Len(log)
    /\ InMemoryOnly = {} => PersistedOnDisk = Len(log)
    /\ InMemoryOnly # {} => PersistedOnDisk + 1 \in InMemoryOnly
    /\ MergeRuns(primary.tables) = DiskStore!Replay(log, lost, PersistedOnDisk)

LEMMA DiskReplays == EngineInv /\ PrimaryOpens /\ DiskStands => DiskReplay
<1> SUFFICES ASSUME EngineInv, PrimaryOpens, DiskStands PROVE DiskReplay
  OBVIOUS
<1>1. /\ Len(log) \in Nat /\ DOMAIN log = 1..Len(log)
      /\ \A i \in InMemoryOnly : i \in 1..Len(log)
  BY DEF EngineInv, EngineTypeOK, DiskStands
<1>2. /\ PersistedOnDisk \in Nat /\ PersistedOnDisk <= Len(log)
      /\ \A i \in InMemoryOnly : i \in Nat /\ PersistedOnDisk < i /\ i <= Len(log)
      /\ InMemoryOnly = {} => PersistedOnDisk = Len(log)
      /\ InMemoryOnly # {} => PersistedOnDisk + 1 \in InMemoryOnly
  <2>1. CASE InMemoryOnly = {}
    BY <1>1, <2>1 DEF PersistedOnDisk
  <2>2. CASE InMemoryOnly # {}
    <3>1. \E n \in InMemoryOnly : \A m \in InMemoryOnly : n <= m
      BY <1>1, <2>2, MinExists
    <3>2. PICK first \in InMemoryOnly :
            /\ \A m \in InMemoryOnly : first <= m
            /\ PersistedOnDisk = first - 1
      BY <2>2, <3>1 DEF PersistedOnDisk
    <3> QED BY <1>1, <2>2, <3>2
  <2> QED BY <2>1, <2>2
<1>3. /\ primary.tables \in SUBSET DOMAIN files /\ OrderedTables(primary.tables)
      /\ \A t \in primary.tables : Genuine(files[t], log)
  BY DEF PrimaryOpens, DiskStands
<1>4. ASSUME NEW t \in primary.tables, NEW i \in VersionsOf(files[t])
      PROVE  i <= PersistedOnDisk
  <2>1. i \in DOMAIN log /\ \A j \in InMemoryOnly : i < j
    BY DEF DiskStands, Genuine, Below, VersionsOf
  <2>2. i \in Nat /\ i <= Len(log)
    BY <1>1, <2>1
  <2>3. CASE InMemoryOnly = {}
    BY <1>2, <2>2, <2>3
  <2>4. CASE InMemoryOnly # {}
    <3>1. i < PersistedOnDisk + 1
      BY <1>2, <2>1, <2>4
    <3> QED BY <1>2, <2>2, <3>1
  <2> QED BY <2>3, <2>4
<1>5. ASSUME NEW i \in 1..PersistedOnDisk, NEW k \in log[i], i \notin lost
      PROVE  \E t \in primary.tables : Has(files[t], k, i)
  <2>1. i \in DOMAIN log /\ i <= PersistedOnDisk /\ i \in Nat
    <3>1. PersistedOnDisk \in Nat /\ PersistedOnDisk <= Len(log)
      BY <1>2
    <3>2. i \in 1..Len(log) /\ i <= PersistedOnDisk /\ i \in Nat
      BY <1>1, <3>1
    <3> QED BY <1>1, <3>2
  <2>2. i \notin InMemoryOnly
    <3>1. ASSUME i \in InMemoryOnly PROVE PersistedOnDisk < i
      BY <1>2, <3>1
    <3> QED BY <1>2, <2>1, <3>1
  <2> QED BY <1>5, <2>1, <2>2 DEF DiskStands
<1>6. MergeRuns(primary.tables) = Store!Replay(log, lost, PersistedOnDisk)
  BY <1>2, <1>3, <1>4, <1>5, MergeIsReplay
<1>7. Store!Replay(log, lost, PersistedOnDisk) = DiskStore!Replay(log, lost, PersistedOnDisk)
  BY DEF Store!Replay, DiskStore!Replay
<1> QED BY <1>1, <1>2, <1>6, <1>7 DEF DiskReplay

\* What a step may do to the history and to the calls that only memory has.
DiskHistory ==
    /\ \A i \in InMemoryOnly' : i \in InMemoryOnly \/ i = Len(log) + 1
    /\ \/ lost' = lost /\ \E b \in Batches : log' = Append(log, b.keys)
       \/ log' = log /\ lost' \in {lost, lost \cup InMemoryOnly}

LEMMA DiskStep ==
    ASSUME EngineInv, DiskReplay, DiskReplay', DiskHistory
    PROVE  DiskStore!Next
<1>1. log \in Seq(SUBSET Keys) /\ Len(log) \in Nat
  BY DEF EngineInv, EngineTypeOK
<1>2. \/ DiskStore!Accept /\ UNCHANGED lost /\ Len(log') = Len(log) + 1
      \/ DiskStore!Drop /\ UNCHANGED log
  <2>1. CASE lost' = lost /\ \E b \in Batches : log' = Append(log, b.keys)
    BY <1>1, <2>1, BatchesAssumption DEF DiskStore!Accept
  <2>2. CASE log' = log /\ lost' \in {lost, lost \cup InMemoryOnly}
    <3>1. /\ InMemoryOnly \in SUBSET ((PersistedOnDisk + 1)..Len(log))
          /\ {} \in SUBSET ((PersistedOnDisk + 1)..Len(log))
      BY <1>1 DEF DiskReplay
    <3>2. lost' = lost \cup {} \/ lost' = lost \cup InMemoryOnly
      BY <2>2
    <3>3. \E S \in SUBSET ((PersistedOnDisk + 1)..Len(log)) : lost' = lost \cup S
      BY <3>1, <3>2
    <3> QED BY <2>2, <3>3 DEF DiskStore!Drop
  <2> QED BY <2>1, <2>2 DEF DiskHistory
<1>3. PersistedOnDisk' \in PersistedOnDisk..Len(log')
  <2>1. /\ PersistedOnDisk \in Nat /\ PersistedOnDisk' \in Nat /\ PersistedOnDisk <= Len(log)
        /\ PersistedOnDisk' <= Len(log') /\ Len(log') \in Nat
        /\ \A i \in InMemoryOnly : PersistedOnDisk < i
        /\ InMemoryOnly' = {} => PersistedOnDisk' = Len(log')
        /\ InMemoryOnly' # {} => PersistedOnDisk' + 1 \in InMemoryOnly'
    BY DEF DiskReplay
  <2>2. /\ Len(log) <= Len(log')
        /\ \A i \in InMemoryOnly' : i \in InMemoryOnly \/ i = Len(log) + 1
    BY <1>1, <1>2 DEF DiskHistory
  <2> QED BY <1>1, <2>1, <2>2, PrefixGrows
<1>4. MergeRuns(primary.tables)' = DiskStore!Replay(log, lost, PersistedOnDisk)'
  BY DEF DiskReplay
<1> QED BY <1>2, <1>3, <1>4 DEF DiskStore!Next

-----------------------------------------------------------------------------
(* Every step of the engine and of recover() is a step of PrefixStore.     *)

\* Once the primary manifest is saved, the job writes nothing else that counts.
LEMMA AfterSave ==
    ASSUME EngineInv, Next, stage \in AfterPrimary
    PROVE  UNCHANGED <<primary, files>>
<1> USE DEF AfterPrimary
<1>1. ASSUME NEW c \in Clients, Drain(c) PROVE UNCHANGED <<primary, files>>
  BY <1>1 DEF Drain, PickFlush, PickCompaction, DrainDone, WriteTable, BuildManifest,
              SavePrimary, SaveBackup, CommitFlush, CommitCompaction, UnlinkNext, UnlinkDone,
              diskVars
<1>2. ASSUME NEW c \in Clients, Call(c) \/ LockStep(c) \/ TaskRaises(c)
      PROVE  UNCHANGED <<primary, files>>
  BY <1>2 DEF Call, LockStep, AppendRows, Flush, Compact, Close, Acquire, CloseFirst,
              CloseAgain, TaskRaises, diskVars
<1>3. ASSUME NEW r \in Readers, QueryBegin(r) \/ Read(r) PROVE UNCHANGED <<primary, files>>
  BY <1>3 DEF QueryBegin, Read, ReadTable, FileMissing, CheckActive, QueryEnd, diskVars
<1> QED BY <1>1, <1>2, <1>3 DEF Next

LEMMA RunningHistory ==
    ASSUME MaxFaults = 0, EngineInv, PrimaryInv, OpenPrefix, NoFaults, Next, DiskStands'
    PROVE  DiskHistory /\ NoFaults'
<1>1. HistoryStep
  BY NextHistory DEF OpenPrefix
<1>2. UNCHANGED <<lost, faults>>
  BY LossIsFault DEF NoFaults
<1>3. ASSUME NEW i \in InMemoryOnly', i \notin InMemoryOnly
      PROVE  i = Len(log) + 1
  <2>1. i \in Outstanding \/ i = Len(log) + 1
    BY <1>1, NextMemoryIsOutstanding DEF HistoryStep
  <2>2. CASE i \in Outstanding
    <3>1. FlushInProgress /\ i \in VersionsOf(job.data) /\ job.id \in primary.tables
      BY <1>3, <2>2 DEF Outstanding, InMemoryOnly, InFlush, Queued, VersionsOf
    <3>2. stage \in AfterPrimary /\ files[job.id] = job.data
      BY <3>1, SavedFlush DEF OpenPrefix
    <3>3. UNCHANGED <<primary, files>>
      BY <3>2, AfterSave
    <3>4. Below(VersionsOf(files[job.id]), InMemoryOnly')
      BY <3>1, <3>3 DEF DiskStands, Below, VersionsOf
    <3>5. i < i /\ i \in Nat
      <4>1. i \in Nat
        BY <2>2, VersionFacts DEF Outstanding, OpenPrefix
      <4> QED BY <1>3, <3>1, <3>2, <3>4, <4>1 DEF Below
    <3> QED BY <3>5
  <2> QED BY <2>1, <2>2
<1>4. \/ lost' = lost /\ \E b \in Batches : log' = Append(log, b.keys)
      \/ log' = log /\ lost' = lost
  BY <1>1, <1>2 DEF HistoryStep
<1> QED BY <1>2, <1>3, <1>4 DEF DiskHistory, NoFaults

LEMMA RunningPrefix ==
    ASSUME MaxFaults = 0, RestartInv, DurableInv, DurableInv', DiskPrefixInv, Running
    PROVE  DiskPrefixInv' /\ DiskHistory
<1>1. /\ EngineInv /\ PrimaryInv /\ PrimaryCovers /\ OpenPrefix /\ NoFaults /\ Next
      /\ phase' = "up" /\ PrimaryInv' /\ PrimaryCovers'
  BY DEF RestartInv, DurableInv, OpenKept, DiskPrefixInv, Running, recoverVars
<1>2. EngineInv' /\ OpenPrefix'
  BY <1>1, NextEngine, NextPoints, NextPrefix, NextClose DEF OpenPrefix, DataInv
<1>3. NoFaults'
  BY <1>1, LossIsFault DEF NoFaults
<1>4. DiskStands'
  BY <1>1, <1>2, <1>3, NextOpenDisk
<1> QED BY <1>1, <1>2, <1>3, <1>4, RunningHistory DEF DiskPrefixInv, OpenPrefix, PrefixInv

\* The memory of a process that accepted nothing yet.
NothingInMemory == memtable = EmptyMemtable /\ pendingFlushes = <<>> /\ stage = "free"

LEMMA FreshMemory ==
    ASSUME NothingInMemory
    PROVE  InMemoryOnly = {} /\ ~FlushInProgress /\ \A k \in Keys : memtable.data[k] = {}
BY DEF NothingInMemory, InMemoryOnly, FlushInProgress, EmptyMemtable, NoPoints

MemoryLost == NothingInMemory => InMemoryOnly = {}

LEMMA NextFreshMemory == MemoryLost'
<1>1. MemoryLost
  BY FreshMemory DEF MemoryLost
<1> QED BY <1>1, PTL

\* Nobody is in the engine when its process exits, and nothing is queued.
LEMMA ExitMemory ==
    ASSUME EngineInv, CloseInv, NoFaults, Exit
    PROVE  InMemoryOnly = {}
<1>1. holder = NoClient /\ closed
  BY NoClientAssumption DEF Exit, EngineInv, EngineTypeOK
<1>2. pendingFlushes = <<>> /\ memtable.data = NoPoints /\ stage = "free"
  BY <1>1 DEF CloseInv, NoFaults, EngineInv, EngineTypeOK
<1> QED BY <1>2 DEF InMemoryOnly, FlushInProgress, NoPoints

\* With nothing damaged only the engine changes the primary manifest: recover()
\* writes it back as it is.
LEMMA PrimaryStays ==
    ASSUME MaxDamage = 0, RestartInv, DurableInv, RecoveryNext, ~Running
    PROVE  /\ UNCHANGED <<primary, log, faults>>
           /\ IF Crash THEN lost' = lost \cup InMemoryOnly ELSE UNCHANGED lost
<1>1. ~(damages < MaxDamage)
  BY DEF DurableInv, PrimaryOpens
<1>2. CASE Crash \/ Exit
  BY <1>2 DEF Crash, Exit, diskVars, historyVars
<1>3. CASE Recover \/ Restart
  <2>1. UNCHANGED <<log, faults, lost>> /\ ~Crash
    <3>1. UNCHANGED <<log, faults, lost>>
      BY <1>3 DEF Recover, Restart, LoadPrimary, DropPrimary, LoadBackup, DropBackup, RebuildNext,
                  RebuildDone, DropOrphan, OrphansDone, ResavePrimary, ResaveBackup, Open,
                  RecoverStep, historyVars
    <3>2. phase' # "down"
      BY <1>3 DEF Recover, Restart, LoadPrimary, DropPrimary, LoadBackup, DropBackup, RebuildNext,
                  RebuildDone, DropOrphan, OrphansDone, ResavePrimary, ResaveBackup, Open,
                  GoOnWith
    <3> QED BY <3>1, <3>2 DEF Crash
  <2>2. UNCHANGED primary
    <3>1. CASE ResavePrimary
      BY <3>1 DEF ResavePrimary, DurableInv, TakesPrimary, Chosen
    <3>2. CASE ~ResavePrimary
      BY <1>3, <3>2
      DEF Recover, Restart, LoadPrimary, DropPrimary, LoadBackup, DropBackup, RebuildNext,
          RebuildDone, DropOrphan, OrphansDone, ResaveBackup, Open, diskVars, DurableInv,
          TakesPrimary, Chosen
    <3> QED BY <3>1, <3>2
  <2> QED BY <2>1, <2>2
<1> QED BY <1>1, <1>2, <1>3 DEF RecoveryNext, Damage

LEMMA ClosedPrefix ==
    ASSUME MaxDamage = 0, RestartInv, RestartInv', DurableInv, DurableInv', DiskPrefixInv,
           RecoveryNext, ~Running
    PROVE  /\ InMemoryOnly' = {} /\ NoFaults' /\ DiskStands' /\ DiskHistory
           /\ \A i \in lost' : i \in DOMAIN log'
<1>1. /\ UNCHANGED <<primary, log, faults>>
      /\ IF Crash THEN lost' = lost \cup InMemoryOnly ELSE UNCHANGED lost
  BY PrimaryStays
<1>2. InMemoryOnly' = {}
  <2>1. NothingInMemory'
    <3>1. CASE phase' = "up"
      <4>1. Open
        BY <3>1 DEF RecoveryNext, Crash, Exit, Damage, Restart, Recover, LoadPrimary, DropPrimary,
                    LoadBackup, DropBackup, RebuildNext, RebuildDone, DropOrphan, OrphansDone,
                    ResavePrimary, ResaveBackup, GoOnWith, recoverVars
      <4>2. Fresh({}, 1) /\ UNCHANGED <<memtable, pendingFlushes, stage>>
        BY <4>1 DEF Open, lockVars, RestartInv, OpenInv
      <4> QED BY <4>2 DEF Fresh, NothingInMemory
    <3>2. CASE phase' # "up"
      BY <3>2 DEF RestartInv, OpenInv, Fresh, NothingInMemory
    <3> QED BY <3>1, <3>2
  <2> QED BY <2>1, NextFreshMemory DEF MemoryLost
<1>3. lost' = lost \cup InMemoryOnly
  <2>1. CASE Exit
    BY <1>1, <2>1, ExitMemory DEF Exit, RestartInv, DiskPrefixInv, OpenPrefix
  <2>2. CASE ~Crash /\ ~Exit
    <3>1. phase # "up"
      BY <2>2 DEF RecoveryNext, Damage, Restart, Recover, LoadPrimary, DropPrimary, LoadBackup,
                  DropBackup, RebuildNext, RebuildDone, DropOrphan, OrphansDone, ResavePrimary,
                  ResaveBackup, Open
    <3>2. NothingInMemory
      BY <3>1 DEF RestartInv, OpenInv, Fresh, NothingInMemory
    <3> QED BY <1>1, <2>2, <3>2, FreshMemory
  <2> QED BY <1>1, <2>1, <2>2
<1>4. \A t \in primary.tables : files'[t] = files[t]
  BY <1>1, ClosedFiles DEF DurableInv, PrimaryOpens
<1>5. NoFaults' /\ DiskHistory
  BY <1>1, <1>2, <1>3 DEF DiskHistory, NoFaults, DiskPrefixInv
<1>6. InMemoryOnly \subseteq DOMAIN log /\ \A i \in InMemoryOnly : i \in Nat
  BY DEF DiskPrefixInv, DiskStands, RestartInv, EngineInv, EngineTypeOK
<1>7. \A i \in lost' : i \in DOMAIN log'
  BY <1>1, <1>3, <1>6 DEF DiskPrefixInv
<1>8. DiskStands'
  <2>1. ASSUME NEW i \in DOMAIN log, NEW k \in log[i], i \notin lost'
        PROVE  \E t \in primary.tables : Has(files'[t], k, i)
    BY <1>3, <1>4, <2>1 DEF DiskPrefixInv, DiskStands
  <2>2. ASSUME NEW t \in primary.tables, NEW k \in Keys, NEW i \in files'[t][k]
        PROVE  i \in DOMAIN log /\ k \in log[i] /\ i \notin lost'
    <3>1. i \in files[t][k] /\ i \in VersionsOf(files[t])
      BY <1>4 DEF VersionsOf
    <3>2. i \in DOMAIN log /\ k \in log[i] /\ i \notin lost
      BY <3>1 DEF DiskPrefixInv, DiskStands, Genuine
    <3>3. \A j \in InMemoryOnly : i < j
      BY <3>1 DEF DiskPrefixInv, DiskStands, Below
    <3>4. i \notin InMemoryOnly
      BY <1>6, <3>3
    <3> QED BY <1>3, <3>2, <3>4
  <2>3. \A t \in primary.tables : Genuine(files[t], log)'
    BY <1>1, <2>2 DEF Genuine
  <2> QED BY <1>1, <1>2, <2>1, <2>3 DEF DiskStands, Below, Has
<1> QED BY <1>2, <1>5, <1>7, <1>8

\* What the manifest describes is all the engine that opens has, and all that is
\* not lost.
LEMMA OpenPrefixes ==
    ASSUME MaxDamage = 0, RestartInv, RestartInv', DurableInv, DurableInv', DiskPrefixInv, Open
    PROVE  OpenPrefix'
<1>1. /\ tables' = primary.tables /\ UNCHANGED <<files, primary, log, lost, job>>
      /\ UNCHANGED <<memtable, pendingFlushes, stage, holder, closed>>
      /\ Fresh({}, 1) /\ phase' = "up"
  BY DEF Open, lockVars, diskVars, historyVars, RestartInv, OpenInv, DurableInv, TakesPrimary,
         Chosen
<1>2. /\ NothingInMemory /\ InMemoryOnly = {} /\ ~FlushInProgress
      /\ \A k \in Keys : memtable.data[k] = {}
  BY <1>1, FreshMemory DEF Fresh, NothingInMemory
<1>3. ~FlushInProgress' /\ pendingFlushes' = <<>> /\ \A k \in Keys : memtable'.data[k] = {}
  BY <1>1, <1>2 DEF FlushInProgress, NothingInMemory
<1>4. DataInv'
  <2>1. PointsInv(Nat)'
    BY <1>1 DEF DurableInv, OpenKept
  <2>2. KeptInv(memtable.data, log, {})'
    <3> SUFFICES ASSUME NEW i \in DOMAIN log, NEW k \in log[i], i \notin lost
                 PROVE  \E t \in primary.tables : Has(files[t], k, i)
      BY <1>1 DEF KeptInv, Kept, Has
    <3> QED BY <1>2 DEF DiskPrefixInv, DiskStands
  <2> QED BY <2>1, <2>2 DEF DataInv, PointsInv
<1>5. PrefixInv'
  <2>1. InFlush' = {} /\ VersionsOf(memtable.data)' = {}
    BY <1>3 DEF InFlush, VersionsOf
  <2>2. CallOrder(VersionsOf(memtable.data))'
    BY <1>3, <2>1 DEF CallOrder, Below
  <2>3. GenuineInv(memtable.data, log)'
    BY <1>1, <1>3 DEF GenuineInv, Genuine, DiskPrefixInv, DiskStands
  <2>4. job = NoJob
    BY <1>1 DEF Fresh
  <2> QED BY <1>1, <2>2, <2>3, <2>4 DEF PrefixInv, NoJob, DiskPrefixInv
<1>6. CloseInv'
  BY <1>1 DEF Fresh, CloseInv, EmptyMemtable
<1> QED BY <1>4, <1>5, <1>6 DEF OpenPrefix

LEMMA NextDisk ==
    ASSUME MaxDamage = 0, MaxFaults = 0
    PROVE  /\ RestartInv /\ RestartInv' /\ DurableInv /\ DurableInv'
           /\ DiskPrefixInv /\ [RecoveryNext]_allVars
           => DiskPrefixInv' /\ DiskHistory
<1> SUFFICES ASSUME RestartInv, RestartInv', DurableInv, DurableInv', DiskPrefixInv,
                    [RecoveryNext]_allVars
             PROVE  DiskPrefixInv' /\ DiskHistory
  OBVIOUS
<1>1. CASE RecoveryNext /\ ~Running
  <2>1. CASE Open
    BY <1>1, <2>1, ClosedPrefix, OpenPrefixes DEF DiskPrefixInv
  <2>2. CASE ~Open
    <3>1. phase' # "up"
      BY <1>1, <2>2 DEF RecoveryNext, Crash, Exit, Damage, Restart, Recover, LoadPrimary,
                        DropPrimary, LoadBackup, DropBackup, RebuildNext, RebuildDone, DropOrphan,
                        OrphansDone, ResavePrimary, ResaveBackup, GoOnWith, recoverVars
    <3> QED BY <1>1, <3>1, ClosedPrefix DEF DiskPrefixInv
  <2> QED BY <2>1, <2>2
<1>2. CASE UNCHANGED allVars
  <2>1. UNCHANGED <<vars, phase>> /\ UNCHANGED <<log, lost, faults, primary, files>>
    BY <1>2 DEF allVars, recoverVars, vars, diskVars, historyVars
  <2>2. InMemoryOnly' = InMemoryOnly
    BY <2>1 DEF vars, lockVars, InMemoryOnly, FlushInProgress
  <2>3. DiskHistory /\ DiskStands' /\ NoFaults'
    BY <2>1, <2>2 DEF DiskHistory, DiskPrefixInv, DiskStands, NoFaults, Genuine, Below, Has,
                      VersionsOf
  <2>4. phase = "up" => OpenPrefix'
    <3> SUFFICES ASSUME phase = "up" PROVE OpenPrefix'
      OBVIOUS
    <3>1. EngineInv /\ PrimaryInv /\ OpenPrefix /\ [Next]_vars
      BY <2>1 DEF RestartInv, DurableInv, OpenKept, DiskPrefixInv
    <3> QED BY <3>1, NextPoints, NextPrefix, NextClose DEF OpenPrefix, DataInv
  <2> QED BY <2>1, <2>3, <2>4 DEF DiskPrefixInv
<1> QED BY <1>1, <1>2, RunningPrefix

LEMMA InitDisk == RecoveryInit => DiskPrefixInv
<1> SUFFICES ASSUME RecoveryInit PROVE DiskPrefixInv
  OBVIOUS
<1>1. Init /\ Inv
  BY InitInv DEF RecoveryInit
<1>2. DataInv /\ PrefixInv /\ CloseInv
  BY <1>1, InitData, InitPrefix DEF Init, CloseInv, EmptyMemtable, EmptyManifest
<1>3. InMemoryOnly = {}
  BY <1>1, FreshMemory DEF Init, NothingInMemory
<1>4. DiskStands
  BY <1>1, <1>3 DEF Init, DiskStands, EmptyManifest
<1> QED BY <1>1, <1>2, <1>4 DEF Init, DiskPrefixInv, NoFaults, OpenPrefix

\* With no damage and no failing task, crashes at any step of the engine and of
\* recover(), exits, and files that cannot be moved or deleted included: the
\* primary manifest always describes a replay of a prefix of the accepted calls,
\* minus those a crash took from memory.  The prefix never shrinks, whichever
\* process is running, and a crash takes nothing that the prefix has.
THEOREM DiskIsPrefix ==
    ASSUME MaxDamage = 0, MaxFaults = 0
    PROVE  RecoverySpec => DiskImplementsPrefixStore
<1>1. RestartInv /\ DurableInv /\ DiskPrefixInv => DiskReplay
  BY DiskReplays DEF RestartInv, DurableInv, DiskPrefixInv
<1>2. RecoveryInit /\ DiskReplay => DiskStore!Init
  <2> SUFFICES ASSUME RecoveryInit, DiskReplay PROVE DiskStore!Init
    OBVIOUS
  <2>1. log = <<>> /\ lost = {} /\ Len(log) = 0
    BY DEF RecoveryInit, Init
  <2>2. PersistedOnDisk = 0
    BY <2>1 DEF DiskReplay
  <2> QED BY <2>1, <2>2 DEF DiskStore!Init, DiskReplay
<1>3. /\ RestartInv /\ RestartInv' /\ DurableInv /\ DurableInv'
      /\ DiskPrefixInv /\ [RecoveryNext]_allVars
      => DiskPrefixInv' /\ DiskHistory
  BY NextDisk
<1>4. RestartInv /\ DiskReplay /\ DiskReplay' /\ DiskHistory => [DiskStore!Next]_(DiskStore!vars)
  BY DiskStep DEF RestartInv
<1>5. RecoverySpec => []DurableInv
  BY DurableInvariance
<1>6. RecoverySpec => [](RestartInv /\ DurableInv /\ DiskPrefixInv /\ DiskReplay)
  BY <1>1, <1>3, <1>5, InitDisk, RestartInvariance, PTL DEF RecoverySpec
<1> QED BY <1>2, <1>3, <1>4, <1>6, PTL
        DEF RecoverySpec, DiskImplementsPrefixStore, DiskStore!Spec
=============================================================================
