---------------------------- MODULE StorageRecovery ----------------------------
(***************************************************************************)
(* The engine of StorageCore through restarts: the process dies at any     *)
(* step or exits after close, files are damaged while it is down, and      *)
(* recover() opens what is left.  recover() may be interrupted as well.    *)
(*                                                                         *)
(* Every file operation of recover() is a step.  A manifest file that is   *)
(* missing loads as EmptyManifest, which is why primary and backup need no *)
(* value of their own for it.  Temporary files, which the next write       *)
(* replaces anyway, are left out.                                          *)
(***************************************************************************)
EXTENDS StorageCore

CONSTANTS MaxCrashes, MaxExits,  \* bounds: processes that die, that exit
          CrashPhases,           \* bound: where a process may die
          MaxDamage,             \* bound: damaged files
          MaxQuarantineFaults    \* bound: files that cannot be moved

ASSUME RecoveryBoundsAssumption ==
    /\ MaxCrashes \in Nat /\ MaxExits \in Nat /\ MaxDamage \in Nat
    /\ MaxQuarantineFaults \in Nat

VARIABLES
    phase,     \* "up", "down" or the step recover() is at
    found,     \* manifest: what recover() goes on with
    todo,      \* files a loop of recover() has yet to visit
    resave,    \* the manifest must be written again
    damaged,   \* SSTables whose footer or index is broken
    promised,  \* history: versions an open engine had in its tables
    crashes, exits, damages, quarantineFaults

recoverVars == <<phase, found, todo, resave>>
countVars == <<crashes, exits, damages, quarantineFaults>>
memoryVars == <<memtable, tables, nextTableId, pendingFlushes, closed, lockVars, pc, query>>
allVars == <<vars, recoverVars, damaged, promised, countVars>>

\* A manifest file that load_primary or load_backup cannot parse or validate.
Unreadable == [next |-> 0, tables |-> {}]

Newest(held, seen) == [k \in Keys |-> Latest(held[k] \cup seen[k])]

RecoveryInit ==
    /\ Init
    /\ phase = "up"
    /\ found = EmptyManifest
    /\ todo = {}
    /\ resave = FALSE
    /\ damaged = {}
    /\ promised = NoPoints
    /\ crashes = 0 /\ exits = 0 /\ damages = 0 /\ quarantineFaults = 0

-----------------------------------------------------------------------------
(* The process and its disk.                                               *)

\* The open engine.  An SSTable that is written takes the place of a file of its
\* name, so it is whole.
Running ==
    /\ phase = "up"
    /\ Next
    /\ promised' = Newest(MergeRuns(tables)', promised)
    /\ damaged' = IF stage = "write" /\ stage' = "build" THEN damaged \ {job.id} ELSE damaged
    /\ UNCHANGED <<recoverVars, countVars>>

\* Versions that are in the memory of the process and in no manifest.
InMemoryOnly ==
    (UNION {memtable.data[k] : k \in Keys})
      \cup (UNION {UNION {pendingFlushes[n].data[k] : k \in Keys} : n \in DOMAIN pendingFlushes})
      \cup (IF FlushInProgress /\ job.id \notin primary.tables
            THEN UNION {job.data[k] : k \in Keys} ELSE {})

LocalsGone == found' = EmptyManifest /\ todo' = {} /\ resave' = FALSE

\* The memory of a new process: what the constructor assigns.
MemoryGone ==
    /\ memtable' = EmptyMemtable
    /\ tables' = {}
    /\ nextTableId' = 1
    /\ pendingFlushes' = <<>>
    /\ closed' = FALSE
    /\ holder' = NoClient /\ stage' = "free" /\ job' = NoJob
    /\ pc' = [c \in Clients |-> "idle"]
    /\ query' = [r \in Readers |-> NoQuery]
    /\ LocalsGone

\* Also an I/O error that ends recover(), and with it the constructor.
Crash ==
    /\ phase \in CrashPhases
    /\ crashes < MaxCrashes
    /\ crashes' = crashes + 1
    /\ MemoryGone
    /\ phase' = "down"
    /\ lost' = lost \cup InMemoryOnly
    /\ UNCHANGED <<diskVars, log, faults, unlinkFaults, damaged, promised, exits, damages,
                   quarantineFaults>>

Exit ==
    /\ phase = "up"
    /\ closed
    /\ \A c \in Clients : pc[c] = "idle"
    /\ exits < MaxExits
    /\ exits' = exits + 1
    /\ MemoryGone
    /\ phase' = "down"
    /\ UNCHANGED <<diskVars, historyVars, damaged, promised, crashes, damages,
                   quarantineFaults>>

\* What every file that is still whole has of what was promised.
StillWhole(broken) ==
    [k \in Keys |-> Latest({i \in UNION {files[t][k] : t \in DOMAIN files \ broken} :
                              \E j \in promised[k] : i <= j})]

DamageManifest ==
    /\ \/ primary # EmptyManifest /\ primary' = Unreadable /\ UNCHANGED backup
       \/ backup # EmptyManifest /\ backup' = Unreadable /\ UNCHANGED primary
    /\ UNCHANGED <<files, damaged, promised>>

DamageTable ==
    /\ \E t \in DOMAIN files \ damaged :
         /\ damaged' = damaged \cup {t}
         /\ promised' = StillWhole(damaged')
    /\ UNCHANGED diskVars

Damage ==
    /\ phase = "down"
    /\ damages < MaxDamage
    /\ damages' = damages + 1
    /\ DamageManifest \/ DamageTable
    /\ UNCHANGED <<memoryVars, historyVars, recoverVars, crashes, exits, quarantineFaults>>

-----------------------------------------------------------------------------
(* recover().                                                              *)

\* Only these change what the process has in memory or what it accepted.
RecoverStep == UNCHANGED <<memoryVars, historyVars, promised, crashes, exits, damages>>

Restart ==
    /\ phase = "down"
    /\ phase' = "load primary"
    /\ UNCHANGED <<found, todo, resave, diskVars, damaged, quarantineFaults>>
    /\ RecoverStep

\* _load_and_validate_manifest.  An entry whose metadata differ from
\* those in the file counts as damage to one of the two.
Valid(m) == m # Unreadable /\ m.tables \subseteq DOMAIN files \ damaged

\* Mutant: orphans stay where they are.
GoOnWithOrphans(m, save) ==
    /\ found' = m
    /\ resave' = save
    /\ todo' = {}
    /\ phase' = "orphans"

\* Mutant: orphans become tables again.
GoOnWithEveryFile(m, save) ==
    /\ found' = [m EXCEPT !.tables = DOMAIN files]
    /\ resave' = TRUE
    /\ todo' = {}
    /\ phase' = "orphans"

\* From here on the manifest m is the one.
GoOnWith(m, save) ==
    /\ found' = m
    /\ resave' = save
    /\ todo' = DOMAIN files \ m.tables
    /\ phase' = "orphans"

\* Mutant: a primary manifest that cannot be used counts as none.
LoadPrimaryOrEmpty ==
    /\ phase = "load primary"
    /\ GoOnWith(IF Valid(primary) THEN primary ELSE EmptyManifest, FALSE)
    /\ UNCHANGED <<diskVars, damaged, quarantineFaults>>
    /\ RecoverStep

\* Mutant: goes on with a primary manifest that was not validated.
LoadPrimaryUnchecked ==
    /\ phase = "load primary"
    /\ GoOnWith(primary, FALSE)
    /\ UNCHANGED <<diskVars, damaged, quarantineFaults>>
    /\ RecoverStep

LoadPrimary ==
    /\ phase = "load primary"
    /\ \/ Valid(primary) /\ GoOnWith(primary, FALSE)
       \/ ~Valid(primary) /\ phase' = "drop primary" /\ UNCHANGED <<found, todo, resave>>
    /\ UNCHANGED <<diskVars, damaged, quarantineFaults>>
    /\ RecoverStep

\* _quarantine_path swallows the OSError of a move that fails.
Stuck ==
    /\ quarantineFaults < MaxQuarantineFaults
    /\ quarantineFaults' = quarantineFaults + 1

DropPrimary ==
    /\ phase = "drop primary"
    /\ \/ primary' = EmptyManifest /\ UNCHANGED quarantineFaults
       \/ Stuck /\ UNCHANGED primary
    /\ phase' = "load backup"
    /\ UNCHANGED <<found, todo, resave, files, backup, damaged>>
    /\ RecoverStep

LoadBackup ==
    /\ phase = "load backup"
    /\ \/ Valid(backup) /\ GoOnWith(backup, TRUE)
       \/ ~Valid(backup) /\ phase' = "drop backup" /\ UNCHANGED <<found, todo, resave>>
    /\ UNCHANGED <<diskVars, damaged, quarantineFaults>>
    /\ RecoverStep

DropBackup ==
    /\ phase = "drop backup"
    /\ \/ backup' = EmptyManifest /\ UNCHANGED quarantineFaults
       \/ Stuck /\ UNCHANGED backup
    /\ phase' = "rebuild"
    /\ todo' = damaged
    /\ UNCHANGED <<found, resave, files, primary, damaged>>
    /\ RecoverStep

\* _quarantine_path, of the SSTable t.
MoveFile(t) ==
    /\ files' = [u \in DOMAIN files \ {t} |-> files[u]]
    /\ damaged' = damaged \ {t}
    /\ UNCHANGED quarantineFaults

KeepFile == Stuck /\ UNCHANGED <<files, damaged>>

\* The scan of _rebuild_manifest_from_sstables, of which the files that do not
\* parse are what matters.
RebuildNext ==
    /\ phase = "rebuild"
    /\ \E t \in todo :
         /\ \A u \in todo : t <= u
         /\ todo' = todo \ {t}
         /\ MoveFile(t) \/ KeepFile
    /\ UNCHANGED <<phase, found, resave, primary, backup>>
    /\ RecoverStep

\* Mutant: counts the tables instead of looking at their ids.
NextIdAfterCount(ids) == 1 + Cardinality(ids)

NextIdAfter(ids) == IF ids = {} THEN 1
                    ELSE (CHOOSE t \in ids : \A u \in ids : u <= t) + 1

RebuildDone ==
    /\ phase = "rebuild"
    /\ todo = {}
    /\ LET whole == DOMAIN files \ damaged IN
         GoOnWith([next |-> NextIdAfter(whole), tables |-> whole], TRUE)
    /\ UNCHANGED <<diskVars, damaged, quarantineFaults>>
    /\ RecoverStep

\* _quarantine_orphan_sstables, in the order the directory is listed.
DropOrphan ==
    /\ phase = "orphans"
    /\ \E t \in todo :
         /\ todo' = todo \ {t}
         /\ \/ MoveFile(t) /\ resave' = TRUE
            \/ KeepFile /\ UNCHANGED resave
    /\ UNCHANGED <<phase, found, primary, backup>>
    /\ RecoverStep

OrphansDone ==
    /\ phase = "orphans"
    /\ todo = {}
    /\ phase' = IF resave THEN "save primary" ELSE "open"
    /\ UNCHANGED <<found, todo, resave, diskVars, damaged, quarantineFaults>>
    /\ RecoverStep

ResavePrimary ==
    /\ phase = "save primary"
    /\ primary' = found
    /\ phase' = "save backup"
    /\ UNCHANGED <<found, todo, resave, files, backup, damaged, quarantineFaults>>
    /\ RecoverStep

ResaveBackup ==
    /\ phase = "save backup"
    /\ backup' = found
    /\ phase' = "open"
    /\ UNCHANGED <<found, todo, resave, files, primary, damaged, quarantineFaults>>
    /\ RecoverStep

\* Mutant: _next_table_id stays what recover() set it to first.
OpenFirstId ==
    /\ phase = "open"
    /\ tables' = found.tables
    /\ promised' = Newest(MergeRuns(found.tables), promised)
    /\ phase' = "up"
    /\ LocalsGone
    /\ UNCHANGED <<memtable, nextTableId, pendingFlushes, closed, lockVars, diskVars, pc, query,
                   historyVars, damaged, countVars>>

Open ==
    /\ phase = "open"
    /\ tables' = found.tables
    /\ nextTableId' = found.next
    /\ promised' = Newest(MergeRuns(found.tables), promised)
    /\ phase' = "up"
    /\ LocalsGone
    /\ UNCHANGED <<memtable, pendingFlushes, closed, lockVars, diskVars, pc, query, historyVars,
                   damaged, countVars>>

-----------------------------------------------------------------------------
Recover ==
    \/ LoadPrimary \/ DropPrimary \/ LoadBackup \/ DropBackup
    \/ RebuildNext \/ RebuildDone \/ DropOrphan \/ OrphansDone
    \/ ResavePrimary \/ ResaveBackup \/ Open

RecoveryNext == Running \/ Crash \/ Exit \/ Damage \/ Restart \/ Recover

RecoverySpec == RecoveryInit /\ [][RecoveryNext]_allVars

-----------------------------------------------------------------------------
(* Properties.                                                             *)

Phases == {"up", "down", "load primary", "drop primary", "load backup", "drop backup",
           "rebuild", "orphans", "save primary", "save backup", "open"}

\* The shape of the state across restarts.
RecoveryTypeOK ==
    /\ phase \in Phases
    /\ found \in Manifests
    /\ primary \in Manifests \cup {Unreadable} /\ backup \in Manifests \cup {Unreadable}
    /\ todo \subseteq DOMAIN files
    /\ damaged \subseteq DOMAIN files
    /\ resave \in BOOLEAN
    /\ phase # "up" => holder = NoClient /\ tables = {} /\ pendingFlushes = <<>>

\* What an open engine had in its tables is there, in this version or a newer
\* one, in every engine that is opened later, as far as a whole file has it:
\* through crashes at every step of a flush, of a compaction and of recover()
\* itself (core.py 258-340, manifest.py 73-88).
DurableSurvives == phase = "up" => Covers(MergeRuns(tables), promised)

\* A new table never takes the place of a file that is already there: the id an
\* engine goes on with is above those of every file, whichever manifest it came
\* from and whatever the crash left behind (core.py 284-326, 564-613).
NoFileOverwritten ==
    [][\A t \in DOMAIN files : t \in DOMAIN files' => files'[t] = files[t]]_allVars

\* Newest wins by table id through restarts: ids given after a recovery never put
\* a new version below an old one, not even when a rebuild brings back files a
\* compaction failed to delete (core.py 564-613, 486-494).
OrderedAcrossRestarts ==
    phase = "up" =>
        \A x, y \in Held : x.id < y.id =>
            \A k \in Keys : \A i \in x.data[k], j \in y.data[k] : i <= j
=============================================================================
