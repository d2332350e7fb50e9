------------------------------ MODULE Opening -------------------------------
(***************************************************************************)
(* Opening the one database of a user: StateStore::open_path_with_options  *)
(* captures the bytes of the file, makes the file private, checks it,      *)
(* applies the migration, turns the WAL on, and writes the captured bytes  *)
(* back when one of these steps fails for certain reasons                  *)
(* (repo-com-state/src/store.rs, migrations.rs and paths.rs).  Processes   *)
(* open, write, close and are killed beside each other, and the verifier   *)
(* of repo-com-lifecycle reads the file without opening a store.           *)
(*                                                                         *)
(* A file has its main part and a view, the main part with the commits of  *)
(* the write-ahead log; both are contents.  A row stands for a command's   *)
(* committed transaction and is named for the process that ran it.         *)
(***************************************************************************)
EXTENDS Naturals, FiniteSets

CONSTANTS
    Process,        \* processes that open a store
    MaxOpens,       \* bound: opens begun
    MaxFiles,       \* bound: files that are created
    DiskMayFill,    \* the migration may fail for want of space
    FirstFiles      \* what the path may name at first, see First

SCHEMA_VERSION == 1
Newer == "a newer build"
Inode == 1..MaxFiles
NoFile == 0

\* sound: "ok", "damaged" (tables are missing) or "corrupt" (no database).
Empty == [version |-> 0, rows |-> {}, sound |-> "ok"]
File(content, wal, private, regular) ==
    [main |-> content, view |-> content, wal |-> wal, private |-> private, regular |-> regular]
Absent == File(Empty, FALSE, TRUE, TRUE)

\* The files a path may name before the first open, and no file.
Ready == [version |-> SCHEMA_VERSION, rows |-> {}, sound |-> "ok"]
First ==
    [none |-> {},
     empty |-> {File(Empty, FALSE, FALSE, TRUE)},
     ready |-> {File(Ready, TRUE, FALSE, TRUE)},
     damaged |-> {File([Ready EXCEPT !.sound = "damaged"], TRUE, TRUE, TRUE)},
     corrupt |-> {File([Empty EXCEPT !.sound = "corrupt"], FALSE, TRUE, TRUE)},
     newer |-> {File([Ready EXCEPT !.version = SCHEMA_VERSION + 1], TRUE, TRUE, TRUE)},
     directory |-> {File(Ready, TRUE, TRUE, FALSE)},
     \* committed rows that are still in the log
     logged |-> {[File(Ready, TRUE, TRUE, TRUE) EXCEPT
                    !.view.version = SCHEMA_VERSION + 1, !.view.rows = {Newer}]}]

NoSnapshot == [main |-> Empty, view |-> Empty, exists |-> FALSE]
NotAlone == [still |-> FALSE, found |-> Absent, named |-> NoFile]
NoReading == [pc |-> "idle", file |-> NoFile, frozen |-> FALSE, permitted |-> FALSE, migrated |-> FALSE,
              before |-> {}]

VARIABLES
    path,       \* the file that the path names
    disk,       \* the files, the removed ones too
    lock,       \* the process that writes a file, as far as it outlasts a step
    pc, file, snapshot, why,    \* locals of the processes
    opens,
    reading,    \* the verifier
    replaced,   \* history: files changed or removed by a restore under a connection
    alone       \* history: nobody else acted since p captured; what the path named

vars == <<path, disk, lock, pc, file, snapshot, why, opens, reading, replaced, alone>>

PC == {"idle", "capturing", "creating", "connecting", "configuring", "reading", "applying", "migrating",
       "rechecking", "journal", "open", "restoring", "sidecars", "failed"}

\* Errors of an open: those of should_restore_bytes, then the others.
Restoring == {"corrupt", "newer", "damaged", "version", "io"}

(***************************************************************************)
(* Faulty variants, see Delivery.                                          *)
(***************************************************************************)
Recheck_Never(p) ==
    /\ pc[p] = "rechecking"
    /\ pc' = [pc EXCEPT ![p] = "restoring"]
    /\ why' = [why EXCEPT ![p] = IF @ = "exists" THEN "damaged" ELSE @]
    /\ UNCHANGED <<path, disk, lock, file, snapshot, opens, reading, replaced>>
Supported_Later(version) == version >= SCHEMA_VERSION
Frozen_Always(i) == TRUE
Captured_Main(i, main) == [main |-> main, view |-> main, exists |-> i # NoFile]

(***************************************************************************)
(* What a step reads.                                                      *)
(***************************************************************************)
\* A reader waits for a writer of a file without a WAL, and may time out.
Blocked(p) == /\ ~disk[file[p]].wal
              /\ \E q \in Process \ {p} : file[q] = file[p] /\ lock[file[p]] = q

View(p) == disk[file[p]].view
Supported(version) == version <= SCHEMA_VERSION
Corrupt(content) == content.sound = "corrupt"
Verified(content) == content.version = SCHEMA_VERSION /\ content.sound = "ok"

\* The sidecars are read after the main file.
Captured(i, main) ==
    [main |-> main, exists |-> i # NoFile,
     view |-> IF i # NoFile /\ disk[i].view # disk[i].main THEN disk[i].view ELSE main]

\* Names of unused files.
Unused == {i \in Inode : i # path /\ disk[i] = Absent /\ \A p \in Process : file[p] # i}
Fresh == CHOOSE i \in Unused : TRUE

Goto(p, to) == pc' = [pc EXCEPT ![p] = to]

\* The end of an open that has failed, of a store, or of a process.
Forgotten(p) ==
    /\ Goto(p, "idle")
    /\ file' = [file EXCEPT ![p] = NoFile] /\ why' = [why EXCEPT ![p] = "none"]
    /\ snapshot' = [snapshot EXCEPT ![p] = NoSnapshot]

\* Others connected to the file, or about to be; the verifier aside.
Shared(i, p) == \E q \in Process \ {p} : file[q] = i \/ (pc[q] = "connecting" /\ path = i)

Fail(p, error) ==
    /\ why' = [why EXCEPT ![p] = error]
    /\ Goto(p, IF error \in Restoring THEN "restoring" ELSE "failed")

(***************************************************************************)
(* open_path_with_options, step by step.                                   *)
(***************************************************************************)
CaptureMain(p) ==
    /\ pc[p] = "idle" /\ opens < MaxOpens
    /\ opens' = opens + 1
    /\ snapshot' = [snapshot EXCEPT ![p] =
            IF path = NoFile THEN NoSnapshot ELSE [NoSnapshot EXCEPT !.main = disk[path].main, !.exists = TRUE]]
    /\ Goto(p, "capturing")
    /\ UNCHANGED <<path, disk, lock, file, why, reading, replaced>>

CaptureSidecars(p) ==
    /\ pc[p] = "capturing"
    /\ snapshot' = [snapshot EXCEPT ![p] =
            [Captured(path, @.main) EXCEPT !.exists = snapshot[p].exists]]
    /\ Goto(p, "creating")
    /\ UNCHANGED <<path, disk, lock, file, why, opens, reading, replaced>>

\* create_user_only_database: a new file is private, an old one is made so.
Create(p) ==
    /\ pc[p] = "creating"
    /\ \/ /\ path = NoFile /\ Unused # {}
          /\ path' = Fresh
          /\ Goto(p, "connecting")
          /\ UNCHANGED <<disk, why>>
       \/ /\ path # NoFile /\ disk[path].regular
          /\ disk' = [disk EXCEPT ![path].private = TRUE]
          /\ Goto(p, "connecting")
          /\ UNCHANGED <<path, why>>
       \/ /\ path # NoFile /\ ~disk[path].regular
          /\ Fail(p, "refused")
          /\ UNCHANGED <<path, disk>>
    /\ UNCHANGED <<lock, file, snapshot, opens, reading, replaced>>

\* SQLite creates the file again, with the default mode, if it is gone.
Connect(p) ==
    /\ pc[p] = "connecting"
    /\ \/ path # NoFile /\ file' = [file EXCEPT ![p] = path] /\ UNCHANGED <<path, disk>>
       \/ /\ path = NoFile /\ Unused # {}
          /\ path' = Fresh /\ file' = [file EXCEPT ![p] = Fresh]
          /\ disk' = [disk EXCEPT ![Fresh].private = FALSE]
    /\ Goto(p, "configuring")
    /\ UNCHANGED <<lock, snapshot, why, opens, reading, replaced>>

\* configure_connection: busy timeout, foreign keys, quick_check.
Configure(p) ==
    /\ pc[p] = "configuring"
    /\ \/ Corrupt(View(p)) /\ Fail(p, "corrupt")
       \/ Blocked(p) /\ Fail(p, "locked")
       \/ ~Corrupt(View(p)) /\ ~Blocked(p) /\ Goto(p, "reading") /\ UNCHANGED why
    /\ UNCHANGED <<path, disk, lock, file, snapshot, opens, reading, replaced>>

\* apply_initial_migration up to the migration.
ReadVersion(p) ==
    /\ pc[p] = "reading"
    /\ \/ Blocked(p) /\ Fail(p, "version")
       \/ /\ ~Blocked(p)
          /\ \/ ~Supported(View(p).version) /\ Fail(p, "newer")
             \/ /\ Supported(View(p).version) /\ View(p).version >= SCHEMA_VERSION
                /\ IF View(p).sound = "damaged" THEN Fail(p, "damaged")
                   ELSE Goto(p, "journal") /\ UNCHANGED why
             \/ View(p).version < SCHEMA_VERSION /\ Goto(p, "applying") /\ UNCHANGED why
    /\ UNCHANGED <<path, disk, lock, file, snapshot, opens, reading, replaced>>

\* to_latest takes the write lock, times out on it, or finds the tables.
BeginMigration(p) ==
    /\ pc[p] = "applying"
    /\ \/ /\ lock[file[p]] = NoFile /\ View(p).version < SCHEMA_VERSION
          /\ lock' = [lock EXCEPT ![file[p]] = p]
          /\ Goto(p, "migrating") /\ UNCHANGED why
       \/ /\ lock[file[p]] = NoFile /\ View(p).version >= SCHEMA_VERSION
          /\ why' = [why EXCEPT ![p] = "exists"]
          /\ Goto(p, "rechecking") /\ UNCHANGED lock
       \/ /\ lock[file[p]] # NoFile
          /\ why' = [why EXCEPT ![p] = "locked"]
          /\ Goto(p, "rechecking") /\ UNCHANGED lock
    /\ UNCHANGED <<path, disk, file, snapshot, opens, reading, replaced>>

CommitMigration(p) ==
    /\ pc[p] = "migrating"
    /\ disk' = [disk EXCEPT ![file[p]].view.version = SCHEMA_VERSION,
                            ![file[p]].main.version = IF disk[file[p]].wal THEN @ ELSE SCHEMA_VERSION]
    /\ lock' = [lock EXCEPT ![file[p]] = NoFile]
    /\ Goto(p, "journal")
    /\ UNCHANGED <<path, file, snapshot, why, opens, reading, replaced>>

FailMigration(p) ==
    /\ pc[p] = "migrating" /\ DiskMayFill
    /\ lock' = [lock EXCEPT ![file[p]] = NoFile]
    /\ why' = [why EXCEPT ![p] = "io"]
    /\ Goto(p, "rechecking")
    /\ UNCHANGED <<path, disk, file, snapshot, opens, reading, replaced>>

\* After a failure the version is read once more.
Recheck(p) ==
    /\ pc[p] = "rechecking"
    /\ \/ /\ Verified(View(p)) /\ ~Blocked(p)
          /\ Goto(p, "journal") /\ UNCHANGED why
       \/ /\ ~Verified(View(p)) \/ Blocked(p)
          /\ Fail(p, IF why[p] = "exists" THEN "version" ELSE why[p])
    /\ UNCHANGED <<path, disk, lock, file, snapshot, opens, reading, replaced>>

\* enable_wal and verify_connection_settings.
EnableWal(p) ==
    /\ pc[p] = "journal"
    /\ \/ /\ disk[file[p]].wal \/ lock[file[p]] = NoFile
          /\ disk' = [disk EXCEPT ![file[p]].wal = TRUE]
          /\ Goto(p, "open")
          /\ snapshot' = [snapshot EXCEPT ![p] = NoSnapshot] /\ why' = [why EXCEPT ![p] = "none"]
       \/ /\ ~disk[file[p]].wal /\ lock[file[p]] # NoFile
          /\ Fail(p, "locked")
          /\ UNCHANGED <<disk, snapshot>>
    /\ UNCHANGED <<path, lock, file, opens, reading, replaced>>

\* What the verifier expects to see does not outlast a restore.
Forget == reading' = [reading EXCEPT !.before = {}]

\* snapshot.restore: the main file, then the sidecars; None removes them.
RestoreMain(p) ==
    /\ pc[p] = "restoring"
    /\ \/ /\ ~snapshot[p].exists
          /\ path' = NoFile /\ UNCHANGED disk
       \/ /\ snapshot[p].exists /\ path # NoFile
          /\ disk' = [disk EXCEPT ![path].main = snapshot[p].main,
                                  ![path].view = IF disk[path].view = disk[path].main THEN snapshot[p].main ELSE @]
          /\ UNCHANGED path
       \/ /\ snapshot[p].exists /\ path = NoFile /\ Unused # {}
          /\ path' = Fresh
          /\ disk' = [disk EXCEPT ![Fresh] = File(snapshot[p].main, FALSE, FALSE, TRUE)]
    /\ replaced' = IF path # NoFile /\ Shared(path, p) THEN replaced \cup {path} ELSE replaced
    /\ Forget
    /\ Goto(p, "sidecars")
    /\ UNCHANGED <<lock, file, snapshot, why, opens>>

RestoreSidecars(p) ==
    /\ pc[p] = "sidecars"
    /\ disk' = IF path = NoFile \/ ~snapshot[p].exists THEN disk
               ELSE [disk EXCEPT ![path].view = snapshot[p].view]
    /\ replaced' = IF path # NoFile /\ Shared(path, p) THEN replaced \cup {path} ELSE replaced
    /\ Forget /\ Forgotten(p)
    /\ UNCHANGED <<path, lock, opens>>

(***************************************************************************)
(* An open store, a killed process, and another build.  What SQLite does   *)
(* to a connection whose file was replaced is not modelled.                *)
(***************************************************************************)
Write(p) ==
    /\ pc[p] = "open" /\ file[p] \notin replaced /\ lock[file[p]] = NoFile
    /\ p \notin View(p).rows
    /\ disk' = [disk EXCEPT ![file[p]].view.rows = @ \cup {p}]
    /\ UNCHANGED <<path, lock, pc, file, snapshot, why, opens, reading, replaced>>

Checkpoint(p) ==
    /\ pc[p] = "open" /\ file[p] \notin replaced /\ disk[file[p]].main # View(p)
    /\ disk' = [disk EXCEPT ![file[p]].main = View(p)]
    /\ UNCHANGED <<path, lock, pc, file, snapshot, why, opens, reading, replaced>>

\* The last connection copies the log into the file.
Close(p) ==
    /\ pc[p] = "open"
    /\ disk' = IF Shared(file[p], p) \/ file[p] \in replaced THEN disk
               ELSE [disk EXCEPT ![file[p]].main = View(p)]
    /\ Forgotten(p)
    /\ UNCHANGED <<path, lock, opens, reading, replaced>>

\* The process ends, after a failure or killed at any step.
Kill(p) ==
    /\ pc[p] # "idle"
    /\ lock' = [i \in Inode |-> IF lock[i] = p THEN NoFile ELSE lock[i]]
    /\ Forgotten(p)
    /\ UNCHANGED <<path, disk, opens, reading, replaced>>

\* A newer build uses its own database.
NewerWrites ==
    /\ path # NoFile /\ disk[path].view.version > SCHEMA_VERSION /\ disk[path].regular
    /\ Newer \notin disk[path].view.rows
    /\ disk' = [disk EXCEPT ![path].view.rows = @ \cup {Newer}]
    /\ alone' = [p \in Process |-> NotAlone]
    /\ UNCHANGED <<path, lock, pc, file, snapshot, why, opens, reading, replaced>>

(***************************************************************************)
(* StateVerifier::verify: permissions, a read-only connection, the         *)
(* migration, the scope.  Without a log the connection is immutable and    *)
(* sees no log that appears later.                                         *)
(***************************************************************************)
Frozen(i) == disk[i].view = disk[i].main
Seen == IF reading.frozen THEN disk[reading.file].main ELSE disk[reading.file].view
Checked(content) == ~Corrupt(content)
Healthy == reading.permitted /\ reading.migrated /\ Seen.rows # {}

Regular == path # NoFile /\ disk[path].regular

VerifyPermissions ==
    /\ reading.pc = "idle"     \* it verifies once
    /\ reading' = [NoReading EXCEPT !.pc = "opening",
                        !.permitted = Regular /\ disk[path].private]

VerifyOpen ==
    /\ reading.pc = "opening" /\ Regular
    /\ reading' = [reading EXCEPT !.pc = "migration", !.file = path, !.frozen = Frozen(path),
                                  !.before = disk[path].view.rows]

VerifyMigration ==
    /\ reading.pc = "migration"
    /\ reading' = [reading EXCEPT !.pc = "scope", !.migrated = Checked(Seen) /\ Seen.version = SCHEMA_VERSION]

VerifyScope ==
    /\ reading.pc = "scope"
    /\ reading' = [reading EXCEPT !.pc = IF Healthy THEN "healthy" ELSE "failed"]

Verify ==
    /\ VerifyPermissions \/ VerifyOpen \/ VerifyMigration \/ VerifyScope
    /\ UNCHANGED <<path, disk, lock, pc, file, snapshot, why, opens, replaced, alone>>

-----------------------------------------------------------------------------
Init ==
    /\ \E first \in {First[kind] : kind \in FirstFiles} :
          \/ first = {} /\ path = NoFile /\ disk = [i \in Inode |-> Absent]
          \/ \E f \in first : path = 1 /\ disk = [i \in Inode |-> IF i = 1 THEN f ELSE Absent]
    /\ lock = [i \in Inode |-> NoFile]
    /\ pc = [p \in Process |-> "idle"] /\ file = [p \in Process |-> NoFile]
    /\ snapshot = [p \in Process |-> NoSnapshot] /\ why = [p \in Process |-> "none"]
    /\ opens = 0
    /\ reading = NoReading /\ replaced = {}
    /\ alone = [p \in Process |-> NotAlone]

Open(p) ==
    \/ CaptureMain(p) \/ CaptureSidecars(p) \/ Create(p) \/ Connect(p) \/ Configure(p) \/ ReadVersion(p)
    \/ BeginMigration(p) \/ CommitMigration(p) \/ FailMigration(p) \/ Recheck(p) \/ EnableWal(p)
    \/ RestoreMain(p) \/ RestoreSidecars(p)

\* History: who acted between a capture and its restore.
Alone(p) ==
    alone' = [q \in Process |->
        IF q # p \/ pc'[p] \in {"idle", "open"} THEN NotAlone
        ELSE IF pc[p] # "idle" THEN alone[p]
        ELSE [still |-> TRUE, named |-> path, found |-> IF path = NoFile THEN Absent ELSE disk[path]]]

Next ==
    \/ \E p \in Process : (Open(p) \/ Write(p) \/ Checkpoint(p) \/ Close(p) \/ Kill(p)) /\ Alone(p)
    \/ NewerWrites
    \/ Verify

Spec == Init /\ [][Next]_vars

-----------------------------------------------------------------------------
\* Types: processes, files and the verifier keep their shapes.
Content == [version : 0..2, rows : SUBSET (Process \cup {Newer}), sound : {"ok", "damaged", "corrupt"}]
TypeOK ==
    /\ path \in 0..MaxFiles
    /\ \A i \in Inode : /\ disk[i].main \in Content /\ disk[i].view \in Content
                        /\ {disk[i].wal, disk[i].private, disk[i].regular} \subseteq BOOLEAN
    /\ \A i \in Inode : lock[i] \in Process \cup {NoFile}
    /\ pc \in [Process -> PC] /\ file \in [Process -> 0..MaxFiles] /\ opens \in 0..MaxOpens

\* A store that was opened has exactly the schema of this build and a WAL, in a
\* file that others cannot read, unless a restore has removed or replaced a file.
OpenedIsReady ==
    \A p \in Process : (pc[p] = "open" /\ replaced = {}) =>
        Verified(View(p)) /\ disk[file[p]].wal /\ disk[file[p]].private /\ file[p] = path

\* Committed rows and the schema they need disappear only when an open restores
\* its snapshot after it read the version of a newer build, could not read the
\* version, or ran out of space: never after a lost race or a lock timeout.
Visible == IF path = NoFile THEN Empty ELSE disk[path].view
LossOnlyByFault ==
    [][\/ Visible.rows \subseteq Visible'.rows /\ Visible.version <= Visible'.version
       \/ \E p \in Process : pc[p] \in {"restoring", "sidecars"} /\ why[p] \in {"newer", "version", "io"}]_vars

\* A failed open puts back exactly what it found when nobody else acted: the
\* file with its log and all, or no file.
FailedOpenLeavesBytes ==
    [][\A p \in Process : (pc[p] = "sidecars" /\ pc'[p] = "idle" /\ alone[p].still /\ RestoreSidecars(p)) =>
            /\ path' = alone[p].named
            /\ (path' # NoFile) => disk'[path'].main = alone[p].found.main /\ disk'[path'].view = alone[p].found.view]_vars

\* The verifier sees every row that was committed when it connected, whichever
\* way it connects, unless a restore replaces the file.
VerifierSeesCommits ==
    reading.pc \in {"migration", "scope"} =>
        reading.before \subseteq Seen.rows
=============================================================================
