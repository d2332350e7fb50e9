--------------------------- MODULE StorageProofs ----------------------------
(***************************************************************************)
(* The database file: what an open, a restore and a reader of it rely on,  *)
(* for every set of processes and every bound, that a listing returns      *)
(* every row once, for tables of every size, and that a cleanup happens at *)
(* once or not at all, for every database.  The parts share no state, so   *)
(* each has an inductive invariant of its own.                             *)
(***************************************************************************)
EXTENDS MCStorage, FiniteSetTheorems, SequenceTheorems, TLAPS

(***************************************************************************)
(* Opening: the inductive invariant.                                       *)
(***************************************************************************)

FileType == [main : O!Content, view : O!Content, wal : BOOLEAN, private : BOOLEAN, regular : BOOLEAN]
SnapshotType == [main : O!Content, view : O!Content, exists : BOOLEAN]
AloneType == [still : BOOLEAN, found : FileType, named : 0..MaxFiles]
ReadingType ==
    [pc : {"idle", "opening", "migration", "scope", "healthy", "failed"}, file : 0..MaxFiles,
     frozen : BOOLEAN, permitted : BOOLEAN, migrated : BOOLEAN, before : SUBSET (Process \cup {O!Newer})]

\* Where a process has a connection.
Connected == {"configuring", "reading", "applying", "migrating", "rechecking", "journal", "open",
              "restoring", "sidecars"}

OpeningTypes ==
    /\ path \in 0..MaxFiles
    /\ disk \in [O!Inode -> FileType]
    /\ pc \in [Process -> O!PC] /\ file \in [Process -> 0..MaxFiles]
    /\ \A p \in Process : pc[p] \in Connected => file[p] # O!NoFile
    /\ snapshot \in [Process -> SnapshotType]
    /\ reading \in ReadingType
    /\ alone \in [Process -> AloneType]
    /\ why \in [Process -> {"none", "refused", "locked", "exists"} \cup O!Restoring]

\* Only a schema can be damaged, in a file or in a snapshot.
Plausible(content) == content.version = 0 => content.sound # "damaged"
ContentsInv ==
    /\ \A i \in O!Inode : Plausible(disk[i].main) /\ Plausible(disk[i].view)
    /\ \A p \in Process : Plausible(snapshot[p].main) /\ Plausible(snapshot[p].view)

\* What an open has established about the file that the path names, as long as
\* no restore has changed a file under a connection.
Established(p) ==
    /\ pc[p] \in (Connected \ {"sidecars"}) \cup {"connecting"} => path # O!NoFile /\ disk[path].private
    /\ pc[p] \in Connected \ {"sidecars"} => file[p] = path
    /\ pc[p] \in {"reading", "applying", "migrating", "rechecking", "journal", "open"} =>
          disk[path].view.sound # "corrupt"
    /\ pc[p] = "migrating" => disk[path].view.sound = "ok"
    /\ pc[p] \in {"journal", "open"} => O!Verified(disk[path].view)
    /\ pc[p] = "open" => disk[path].wal

EstablishedInv == replaced = {} => \A p \in Process : Established(p)

\* The verifier's file keeps what it held at the connection.
VerifierInv ==
    reading.pc \in {"migration", "scope"} =>
        /\ reading.file # O!NoFile
        /\ reading.before \subseteq disk[reading.file].view.rows
        /\ reading.frozen => reading.before \subseteq disk[reading.file].main.rows

\* What a process that was alone since its capture has found.
AloneInv ==
    \A p \in Process : alone[p].still =>
        /\ pc[p] \notin {"idle", "open"}
        /\ snapshot[p].exists <=> alone[p].named # O!NoFile
        /\ pc[p] \in {"capturing", "creating"} => path = alone[p].named
        /\ pc[p] = "capturing" /\ path # O!NoFile =>
              /\ snapshot[p].main = disk[path].main
              /\ disk[path].main = alone[p].found.main
              /\ disk[path].view = alone[p].found.view
        /\ pc[p] \notin {"capturing", "idle"} /\ snapshot[p].exists =>
              /\ path = alone[p].named
              /\ snapshot[p].main = alone[p].found.main
              /\ snapshot[p].view = alone[p].found.view
        /\ pc[p] = "sidecars" =>
              /\ path = alone[p].named
              /\ snapshot[p].exists => disk[path].main = alone[p].found.main

\* A file that this build can use: then an open that restores has read the
\* version of nothing newer, could not read it, or ran out of space.
Sane(content) == content.sound = "ok" /\ content.version <= O!SCHEMA_VERSION
Usable ==
    /\ \A i \in O!Inode : Sane(disk[i].main) /\ Sane(disk[i].view)
    /\ \A p \in Process :
          /\ Sane(snapshot[p].main) /\ Sane(snapshot[p].view)
          /\ pc[p] \in {"restoring", "sidecars"} => why[p] \in {"version", "io"}
          /\ pc[p] = "rechecking" => why[p] \in {"exists", "locked", "io"}

\* A file that it cannot use stays, and every open of it fails.
Early == {"capturing", "creating", "connecting", "configuring", "reading", "restoring", "sidecars", "failed"}
Refusing ==
    /\ path = 1
    /\ \A p \in Process :
          /\ pc[p] \in Early \cup {"idle"}
          /\ file[p] \in {O!NoFile, 1}
          /\ pc[p] # "idle" => snapshot[p].exists /\ snapshot[p].main = disk[1].main

Unsound ==
    /\ Refusing
    /\ disk[1].view = disk[1].main /\ disk[1].main.rows = {} /\ disk[1].main.version <= O!SCHEMA_VERSION
    /\ \/ disk[1].main.sound = "corrupt" /\ \A p \in Process : pc[p] # "reading"
       \/ disk[1].main.sound = "damaged" /\ disk[1].main.version = O!SCHEMA_VERSION
    /\ \A p \in Process : pc[p] \notin {"idle", "capturing"} => snapshot[p].view = disk[1].main

TooNew ==
    /\ Refusing
    /\ disk[1].view.version > O!SCHEMA_VERSION /\ disk[1].view.sound = "ok"
    /\ \A p \in Process :
          /\ pc[p] \notin {"idle", "capturing"} =>
                snapshot[p].view.version > O!SCHEMA_VERSION /\ snapshot[p].view.sound = "ok"
          /\ pc[p] \in {"restoring", "sidecars"} => why[p] \in {"newer", "version"}

FileInv == Usable \/ Unsound \/ TooNew

OpeningInv ==
    OpeningTypes /\ ContentsInv /\ EstablishedInv /\ VerifierInv /\ AloneInv /\ FileInv

-----------------------------------------------------------------------------
(***************************************************************************)
(* Files.                                                                  *)
(***************************************************************************)
LEMMA FileConstants ==
    /\ O!Empty \in O!Content /\ O!Ready \in O!Content
    /\ O!Absent \in FileType /\ O!Absent.private = TRUE
    /\ O!Absent.main = O!Empty /\ O!Absent.view = O!Empty
    /\ O!NoSnapshot \in SnapshotType
    /\ 1 \in O!Inode /\ O!Inode \subseteq 0..MaxFiles /\ O!NoFile \notin O!Inode /\ O!NoFile \in 0..MaxFiles
    /\ \A i \in 0..MaxFiles : i # O!NoFile => i \in O!Inode
BY StorageAssumption
DEF O!Empty, O!Ready, O!Content, O!Absent, O!File, FileType, O!NoSnapshot, SnapshotType, O!Inode, O!NoFile,
    O!SCHEMA_VERSION

LEMMA FreshFile ==
    ASSUME OpeningTypes, O!Unused # {}
    PROVE  O!Fresh \in O!Unused /\ O!Fresh \in O!Inode /\ disk[O!Fresh] = O!Absent
           /\ O!Fresh # path /\ \A p \in Process : file[p] # O!Fresh
BY DEF O!Fresh, O!Unused

\* One file is changed.
LEMMA FileUpdate ==
    ASSUME OpeningTypes, NEW i \in O!Inode, NEW w \in FileType, disk' = [disk EXCEPT ![i] = w]
    PROVE  /\ disk' \in [O!Inode -> FileType]
           /\ disk'[i] = w
           /\ \A j \in O!Inode : j # i => disk'[j] = disk[j]
BY DEF OpeningTypes

\* What a step makes of one file; whether it is a regular file stays.
Changes(i, main, view, wal, private) ==
    /\ disk' \in [O!Inode -> FileType]
    /\ \A j \in O!Inode : j # i => disk'[j] = disk[j]
    /\ disk'[i].main = main /\ disk'[i].view = view
    /\ disk'[i].wal = wal /\ disk'[i].private = private

LEMMA FileChanges ==
    ASSUME OpeningTypes, NEW i \in O!Inode, NEW w \in FileType, disk' = [disk EXCEPT ![i] = w]
    PROVE  Changes(i, w.main, w.view, w.wal, w.private)
BY FileUpdate DEF Changes

LEMMA ConnectedFile ==
    ASSUME OpeningTypes, NEW p \in Process, pc[p] \in Connected
    PROVE  file[p] \in O!Inode /\ disk[file[p]] \in FileType
BY FileConstants DEF OpeningTypes

LEMMA NamedFile ==
    ASSUME OpeningTypes, path # O!NoFile
    PROVE  path \in O!Inode /\ disk[path] \in FileType
BY FileConstants DEF OpeningTypes

\* create_user_only_database.
LEMMA CreateFile ==
    ASSUME OpeningTypes, NEW p \in Process, O!Create(p)
    PROVE  \/ /\ path = O!NoFile /\ O!Unused # {} /\ path' = O!Fresh
              /\ pc' = [pc EXCEPT ![p] = "connecting"] /\ UNCHANGED <<disk, why>>
           \/ /\ path # O!NoFile /\ path' = path
              /\ Changes(path, disk[path].main, disk[path].view, disk[path].wal, TRUE)
              /\ pc' = [pc EXCEPT ![p] = "connecting"] /\ UNCHANGED why
           \/ /\ path # O!NoFile /\ pc' = [pc EXCEPT ![p] = "failed"]
              /\ why' = [why EXCEPT ![p] = "refused"] /\ UNCHANGED <<path, disk>>
<1>1. CASE path = O!NoFile
  BY <1>1 DEF O!Create, O!Goto
<1>2. CASE path # O!NoFile /\ ~disk[path].regular
  BY <1>2 DEF O!Create, O!Fail, O!Restoring, O!Goto
<1>3. CASE path # O!NoFile /\ disk[path].regular
  <2> DEFINE w == [disk[path] EXCEPT !.private = TRUE]
  <2>1. path \in O!Inode /\ disk[path] \in FileType
    BY <1>3, NamedFile
  <2>2. /\ w \in FileType /\ w.main = disk[path].main /\ w.view = disk[path].view /\ w.wal = disk[path].wal
        /\ w.private = TRUE
    BY <2>1 DEF FileType
  <2>3. /\ disk' = [disk EXCEPT ![path] = w]
        /\ pc' = [pc EXCEPT ![p] = "connecting"] /\ UNCHANGED <<path, why>>
    BY <1>3 DEF O!Create, O!Goto
  <2> HIDE DEF w
  <2>4. Changes(path, w.main, w.view, w.wal, w.private)
    BY <2>1, <2>2, <2>3, FileChanges
  <2> QED  BY <1>3, <2>2, <2>3, <2>4
<1> QED  BY <1>1, <1>2, <1>3

LEMMA ConnectFile ==
    ASSUME OpeningTypes, NEW p \in Process, O!Connect(p)
    PROVE  \/ /\ path # O!NoFile /\ file' = [file EXCEPT ![p] = path] /\ UNCHANGED <<path, disk>>
           \/ /\ path = O!NoFile /\ O!Unused # {}
              /\ path' = O!Fresh /\ file' = [file EXCEPT ![p] = O!Fresh]
              /\ Changes(O!Fresh, O!Empty, O!Empty, disk[O!Fresh].wal, FALSE)
<1>1. CASE path # O!NoFile
  BY <1>1 DEF O!Connect
<1>2. CASE path = O!NoFile
  <2> DEFINE i == O!Fresh
             w == [disk[i] EXCEPT !.private = FALSE]
  <2>1. O!Unused # {} /\ path' = i /\ file' = [file EXCEPT ![p] = i] /\ disk' = [disk EXCEPT ![i] = w]
    BY <1>2 DEF O!Connect
  <2>2. i \in O!Inode /\ disk[i] = O!Absent /\ disk[i] \in FileType
    BY <2>1, FreshFile, FileConstants
  <2>3. w \in FileType /\ w.main = O!Empty /\ w.view = O!Empty /\ w.wal = disk[i].wal /\ w.private = FALSE
    BY <2>2, FileConstants DEF FileType
  <2> HIDE DEF i, w
  <2>4. Changes(i, w.main, w.view, w.wal, w.private)
    BY <2>1, <2>2, <2>3, FileChanges
  <2> QED  BY <1>2, <2>1, <2>3, <2>4 DEF i
<1> QED  BY <1>1, <1>2

LEMMA CommitFile ==
    ASSUME OpeningTypes, NEW p \in Process, O!CommitMigration(p)
    PROVE  LET i == file[p] IN
           /\ Changes(i, disk'[i].main, disk'[i].view, disk[i].wal, disk[i].private)
           /\ disk'[i].view.version = O!SCHEMA_VERSION
           /\ disk'[i].view.rows = disk[i].view.rows /\ disk'[i].view.sound = disk[i].view.sound
           /\ disk'[i].main.version = IF disk[i].wal THEN disk[i].main.version ELSE O!SCHEMA_VERSION
           /\ disk'[i].main.rows = disk[i].main.rows /\ disk'[i].main.sound = disk[i].main.sound
<1> DEFINE i == file[p]
           main == IF disk[i].wal THEN disk[i].main ELSE [disk[i].main EXCEPT !.version = O!SCHEMA_VERSION]
           view == [disk[i].view EXCEPT !.version = O!SCHEMA_VERSION]
           w == [disk[i] EXCEPT !.view = view, !.main = main]
<1>1. i \in O!Inode /\ disk[i] \in FileType
  BY ConnectedFile DEF O!CommitMigration, Connected
<1>2. disk[i].main \in O!Content /\ disk[i].view \in O!Content /\ disk[i].wal \in BOOLEAN
  BY <1>1 DEF FileType
<1>3. main \in O!Content /\ view \in O!Content
  BY <1>2 DEF O!Content, O!SCHEMA_VERSION
<1>4. disk' = [disk EXCEPT ![i] = w]
  <2>1. disk' = [disk EXCEPT ![i].view.version = O!SCHEMA_VERSION,
                            ![i].main.version = IF disk[i].wal THEN @ ELSE O!SCHEMA_VERSION]
    BY DEF O!CommitMigration
  <2> QED  BY <2>1, <1>1, <1>2 DEF FileType, O!Content
<1>5. /\ view.version = O!SCHEMA_VERSION /\ view.rows = disk[i].view.rows /\ view.sound = disk[i].view.sound
      /\ main.version = IF disk[i].wal THEN disk[i].main.version ELSE O!SCHEMA_VERSION
      /\ main.rows = disk[i].main.rows /\ main.sound = disk[i].main.sound
  BY <1>2 DEF O!Content
<1> HIDE DEF main, view
<1>6. w \in FileType /\ w.main = main /\ w.view = view /\ w.wal = disk[i].wal /\ w.private = disk[i].private
  BY <1>1, <1>3 DEF FileType
<1> HIDE DEF w
<1>7. Changes(i, main, view, disk[i].wal, disk[i].private)
  BY <1>1, <1>4, <1>6, FileChanges
<1> QED  BY <1>5, <1>7 DEF Changes

LEMMA WalFile ==
    ASSUME OpeningTypes, NEW p \in Process, O!EnableWal(p), pc'[p] = "open"
    PROVE  LET i == file[p] IN Changes(i, disk[i].main, disk[i].view, TRUE, disk[i].private)
<1> DEFINE i == file[p]
           w == [disk[i] EXCEPT !.wal = TRUE]
<1>1. i \in O!Inode /\ disk[i] \in FileType
  BY ConnectedFile DEF O!EnableWal, Connected
<1>2. disk' = [disk EXCEPT ![i] = w]
  BY DEF O!EnableWal, O!Fail, O!Goto, OpeningTypes, O!Restoring
<1>3. /\ w \in FileType /\ w.main = disk[i].main /\ w.view = disk[i].view /\ w.wal = TRUE
      /\ w.private = disk[i].private
  BY <1>1 DEF FileType
<1> HIDE DEF w
<1> QED  BY <1>1, <1>2, <1>3, FileChanges

\* A row is added to the view of a file.
LEMMA RowFile ==
    ASSUME OpeningTypes, NEW i \in O!Inode, NEW r \in Process \cup {O!Newer},
           disk' = [disk EXCEPT ![i].view.rows = @ \cup {r}]
    PROVE  /\ Changes(i, disk[i].main, disk'[i].view, disk[i].wal, disk[i].private)
           /\ disk'[i].view.rows = disk[i].view.rows \cup {r}
           /\ disk'[i].view.version = disk[i].view.version /\ disk'[i].view.sound = disk[i].view.sound
<1> DEFINE view == [disk[i].view EXCEPT !.rows = @ \cup {r}]
           w == [disk[i] EXCEPT !.view = view]
<1>1. disk[i] \in FileType /\ disk[i].view \in O!Content
  BY DEF OpeningTypes, FileType
<1>2. disk' = [disk EXCEPT ![i] = w]
  OBVIOUS
<1>3. /\ view \in O!Content /\ view.rows = disk[i].view.rows \cup {r}
      /\ view.version = disk[i].view.version /\ view.sound = disk[i].view.sound
  BY <1>1 DEF O!Content
<1> HIDE DEF view
<1>4. /\ w \in FileType /\ w.main = disk[i].main /\ w.view = view /\ w.wal = disk[i].wal
      /\ w.private = disk[i].private
  BY <1>1, <1>3 DEF FileType
<1> HIDE DEF w
<1>5. Changes(i, disk[i].main, view, disk[i].wal, disk[i].private)
  BY <1>2, <1>4, FileChanges
<1> QED  BY <1>3, <1>5 DEF Changes

\* The log is copied into the main file.
LEMMA CopyFile ==
    ASSUME OpeningTypes, NEW i \in O!Inode, disk' = [disk EXCEPT ![i].main = disk[i].view]
    PROVE  Changes(i, disk[i].view, disk[i].view, disk[i].wal, disk[i].private)
<1> DEFINE w == [disk[i] EXCEPT !.main = disk[i].view]
<1>1. disk[i] \in FileType
  BY DEF OpeningTypes
<1>2. disk' = [disk EXCEPT ![i] = w]
  OBVIOUS
<1>3. /\ w \in FileType /\ w.main = disk[i].view /\ w.view = disk[i].view /\ w.wal = disk[i].wal
      /\ w.private = disk[i].private
  BY <1>1 DEF FileType
<1> HIDE DEF w
<1> QED  BY <1>2, <1>3, FileChanges

LEMMA RestoreMainFile ==
    ASSUME OpeningTypes, NEW p \in Process, O!RestoreMain(p)
    PROVE  \/ ~snapshot[p].exists /\ path' = O!NoFile /\ UNCHANGED disk
           \/ /\ snapshot[p].exists /\ path # O!NoFile /\ UNCHANGED path
              /\ Changes(path, snapshot[p].main,
                         IF disk[path].view = disk[path].main THEN snapshot[p].main ELSE disk[path].view,
                         disk[path].wal, disk[path].private)
           \/ /\ snapshot[p].exists /\ path = O!NoFile /\ O!Unused # {} /\ path' = O!Fresh
              /\ Changes(O!Fresh, snapshot[p].main, snapshot[p].main, FALSE, FALSE)
<1>0. snapshot[p] \in SnapshotType /\ snapshot[p].main \in O!Content
  BY DEF OpeningTypes, SnapshotType
<1>1. CASE ~snapshot[p].exists
  BY <1>1 DEF O!RestoreMain
<1>2. CASE snapshot[p].exists /\ path # O!NoFile
  <2> DEFINE view == IF disk[path].view = disk[path].main THEN snapshot[p].main ELSE disk[path].view
             w == [disk[path] EXCEPT !.main = snapshot[p].main, !.view = view]
  <2>1. path \in O!Inode /\ disk[path] \in FileType
    BY <1>2, NamedFile
  <2>2. disk' = [disk EXCEPT ![path] = w] /\ UNCHANGED path
    BY <1>2 DEF O!RestoreMain
  <2>3. view \in O!Content
    BY <1>0, <2>1 DEF FileType
  <2> HIDE DEF view
  <2>4. /\ w \in FileType /\ w.main = snapshot[p].main /\ w.view = view /\ w.wal = disk[path].wal
        /\ w.private = disk[path].private
    BY <1>0, <2>1, <2>3 DEF FileType
  <2> HIDE DEF w
  <2>5. Changes(path, snapshot[p].main, view, disk[path].wal, disk[path].private)
    BY <2>1, <2>2, <2>4, FileChanges
  <2> QED  BY <1>2, <2>2, <2>5 DEF view
<1>3. CASE snapshot[p].exists /\ path = O!NoFile
  <2> DEFINE w == O!File(snapshot[p].main, FALSE, FALSE, TRUE)
             i == O!Fresh
  <2>1. O!Unused # {} /\ path' = i /\ disk' = [disk EXCEPT ![i] = w]
    BY <1>3 DEF O!RestoreMain
  <2>2. i \in O!Inode
    BY <2>1, FreshFile
  <2>3. w \in FileType /\ w.main = snapshot[p].main /\ w.view = snapshot[p].main /\ w.wal = FALSE /\ w.private = FALSE
    BY <1>0 DEF O!File, FileType
  <2> HIDE DEF w, i
  <2>4. Changes(i, snapshot[p].main, snapshot[p].main, FALSE, FALSE)
    BY <2>1, <2>2, <2>3, FileChanges
  <2> QED  BY <1>3, <2>1, <2>4 DEF i
<1> QED  BY <1>1, <1>2, <1>3

LEMMA RestoreSidecarsFile ==
    ASSUME OpeningTypes, NEW p \in Process, O!RestoreSidecars(p)
    PROVE  \/ (path = O!NoFile \/ ~snapshot[p].exists) /\ UNCHANGED disk
           \/ /\ path # O!NoFile /\ snapshot[p].exists
              /\ Changes(path, disk[path].main, snapshot[p].view, disk[path].wal, disk[path].private)
<1>1. CASE path = O!NoFile \/ ~snapshot[p].exists
  BY <1>1 DEF O!RestoreSidecars
<1>2. CASE ~(path = O!NoFile \/ ~snapshot[p].exists)
  <2> DEFINE w == [disk[path] EXCEPT !.view = snapshot[p].view]
  <2>1. path \in O!Inode /\ disk[path] \in FileType /\ snapshot[p].view \in O!Content
    BY <1>2, NamedFile DEF OpeningTypes, SnapshotType
  <2>2. disk' = [disk EXCEPT ![path] = w]
    BY <1>2 DEF O!RestoreSidecars
  <2>3. /\ w \in FileType /\ w.main = disk[path].main /\ w.view = snapshot[p].view /\ w.wal = disk[path].wal
        /\ w.private = disk[path].private
    BY <2>1 DEF FileType
  <2> HIDE DEF w
  <2> QED  BY <1>2, <2>1, <2>2, <2>3, FileChanges
<1> QED  BY <1>1, <1>2

-----------------------------------------------------------------------------
(***************************************************************************)
(* Opening: each conjunct is preserved.                                    *)
(***************************************************************************)

\* One step of an open, or of an open store.
Acts(p) == O!Open(p) \/ O!Write(p) \/ O!Checkpoint(p) \/ O!Close(p) \/ O!Kill(p)

\* Which steps leave every file alone.
Quiet(p) ==
    \/ O!CaptureMain(p) \/ O!CaptureSidecars(p) \/ O!Configure(p) \/ O!ReadVersion(p) \/ O!BeginMigration(p)
    \/ O!FailMigration(p) \/ O!Recheck(p) \/ O!Kill(p)

LEMMA QuietFiles ==
    ASSUME NEW p \in Process, Quiet(p)
    PROVE  UNCHANGED <<path, disk>>
BY DEF Quiet, O!CaptureMain, O!CaptureSidecars, O!Configure, O!ReadVersion, O!BeginMigration,
       O!FailMigration, O!Recheck, O!Kill

LEMMA CapturedType ==
    ASSUME OpeningTypes, NEW main \in O!Content
    PROVE  O!Captured(path, main).view \in O!Content /\ O!Captured(path, main).main = main
           /\ O!Captured(path, main).exists = (path # O!NoFile)
           /\ O!Captured(path, main) \in SnapshotType
<1>1. CASE path = O!NoFile
  BY <1>1 DEF O!Captured, SnapshotType
<1>2. CASE path # O!NoFile
  <2>1. disk[path].view \in O!Content
    BY <1>2, NamedFile DEF FileType
  <2> QED  BY <1>2, <2>1 DEF O!Captured, SnapshotType
<1> QED  BY <1>1, <1>2

ProcessTypes ==
    /\ pc \in [Process -> O!PC] /\ file \in [Process -> 0..MaxFiles]
    /\ \A p \in Process : pc[p] \in Connected => file[p] # O!NoFile
    /\ snapshot \in [Process -> SnapshotType]

\* A step that leaves the file and snapshot of its process, and does not connect it.
LEMMA SamePlace ==
    ASSUME OpeningTypes, NEW p \in Process, NEW to \in O!PC, pc' = [pc EXCEPT ![p] = to],
           UNCHANGED <<file, snapshot>>, to \in Connected => pc[p] \in Connected
    PROVE  ProcessTypes'
BY DEF OpeningTypes, ProcessTypes

LEMMA ForgottenTypes ==
    ASSUME OpeningTypes, NEW p \in Process, O!Forgotten(p)
    PROVE  ProcessTypes'
BY FileConstants DEF OpeningTypes, ProcessTypes, O!Forgotten, O!Goto, O!PC, Connected

LEMMA ProcessStep ==
    ASSUME OpeningTypes, NEW p \in Process, Acts(p)
    PROVE  ProcessTypes'
<1>1. CASE O!CaptureMain(p)
  <2>1. snapshot'[p] \in SnapshotType /\ snapshot' \in [Process -> SnapshotType]
    <3>1. path # O!NoFile => disk[path].main \in O!Content
      BY NamedFile DEF FileType
    <3>2. (IF path = O!NoFile THEN O!NoSnapshot
           ELSE [O!NoSnapshot EXCEPT !.main = disk[path].main, !.exists = TRUE]) \in SnapshotType
      BY <3>1, FileConstants DEF O!NoSnapshot, SnapshotType
    <3> QED  BY <1>1, <3>2 DEF O!CaptureMain, OpeningTypes
  <2> QED  BY <1>1, <2>1 DEF O!CaptureMain, O!Goto, OpeningTypes, ProcessTypes, O!PC, Connected
<1>2. CASE O!CaptureSidecars(p)
  <2>1. snapshot' \in [Process -> SnapshotType]
    <3>1. snapshot[p] \in SnapshotType /\ snapshot[p].main \in O!Content /\ snapshot[p].exists \in BOOLEAN
      BY DEF OpeningTypes, SnapshotType
    <3> DEFINE c == O!Captured(path, snapshot[p].main)
    <3>2. c \in SnapshotType
      BY <3>1, CapturedType
    <3>3. snapshot' = [snapshot EXCEPT ![p] = [c EXCEPT !.exists = snapshot[p].exists]]
      BY <1>2 DEF O!CaptureSidecars
    <3> HIDE DEF c
    <3>4. [c EXCEPT !.exists = snapshot[p].exists] \in SnapshotType
      BY <3>1, <3>2 DEF SnapshotType
    <3> QED  BY <3>3, <3>4 DEF OpeningTypes
  <2> QED  BY <1>2, <2>1 DEF O!CaptureSidecars, O!Goto, OpeningTypes, ProcessTypes, O!PC, Connected
<1>3. CASE O!Create(p)
  <2>1. pc' = [pc EXCEPT ![p] = "connecting"] \/ pc' = [pc EXCEPT ![p] = "failed"]
    BY <1>3, CreateFile
  <2>2. UNCHANGED <<file, snapshot>>
    BY <1>3 DEF O!Create
  <2> QED  BY <2>1, <2>2, SamePlace DEF O!PC, Connected
<1>4. CASE O!Connect(p)
  <2>1. PICK i \in O!Inode : file' = [file EXCEPT ![p] = i]
    BY <1>4, ConnectFile, FreshFile, NamedFile
  <2>2. pc' = [pc EXCEPT ![p] = "configuring"] /\ UNCHANGED snapshot
    BY <1>4 DEF O!Connect, O!Goto
  <2> QED  BY <2>1, <2>2, FileConstants DEF OpeningTypes, ProcessTypes, O!PC
<1>5. CASE O!Configure(p)
  <2>1. PICK to \in {"restoring", "failed", "reading"} : pc' = [pc EXCEPT ![p] = to]
    BY <1>5 DEF O!Configure, O!Fail, O!Goto
  <2> QED  BY <1>5, <2>1, SamePlace DEF O!Configure, O!PC, Connected
<1>6. CASE O!ReadVersion(p)
  <2>1. PICK to \in {"restoring", "failed", "journal", "applying"} : pc' = [pc EXCEPT ![p] = to]
    BY <1>6 DEF O!ReadVersion, O!Fail, O!Goto
  <2> QED  BY <1>6, <2>1, SamePlace DEF O!ReadVersion, O!PC, Connected
<1>7. CASE O!BeginMigration(p)
  <2>1. PICK to \in {"migrating", "rechecking"} : pc' = [pc EXCEPT ![p] = to]
    BY <1>7 DEF O!BeginMigration, O!Goto
  <2> QED  BY <1>7, <2>1, SamePlace DEF O!BeginMigration, O!PC, Connected
<1>8. CASE O!CommitMigration(p) \/ O!FailMigration(p)
  <2>1. PICK to \in {"journal", "rechecking"} : pc' = [pc EXCEPT ![p] = to]
    BY <1>8 DEF O!CommitMigration, O!FailMigration, O!Goto
  <2> QED  BY <1>8, <2>1, SamePlace DEF O!CommitMigration, O!FailMigration, O!PC, Connected
<1>9. CASE O!Recheck(p)
  <2>1. PICK to \in {"journal", "restoring", "failed"} : pc' = [pc EXCEPT ![p] = to]
    BY <1>9 DEF O!Recheck, O!Fail, O!Goto
  <2> QED  BY <1>9, <2>1, SamePlace DEF O!Recheck, O!PC, Connected
<1>10. CASE O!EnableWal(p)
  <2>1. snapshot' \in [Process -> SnapshotType]
    BY <1>10, FileConstants DEF O!EnableWal, OpeningTypes
  <2>2. PICK to \in {"open", "restoring", "failed"} : pc' = [pc EXCEPT ![p] = to]
    BY <1>10 DEF O!EnableWal, O!Fail, O!Goto
  <2>3. pc[p] = "journal" /\ UNCHANGED file
    BY <1>10 DEF O!EnableWal
  <2> QED  BY <2>1, <2>2, <2>3 DEF OpeningTypes, ProcessTypes, O!PC, Connected
<1>11. CASE O!RestoreMain(p)
  BY <1>11, SamePlace DEF O!RestoreMain, O!Goto, O!PC, Connected
<1>12. CASE O!RestoreSidecars(p) \/ O!Close(p) \/ O!Kill(p)
  BY <1>12, ForgottenTypes DEF O!RestoreSidecars, O!Close, O!Kill
<1>13. CASE O!Write(p) \/ O!Checkpoint(p)
  BY <1>13 DEF O!Write, O!Checkpoint, OpeningTypes, ProcessTypes
<1> QED  BY <1>1, <1>2, <1>3, <1>4, <1>5, <1>6, <1>7, <1>8, <1>9, <1>10, <1>11, <1>12, <1>13 DEF Acts, O!Open

LEMMA CloseFile ==
    ASSUME OpeningTypes, NEW p \in Process, O!Close(p) \/ O!Checkpoint(p)
    PROVE  \/ UNCHANGED disk
           \/ LET i == file[p] IN
              /\ i \notin replaced
              /\ Changes(i, disk[i].view, disk[i].view, disk[i].wal, disk[i].private)
<1>1. file[p] \in O!Inode
  BY ConnectedFile DEF O!Close, O!Checkpoint, Connected
<1>2. disk' = disk \/ (file[p] \notin replaced /\ disk' = [disk EXCEPT ![file[p]].main = disk[file[p]].view])
  BY DEF O!Close, O!Checkpoint, O!View
<1> QED  BY <1>1, <1>2, CopyFile

LEMMA WriteFile ==
    ASSUME OpeningTypes, NEW p \in Process, O!Write(p)
    PROVE  LET i == file[p] IN
           /\ Changes(i, disk[i].main, disk'[i].view, disk[i].wal, disk[i].private)
           /\ disk'[i].view.rows = disk[i].view.rows \cup {p}
           /\ disk'[i].view.version = disk[i].view.version /\ disk'[i].view.sound = disk[i].view.sound
<1>1. file[p] \in O!Inode
  BY ConnectedFile DEF O!Write, Connected
<1>2. disk' = [disk EXCEPT ![file[p]].view.rows = @ \cup {p}]
  BY DEF O!Write
<1> QED  BY <1>1, <1>2, RowFile

LEMMA NewerFile ==
    ASSUME OpeningTypes, O!NewerWrites
    PROVE  /\ path # O!NoFile
           /\ Changes(path, disk[path].main, disk'[path].view, disk[path].wal, disk[path].private)
           /\ disk'[path].view.rows = disk[path].view.rows \cup {O!Newer}
           /\ disk'[path].view.version = disk[path].view.version /\ disk'[path].view.sound = disk[path].view.sound
<1>1. path \in O!Inode
  BY NamedFile DEF O!NewerWrites
<1>2. disk' = [disk EXCEPT ![path].view.rows = @ \cup {O!Newer}]
  BY DEF O!NewerWrites
<1> QED  BY <1>1, <1>2, RowFile DEF O!NewerWrites

LEMMA EnableWalFile ==
    ASSUME OpeningTypes, NEW p \in Process, O!EnableWal(p)
    PROVE  \/ /\ pc' = [pc EXCEPT ![p] = "failed"] /\ UNCHANGED <<disk, snapshot>>
           \/ /\ pc' = [pc EXCEPT ![p] = "open"]
              /\ LET i == file[p] IN Changes(i, disk[i].main, disk[i].view, TRUE, disk[i].private)
<1>1. CASE ~disk[file[p]].wal /\ lock[file[p]] # O!NoFile
  BY <1>1 DEF O!EnableWal, O!Fail, O!Goto, O!Restoring
<1>2. CASE ~(~disk[file[p]].wal /\ lock[file[p]] # O!NoFile)
  <2>1. pc' = [pc EXCEPT ![p] = "open"]
    BY <1>2 DEF O!EnableWal, O!Goto
  <2> QED  BY <2>1, WalFile DEF OpeningTypes
<1> QED  BY <1>1, <1>2

LEMMA FileStep ==
    ASSUME OpeningTypes, NEW p \in Process, Acts(p)
    PROVE  path' \in 0..MaxFiles /\ disk' \in [O!Inode -> FileType]
<1>0. path \in 0..MaxFiles /\ disk \in [O!Inode -> FileType]
  BY DEF OpeningTypes
<1>1. CASE Quiet(p)
  BY <1>0, <1>1, QuietFiles
<1>2. CASE O!Create(p)
  BY <1>0, <1>2, CreateFile, FreshFile, FileConstants DEF Changes
<1>3. CASE O!Connect(p)
  BY <1>0, <1>3, ConnectFile, FreshFile, FileConstants DEF Changes
<1>4. CASE O!CommitMigration(p)
  BY <1>0, <1>4, CommitFile DEF O!CommitMigration, Changes
<1>5. CASE O!EnableWal(p)
  BY <1>0, <1>5, EnableWalFile DEF O!EnableWal, Changes
<1>6. CASE O!RestoreMain(p)
  BY <1>0, <1>6, RestoreMainFile, FreshFile, FileConstants DEF Changes
<1>7. CASE O!RestoreSidecars(p)
  BY <1>0, <1>7, RestoreSidecarsFile DEF O!RestoreSidecars, Changes
<1>8. CASE O!Write(p)
  BY <1>0, <1>8, WriteFile DEF O!Write, Changes
<1>9. CASE O!Checkpoint(p) \/ O!Close(p)
  BY <1>0, <1>9, CloseFile DEF O!Checkpoint, O!Close, Changes
<1> QED  BY <1>1, <1>2, <1>3, <1>4, <1>5, <1>6, <1>7, <1>8, <1>9 DEF Acts, O!Open, Quiet

LEMMA AloneStep ==
    ASSUME OpeningTypes, NEW p \in Process, O!Alone(p)
    PROVE  alone' \in [Process -> AloneType]
<1>1. O!NotAlone \in AloneType
  BY FileConstants DEF O!NotAlone, AloneType
<1>2. [still |-> TRUE, named |-> path, found |-> IF path = O!NoFile THEN O!Absent ELSE disk[path]] \in AloneType
  BY NamedFile, FileConstants DEF OpeningTypes, AloneType
<1> QED  BY <1>1, <1>2 DEF O!Alone, OpeningTypes

LEMMA WhyStep ==
    ASSUME OpeningTypes, NEW p \in Process, Acts(p)
    PROVE  why' \in [Process -> {"none", "refused", "locked", "exists"} \cup O!Restoring]
<1> DEFINE W == {"none", "refused", "locked", "exists"} \cup O!Restoring
<1>1. why \in [Process -> W]
  BY DEF OpeningTypes
<1>2. UNCHANGED why \/ \E e \in W : why' = [why EXCEPT ![p] = e]
  <2>1. CASE O!Recheck(p)
    BY <1>1, <2>1 DEF O!Recheck, O!Fail, O!Restoring
  <2>2. CASE \/ O!Configure(p) \/ O!ReadVersion(p) \/ O!BeginMigration(p) \/ O!FailMigration(p) \/ O!EnableWal(p)
             \/ O!Create(p)
    BY <2>2 DEF O!Configure, O!ReadVersion, O!BeginMigration, O!FailMigration, O!EnableWal, O!Create, O!Fail,
                O!Restoring
  <2>3. CASE ~(O!Recheck(p) \/ O!Configure(p) \/ O!ReadVersion(p) \/ O!BeginMigration(p) \/ O!FailMigration(p)
               \/ O!EnableWal(p) \/ O!Create(p))
    BY <2>3 DEF Acts, O!Open, O!CaptureMain, O!CaptureSidecars, O!Connect, O!CommitMigration, O!RestoreMain,
                O!RestoreSidecars, O!Write, O!Checkpoint, O!Close, O!Kill, O!Forgotten
  <2> QED  BY <2>1, <2>2, <2>3
<1> HIDE DEF W
<1>3. why' \in [Process -> W]
  BY <1>1, <1>2
<1> QED  BY <1>3 DEF W

LEMMA TypesStep ==
    ASSUME OpeningTypes, NEW p \in Process, Acts(p), O!Alone(p)
    PROVE  OpeningTypes'
<1>1. ProcessTypes'
  BY ProcessStep
<1>2. path' \in 0..MaxFiles /\ disk' \in [O!Inode -> FileType]
  BY FileStep
<1>3. alone' \in [Process -> AloneType]
  BY AloneStep
<1>4. reading' \in ReadingType
  <2>1. UNCHANGED reading \/ O!Forget
    BY DEF Acts, O!Open, O!CaptureMain, O!CaptureSidecars, O!Create, O!Connect, O!Configure, O!ReadVersion,
           O!BeginMigration, O!CommitMigration, O!FailMigration, O!Recheck, O!EnableWal, O!RestoreMain,
           O!RestoreSidecars, O!Write, O!Checkpoint, O!Close, O!Kill
  <2> QED  BY <2>1 DEF O!Forget, OpeningTypes, ReadingType
<1>5. why' \in [Process -> {"none", "refused", "locked", "exists"} \cup O!Restoring]
  BY WhyStep
<1> QED  BY <1>1, <1>2, <1>3, <1>4, <1>5 DEF ProcessTypes, OpeningTypes

LEMMA TypesNewer ==
    ASSUME OpeningTypes, O!NewerWrites
    PROVE  OpeningTypes'
<1>1. disk' \in [O!Inode -> FileType]
  BY NewerFile DEF Changes
<1>2. O!NotAlone \in AloneType
  BY FileConstants DEF O!NotAlone, AloneType
<1> QED  BY <1>1, <1>2 DEF OpeningTypes, O!NewerWrites

LEMMA TypesVerify ==
    ASSUME OpeningTypes, O!Verify
    PROVE  OpeningTypes'
<1>1. reading \in ReadingType /\ path \in 0..MaxFiles
  BY DEF OpeningTypes
<1>2. ASSUME O!VerifyPermissions PROVE reading' \in ReadingType
  <2>1. (O!Regular /\ disk[path].private) \in BOOLEAN
    BY NamedFile DEF O!Regular, FileType
  <2> QED  BY <1>2, <2>1, FileConstants DEF O!VerifyPermissions, O!NoReading, ReadingType
<1>3. ASSUME O!VerifyOpen PROVE reading' \in ReadingType
  <2>1. disk[path].view.rows \in SUBSET (Process \cup {O!Newer})
    BY <1>3, NamedFile DEF O!VerifyOpen, O!Regular, FileType, O!Content
  <2> QED  BY <1>1, <1>3, <2>1 DEF O!VerifyOpen, O!Frozen, ReadingType
<1>4. ASSUME O!VerifyMigration PROVE reading' \in ReadingType
  BY <1>1, <1>4 DEF O!VerifyMigration, O!Checked, ReadingType
<1>5. ASSUME O!VerifyScope PROVE reading' \in ReadingType
  BY <1>1, <1>5 DEF O!VerifyScope, ReadingType
<1>6. reading' \in ReadingType
  BY <1>2, <1>3, <1>4, <1>5 DEF O!Verify
<1> QED  BY <1>6 DEF OpeningTypes, O!Verify

-----------------------------------------------------------------------------
(***************************************************************************)
(* Opening: what the file and the snapshots hold.                          *)
(***************************************************************************)
LEMMA ContentsConstants ==
    /\ Plausible(O!Empty) /\ Plausible(O!NoSnapshot.main) /\ Plausible(O!NoSnapshot.view)
BY DEF Plausible, O!Empty, O!NoSnapshot

\* A snapshot holds what the path's file held.
LEMMA SnapshotStep ==
    ASSUME OpeningTypes, NEW p \in Process, Acts(p), NEW q \in Process
    PROVE  \/ snapshot'[q] = snapshot[q]
           \/ snapshot'[q] = O!NoSnapshot
           \/ /\ q = p /\ O!CaptureMain(p) /\ path # O!NoFile
              /\ snapshot'[q].main = disk[path].main /\ snapshot'[q].view = O!Empty /\ snapshot'[q].exists
           \/ /\ q = p /\ O!CaptureSidecars(p)
              /\ snapshot'[q].main = snapshot[q].main /\ snapshot'[q].exists = snapshot[q].exists
              /\ snapshot'[q].view = IF path # O!NoFile /\ disk[path].view # disk[path].main
                                     THEN disk[path].view ELSE snapshot[q].main
<1>1. CASE O!CaptureMain(p)
  BY <1>1 DEF O!CaptureMain, OpeningTypes, O!NoSnapshot
<1>2. CASE O!CaptureSidecars(p)
  BY <1>2 DEF O!CaptureSidecars, O!Captured, OpeningTypes
<1>3. CASE O!EnableWal(p) \/ O!RestoreSidecars(p) \/ O!Close(p) \/ O!Kill(p)
  BY <1>3 DEF O!EnableWal, O!RestoreSidecars, O!Close, O!Kill, O!Forgotten, OpeningTypes
<1>4. CASE \/ O!Create(p) \/ O!Connect(p) \/ O!Configure(p) \/ O!ReadVersion(p) \/ O!BeginMigration(p)
           \/ O!CommitMigration(p) \/ O!FailMigration(p) \/ O!Recheck(p) \/ O!RestoreMain(p)
           \/ O!Write(p) \/ O!Checkpoint(p)
  BY <1>4 DEF O!Create, O!Connect, O!Configure, O!ReadVersion,
           O!BeginMigration, O!CommitMigration, O!FailMigration, O!Recheck, O!RestoreMain, O!Write, O!Checkpoint
<1> QED  BY <1>1, <1>2, <1>3, <1>4 DEF Acts, O!Open

LEMMA ContentsStep ==
    ASSUME OpeningTypes, ContentsInv, NEW p \in Process, Acts(p)
    PROVE  ContentsInv'
<1>1. ASSUME NEW i \in O!Inode PROVE Plausible(disk'[i].main) /\ Plausible(disk'[i].view)
  <2>0. /\ Plausible(disk[i].main) /\ Plausible(disk[i].view)
        /\ Plausible(snapshot[p].main) /\ Plausible(snapshot[p].view)
    BY DEF ContentsInv
  <2>1. CASE Quiet(p)
    BY <2>0, <2>1, QuietFiles
  <2>2. CASE O!Create(p)
    BY <2>0, <2>2, CreateFile DEF Changes
  <2>3. CASE O!Connect(p)
    BY <2>0, <2>3, ConnectFile, ContentsConstants DEF Changes
  <2>4. CASE O!CommitMigration(p)
    BY <2>0, <2>4, CommitFile DEF Changes, Plausible, O!SCHEMA_VERSION
  <2>5. CASE O!EnableWal(p)
    BY <2>0, <2>5, EnableWalFile DEF Changes
  <2>6. CASE O!RestoreMain(p)
    BY <2>0, <2>6, RestoreMainFile DEF Changes
  <2>7. CASE O!RestoreSidecars(p)
    BY <2>0, <2>7, RestoreSidecarsFile DEF Changes
  <2>8. CASE O!Write(p)
    BY <2>0, <2>8, WriteFile DEF Changes, Plausible
  <2>9. CASE O!Checkpoint(p) \/ O!Close(p)
    BY <2>0, <2>9, CloseFile DEF Changes
  <2> QED  BY <2>1, <2>2, <2>3, <2>4, <2>5, <2>6, <2>7, <2>8, <2>9 DEF Acts, O!Open, Quiet
<1>2. ASSUME NEW q \in Process PROVE Plausible(snapshot'[q].main) /\ Plausible(snapshot'[q].view)
  <2>1. path # O!NoFile => Plausible(disk[path].main) /\ Plausible(disk[path].view)
    BY NamedFile DEF ContentsInv
  <2>2. Plausible(snapshot[q].main) /\ Plausible(snapshot[q].view)
    BY DEF ContentsInv
  <2> QED  BY <2>1, <2>2, SnapshotStep, ContentsConstants
<1> QED  BY <1>1, <1>2 DEF ContentsInv, Plausible

-----------------------------------------------------------------------------
(***************************************************************************)
(* Opening: what an open has established.                                  *)
(***************************************************************************)

\* While no restore has changed a file under a connection, and none does now,
\* nobody else is connected, or about to be, to what is restored.
LEMMA NotShared ==
    ASSUME OpeningTypes, EstablishedInv, replaced = {}, NEW p \in Process, NEW q \in Process, q # p,
           path = O!NoFile \/ ~O!Shared(path, p)
    PROVE  pc[q] \notin (Connected \ {"sidecars"}) \cup {"connecting"}
<1> SUFFICES ASSUME pc[q] \in (Connected \ {"sidecars"}) \cup {"connecting"} PROVE FALSE
  OBVIOUS
<1>1. Established(q)
  BY DEF EstablishedInv
<1>2. path # O!NoFile /\ (file[q] = path \/ pc[q] = "connecting")
  BY <1>1 DEF Established
<1> QED  BY <1>2 DEF O!Shared

\* A step that leaves the content of the path's file, and its protection.
LEMMA EstablishedKept ==
    ASSUME NEW q \in Process, Established(q), pc'[q] = pc[q], file'[q] = file[q], path # O!NoFile => path' = path,
           path # O!NoFile =>
              /\ disk'[path].view.sound = disk[path].view.sound
              /\ disk'[path].private = disk[path].private \/ disk'[path].private = TRUE
              /\ disk'[path].wal = disk[path].wal \/ disk'[path].wal = TRUE
              /\ disk'[path].view.version \in {disk[path].view.version, O!SCHEMA_VERSION}
    PROVE  Established(q)'
<1>1. pc[q] \in (Connected \ {"sidecars"}) \cup {"connecting"} => Established(q)'
  BY DEF Established, O!Verified, Connected
<1> QED  BY <1>1 DEF Established, Connected

LEMMA EstablishedStep ==
    ASSUME OpeningTypes, ContentsInv, EstablishedInv, NEW p \in Process, Acts(p)
    PROVE  EstablishedInv'
<1> SUFFICES ASSUME replaced' = {}, NEW q \in Process PROVE Established(q)'
  BY DEF EstablishedInv
<1>0. replaced = {}
  BY DEF Acts, O!Open, O!CaptureMain, O!CaptureSidecars, O!Create, O!Connect, O!Configure, O!ReadVersion,
           O!BeginMigration, O!CommitMigration, O!FailMigration, O!Recheck, O!EnableWal, O!RestoreMain,
           O!RestoreSidecars, O!Write, O!Checkpoint, O!Close, O!Kill
<1>1. Established(q) /\ Established(p)
  BY <1>0 DEF EstablishedInv
<1>2. pc \in [Process -> O!PC] /\ file \in [Process -> 0..MaxFiles]
  BY DEF OpeningTypes
<1>3. path # O!NoFile => path \in O!Inode /\ disk[path] \in FileType
  BY NamedFile
<1>4. CASE q # p /\ Quiet(p)
  <2>1. pc'[q] = pc[q] /\ file'[q] = file[q]
    BY <1>2, <1>4 DEF Quiet, O!CaptureMain, O!CaptureSidecars, O!Configure, O!ReadVersion, O!BeginMigration,
       O!FailMigration, O!Recheck, O!Kill, O!Forgotten, O!Goto, O!Fail
  <2> QED  BY <1>1, <1>4, <2>1, QuietFiles, EstablishedKept
<1>5. CASE q = p /\ Quiet(p)
  <2>1. UNCHANGED <<path, disk>>
    BY <1>5, QuietFiles
  <2>2. CASE O!CaptureMain(p) \/ O!CaptureSidecars(p) \/ O!Kill(p)
    <3>1. pc'[p] \in {"capturing", "creating", "idle"}
      BY <1>2, <2>2 DEF O!CaptureMain, O!CaptureSidecars, O!Kill, O!Forgotten, O!Goto
    <3> QED  BY <1>5, <3>1 DEF Established, Connected
  <2>3. CASE O!Configure(p)
    <3>1. pc[p] = "configuring" /\ UNCHANGED file /\ pc'[p] \in {"restoring", "failed", "reading"}
      BY <1>2, <2>3 DEF O!Configure, O!Fail, O!Goto
    <3>2. pc'[p] = "reading" => O!View(p).sound # "corrupt"
      BY <1>2, <2>3, <3>1 DEF O!Configure, O!Fail, O!Goto, O!Corrupt
    <3> QED  BY <1>1, <1>5, <2>1, <3>1, <3>2 DEF Established, Connected, O!View
  <2>4. CASE O!ReadVersion(p)
    <3>1. pc[p] = "reading" /\ UNCHANGED file /\ pc'[p] \in {"restoring", "failed", "journal", "applying"}
      BY <1>2, <2>4 DEF O!ReadVersion, O!Fail, O!Goto
    <3>2. pc'[p] = "journal" => /\ O!View(p).version <= O!SCHEMA_VERSION /\ O!View(p).version >= O!SCHEMA_VERSION
                                /\ O!View(p).sound # "damaged"
      BY <1>2, <2>4, <3>1 DEF O!ReadVersion, O!Fail, O!Goto, O!Supported
    <3>3. path # O!NoFile => disk[path].view.version \in Nat /\ disk[path].view.sound \in {"ok", "damaged", "corrupt"}
      BY <1>3 DEF FileType, O!Content
    <3> QED  BY <1>1, <1>5, <2>1, <3>1, <3>2, <3>3 DEF Established, Connected, O!View, O!Verified, O!SCHEMA_VERSION
  <2>5. CASE O!BeginMigration(p)
    <3>1. pc[p] = "applying" /\ UNCHANGED file /\ pc'[p] \in {"migrating", "rechecking"}
      BY <1>2, <2>5 DEF O!BeginMigration, O!Goto
    <3>2. pc'[p] = "migrating" => O!View(p).version < O!SCHEMA_VERSION
      BY <1>2, <2>5, <3>1 DEF O!BeginMigration, O!Goto
    <3>3. path # O!NoFile => /\ disk[path].view.version \in Nat /\ disk[path].view.sound \in {"ok", "damaged", "corrupt"}
                             /\ Plausible(disk[path].view)
      BY <1>3 DEF FileType, O!Content, ContentsInv
    <3> QED  BY <1>1, <1>5, <2>1, <3>1, <3>2, <3>3 DEF Established, Connected, O!View, O!SCHEMA_VERSION, Plausible
  <2>6. CASE O!FailMigration(p)
    <3>1. pc[p] = "migrating" /\ UNCHANGED file /\ pc'[p] = "rechecking"
      BY <1>2, <2>6 DEF O!FailMigration, O!Goto
    <3> QED  BY <1>1, <1>5, <2>1, <3>1 DEF Established, Connected
  <2>7. CASE O!Recheck(p)
    <3>1. pc[p] = "rechecking" /\ UNCHANGED file /\ pc'[p] \in {"journal", "restoring", "failed"}
      BY <1>2, <2>7 DEF O!Recheck, O!Fail, O!Goto
    <3>2. pc'[p] = "journal" => O!Verified(O!View(p))
      BY <1>2, <2>7, <3>1 DEF O!Recheck, O!Fail, O!Goto
    <3> QED  BY <1>1, <1>5, <2>1, <3>1, <3>2 DEF Established, Connected, O!View, O!Verified
  <2> QED  BY <1>5, <2>2, <2>3, <2>4, <2>5, <2>6, <2>7 DEF Quiet
<1>6. CASE O!Create(p)
  <2>1. UNCHANGED file /\ (q # p => pc'[q] = pc[q]) /\ pc'[p] \in {"connecting", "failed"}
    BY <1>2, <1>6, CreateFile DEF O!Create
  <2>2. CASE path = O!NoFile /\ q # p
    BY <1>0, <2>1, <2>2, NotShared DEF Established, Connected
  <2>3. CASE path = O!NoFile /\ q = p
    <3>1. disk'[path'].private = TRUE /\ path' # O!NoFile
      BY <1>6, <2>3, CreateFile, FreshFile, FileConstants
    <3> QED  BY <2>1, <2>3, <3>1 DEF Established, Connected
  <2>4. CASE path # O!NoFile /\ q # p
    BY <1>1, <1>6, <2>1, <2>4, CreateFile, EstablishedKept DEF Changes
  <2>5. CASE path # O!NoFile /\ q = p
    <3>1. pc'[p] = "connecting" => disk'[path'].private = TRUE /\ path' # O!NoFile
      BY <1>2, <1>6, <2>5, CreateFile DEF Changes
    <3> QED  BY <2>1, <2>5, <3>1 DEF Established, Connected
  <2> QED  BY <2>2, <2>3, <2>4, <2>5
<1>7. CASE O!Connect(p)
  <2>1. pc[p] = "connecting" /\ path # O!NoFile
    BY <1>1, <1>7 DEF O!Connect, Established
  <2>2. /\ UNCHANGED <<path, disk>> /\ file' = [file EXCEPT ![p] = path]
        /\ pc' = [pc EXCEPT ![p] = "configuring"]
    BY <1>7, <2>1, ConnectFile DEF O!Connect, O!Goto
  <2>3. CASE q # p
    BY <1>1, <1>2, <2>2, <2>3, EstablishedKept
  <2>4. CASE q = p
    BY <1>1, <1>2, <2>1, <2>2, <2>4 DEF Established, Connected
  <2> QED  BY <2>3, <2>4
<1>8. CASE O!CommitMigration(p)
  <2>1. pc[p] = "migrating" /\ path # O!NoFile /\ file[p] = path /\ disk[path].view.sound = "ok"
    BY <1>1, <1>8 DEF O!CommitMigration, Established, Connected
  <2>2. UNCHANGED <<path, file>> /\ pc' = [pc EXCEPT ![p] = "journal"]
    BY <1>8 DEF O!CommitMigration, O!Goto
  <2>3. /\ disk'[path].view.version = O!SCHEMA_VERSION /\ disk'[path].view.sound = disk[path].view.sound
        /\ disk'[path].private = disk[path].private /\ disk'[path].wal = disk[path].wal
    BY <1>8, <2>1, CommitFile DEF Changes
  <2>4. CASE q # p
    BY <1>1, <1>2, <2>2, <2>3, <2>4, EstablishedKept
  <2>5. CASE q = p
    BY <1>1, <1>2, <2>1, <2>2, <2>3, <2>5 DEF Established, Connected, O!Verified
  <2> QED  BY <2>4, <2>5
<1>9. CASE O!EnableWal(p)
  <2>1. pc[p] = "journal" /\ path # O!NoFile /\ file[p] = path
    BY <1>1, <1>9 DEF O!EnableWal, Established, Connected
  <2>2. UNCHANGED <<path, file>> /\ (q # p => pc'[q] = pc[q]) /\ pc'[p] \in {"open", "failed"}
    BY <1>2, <1>9, EnableWalFile DEF O!EnableWal
  <2>3. /\ disk'[path].view = disk[path].view
        /\ disk'[path].private = disk[path].private
        /\ disk'[path].wal = disk[path].wal \/ disk'[path].wal = TRUE
        /\ pc'[p] = "open" => disk'[path].wal = TRUE
    BY <1>2, <1>9, <2>1, EnableWalFile DEF Changes
  <2>4. CASE q # p
    BY <1>1, <2>2, <2>3, <2>4, EstablishedKept
  <2>5. CASE q = p
    BY <1>1, <2>1, <2>2, <2>3, <2>5 DEF Established, Connected, O!Verified
  <2> QED  BY <2>4, <2>5
<1>10. CASE O!RestoreMain(p)
  <2>1. pc' = [pc EXCEPT ![p] = "sidecars"]
    BY <1>10 DEF O!RestoreMain, O!Goto
  <2>2. path = O!NoFile \/ ~O!Shared(path, p)
    BY <1>10 DEF O!RestoreMain
  <2>3. CASE q # p
    BY <1>0, <1>2, <2>1, <2>2, <2>3, NotShared DEF Established, Connected
  <2>4. CASE q = p
    BY <1>2, <2>1, <2>4 DEF Established, Connected
  <2> QED  BY <2>3, <2>4
<1>11. CASE O!RestoreSidecars(p)
  <2>1. pc' = [pc EXCEPT ![p] = "idle"]
    BY <1>11 DEF O!RestoreSidecars, O!Forgotten, O!Goto
  <2>2. path = O!NoFile \/ ~O!Shared(path, p)
    BY <1>11 DEF O!RestoreSidecars
  <2>3. CASE q # p
    BY <1>0, <1>2, <2>1, <2>2, <2>3, NotShared DEF Established, Connected
  <2>4. CASE q = p
    BY <1>2, <2>1, <2>4 DEF Established, Connected
  <2> QED  BY <2>3, <2>4
<1>12. CASE O!Write(p)
  <2>1. UNCHANGED <<path, file, pc>>
    BY <1>12 DEF O!Write
  <2>2. path # O!NoFile =>
          /\ disk'[path].view.sound = disk[path].view.sound /\ disk'[path].view.version = disk[path].view.version
          /\ disk'[path].private = disk[path].private /\ disk'[path].wal = disk[path].wal
    BY <1>3, <1>12, WriteFile DEF Changes
  <2> QED  BY <1>1, <2>1, <2>2, EstablishedKept
<1>13. CASE O!Checkpoint(p) \/ O!Close(p)
  <2>1. UNCHANGED path /\ (q # p => pc'[q] = pc[q] /\ file'[q] = file[q])
    BY <1>2, <1>13 DEF O!Checkpoint, O!Close, O!Forgotten, O!Goto
  <2>2. path # O!NoFile =>
          /\ disk'[path].view = disk[path].view
          /\ disk'[path].private = disk[path].private /\ disk'[path].wal = disk[path].wal
    BY <1>3, <1>13, CloseFile DEF Changes
  <2>3. CASE q # p \/ O!Checkpoint(p)
    <3>1. pc'[q] = pc[q] /\ file'[q] = file[q]
      BY <2>1, <2>3 DEF O!Checkpoint
    <3> QED  BY <1>1, <2>1, <2>2, <3>1, EstablishedKept
  <2>4. CASE q = p /\ O!Close(p)
    <3>1. pc'[p] = "idle"
      BY <1>2, <2>4 DEF O!Close, O!Forgotten, O!Goto
    <3> QED  BY <2>4, <3>1 DEF Established, Connected
  <2> QED  BY <1>13, <2>3, <2>4
<1> QED  BY <1>4, <1>5, <1>6, <1>7, <1>8, <1>9, <1>10, <1>11, <1>12, <1>13 DEF Acts, O!Open, Quiet

LEMMA NewerPreserves ==
    ASSUME OpeningTypes, ContentsInv, EstablishedInv, O!NewerWrites
    PROVE  ContentsInv' /\ EstablishedInv'
<1>1. UNCHANGED <<path, pc, file, snapshot, replaced>> /\ path # O!NoFile /\ path \in O!Inode
  BY NamedFile DEF O!NewerWrites
<1>2. ContentsInv'
  <2>1. ASSUME NEW i \in O!Inode PROVE Plausible(disk'[i].main) /\ Plausible(disk'[i].view)
    <3>1. Plausible(disk[i].main) /\ Plausible(disk[i].view)
      BY DEF ContentsInv
    <3> QED  BY <3>1, NewerFile DEF Changes, Plausible
  <2> QED  BY <1>1, <2>1 DEF ContentsInv
<1>3. ASSUME replaced' = {}, NEW q \in Process PROVE Established(q)'
  <2>1. Established(q)
    BY <1>1, <1>3 DEF EstablishedInv
  <2> QED  BY <1>1, <2>1, NewerFile, EstablishedKept DEF Changes
<1> QED  BY <1>2, <1>3 DEF EstablishedInv

LEMMA VerifyPreserves ==
    ASSUME ContentsInv, EstablishedInv, O!Verify
    PROVE  ContentsInv' /\ EstablishedInv'
BY DEF O!Verify, ContentsInv, EstablishedInv, Established

-----------------------------------------------------------------------------
(***************************************************************************)
(* Opening: what the verifier relies on.                                   *)
(***************************************************************************)

\* Rows stay in every file but for restores.
LEMMA RowsKept ==
    ASSUME OpeningTypes, NEW p \in Process, Acts(p), ~O!RestoreMain(p), ~O!RestoreSidecars(p), NEW i \in O!Inode
    PROVE  /\ disk[i].view.rows \subseteq disk'[i].view.rows
           /\ disk'[i].main.rows \in {disk[i].main.rows, disk[i].view.rows}
           /\ disk'[i].view.version = disk[i].view.version \/ (O!CommitMigration(p) /\ i = file[p])
<1>1. CASE Quiet(p)
  BY <1>1, QuietFiles
<1>2. CASE O!Create(p)
  BY <1>2, CreateFile DEF Changes
<1>3. CASE O!Connect(p)
  <2>1. CASE path # O!NoFile
    BY <1>3, <2>1, ConnectFile
  <2>2. CASE path = O!NoFile
    BY <1>3, <2>2, ConnectFile, FreshFile, FileConstants DEF Changes
  <2> QED  BY <2>1, <2>2
<1>4. CASE O!CommitMigration(p)
  BY <1>4, CommitFile DEF Changes
<1>5. CASE O!EnableWal(p)
  BY <1>5, EnableWalFile DEF Changes
<1>6. CASE O!Write(p)
  BY <1>6, WriteFile DEF Changes
<1>7. CASE O!Checkpoint(p) \/ O!Close(p)
  BY <1>7, CloseFile DEF Changes
<1> QED  BY <1>1, <1>2, <1>3, <1>4, <1>5, <1>6, <1>7 DEF Acts, O!Open, Quiet

LEMMA VerifierStep ==
    ASSUME OpeningTypes, VerifierInv, NEW p \in Process, Acts(p)
    PROVE  VerifierInv'
<1>0. reading \in ReadingType /\ (reading.file # O!NoFile => reading.file \in O!Inode)
  BY FileConstants DEF OpeningTypes, ReadingType
<1>1. CASE O!RestoreMain(p) \/ O!RestoreSidecars(p)
  <2>1. reading' = [reading EXCEPT !.before = {}]
    BY <1>1 DEF O!RestoreMain, O!RestoreSidecars, O!Forget
  <2>2. reading'.pc = reading.pc /\ reading'.file = reading.file /\ reading'.before = {}
    BY <1>0, <2>1 DEF ReadingType
  <2> QED  BY <2>2 DEF VerifierInv
<1>2. CASE ~(O!RestoreMain(p) \/ O!RestoreSidecars(p))
  <2>1. UNCHANGED reading
    BY <1>2 DEF Acts, O!Open, O!CaptureMain, O!CaptureSidecars, O!Create, O!Connect, O!Configure, O!ReadVersion,
           O!BeginMigration, O!CommitMigration, O!FailMigration, O!Recheck, O!EnableWal,
           O!Write, O!Checkpoint, O!Close, O!Kill
  <2>2. ASSUME reading.file \in O!Inode
        PROVE  /\ disk[reading.file].view.rows \subseteq disk'[reading.file].view.rows
               /\ disk'[reading.file].main.rows \in {disk[reading.file].main.rows, disk[reading.file].view.rows}
    BY <1>2, <2>2, RowsKept
  <2> QED  BY <1>0, <2>1, <2>2 DEF VerifierInv
<1> QED  BY <1>1, <1>2

LEMMA VerifierNewer ==
    ASSUME OpeningTypes, VerifierInv, O!NewerWrites
    PROVE  VerifierInv'
<1>0. reading \in ReadingType /\ (reading.file # O!NoFile => reading.file \in O!Inode)
  BY FileConstants DEF OpeningTypes, ReadingType
<1>1. UNCHANGED reading
  BY DEF O!NewerWrites
<1>2. ASSUME NEW i \in O!Inode
      PROVE disk[i].view.rows \subseteq disk'[i].view.rows /\ disk'[i].main = disk[i].main
  BY NewerFile DEF Changes
<1> QED  BY <1>0, <1>1, <1>2 DEF VerifierInv

LEMMA VerifierReads ==
    ASSUME OpeningTypes, VerifierInv, O!Verify
    PROVE  VerifierInv'
<1>0. reading \in ReadingType /\ UNCHANGED disk
  BY DEF OpeningTypes, O!Verify
<1>1. CASE O!VerifyPermissions
  BY <1>0, <1>1 DEF O!VerifyPermissions, O!NoReading, VerifierInv
<1>2. CASE O!VerifyOpen
  <2>1. /\ reading'.file = path /\ reading'.before = disk[path].view.rows
        /\ reading'.frozen = O!Frozen(path) /\ path # O!NoFile
    BY <1>0, <1>2 DEF O!VerifyOpen, O!Regular, ReadingType
  <2> QED  BY <1>0, <2>1 DEF VerifierInv, O!Frozen
<1>3. CASE O!VerifyMigration
  <2>1. /\ reading.pc = "migration" /\ reading'.file = reading.file /\ reading'.before = reading.before
        /\ reading'.frozen = reading.frozen
    BY <1>0, <1>3 DEF O!VerifyMigration, ReadingType
  <2> QED  BY <1>0, <2>1 DEF VerifierInv
<1>4. CASE O!VerifyScope
  <2>1. reading'.pc \in {"healthy", "failed"}
    BY <1>0, <1>4 DEF O!VerifyScope, ReadingType
  <2> QED  BY <2>1 DEF VerifierInv
<1> QED  BY <1>1, <1>2, <1>3, <1>4 DEF O!Verify
-----------------------------------------------------------------------------
(***************************************************************************)
(* Opening: a process that was alone since its capture.                    *)
(***************************************************************************)
AloneOf(p) ==
    alone[p].still =>
        /\ pc[p] \notin {"idle", "open"}
        /\ snapshot[p].exists <=> alone[p].named # O!NoFile
        /\ pc[p] \in {"capturing", "creating"} => path = alone[p].named
        /\ pc[p] = "capturing" /\ path # O!NoFile =>
              /\ snapshot[p].main = disk[path].main
              /\ disk[path].main = alone[p].found.main
              /\ disk[path].view = alone[p].found.view
        /\ pc[p] \notin {"capturing", "idle"} /\ snapshot[p].exists =>
              /\ path = alone[p].named
              /\ snapshot[p].main = alone[p].found.main
              /\ snapshot[p].view = alone[p].found.view
        /\ pc[p] = "sidecars" =>
              /\ path = alone[p].named
              /\ snapshot[p].exists => disk[path].main = alone[p].found.main

LEMMA AloneAll == AloneInv <=> \A p \in Process : AloneOf(p)
BY DEF AloneInv, AloneOf

\* Only the process that acts can stay alone, and its own capture counts.
LEMMA WhoStaysAlone ==
    ASSUME OpeningTypes, NEW p \in Process, Acts(p), O!Alone(p), NEW q \in Process, alone'[q].still
    PROVE  q = p /\ pc'[p] \notin {"idle", "open"} /\ (pc[p] # "idle" => alone'[p] = alone[p])
BY DEF O!Alone, O!NotAlone

\* After the sidecars are captured, a step that keeps what was captured.
LEMMA AloneKept ==
    ASSUME NEW p \in Process, AloneOf(p), UNCHANGED snapshot, alone'[p] = alone[p],
           snapshot[p].exists => path' = path,
           pc[p] \notin {"idle", "capturing"}, pc'[p] \notin {"idle", "capturing", "creating", "open", "sidecars"}
    PROVE  AloneOf(p)'
BY DEF AloneOf

LEMMA AloneInvStep ==
    ASSUME OpeningTypes, AloneInv, NEW p \in Process, Acts(p), O!Alone(p)
    PROVE  AloneInv'
<1> SUFFICES ASSUME alone'[p].still PROVE AloneOf(p)'
  <2>1. \A q \in Process : q # p => ~alone'[q].still
    BY WhoStaysAlone
  <2> QED  BY <2>1 DEF AloneInv, AloneOf
<1>0. AloneOf(p)
  BY AloneAll
<1>1. pc'[p] \notin {"idle", "open"} /\ (pc[p] # "idle" => alone'[p] = alone[p])
  BY WhoStaysAlone
<1>2. pc \in [Process -> O!PC] /\ snapshot \in [Process -> SnapshotType]
  BY DEF OpeningTypes
<1>3. CASE O!CaptureMain(p)
  <2>1. pc[p] = "idle" /\ pc'[p] = "capturing" /\ UNCHANGED <<path, disk>>
    BY <1>2, <1>3 DEF O!CaptureMain, O!Goto
  <2>2. alone'[p].named = path /\ (path # O!NoFile => alone'[p].found = disk[path])
    BY <1>1, <2>1 DEF O!Alone
  <2>3. /\ snapshot'[p].exists <=> path # O!NoFile
        /\ path # O!NoFile => snapshot'[p].main = disk[path].main
    BY <1>2, <1>3 DEF O!CaptureMain, O!NoSnapshot
  <2> QED  BY <2>1, <2>2, <2>3 DEF AloneOf
<1>4. CASE O!CaptureSidecars(p)
  <2>1. pc[p] = "capturing" /\ pc'[p] = "creating" /\ UNCHANGED <<path, disk>>
    BY <1>2, <1>4 DEF O!CaptureSidecars, O!Goto
  <2>2. /\ snapshot'[p].main = snapshot[p].main /\ snapshot'[p].exists = snapshot[p].exists
        /\ snapshot'[p].view = IF path # O!NoFile /\ disk[path].view # disk[path].main
                               THEN disk[path].view ELSE snapshot[p].main
    BY <1>2, <1>4 DEF O!CaptureSidecars, O!Captured
  <2> QED  BY <1>0, <1>1, <2>1, <2>2 DEF AloneOf
<1>5. CASE O!Create(p) \/ O!Connect(p)
  <2>1. pc[p] \in {"creating", "connecting"} /\ UNCHANGED snapshot
    BY <1>5 DEF O!Create, O!Connect
  <2>2. pc'[p] \in {"connecting", "failed", "configuring"}
    BY <1>2, <1>5, CreateFile DEF O!Connect, O!Goto
  <2>3. path # O!NoFile => path' = path
    BY <1>5, CreateFile, ConnectFile DEF O!Create
  <2>4. snapshot[p].exists => path # O!NoFile
    BY <1>0, <1>1, <2>1 DEF AloneOf
  <2> QED  BY <1>0, <1>1, <2>1, <2>2, <2>3, <2>4, AloneKept
<1>6. CASE \/ O!Configure(p) \/ O!ReadVersion(p) \/ O!BeginMigration(p) \/ O!FailMigration(p) \/ O!Recheck(p)
           \/ O!CommitMigration(p)
  <2>1. pc[p] \notin {"idle", "capturing"} /\ UNCHANGED <<path, snapshot>>
    BY <1>6 DEF O!Configure, O!ReadVersion, O!BeginMigration, O!FailMigration, O!Recheck, O!CommitMigration
  <2>2. pc'[p] \notin {"idle", "capturing", "creating", "open", "sidecars"}
    BY <1>2, <1>6 DEF O!Configure, O!ReadVersion, O!BeginMigration, O!FailMigration, O!Recheck, O!CommitMigration,
                      O!Fail, O!Goto
  <2> QED  BY <1>0, <1>1, <2>1, <2>2, AloneKept
<1>7. CASE O!EnableWal(p)
  <2>1. pc[p] = "journal" /\ UNCHANGED <<path, snapshot>> /\ pc'[p] = "failed"
    BY <1>1, <1>2, <1>7, EnableWalFile DEF O!EnableWal
  <2> QED  BY <1>0, <1>1, <2>1, AloneKept
<1>8. CASE O!RestoreMain(p)
  <2>1. pc[p] = "restoring" /\ pc'[p] = "sidecars" /\ UNCHANGED snapshot
    BY <1>2, <1>8 DEF O!RestoreMain, O!Goto
  <2>2. CASE ~snapshot[p].exists
    <3>1. path' = O!NoFile
      BY <1>8, <2>2, RestoreMainFile
    <3> QED  BY <1>0, <1>1, <2>1, <2>2, <3>1 DEF AloneOf
  <2>3. CASE snapshot[p].exists
    <3>1. path # O!NoFile
      BY <1>0, <1>1, <2>1, <2>3 DEF AloneOf
    <3>2. path' = path /\ disk'[path].main = snapshot[p].main
      BY <1>8, <2>3, <3>1, RestoreMainFile DEF Changes
    <3> QED  BY <1>0, <1>1, <2>1, <2>3, <3>2 DEF AloneOf
  <2> QED  BY <1>2, <2>2, <2>3 DEF SnapshotType
<1>9. CASE O!RestoreSidecars(p) \/ O!Close(p) \/ O!Kill(p) \/ O!Write(p) \/ O!Checkpoint(p)
  <2>1. pc'[p] \in {"idle", "open"}
    BY <1>2, <1>9 DEF O!RestoreSidecars, O!Close, O!Kill, O!Write, O!Checkpoint, O!Forgotten, O!Goto
  <2> QED  BY <1>1, <2>1
<1> QED  BY <1>3, <1>4, <1>5, <1>6, <1>7, <1>8, <1>9 DEF Acts, O!Open

LEMMA AloneOther ==
    ASSUME AloneInv, O!NewerWrites \/ O!Verify
    PROVE  AloneInv'
<1>1. CASE O!NewerWrites
  BY <1>1 DEF O!NewerWrites, O!NotAlone, AloneInv
<1>2. CASE O!Verify
  BY <1>2 DEF O!Verify, AloneInv
<1> QED  BY <1>1, <1>2
-----------------------------------------------------------------------------
(***************************************************************************)
(* Opening: a file that this build can use stays usable, and one that it   *)
(* cannot use stays as it is.                                              *)
(***************************************************************************)
LEMMA UsableStep ==
    ASSUME OpeningTypes, Usable, NEW p \in Process, Acts(p)
    PROVE  Usable'
<1>0. /\ pc \in [Process -> O!PC] /\ snapshot \in [Process -> SnapshotType]
      /\ why \in [Process -> {"none", "refused", "locked", "exists"} \cup O!Restoring]
  BY DEF OpeningTypes
<1>1. ASSUME NEW i \in O!Inode PROVE Sane(disk'[i].main) /\ Sane(disk'[i].view)
  <2>0. /\ Sane(disk[i].main) /\ Sane(disk[i].view)
        /\ Sane(snapshot[p].main) /\ Sane(snapshot[p].view)
    BY DEF Usable
  <2>1. CASE Quiet(p)
    BY <2>0, <2>1, QuietFiles
  <2>2. CASE O!Create(p)
    BY <2>0, <2>2, CreateFile DEF Changes
  <2>3. CASE O!Connect(p)
    <3>1. Sane(O!Empty)
      BY DEF O!Empty, Sane, O!SCHEMA_VERSION
    <3> QED  BY <2>0, <2>3, <3>1, ConnectFile DEF Changes
  <2>4. CASE O!CommitMigration(p)
    BY <2>0, <2>4, CommitFile DEF Changes, Sane, O!SCHEMA_VERSION
  <2>5. CASE O!EnableWal(p)
    BY <2>0, <2>5, EnableWalFile DEF Changes
  <2>6. CASE O!RestoreMain(p)
    BY <2>0, <2>6, RestoreMainFile DEF Changes
  <2>7. CASE O!RestoreSidecars(p)
    BY <2>0, <2>7, RestoreSidecarsFile DEF Changes
  <2>8. CASE O!Write(p)
    BY <2>0, <2>8, WriteFile DEF Changes, Sane
  <2>9. CASE O!Checkpoint(p) \/ O!Close(p)
    BY <2>0, <2>9, CloseFile DEF Changes
  <2> QED  BY <2>1, <2>2, <2>3, <2>4, <2>5, <2>6, <2>7, <2>8, <2>9 DEF Acts, O!Open, Quiet
<1>2. ASSUME NEW q \in Process PROVE Sane(snapshot'[q].main) /\ Sane(snapshot'[q].view)
  <2>1. path # O!NoFile => Sane(disk[path].main) /\ Sane(disk[path].view)
    BY NamedFile DEF Usable
  <2>2. Sane(snapshot[q].main) /\ Sane(snapshot[q].view)
    BY DEF Usable
  <2>3. Sane(O!Empty) /\ Sane(O!NoSnapshot.main) /\ Sane(O!NoSnapshot.view)
    BY DEF O!NoSnapshot, O!Empty, Sane, O!SCHEMA_VERSION
  <2> QED  BY <2>1, <2>2, <2>3, SnapshotStep
<1>3. ASSUME NEW q \in Process
      PROVE  /\ pc'[q] \in {"restoring", "sidecars"} => why'[q] \in {"version", "io"}
             /\ pc'[q] = "rechecking" => why'[q] \in {"exists", "locked", "io"}
  <2>0. /\ pc[q] \in {"restoring", "sidecars"} => why[q] \in {"version", "io"}
        /\ pc[q] = "rechecking" => why[q] \in {"exists", "locked", "io"}
    BY DEF Usable
  <2>1. pc[p] \in Connected =>
            O!View(p).version <= O!SCHEMA_VERSION /\ O!View(p).sound = "ok"
    BY ConnectedFile DEF Usable, Sane, O!View
  <2>2. CASE O!Configure(p) \/ O!ReadVersion(p)
    <3>1. pc[p] \in Connected
      BY <2>2 DEF O!Configure, O!ReadVersion, Connected
    <3>2. CASE O!Configure(p)
      BY <1>0, <2>0, <2>1, <3>1, <3>2 DEF O!Configure, O!Corrupt, O!Fail, O!Goto, O!Restoring
    <3>3. CASE O!ReadVersion(p)
      BY <1>0, <2>0, <2>1, <3>1, <3>3 DEF O!ReadVersion, O!Supported, O!Fail, O!Goto, O!Restoring
    <3> QED  BY <2>2, <3>2, <3>3
  <2>3. CASE O!BeginMigration(p) \/ O!FailMigration(p)
    BY <1>0, <2>0, <2>3 DEF O!BeginMigration, O!FailMigration, O!Goto
  <2>4. CASE O!Recheck(p)
    BY <1>0, <2>0, <2>4 DEF O!Recheck, O!Fail, O!Goto, O!Restoring
  <2>5. CASE O!EnableWal(p)
    BY <1>0, <2>0, <2>5, EnableWalFile DEF O!EnableWal, O!Fail
  <2>6. CASE O!Create(p)
    BY <1>0, <2>0, <2>6, CreateFile
  <2>7. CASE O!RestoreMain(p)
    BY <1>0, <2>0, <2>7 DEF O!RestoreMain, O!Goto
  <2>8. CASE O!RestoreSidecars(p) \/ O!Close(p) \/ O!Kill(p)
    BY <1>0, <2>0, <2>8 DEF O!RestoreSidecars, O!Close, O!Kill, O!Forgotten, O!Goto
  <2>9. CASE \/ O!CaptureMain(p) \/ O!CaptureSidecars(p) \/ O!Connect(p) \/ O!CommitMigration(p)
             \/ O!Write(p) \/ O!Checkpoint(p)
    BY <1>0, <2>0, <2>9 DEF O!CaptureMain, O!CaptureSidecars, O!Connect, O!CommitMigration, O!Write,
                            O!Checkpoint, O!Goto
  <2> QED  BY <2>2, <2>3, <2>4, <2>5, <2>6, <2>7, <2>8, <2>9 DEF Acts, O!Open
<1> QED  BY <1>1, <1>2, <1>3 DEF Usable, Sane, O!SCHEMA_VERSION

\* A process that is refused has the file open, or nothing.
LEMMA RefusedFile ==
    ASSUME OpeningTypes, Refusing, NEW p \in Process, pc[p] \in Connected
    PROVE  file[p] = 1 /\ O!View(p) = disk[1].view
BY DEF OpeningTypes, Refusing, O!NoFile, O!View

\* Only these steps are left.
LEMMA RefusedSteps ==
    ASSUME Refusing, NEW p \in Process, Acts(p)
    PROVE  \/ O!CaptureMain(p) \/ O!CaptureSidecars(p) \/ O!Create(p) \/ O!Connect(p) \/ O!Configure(p)
           \/ O!ReadVersion(p) \/ O!RestoreMain(p) \/ O!RestoreSidecars(p) \/ O!Kill(p)
BY DEF Refusing, Early, Acts, O!Open, O!BeginMigration, O!CommitMigration, O!FailMigration, O!Recheck,
       O!EnableWal, O!Write, O!Checkpoint, O!Close

\* What the steps that are left do to the file.
LEMMA RefusedFiles ==
    ASSUME OpeningTypes, Refusing, NEW p \in Process, Acts(p)
    PROVE  /\ path' = 1 /\ disk'[1].main = disk[1].main
           /\ \/ disk'[1].view = disk[1].view
              \/ O!RestoreMain(p) /\ disk[1].view = disk[1].main /\ disk'[1].view = disk[1].main
              \/ O!RestoreSidecars(p) /\ disk'[1].view = snapshot[p].view
<1>0. path = 1 /\ path # O!NoFile /\ 1 \in O!Inode
  BY FileConstants DEF Refusing
<1>1. pc[p] # "idle" => snapshot[p].exists /\ snapshot[p].main = disk[1].main
  BY DEF Refusing
<1>2. CASE O!CaptureMain(p) \/ O!CaptureSidecars(p) \/ O!Configure(p) \/ O!ReadVersion(p) \/ O!Kill(p)
  BY <1>0, <1>2, QuietFiles DEF Quiet
<1>3. CASE O!Create(p)
  BY <1>0, <1>3, CreateFile DEF Changes, O!Create
<1>4. CASE O!Connect(p)
  BY <1>0, <1>4, ConnectFile
<1>5. CASE O!RestoreMain(p)
  <2>1. pc[p] # "idle"
    BY <1>5 DEF O!RestoreMain
  <2> QED  BY <1>0, <1>1, <1>5, <2>1, RestoreMainFile DEF Changes
<1>6. CASE O!RestoreSidecars(p)
  <2>1. pc[p] # "idle" /\ UNCHANGED path
    BY <1>6 DEF O!RestoreSidecars
  <2> QED  BY <1>0, <1>1, <1>6, <2>1, RestoreSidecarsFile DEF Changes
<1> QED  BY <1>2, <1>3, <1>4, <1>5, <1>6, RefusedSteps

\* What the steps that are left do to the snapshots.
LEMMA RefusedSnapshots ==
    ASSUME OpeningTypes, Refusing, NEW p \in Process, Acts(p), NEW q \in Process, pc'[q] # "idle"
    PROVE  /\ snapshot'[q].exists /\ snapshot'[q].main = disk[1].main
           /\ \/ pc[q] \notin {"idle", "capturing"} /\ snapshot'[q].view = snapshot[q].view
              \/ pc'[q] = "capturing"
              \/ snapshot'[q].view = disk[1].view
<1>0. path = 1 /\ path # O!NoFile
  BY FileConstants DEF Refusing
<1>1. pc[q] # "idle" => snapshot[q].exists /\ snapshot[q].main = disk[1].main
  BY DEF Refusing
<1>2. pc \in [Process -> O!PC] /\ snapshot \in [Process -> SnapshotType]
  BY DEF OpeningTypes
<1>3. CASE q = p /\ O!CaptureMain(p)
  <2>1. pc'[q] = "capturing"
    BY <1>2, <1>3 DEF O!CaptureMain, O!Goto
  <2>2. snapshot'[q].exists /\ snapshot'[q].main = disk[1].main
    BY <1>0, <1>2, <1>3 DEF O!CaptureMain, O!NoSnapshot
  <2> QED  BY <2>1, <2>2
<1>4. CASE q = p /\ O!CaptureSidecars(p)
  <2>1. pc[q] = "capturing"
    BY <1>4 DEF O!CaptureSidecars
  <2>2. /\ snapshot'[q].main = snapshot[q].main /\ snapshot'[q].exists = snapshot[q].exists
        /\ snapshot'[q].view = IF disk[1].view # disk[1].main THEN disk[1].view ELSE snapshot[q].main
    BY <1>0, <1>2, <1>4 DEF O!CaptureSidecars, O!Captured
  <2> QED  BY <1>1, <2>1, <2>2
<1>5. CASE q = p /\ (O!Create(p) \/ O!Connect(p) \/ O!Configure(p) \/ O!ReadVersion(p) \/ O!RestoreMain(p))
  BY <1>1, <1>5 DEF O!Create, O!Connect, O!Configure, O!ReadVersion, O!RestoreMain
<1>6. CASE q = p /\ (O!RestoreSidecars(p) \/ O!Kill(p))
  BY <1>2, <1>6 DEF O!RestoreSidecars, O!Kill, O!Forgotten, O!Goto
<1>7. CASE q # p
  <2>1. pc'[q] = pc[q] /\ snapshot'[q] = snapshot[q]
    <3>1. CASE \/ O!CaptureMain(p) \/ O!CaptureSidecars(p) \/ O!Connect(p) \/ O!Configure(p)
               \/ O!ReadVersion(p) \/ O!RestoreMain(p) \/ O!RestoreSidecars(p) \/ O!Kill(p)
      BY <1>2, <1>7, <3>1 DEF O!CaptureMain, O!CaptureSidecars, O!Connect, O!Configure,
               O!ReadVersion, O!RestoreMain, O!RestoreSidecars, O!Kill, O!Forgotten, O!Goto, O!Fail
    <3>2. CASE O!Create(p)
      BY <1>2, <1>7, <3>2 DEF O!Create, O!Fail, O!Goto
    <3> QED  BY <3>1, <3>2, RefusedSteps
  <2>2. pc[q] # "capturing" \/ pc'[q] = "capturing"
    BY <2>1
  <2> QED  BY <1>1, <2>1, <2>2
<1> QED  BY <1>3, <1>4, <1>5, <1>6, <1>7, RefusedSteps

\* Where a process is refused.
LEMMA RefusedPlaces ==
    ASSUME OpeningTypes, Refusing, NEW p \in Process, Acts(p), NEW q \in Process,
           O!ReadVersion(p) => pc'[p] \in {"restoring", "failed"}
    PROVE  pc'[q] \in Early \cup {"idle"} /\ file'[q] \in {O!NoFile, 1}
<1>0. path = 1 /\ path # O!NoFile /\ pc[q] \in Early \cup {"idle"} /\ file[q] \in {O!NoFile, 1}
  BY FileConstants DEF Refusing
<1>1. pc \in [Process -> O!PC] /\ file \in [Process -> 0..MaxFiles]
  BY DEF OpeningTypes
<1>2. CASE \/ O!CaptureMain(p) \/ O!CaptureSidecars(p) \/ O!Configure(p)
           \/ O!RestoreMain(p) \/ O!RestoreSidecars(p) \/ O!Kill(p)
  BY <1>0, <1>1, <1>2 DEF O!CaptureMain, O!CaptureSidecars, O!Configure, O!RestoreMain, O!RestoreSidecars,
                          O!Kill, O!Forgotten, O!Fail, O!Goto, Early
<1>3. CASE O!Create(p)
  BY <1>0, <1>1, <1>3 DEF O!Create, O!Fail, O!Goto, Early, O!Restoring
<1>4. CASE O!Connect(p)
  BY <1>0, <1>1, <1>4, ConnectFile DEF O!Connect, O!Goto, Early
<1>5. CASE O!ReadVersion(p)
  BY <1>0, <1>1, <1>5 DEF O!ReadVersion, O!Fail, O!Goto, Early
<1> QED  BY <1>2, <1>3, <1>4, <1>5, RefusedSteps
LEMMA UnsoundStep ==
    ASSUME OpeningTypes, Unsound, NEW p \in Process, Acts(p)
    PROVE  Unsound'
<1>0. /\ Refusing /\ disk[1].view = disk[1].main /\ disk[1].main.version <= O!SCHEMA_VERSION
      /\ pc \in [Process -> O!PC] /\ disk[1].main.sound # "ok"
  BY DEF Unsound, OpeningTypes
<1>1. O!ReadVersion(p) => pc'[p] \in {"restoring", "failed"}
  <2> SUFFICES ASSUME O!ReadVersion(p) PROVE pc'[p] \in {"restoring", "failed"}
    OBVIOUS
  <2>1. pc[p] = "reading" /\ O!View(p) = disk[1].main
    BY <1>0, RefusedFile DEF O!ReadVersion, Connected
  <2>2. O!View(p).sound = "damaged" /\ O!View(p).version = O!SCHEMA_VERSION
    BY <2>1 DEF Unsound
  <2> QED  BY <1>0, <2>1, <2>2 DEF O!ReadVersion, O!Fail, O!Goto, O!SCHEMA_VERSION
<1>2. \A q \in Process : pc'[q] \in Early \cup {"idle"} /\ file'[q] \in {O!NoFile, 1}
  BY <1>0, <1>1, RefusedPlaces
<1>3. path' = 1 /\ disk'[1].main = disk[1].main
  BY <1>0, RefusedFiles
<1>4. disk'[1].view = disk[1].main
  <2>1. CASE O!RestoreSidecars(p)
    <3>1. snapshot[p].view = disk[1].main
      BY <2>1 DEF Unsound, O!RestoreSidecars
    <3> QED  BY <1>0, <2>1, <3>1, RefusedFiles
  <2>2. CASE ~O!RestoreSidecars(p)
    BY <1>0, <2>2, RefusedFiles
  <2> QED  BY <2>1, <2>2
<1>5. ASSUME NEW q \in Process, pc'[q] # "idle"
      PROVE  /\ snapshot'[q].exists /\ snapshot'[q].main = disk[1].main
             /\ pc'[q] # "capturing" => snapshot'[q].view = disk[1].main
  BY <1>0, <1>5, RefusedSnapshots DEF Unsound
<1>6. ASSUME disk[1].main.sound = "corrupt", NEW q \in Process PROVE pc'[q] # "reading"
  <2>0. pc[q] # "reading"
    BY <1>6 DEF Unsound
  <2>1. CASE O!Configure(p)
    <3>1. pc[p] = "configuring" /\ O!View(p) = disk[1].main
      BY <1>0, <2>1, RefusedFile DEF O!Configure, Connected
    <3> QED  BY <1>0, <1>6, <2>0, <2>1, <3>1 DEF O!Configure, O!Corrupt, O!Fail, O!Goto
  <2>2. CASE O!Create(p)
    BY <1>0, <2>0, <2>2, CreateFile
  <2>3. CASE \/ O!CaptureMain(p) \/ O!CaptureSidecars(p) \/ O!Connect(p)
             \/ O!ReadVersion(p) \/ O!RestoreMain(p) \/ O!RestoreSidecars(p) \/ O!Kill(p)
    BY <1>0, <2>0, <2>3 DEF O!CaptureMain, O!CaptureSidecars, O!Connect, O!ReadVersion, O!RestoreMain,
                            O!RestoreSidecars, O!Kill, O!Forgotten, O!Fail, O!Goto
  <2> QED  BY <1>0, <2>1, <2>2, <2>3, RefusedSteps
<1>7. Refusing'
  BY <1>2, <1>3, <1>5 DEF Refusing, Early, O!NoFile
<1>8. /\ disk[1].main.rows = {}
      /\ \/ disk[1].main.sound = "corrupt"
         \/ disk[1].main.sound = "damaged" /\ disk[1].main.version = O!SCHEMA_VERSION
  BY DEF Unsound
<1> QED  BY <1>0, <1>3, <1>4, <1>5, <1>6, <1>7, <1>8 DEF Unsound, O!SCHEMA_VERSION

LEMMA TooNewStep ==
    ASSUME OpeningTypes, TooNew, NEW p \in Process, Acts(p)
    PROVE  TooNew'
<1>0. /\ Refusing /\ disk[1].view.version > O!SCHEMA_VERSION /\ disk[1].view.sound = "ok"
      /\ pc \in [Process -> O!PC] /\ why \in [Process -> {"none", "refused", "locked", "exists"} \cup O!Restoring]
      /\ disk[1].view.version \in Nat
  BY FileConstants DEF TooNew, OpeningTypes, FileType, O!Content
<1>1. O!ReadVersion(p) => pc'[p] = "restoring" /\ why'[p] \in {"newer", "version"}
  <2> SUFFICES ASSUME O!ReadVersion(p) PROVE pc'[p] = "restoring" /\ why'[p] \in {"newer", "version"}
    OBVIOUS
  <2>1. pc[p] = "reading" /\ O!View(p) = disk[1].view
    BY <1>0, RefusedFile DEF O!ReadVersion, Connected
  <2> QED  BY <1>0, <2>1 DEF O!ReadVersion, O!Supported, O!Fail, O!Goto, O!SCHEMA_VERSION, O!Restoring
<1>2. \A q \in Process : pc'[q] \in Early \cup {"idle"} /\ file'[q] \in {O!NoFile, 1}
  BY <1>0, <1>1, RefusedPlaces
<1>3. path' = 1 /\ disk'[1].main = disk[1].main
  BY <1>0, RefusedFiles
<1>4. disk'[1].view.version > O!SCHEMA_VERSION /\ disk'[1].view.sound = "ok"
  <2>1. CASE O!RestoreSidecars(p)
    <3>1. snapshot[p].view.version > O!SCHEMA_VERSION /\ snapshot[p].view.sound = "ok"
      BY <2>1 DEF TooNew, O!RestoreSidecars
    <3> QED  BY <1>0, <2>1, <3>1, RefusedFiles
  <2>2. CASE ~O!RestoreSidecars(p)
    BY <1>0, <2>2, RefusedFiles
  <2> QED  BY <2>1, <2>2
<1>5. ASSUME NEW q \in Process, pc'[q] # "idle"
      PROVE  /\ snapshot'[q].exists /\ snapshot'[q].main = disk[1].main
             /\ pc'[q] # "capturing" =>
                    snapshot'[q].view.version > O!SCHEMA_VERSION /\ snapshot'[q].view.sound = "ok"
  BY <1>0, <1>5, RefusedSnapshots DEF TooNew
<1>6. ASSUME NEW q \in Process, pc'[q] \in {"restoring", "sidecars"} PROVE why'[q] \in {"newer", "version"}
  <2>0. pc[q] \in {"restoring", "sidecars"} => why[q] \in {"newer", "version"}
    BY DEF TooNew
  <2>1. CASE O!Configure(p)
    <3>1. pc[p] = "configuring" /\ O!View(p) = disk[1].view
      BY <1>0, <2>1, RefusedFile DEF O!Configure, Connected
    <3> QED  BY <1>0, <1>6, <2>0, <2>1, <3>1 DEF O!Configure, O!Corrupt, O!Fail, O!Goto, O!Restoring
  <2>2. CASE O!ReadVersion(p)
    BY <1>0, <1>1, <1>6, <2>0, <2>2 DEF O!ReadVersion, O!Fail, O!Goto
  <2>3. CASE O!Create(p)
    BY <1>0, <1>6, <2>0, <2>3, CreateFile
  <2>4. CASE \/ O!CaptureMain(p) \/ O!CaptureSidecars(p) \/ O!Connect(p)
             \/ O!RestoreMain(p) \/ O!RestoreSidecars(p) \/ O!Kill(p)
    BY <1>0, <1>6, <2>0, <2>4 DEF O!CaptureMain, O!CaptureSidecars, O!Connect, O!RestoreMain,
                            O!RestoreSidecars, O!Kill, O!Forgotten, O!Goto
  <2> QED  BY <1>0, <2>1, <2>2, <2>3, <2>4, RefusedSteps
<1>7. Refusing'
  BY <1>2, <1>3, <1>5 DEF Refusing, Early, O!NoFile
<1> QED  BY <1>4, <1>5, <1>6, <1>7 DEF TooNew, O!SCHEMA_VERSION

LEMMA FileInvStep ==
    ASSUME OpeningTypes, FileInv, NEW p \in Process, Acts(p)
    PROVE  FileInv'
BY UsableStep, UnsoundStep, TooNewStep DEF FileInv

LEMMA FileInvNewer ==
    ASSUME OpeningTypes, FileInv, O!NewerWrites
    PROVE  FileInv'
<1>0. /\ UNCHANGED <<path, pc, file, snapshot, why>> /\ disk[path].view.version > O!SCHEMA_VERSION
      /\ path \in O!Inode /\ disk[path].view.version \in Nat
  BY NamedFile DEF O!NewerWrites, FileType, O!Content
<1>1. CASE Usable
  BY <1>0, <1>1 DEF Usable, Sane, O!SCHEMA_VERSION
<1>2. CASE Unsound
  BY <1>0, <1>2 DEF Unsound, Refusing, O!SCHEMA_VERSION
<1>3. CASE TooNew
  <2>1. path = 1
    BY <1>3 DEF TooNew, Refusing
  <2>2. /\ disk'[1].main = disk[1].main
        /\ disk'[1].view.version = disk[1].view.version /\ disk'[1].view.sound = disk[1].view.sound
    BY <2>1, NewerFile DEF Changes
  <2>3. TooNew'
    BY <1>0, <1>3, <2>2 DEF TooNew, Refusing, Early, O!SCHEMA_VERSION, O!NoFile
  <2> QED  BY <2>3 DEF FileInv
<1> QED  BY <1>1, <1>2, <1>3 DEF FileInv

LEMMA FileInvVerify ==
    ASSUME FileInv, O!Verify
    PROVE  FileInv'
BY DEF O!Verify, FileInv, Usable, Unsound, TooNew, Refusing, Sane, O!SCHEMA_VERSION, O!NoFile, O!Inode, Early
-----------------------------------------------------------------------------
(***************************************************************************)
(* Opening: the invariant holds at first and is kept.                      *)
(***************************************************************************)

\* The file that the path names at first is usable, unsound or too new.
FirstFile(f) ==
    /\ f \in FileType /\ Plausible(f.main) /\ Plausible(f.view)
    /\ \/ Sane(f.main) /\ Sane(f.view)
       \/ /\ f.view = f.main /\ f.main.rows = {} /\ f.main.version <= O!SCHEMA_VERSION
          /\ \/ f.main.sound = "corrupt"
             \/ f.main.sound = "damaged" /\ f.main.version = O!SCHEMA_VERSION
       \/ f.view.version > O!SCHEMA_VERSION /\ f.view.sound = "ok"

LEMMA FirstKinds ==
    ASSUME NEW k \in DOMAIN O!First, NEW f \in O!First[k]
    PROVE  FirstFile(f)
<1> USE DEF O!Content, O!Ready, O!Empty, O!File, O!SCHEMA_VERSION
<1>1. k \in {"none", "empty", "ready", "damaged", "corrupt", "newer", "directory", "logged"}
  BY DEF O!First
<1>2. CASE k = "none"
  BY <1>2 DEF O!First
<1>3. CASE k = "empty"
  <2>1. f = O!File(O!Empty, FALSE, FALSE, TRUE)
    BY <1>3 DEF O!First
  <2> QED  BY <2>1 DEF FirstFile, FileType, Plausible, Sane
<1>4. CASE k = "ready"
  <2>1. f = O!File(O!Ready, TRUE, FALSE, TRUE)
    BY <1>4 DEF O!First
  <2> QED  BY <2>1 DEF FirstFile, FileType, Plausible, Sane
<1>5. CASE k = "damaged"
  <2>1. f = O!File([O!Ready EXCEPT !.sound = "damaged"], TRUE, TRUE, TRUE)
    BY <1>5 DEF O!First
  <2> QED  BY <2>1 DEF FirstFile, FileType, Plausible, Sane
<1>6. CASE k = "corrupt"
  <2>1. f = O!File([O!Empty EXCEPT !.sound = "corrupt"], FALSE, TRUE, TRUE)
    BY <1>6 DEF O!First
  <2> QED  BY <2>1 DEF FirstFile, FileType, Plausible, Sane
<1>7. CASE k = "newer"
  <2>1. f = O!File([O!Ready EXCEPT !.version = O!SCHEMA_VERSION + 1], TRUE, TRUE, TRUE)
    BY <1>7 DEF O!First
  <2> QED  BY <2>1 DEF FirstFile, FileType, Plausible, Sane
<1>8. CASE k = "directory"
  <2>1. f = O!File(O!Ready, TRUE, TRUE, FALSE)
    BY <1>8 DEF O!First
  <2> QED  BY <2>1 DEF FirstFile, FileType, Plausible, Sane
<1>9. CASE k = "logged"
  <2>1. f = [O!File(O!Ready, TRUE, TRUE, TRUE) EXCEPT
                !.view.version = O!SCHEMA_VERSION + 1, !.view.rows = {O!Newer}]
    BY <1>9 DEF O!First
  <2>2. f.view = [O!Ready EXCEPT !.version = O!SCHEMA_VERSION + 1, !.rows = {O!Newer}]
    BY <2>1
  <2>3. f.main = O!Ready /\ f.wal = TRUE /\ f.private = TRUE /\ f.regular = TRUE
    BY <2>1
  <2>4. f \in FileType
    <3>0. O!Ready \in O!Content
      BY FileConstants
    <3>1. f.view \in O!Content
      <4>1. O!SCHEMA_VERSION + 1 \in 0..2 /\ {O!Newer} \in SUBSET (Process \cup {O!Newer})
        OBVIOUS
      <4> HIDE DEF O!Ready, O!SCHEMA_VERSION
      <4> QED  BY <2>2, <3>0, <4>1
    <3> DEFINE w == O!File(O!Ready, TRUE, TRUE, TRUE)
               v == f.view
    <3>2. w \in FileType
      BY <3>0 DEF FileType
    <3>3. f = [w EXCEPT !.view = v]
      BY <2>1, <2>2
    <3> HIDE DEF O!Ready, O!Content, w, v
    <3>4. v \in O!Content
      BY <3>1 DEF v
    <3> QED  BY <3>2, <3>3, <3>4 DEF FileType
  <2>5. f.view.version = 2 /\ f.view.sound = "ok"
    BY <2>2
  <2> QED  BY <2>3, <2>4, <2>5 DEF FirstFile, Plausible
<1> QED  BY <1>1, <1>2, <1>3, <1>4, <1>5, <1>6, <1>7, <1>8, <1>9

LEMMA OpeningInit == O!Init => OpeningInv
<1> SUFFICES ASSUME O!Init PROVE OpeningInv
  OBVIOUS
<1> USE DEF O!Init
<1>1. \/ path = O!NoFile /\ disk = [i \in O!Inode |-> O!Absent]
      \/ \E f : FirstFile(f) /\ path = 1 /\ disk = [i \in O!Inode |-> IF i = 1 THEN f ELSE O!Absent]
  BY StorageAssumption, FirstKinds
<1>2. /\ Plausible(O!Empty) /\ Sane(O!Empty) /\ O!NotAlone \in AloneType /\ O!NoReading \in ReadingType
      /\ O!NoReading.pc = "idle" /\ O!NotAlone.still = FALSE /\ "idle" \in O!PC /\ "idle" \notin Connected
  BY FileConstants
  DEF Plausible, Sane, O!Empty, O!NotAlone, AloneType, O!NoReading, ReadingType, O!PC, Connected, O!SCHEMA_VERSION
<1>3. OpeningTypes
  BY <1>1, <1>2, FileConstants DEF OpeningTypes, FirstFile
<1>4. ContentsInv
  BY <1>1, <1>2, FileConstants DEF ContentsInv, FirstFile, O!NoSnapshot
<1>5. EstablishedInv
  BY <1>2 DEF EstablishedInv, Established, Connected
<1>6. VerifierInv
  BY <1>2 DEF VerifierInv
<1>7. AloneInv
  BY <1>2 DEF AloneInv
<1>8. FileInv
  <2>0. \A p \in Process : pc[p] = "idle" /\ file[p] = O!NoFile /\ snapshot[p] = O!NoSnapshot
    OBVIOUS
  <2>1. CASE path = O!NoFile /\ disk = [i \in O!Inode |-> O!Absent]
    <3>1. Usable
      BY <2>0, <2>1, <1>2, FileConstants DEF Usable, O!NoSnapshot
    <3> QED  BY <3>1 DEF FileInv
  <2>2. ASSUME NEW f, FirstFile(f), path = 1, disk = [i \in O!Inode |-> IF i = 1 THEN f ELSE O!Absent]
        PROVE  FileInv
    <3>1. disk[1] = f
      BY <2>2, FileConstants
    <3>2. Refusing
      BY <2>0, <2>2 DEF Refusing
    <3>3. CASE Sane(f.main) /\ Sane(f.view)
      <4>1. Usable
        BY <2>0, <2>2, <3>3, <1>2, FileConstants DEF Usable, O!NoSnapshot
      <4> QED  BY <4>1 DEF FileInv
    <3>4. CASE /\ f.view = f.main /\ f.main.rows = {} /\ f.main.version <= O!SCHEMA_VERSION
               /\ \/ f.main.sound = "corrupt"
                  \/ f.main.sound = "damaged" /\ f.main.version = O!SCHEMA_VERSION
      <4>1. Unsound
        BY <2>0, <3>1, <3>2, <3>4 DEF Unsound
      <4> QED  BY <4>1 DEF FileInv
    <3>5. CASE f.view.version > O!SCHEMA_VERSION /\ f.view.sound = "ok"
      <4>1. TooNew
        BY <2>0, <3>1, <3>2, <3>5 DEF TooNew
      <4> QED  BY <4>1 DEF FileInv
    <3> QED  BY <2>2, <3>3, <3>4, <3>5 DEF FirstFile
  <2> QED  BY <1>1, <2>1, <2>2
<1> QED  BY <1>3, <1>4, <1>5, <1>6, <1>7, <1>8 DEF OpeningInv

\* A step of the opening.
LEMMA OpeningStep ==
    ASSUME OpeningInv, O!Next
    PROVE  OpeningInv'
<1>0. OpeningTypes /\ ContentsInv /\ EstablishedInv /\ VerifierInv /\ AloneInv /\ FileInv
  BY DEF OpeningInv
<1>1. ASSUME NEW p \in Process, Acts(p), O!Alone(p) PROVE OpeningInv'
  BY <1>0, <1>1, TypesStep, ContentsStep, EstablishedStep, VerifierStep, AloneInvStep, FileInvStep
  DEF OpeningInv
<1>2. CASE O!NewerWrites
  BY <1>0, <1>2, TypesNewer, NewerPreserves, VerifierNewer, AloneOther, FileInvNewer DEF OpeningInv
<1>3. CASE O!Verify
  BY <1>0, <1>3, TypesVerify, VerifyPreserves, VerifierReads, AloneOther, FileInvVerify DEF OpeningInv
<1> QED  BY <1>1, <1>2, <1>3 DEF O!Next, Acts

LEMMA OpeningStutter ==
    ASSUME OpeningInv, UNCHANGED openingVars
    PROVE  OpeningInv'
<1> USE DEF openingVars
<1>1. OpeningTypes' /\ ContentsInv'
  BY DEF OpeningInv, OpeningTypes, ContentsInv
<1>2. EstablishedInv'
  BY DEF OpeningInv, EstablishedInv, Established
<1>3. VerifierInv' /\ AloneInv'
  BY DEF OpeningInv, VerifierInv, AloneInv
<1>4. FileInv'
  BY DEF OpeningInv, FileInv, Usable, Unsound, TooNew, Refusing, Sane, O!SCHEMA_VERSION, O!NoFile, O!Inode, Early
<1> QED  BY <1>1, <1>2, <1>3, <1>4 DEF OpeningInv

LEMMA OpeningInductive == PartsSpec => []OpeningInv
<1>1. PartsInit => OpeningInv
  BY OpeningInit DEF PartsInit
<1>2. OpeningInv /\ [PartsNext]_<<part, vars, openingVars, pagingVars>> => OpeningInv'
  BY OpeningStep, OpeningStutter DEF PartsNext
<1> QED  BY <1>1, <1>2, PTL DEF PartsSpec
-----------------------------------------------------------------------------
(***************************************************************************)
(* Opening: the theorems.                                                  *)
(***************************************************************************)

\* An open of the database by another process never leaves an open store
\* without its schema, its WAL or its protection, as long as no restore has
\* changed a file under a connection (open_path_with_options).
THEOREM OpenReady == PartsSpec => []OpenedIsReady
<1>1. OpeningInv => OpenedIsReady
  <2> SUFFICES ASSUME OpeningInv, replaced = {}, NEW p \in Process, pc[p] = "open"
               PROVE  O!Verified(O!View(p)) /\ disk[file[p]].wal /\ disk[file[p]].private /\ file[p] = path
    BY DEF OpenedIsReady, O!OpenedIsReady
  <2>1. Established(p)
    BY DEF OpeningInv, EstablishedInv
  <2> QED  BY <2>1 DEF Established, Connected, O!View
<1> QED  BY <1>1, OpeningInductive, PTL

\* The verifier, with a log or without one, sees every row that was committed
\* when it connected (StateVerifier::verify).
THEOREM VerifierComplete == PartsSpec => []VerifierSeesCommits
<1>1. OpeningInv => VerifierSeesCommits
  BY DEF OpeningInv, VerifierInv, VerifierSeesCommits, O!VerifierSeesCommits, O!Seen
<1> QED  BY <1>1, OpeningInductive, PTL

LEMMA VisibleStep ==
    ASSUME OpeningInv, NEW p \in Process, Acts(p),
           ~(pc[p] \in {"restoring", "sidecars"} /\ why[p] \in {"newer", "version", "io"})
    PROVE  O!Visible.rows \subseteq O!Visible'.rows /\ O!Visible.version <= O!Visible'.version
<1>0. OpeningTypes /\ FileInv
  BY DEF OpeningInv
<1>1. path' \in 0..MaxFiles /\ disk' \in [O!Inode -> FileType]
  BY <1>0, FileStep
<1>2. CASE path = O!NoFile
  <2>1. O!Visible.rows = {} /\ O!Visible.version = 0
    BY <1>2 DEF O!Visible, O!Empty
  <2>2. O!Visible'.version \in Nat
    <3>1. path' # O!NoFile => disk'[path'].view.version \in Nat
      BY <1>1, FileConstants DEF FileType, O!Content
    <3> QED  BY <3>1 DEF O!Visible, O!Empty, O!NoFile
  <2> QED  BY <2>1, <2>2
<1>3. CASE path # O!NoFile /\ ~O!RestoreMain(p) /\ ~O!RestoreSidecars(p)
  <2>1. path \in O!Inode /\ disk[path].view.version \in Nat
    BY <1>0, <1>3, NamedFile DEF FileType, O!Content
  <2>2. path' = path
    <3>1. CASE O!Create(p) \/ O!Connect(p)
      BY <1>0, <1>3, <3>1, CreateFile, ConnectFile DEF O!Create
    <3>2. CASE Quiet(p)
      BY <3>2, QuietFiles
    <3>3. CASE O!CommitMigration(p) \/ O!EnableWal(p) \/ O!Write(p) \/ O!Checkpoint(p) \/ O!Close(p)
      BY <3>3 DEF O!CommitMigration, O!EnableWal, O!Write, O!Checkpoint, O!Close
    <3> QED  BY <1>3, <3>1, <3>2, <3>3 DEF Acts, O!Open, Quiet
  <2>3. /\ disk[path].view.rows \subseteq disk'[path].view.rows
        /\ disk'[path].view.version = disk[path].view.version \/ (O!CommitMigration(p) /\ path = file[p])
    BY <1>0, <1>3, <2>1, RowsKept
  <2>4. disk[path].view.version <= disk'[path].view.version
    <3>1. CASE O!CommitMigration(p) /\ path = file[p]
      <4>1. disk'[path].view.version = O!SCHEMA_VERSION
        BY <1>0, <3>1, CommitFile
      <4>2. pc[p] \notin Early \cup {"idle"}
        BY <3>1 DEF O!CommitMigration, Early
      <4>3. Usable
        BY <1>0, <4>2 DEF FileInv, Unsound, TooNew, Refusing
      <4> QED  BY <2>1, <4>1, <4>3 DEF Usable, Sane
    <3>2. CASE ~(O!CommitMigration(p) /\ path = file[p])
      BY <2>1, <2>3, <3>2
    <3> QED  BY <3>1, <3>2
  <2> QED  BY <1>3, <2>2, <2>3, <2>4 DEF O!Visible, O!NoFile
<1>4. CASE path # O!NoFile /\ (O!RestoreMain(p) \/ O!RestoreSidecars(p))
  <2>1. pc[p] \in {"restoring", "sidecars"}
    BY <1>4 DEF O!RestoreMain, O!RestoreSidecars
  <2>2. Unsound
    BY <1>0, <2>1 DEF FileInv, Usable, TooNew
  <2>3. Refusing /\ Unsound' /\ disk[1].view = disk[1].main
    BY <1>0, <2>2, UnsoundStep DEF Unsound
  <2>4. disk'[1].view = disk'[1].main /\ path' = 1 /\ path = 1
    BY <2>3 DEF Unsound, Refusing
  <2>5. disk'[1].view = disk[1].view
    BY <1>0, <2>3, <2>4, RefusedFiles
  <2>6. disk[1].view.version \in Nat
    BY <1>0, FileConstants DEF OpeningTypes, FileType, O!Content
  <2> QED  BY <1>4, <2>4, <2>5, <2>6 DEF O!Visible, O!NoFile
<1> QED  BY <1>2, <1>3, <1>4

\* Rows that were committed, and their schema, disappear only when an open that
\* read a newer version, could not read the version or ran out of space
\* restores its snapshot (should_restore_bytes).
THEOREM LossExplained == PartsSpec => LossOnlyByFault
<1> DEFINE Kept ==
      \/ O!Visible.rows \subseteq O!Visible'.rows /\ O!Visible.version <= O!Visible'.version
      \/ \E p \in Process : pc[p] \in {"restoring", "sidecars"} /\ why[p] \in {"newer", "version", "io"}
<1>1. ASSUME OpeningInv, O!Next PROVE Kept
  <2>1. ASSUME NEW p \in Process, Acts(p) PROVE Kept
    BY <1>1, <2>1, VisibleStep
  <2>2. path \in 0..MaxFiles /\ O!Visible.version \in Nat
    BY <1>1, NamedFile DEF OpeningInv, OpeningTypes, O!Visible, O!Empty, FileType, O!Content
  <2>3. CASE O!NewerWrites
    <3>1. UNCHANGED path /\ path # O!NoFile /\ OpeningTypes
      BY <1>1, <2>3 DEF O!NewerWrites, OpeningInv
    <3>2. /\ disk[path].view.rows \subseteq disk'[path].view.rows
          /\ disk'[path].view.version = disk[path].view.version
      BY <2>3, <3>1, NewerFile
    <3> QED  BY <2>2, <3>1, <3>2 DEF O!Visible
  <2>4. CASE O!Verify
    BY <2>2, <2>4 DEF O!Verify, O!Visible
  <2> QED  BY <1>1, <2>1, <2>3, <2>4 DEF O!Next, Acts
<1>2. OpeningInv /\ [PartsNext]_<<part, vars, openingVars, pagingVars>> => [Kept]_(O!vars)
  <2> SUFFICES ASSUME OpeningInv, [PartsNext]_<<part, vars, openingVars, pagingVars>>, ~UNCHANGED O!vars PROVE Kept
    OBVIOUS
  <2>1. O!Next
    BY DEF PartsNext, openingVars, O!vars
  <2> QED  BY <1>1, <2>1
<1> QED  BY <1>2, OpeningInductive, PTL DEF PartsSpec, LossOnlyByFault, O!LossOnlyByFault

\* A failed open that was alone leaves the bytes that it found, or no file
\* (snapshot.restore).
THEOREM FailedOpenRestores == PartsSpec => FailedOpenLeavesBytes
<1> DEFINE PutBack == \A p \in Process :
      pc[p] = "sidecars" /\ pc'[p] = "idle" /\ alone[p].still /\ O!RestoreSidecars(p) =>
          /\ path' = alone[p].named
          /\ path' # O!NoFile => disk'[path'].main = alone[p].found.main /\ disk'[path'].view = alone[p].found.view
<1>1. OpeningInv => PutBack
  <2> SUFFICES ASSUME OpeningInv, NEW p \in Process, pc[p] = "sidecars", alone[p].still, O!RestoreSidecars(p)
               PROVE  /\ path' = alone[p].named
                      /\ path' # O!NoFile =>
                            disk'[path'].main = alone[p].found.main /\ disk'[path'].view = alone[p].found.view
    OBVIOUS
  <2>1. OpeningTypes /\ AloneOf(p)
    BY AloneAll DEF OpeningInv
  <2>2. path' = path /\ path = alone[p].named
    BY <2>1 DEF O!RestoreSidecars, AloneOf
  <2>3. CASE path = O!NoFile
    BY <2>2, <2>3 DEF O!NoFile
  <2>4. CASE path # O!NoFile
    <3>1. /\ snapshot[p].exists /\ disk[path].main = alone[p].found.main
          /\ snapshot[p].view = alone[p].found.view
      BY <2>1, <2>2, <2>4 DEF AloneOf
    <3>2. disk'[path].main = disk[path].main /\ disk'[path].view = snapshot[p].view
      BY <2>1, <2>4, <3>1, RestoreSidecarsFile DEF Changes
    <3> QED  BY <2>2, <3>1, <3>2
  <2> QED  BY <2>3, <2>4
<1>2. OpeningInv /\ [PartsNext]_<<part, vars, openingVars, pagingVars>> => [PutBack]_(O!vars)
  BY <1>1
<1> QED  BY <1>2, OpeningInductive, PTL DEF PartsSpec, FailedOpenLeavesBytes, O!FailedOpenLeavesBytes

-----------------------------------------------------------------------------
(***************************************************************************)
(* Paging: the rows of a page, and what a listing has left to return.      *)
(***************************************************************************)
\* The order of the keys is total.
LEMMA KeyOrder ==
    /\ \A k \in P!Key : k[1] \in Nat /\ k[2] \in Nat /\ k = <<k[1], k[2]>>
    /\ \A k, l \in P!Key : k = l \/ P!After(k, l) \/ P!After(l, k)
    /\ \A k, l \in P!Key : ~(P!After(k, l) /\ P!After(l, k)) /\ ~P!After(k, k)
    /\ \A k, l, m \in P!Key : P!After(m, l) /\ P!After(l, k) => P!After(m, k)
<1>1. \A k \in P!Key : k[1] \in Nat /\ k[2] \in Nat /\ k = <<k[1], k[2]>>
  BY StorageAssumption DEF P!Key
<1>2. \A k, l \in P!Key : k[1] = l[1] /\ k[2] = l[2] => k = l
  BY <1>1
<1>3. \A k, l \in P!Key : k = l \/ P!After(k, l) \/ P!After(l, k)
  BY <1>1, <1>2 DEF P!After
<1>4. \A k, l \in P!Key : ~(P!After(k, l) /\ P!After(l, k)) /\ ~P!After(k, k)
  BY <1>1 DEF P!After
<1>5. \A k, l, m \in P!Key : P!After(m, l) /\ P!After(l, k) => P!After(m, k)
  BY <1>1 DEF P!After
<1> QED  BY <1>1, <1>3, <1>4, <1>5

Before(k, keys) == {l \in keys : P!After(k, l)}

\* Ascending enumerates the keys, each once and in order.
LEMMA AscendingIs ==
    ASSUME NEW keys \in SUBSET P!Key, NEW s, s = P!Ascending(keys)
    PROVE  /\ s \in Seq(keys) /\ Len(s) \in Nat /\ DOMAIN s = 1..Len(s)
           /\ \A k \in keys : \E i \in 1..Len(s) : s[i] = k
           /\ \A i, j \in 1..Len(s) : i < j => P!After(s[j], s[i])
<1>1. IsFiniteSet(keys)
  <2>1. IsFiniteSet(1..MaxMajor) /\ IsFiniteSet(1..MaxMinor)
    BY StorageAssumption, FS_Interval
  <2>2. IsFiniteSet(P!Key)
    BY <2>1, FS_Product DEF P!Key
  <2> QED  BY <2>2, FS_Subset
<1>2. \A X : P!Cardinality(X) = Cardinality(X)
  BY DEF P!Cardinality, Cardinality
<1> DEFINE n == Cardinality(keys)
           rank == [k \in keys |-> Cardinality(Before(k, keys))]
<1>3. n \in Nat
  BY <1>1, FS_CardinalityType
<1>4. \A k \in keys : rank[k] \in 0..(n - 1)
  <2> SUFFICES ASSUME NEW k \in keys PROVE rank[k] \in 0..(n - 1)
    OBVIOUS
  <2>1. Before(k, keys) \in SUBSET (keys \ {k})
    BY KeyOrder DEF Before
  <2>2. IsFiniteSet(keys \ {k}) /\ Cardinality(keys \ {k}) = n - 1
    BY <1>1, FS_RemoveElement
  <2>3. IsFiniteSet(Before(k, keys)) /\ Cardinality(Before(k, keys)) <= n - 1
    BY <2>1, <2>2, FS_Subset
  <2>4. Cardinality(Before(k, keys)) \in Nat
    BY <2>3, FS_CardinalityType
  <2>5. rank[k] = Cardinality(Before(k, keys))
    OBVIOUS
  <2> HIDE DEF rank, n
  <2> QED  BY <1>3, <2>3, <2>4, <2>5
<1>5. \A k, l \in keys : P!After(l, k) => rank[k] < rank[l]
  <2> SUFFICES ASSUME NEW k \in keys, NEW l \in keys, P!After(l, k) PROVE rank[k] < rank[l]
    OBVIOUS
  <2>1. Before(k, keys) \subseteq Before(l, keys) /\ k \in Before(l, keys) /\ k \notin Before(k, keys)
    BY KeyOrder DEF Before
  <2>2. IsFiniteSet(Before(l, keys))
    <3>1. Before(l, keys) \in SUBSET keys
      BY DEF Before
    <3> QED  BY <1>1, <3>1, FS_Subset
  <2>3. /\ Cardinality(Before(k, keys)) <= Cardinality(Before(l, keys))
        /\ Cardinality(Before(l, keys)) # Cardinality(Before(k, keys))
    BY <2>1, <2>2, FS_Subset
  <2>4. rank[k] = Cardinality(Before(k, keys)) /\ rank[l] = Cardinality(Before(l, keys))
    OBVIOUS
  <2> HIDE DEF rank
  <2>5. rank[k] \in Nat /\ rank[l] \in Nat
    BY <1>3, <1>4
  <2> QED  BY <2>3, <2>4, <2>5
<1>6. \A k, l \in keys : rank[k] = rank[l] => k = l
  <2> HIDE DEF rank
  <2>1. \A k, l \in keys : k = l \/ P!After(k, l) \/ P!After(l, k)
    BY KeyOrder
  <2>2. \A k \in keys : rank[k] \in Int
    BY <1>4
  <2> QED  BY <1>5, <2>1, <2>2
<1>7. \A i \in 1..n : \E k \in keys : rank[k] = i - 1
  <2>1. rank \in Injection(keys, 0..(n - 1))
    <3>1. rank \in [keys -> 0..(n - 1)]
      BY <1>4
    <3> QED  BY <1>6, <3>1 DEF Injection, IsInjective
  <2>2. IsFiniteSet(0..(n - 1)) /\ Cardinality(0..(n - 1)) = n
    BY <1>3, FS_Interval
  <2>3. rank \in Surjection(keys, 0..(n - 1))
    BY <2>1, <2>2, FS_Injection
  <2>4. \A x \in 0..(n - 1) : \E k \in keys : rank[k] = x
    BY <2>3 DEF Surjection
  <2>5. \A i \in 1..n : i - 1 \in 0..(n - 1)
    BY <1>3
  <2> QED  BY <2>4, <2>5
<1>8. DOMAIN s = 1..n /\ \A i \in 1..n : s[i] \in keys /\ rank[s[i]] = i - 1
  <2>1. s = [i \in 1..n |-> P!Nth(keys, i)]
    BY <1>2 DEF P!Ascending
  <2>2. \A k \in keys : rank[k] = Cardinality(Before(k, keys))
    OBVIOUS
  <2> HIDE DEF rank, n
  <2>3. DOMAIN s = 1..n
    BY <2>1
  <2>4. ASSUME NEW i \in 1..n PROVE s[i] \in keys /\ rank[s[i]] = i - 1
    <3>1. s[i] = P!Nth(keys, i)
      BY <2>1
    <3>2. \E k \in keys : Cardinality(Before(k, keys)) = i - 1
      BY <1>7, <2>2
    <3>4. P!Nth(keys, i) = CHOOSE k \in keys : P!Cardinality(Before(k, keys)) = i - 1
      BY DEF P!Nth, Before
    <3>5. P!Cardinality(Before(s[i], keys)) = i - 1 /\ s[i] \in keys
      BY <1>2, <3>1, <3>2, <3>4
    <3>3. s[i] \in keys /\ Cardinality(Before(s[i], keys)) = i - 1
      BY <1>2, <3>5
    <3> QED  BY <2>2, <3>3
  <2> QED  BY <2>3, <2>4
<1>9. s = [i \in 1..n |-> s[i]]
  <2>1. s = [i \in DOMAIN s |-> s[i]]
    BY DEF P!Ascending
  <2> QED  BY <1>8, <2>1
<1> HIDE DEF rank, n
<1>10. s \in Seq(keys) /\ Len(s) = n
  <2>1. s \in [1..n -> keys]
    BY <1>8, <1>9
  <2> QED  BY <1>3, <2>1, SeqDef, LenProperties
<1>11. \A k \in keys : \E i \in 1..n : s[i] = k
  <2> SUFFICES ASSUME NEW k \in keys PROVE \E i \in 1..n : s[i] = k
    OBVIOUS
  <2>1. rank[k] + 1 \in 1..n /\ rank[k] \in Nat
    BY <1>3, <1>4
  <2>2. rank[s[rank[k] + 1]] = (rank[k] + 1) - 1 /\ s[rank[k] + 1] \in keys
    BY <1>8, <2>1
  <2>3. s[rank[k] + 1] = k
    BY <1>6, <2>1, <2>2
  <2> QED  BY <2>1, <2>3
<1>12. \A i, j \in 1..n : i < j => P!After(s[j], s[i])
  <2> SUFFICES ASSUME NEW i \in 1..n, NEW j \in 1..n, i < j PROVE P!After(s[j], s[i])
    OBVIOUS
  <2>1. s[i] \in keys /\ s[j] \in keys /\ rank[s[i]] = i - 1 /\ rank[s[j]] = j - 1
    BY <1>8
  <2>2. rank[s[i]] < rank[s[j]]
    BY <1>3, <2>1
  <2>3. ~(rank[s[j]] < rank[s[i]]) /\ rank[s[i]] # rank[s[j]]
    BY <1>3, <2>1
  <2>4. ~P!After(s[i], s[j]) /\ s[i] # s[j]
    BY <1>5, <2>1, <2>3
  <2> QED  BY <2>1, <2>4, KeyOrder
<1> QED  BY <1>3, <1>8, <1>10, <1>11, <1>12

-----------------------------------------------------------------------------
\* Where a listing goes on: the rows after the cursor.
Ahead(k) == \A c \in cursor : P!After(k, c)

PagingTypes ==
    /\ rows \subseteq P!Key /\ steady \subseteq rows
    /\ returned \in Seq(P!Key) /\ cursor \in SUBSET ((0..MaxMajor) \X (1..MaxMinor))

\* Without masked identifiers.
ListingInv ==
    /\ \A i, j \in 1..Len(returned) : i < j => P!After(returned[j], returned[i])
    /\ answer \in {"begun", "more"} =>
          /\ \A k \in steady : Ahead(k) \/ \E i \in 1..Len(returned) : returned[i] = k
          /\ \A k \in P!Key : Ahead(k) => \A i \in 1..Len(returned) : P!After(k, returned[i])
    /\ answer = "complete" => \A k \in steady : \E i \in 1..Len(returned) : returned[i] = k

PagingInv == PagingTypes /\ (masked = {} => ListingInv)

\* The rows ahead, and what one page reads and shows of them.
Sorted == P!Ascending({k \in rows : Ahead(k)})
Picked(limit) == P!Selected(cursor, limit)
Shown(limit) ==
    SubSeq(Picked(limit), 1, IF Len(Picked(limit)) > limit THEN limit ELSE Len(Picked(limit)))

\* What one page shows and where it ends.
LEMMA PageIs ==
    ASSUME PagingTypes, NEW limit \in 1..2, NEW s, s = Sorted,
           NEW selected, selected = Picked(limit), NEW shown, shown = Shown(limit)
    PROVE  /\ shown \in Seq(P!Key)
           /\ Len(shown) = IF Len(s) > limit THEN limit ELSE Len(s)
           /\ \A i \in 1..Len(shown) : shown[i] = s[i]
           /\ Len(selected) > limit <=> Len(s) > limit
           /\ Len(s) > limit => selected[limit] = s[limit] /\ Len(shown) = limit
           /\ selected \in Seq(P!Key)
<1> DEFINE ahead == {k \in rows : Ahead(k)}
           m == IF Len(s) > limit THEN limit + 1 ELSE Len(s)
           l == IF Len(s) > limit THEN limit ELSE Len(s)
<1>1. ahead \in SUBSET P!Key
  BY DEF PagingTypes
<1>2. s \in Seq(P!Key) /\ Len(s) \in Nat /\ DOMAIN s = 1..Len(s)
  <2> HIDE DEF ahead
  <2>1. s = P!Ascending(ahead)
    BY DEF ahead, Sorted
  <2>2. s \in Seq(ahead) /\ Len(s) \in Nat /\ DOMAIN s = 1..Len(s)
    BY <1>1, <2>1, AscendingIs
  <2>3. s \in Seq(P!Key)
    BY <1>1, <2>2
  <2> QED  BY <2>2, <2>3
<1>3. selected = SubSeq(s, 1, m)
  BY DEF P!Selected, Ahead, Sorted, Picked
<1>4. limit \in Nat /\ m \in 0..Len(s) /\ l \in 0..Len(s) /\ l <= m
  BY <1>2
<1>5. /\ selected \in Seq(P!Key) /\ Len(selected) = m
      /\ \A i \in 1..m : selected[i] = s[i]
  <2>1. \A i \in 1..m : s[i] \in P!Key
    BY <1>2, <1>4, ElementOfSeq
  <2>2. m \in Int /\ m - 1 + 1 = m /\ (1 <= m \/ m = 0)
    BY <1>2, <1>4
  <2> HIDE DEF m
  <2>3. /\ SubSeq(s, 1, m) \in Seq(P!Key) /\ Len(SubSeq(s, 1, m)) = (IF 1 <= m THEN m - 1 + 1 ELSE 0)
        /\ \A i \in 1..(m - 1 + 1) : SubSeq(s, 1, m)[i] = s[1 + i - 1]
    BY <2>1, <2>2, SubSeqProperties
  <2>4. \A i \in 1..m : 1 + i - 1 = i
    BY <2>2
  <2> QED  BY <1>3, <2>2, <2>3, <2>4
<1>6. Len(selected) > limit <=> Len(s) > limit
  BY <1>2, <1>5
<1>7. shown = SubSeq(selected, 1, l)
  <2>1. (IF Len(selected) > limit THEN limit ELSE Len(selected)) = l
    BY <1>2, <1>5
  <2> HIDE DEF l
  <2> QED  BY <2>1 DEF Shown
<1>8. /\ shown \in Seq(P!Key) /\ Len(shown) = l
      /\ \A i \in 1..l : shown[i] = selected[i]
  <2>1. \A i \in 1..l : selected[i] \in P!Key
    BY <1>4, <1>5, ElementOfSeq
  <2>2. l \in Int /\ l - 1 + 1 = l /\ (1 <= l \/ l = 0)
    BY <1>2, <1>4
  <2> HIDE DEF l
  <2>3. /\ SubSeq(selected, 1, l) \in Seq(P!Key)
        /\ Len(SubSeq(selected, 1, l)) = (IF 1 <= l THEN l - 1 + 1 ELSE 0)
        /\ \A i \in 1..(l - 1 + 1) : SubSeq(selected, 1, l)[i] = selected[1 + i - 1]
    BY <2>1, <2>2, SubSeqProperties
  <2>4. \A i \in 1..l : 1 + i - 1 = i
    BY <2>2
  <2> DEFINE cut == SubSeq(selected, 1, l)
  <2>5. cut \in Seq(P!Key) /\ Len(cut) = l
    BY <2>2, <2>3
  <2>6. \A i \in 1..l : cut[i] = selected[i]
    BY <2>2, <2>3, <2>4
  <2>7. shown = cut
    BY <1>7
  <2> HIDE DEF cut
  <2> QED  BY <2>5, <2>6, <2>7
<1>9. Len(shown) = IF Len(s) > limit THEN limit ELSE Len(s)
  BY <1>8
<1>10. \A i \in 1..Len(shown) : shown[i] = s[i]
  BY <1>4, <1>5, <1>8
<1>11. Len(s) > limit => selected[limit] = s[limit] /\ Len(shown) = limit
  BY <1>2, <1>5, <1>9
<1> QED  BY <1>5, <1>6, <1>8, <1>9, <1>10, <1>11

LEMMA PageKeeps == PagingInv /\ P!Page => PagingInv'
<1> SUFFICES ASSUME PagingInv, P!Page PROVE PagingInv'
  OBVIOUS
<1>0. answer \in {"begun", "more"} /\ PagingTypes
  BY DEF P!Page, PagingInv
<1>1. PICK limit \in 1..2 :
        LET selected == P!Selected(cursor, limit)
            shown == SubSeq(selected, 1, IF Len(selected) > limit THEN limit ELSE Len(selected))
        IN  /\ returned' = returned \o shown
            /\ cursor' = P!NextAfter(selected, limit)
            /\ answer' = IF cursor' = {} THEN "complete" ELSE "more"
            /\ UNCHANGED <<kind, rows, unsafe, masked, steady>>
  BY DEF P!Page, P!Accepts
<1> DEFINE selected == Picked(limit)
           shown == Shown(limit)
           ahead == {k \in rows : Ahead(k)}
           s == Sorted
<1>2. /\ returned' = returned \o shown
      /\ cursor' = P!NextAfter(selected, limit)
      /\ answer' = IF cursor' = {} THEN "complete" ELSE "more"
      /\ UNCHANGED <<kind, rows, unsafe, masked, steady>>
  BY <1>1 DEF Picked, Shown
<1>3. /\ shown \in Seq(P!Key)
      /\ Len(shown) = IF Len(s) > limit THEN limit ELSE Len(s)
      /\ \A i \in 1..Len(shown) : shown[i] = s[i]
      /\ Len(selected) > limit <=> Len(s) > limit
      /\ Len(s) > limit => selected[limit] = s[limit] /\ Len(shown) = limit
      /\ selected \in Seq(P!Key)
  BY <1>0, PageIs
<1>4. /\ s \in Seq(ahead) /\ Len(s) \in Nat /\ DOMAIN s = 1..Len(s)
      /\ \A k \in ahead : \E i \in 1..Len(s) : s[i] = k
      /\ \A i, j \in 1..Len(s) : i < j => P!After(s[j], s[i])
  <2>1. ahead \in SUBSET P!Key
    BY <1>0 DEF PagingTypes
  <2>2. s = P!Ascending(ahead)
    BY DEF Sorted
  <2> HIDE DEF ahead, s
  <2> QED  BY <2>1, <2>2, AscendingIs
<1>5. \A i \in 1..Len(s) : s[i] \in rows /\ s[i] \in P!Key /\ Ahead(s[i])
  <2>1. \A i \in 1..Len(s) : s[i] \in ahead
    <3> HIDE DEF ahead, s
    <3> QED  BY <1>4, ElementOfSeq
  <2> QED  BY <1>0, <2>1 DEF PagingTypes
<1>6. \A k \in rows : Ahead(k) => \E i \in 1..Len(s) : s[i] = k
  BY <1>4
<1> HIDE DEF selected, shown, ahead, s
<1>7. PICK n \in Nat, m \in Nat : n = Len(returned) /\ m = Len(shown)
  BY <1>0, <1>3, LenProperties DEF PagingTypes
<1>8. /\ returned' \in Seq(P!Key) /\ Len(returned') = n + m
      /\ \A i \in 1..n : returned'[i] = returned[i]
      /\ \A i \in 1..m : returned'[n + i] = s[i] /\ i \in 1..Len(s)
      /\ \A i \in (n + 1)..(n + m) : i - n \in 1..m /\ returned'[i] = s[i - n]
  <2>1. /\ returned' \in Seq(P!Key) /\ Len(returned') = n + m
        /\ \A i \in 1..(n + m) : returned'[i] = IF i <= n THEN returned[i] ELSE shown[i - n]
    BY <1>0, <1>2, <1>3, <1>7, ConcatProperties DEF PagingTypes
  <2>2. m <= Len(s) /\ \A i \in 1..m : shown[i] = s[i]
    <3>1. \A i \in 1..m : shown[i] = s[i]
      BY <1>3, <1>7
    <3>2. m = IF Len(s) > limit THEN limit ELSE Len(s)
      BY <1>3, <1>7
    <3>3. Len(s) \in Nat /\ limit \in Nat
      BY <1>4
    <3>4. m <= Len(s)
      BY <3>2, <3>3
    <3> QED  BY <3>1, <3>4
  <2>3. \A i \in 1..m : i \in 1..Len(s)
    BY <1>4, <2>2
  <2> QED  BY <2>1, <2>2, <2>3
<1>9. PagingTypes'
  <2>1. cursor' \in SUBSET ((0..MaxMajor) \X (1..MaxMinor))
    <3>1. CASE Len(selected) > limit
      <4>1. selected[limit] \in P!Key
        BY <1>3, <1>4, <1>5, <3>1
      <4>2. P!CursorKey(selected[limit]) \in (0..MaxMajor) \X (1..MaxMinor)
        BY <4>1, StorageAssumption DEF P!CursorKey, P!Key
      <4> QED  BY <1>2, <3>1, <4>2 DEF P!NextAfter
    <3>2. CASE ~(Len(selected) > limit)
      BY <1>2, <3>2 DEF P!NextAfter
    <3> QED  BY <3>1, <3>2
  <2> QED  BY <1>0, <1>2, <1>8, <2>1 DEF PagingTypes
<1>10. ASSUME masked = {} PROVE ListingInv'
  <2>1. /\ \A i, j \in 1..n : i < j => P!After(returned[j], returned[i])
        /\ \A k \in steady : Ahead(k) \/ \E i \in 1..n : returned[i] = k
        /\ \A k \in P!Key : Ahead(k) => \A i \in 1..n : P!After(k, returned[i])
    BY <1>0, <1>7, <1>10 DEF PagingInv, ListingInv
  <2>2. \A k \in steady : k \in rows /\ k \in P!Key
    BY <1>0 DEF PagingTypes
  <2>3. \A k \in steady : (\E i \in 1..n : returned'[i] = k) \/ \E i \in 1..Len(s) : s[i] = k
    BY <1>6, <1>8, <2>1, <2>2
  <2>4. ASSUME NEW i \in 1..(n + m), NEW j \in 1..(n + m), i < j
        PROVE  P!After(returned'[j], returned'[i])
    <3>1. CASE j <= n
      <4>1. i \in 1..n /\ j \in 1..n
        BY <2>4, <3>1
      <4> QED  BY <1>8, <2>1, <2>4, <4>1
    <3>2. CASE i <= n /\ ~(j <= n)
      <4>1. i \in 1..n /\ j \in (n + 1)..(n + m)
        BY <3>2
      <4>2. returned'[i] = returned[i] /\ returned'[j] = s[j - n] /\ j - n \in 1..Len(s)
        BY <1>8, <4>1
      <4> QED  BY <1>5, <2>1, <4>1, <4>2
    <3>3. CASE ~(i <= n)
      <4>1. i \in (n + 1)..(n + m) /\ j \in (n + 1)..(n + m)
        BY <2>4, <3>3
      <4>2. /\ returned'[i] = s[i - n] /\ i - n \in 1..Len(s)
            /\ returned'[j] = s[j - n] /\ j - n \in 1..Len(s) /\ i - n < j - n
        BY <1>8, <2>4, <4>1
      <4> QED  BY <1>4, <4>2
    <3> QED  BY <2>4, <3>1, <3>2, <3>3
  <2>5. CASE Len(s) > limit
    <3>1. m = limit /\ limit \in 1..Len(s)
      BY <1>3, <1>4, <1>7, <2>5
    <3>2. cursor' = {s[limit]} /\ answer' = "more"
      <4>1. P!CursorKey(selected[limit]) = s[limit]
        BY <1>3, <1>10, <2>5 DEF P!CursorKey
      <4>2. cursor' = {s[limit]}
        BY <1>2, <1>3, <2>5, <4>1 DEF P!NextAfter
      <4>3. cursor' # {}
        BY <4>2
      <4> QED  BY <1>2, <4>2, <4>3
    <3>3. \A k : Ahead(k)' <=> P!After(k, s[limit])
      BY <3>2 DEF Ahead, P!After
    <3>4. ASSUME NEW k \in steady
          PROVE  Ahead(k)' \/ \E i \in 1..(n + m) : returned'[i] = k
      <4>1. CASE \E i \in 1..n : returned'[i] = k
        BY <4>1
      <4>2. ASSUME NEW i \in 1..Len(s), s[i] = k
            PROVE  Ahead(k)' \/ \E j \in 1..(n + m) : returned'[j] = k
        <5>1. CASE i <= limit
          <6>1. i \in 1..m /\ n + i \in 1..(n + m)
            BY <1>4, <3>1, <5>1
          <6> QED  BY <1>8, <4>2, <6>1
        <5>2. CASE ~(i <= limit)
          <6>1. limit < i
            BY <1>4, <5>2
          <6>2. P!After(s[i], s[limit])
            BY <1>4, <3>1, <6>1
          <6> QED  BY <3>3, <4>2, <6>2
        <5> QED  BY <5>1, <5>2
      <4> QED  BY <2>3, <4>1, <4>2
    <3>5. ASSUME NEW k \in P!Key, Ahead(k)', NEW i \in 1..(n + m)
          PROVE  P!After(k, returned'[i])
      <4>1. P!After(k, s[limit])
        BY <3>3, <3>5
      <4>2. s[limit] = returned'[n + m] /\ s[limit] \in P!Key /\ n + m \in 1..(n + m)
        BY <1>5, <1>8, <3>1
      <4>3. returned'[i] \in P!Key
        BY <1>8, ElementOfSeq
      <4>4. i = n + m \/ P!After(returned'[n + m], returned'[i])
        BY <2>4, <4>2
      <4> QED  BY <4>1, <4>2, <4>3, <4>4, KeyOrder
    <3> QED  BY <1>2, <1>8, <2>4, <3>2, <3>4, <3>5 DEF ListingInv
  <2>6. CASE ~(Len(s) > limit)
    <3>1. m = Len(s)
      BY <1>3, <1>4, <1>7, <2>6
    <3>2. cursor' = {} /\ answer' = "complete"
      BY <1>2, <1>3, <2>6 DEF P!NextAfter
    <3>3. ASSUME NEW k \in steady PROVE \E i \in 1..(n + m) : returned'[i] = k
      <4>1. CASE \E i \in 1..n : returned'[i] = k
        BY <4>1
      <4>2. ASSUME NEW i \in 1..Len(s), s[i] = k PROVE \E j \in 1..(n + m) : returned'[j] = k
        <5>1. i \in 1..m /\ n + i \in 1..(n + m)
          BY <3>1
        <5> QED  BY <1>8, <4>2, <5>1
      <4> QED  BY <2>3, <4>1, <4>2
    <3> QED  BY <1>2, <1>8, <2>4, <3>2, <3>3 DEF ListingInv
  <2> QED  BY <2>5, <2>6
<1> QED  BY <1>2, <1>9, <1>10 DEF PagingInv

LEMMA PagingStep == PagingInv /\ [P!Next]_pagingVars => PagingInv'
<1> SUFFICES ASSUME PagingInv, [P!Next]_pagingVars PROVE PagingInv'
  OBVIOUS
<1>0. PagingTypes /\ (masked = {} => ListingInv)
  BY DEF PagingInv
<1>1. CASE P!Begin
  <2>1. /\ answer' = "begun" /\ cursor' = {} /\ returned' = <<>> /\ steady' = rows
        /\ rows' = rows /\ masked' = masked
    BY <1>1 DEF P!Begin
  <2>2. returned' \in Seq(P!Key) /\ Len(returned') = 0
    BY <2>1
  <2>3. PagingTypes'
    BY <1>0, <2>1, <2>2 DEF PagingTypes
  <2>4. 1..0 = {}
    OBVIOUS
  <2>5. ListingInv'
    BY <2>1, <2>2, <2>4 DEF ListingInv, Ahead
  <2> QED  BY <2>3, <2>5 DEF PagingInv
<1>2. CASE P!Page
  BY <1>2, PageKeeps
<1>3. CASE P!PageDenied \/ P!PageUnsafe \/ P!Inspect
  <2>1. /\ UNCHANGED <<rows, masked, cursor, returned, steady>>
        /\ answer' \in {"denied", "unsafe", "row", "absent"}
    BY <1>3 DEF P!PageDenied, P!PageUnsafe, P!Inspect
  <2> QED  BY <1>0, <2>1 DEF PagingInv, PagingTypes, ListingInv, Ahead
<1>4. CASE P!Insert
  <2>1. PICK k \in P!Fresh : rows' = rows \union {k}
    BY <1>4 DEF P!Insert
  <2>2. k \in P!Key
    BY <2>1 DEF P!Fresh
  <2>3. UNCHANGED <<masked, cursor, returned, steady, answer>>
    BY <1>4 DEF P!Insert
  <2> QED  BY <1>0, <2>1, <2>2, <2>3 DEF PagingInv, PagingTypes, ListingInv, Ahead
<1>5. CASE P!Purge
  <2>1. PICK k \in rows : rows' = rows \ {k} /\ steady' = steady \ {k}
    BY <1>5 DEF P!Purge
  <2>2. UNCHANGED <<masked, cursor, returned, answer>>
    BY <1>5 DEF P!Purge
  <2> QED  BY <1>0, <2>1, <2>2 DEF PagingInv, PagingTypes, ListingInv, Ahead
<1>6. CASE UNCHANGED pagingVars
  BY <1>0, <1>6 DEF pagingVars, PagingInv, PagingTypes, ListingInv, Ahead
<1> QED  BY <1>1, <1>2, <1>3, <1>4, <1>5, <1>6 DEF P!Next

LEMMA PagingInductive == PartsSpec => []PagingInv
<1>1. PartsInit => PagingInv
  <2> SUFFICES ASSUME PartsInit PROVE PagingInv
    OBVIOUS
  <2>1. rows = {} /\ cursor = {} /\ returned = <<>> /\ steady = {} /\ answer = "none"
    BY DEF PartsInit, P!Init
  <2>2. returned \in Seq(P!Key) /\ Len(returned) = 0 /\ 1..0 = {}
    BY <2>1
  <2> QED  BY <2>1, <2>2 DEF PagingInv, PagingTypes, ListingInv
<1>2. PagingInv /\ [PartsNext]_<<part, vars, openingVars, pagingVars>> => PagingInv'
  BY PagingStep DEF PartsNext
<1> QED  BY <1>1, <1>2, PTL DEF PartsSpec

\* A complete listing has every row that was there all along, once and in
\* order, for tables of every size (finish_page, decode_after).
THEOREM ListingComplete == PartsSpec => []ListedOnce
<1>1. PagingInv => ListedOnce
  <2> SUFFICES ASSUME PagingInv, masked = {}
               PROVE  /\ answer = "complete" => steady \subseteq P!Range(returned)
                      /\ \A i \in 1..(Len(returned) - 1) : P!After(returned[i + 1], returned[i])
    BY DEF ListedOnce, P!ListedOnce
  <2>1. PagingTypes /\ ListingInv
    BY DEF PagingInv
  <2>2. Len(returned) \in Nat /\ DOMAIN returned = 1..Len(returned)
    BY <2>1, LenProperties DEF PagingTypes
  <2>3. answer = "complete" => steady \subseteq P!Range(returned)
    BY <2>1, <2>2 DEF ListingInv, P!Range
  <2>4. \A i \in 1..(Len(returned) - 1) : P!After(returned[i + 1], returned[i])
    <3> SUFFICES ASSUME NEW i \in 1..(Len(returned) - 1) PROVE P!After(returned[i + 1], returned[i])
      OBVIOUS
    <3>1. i \in 1..Len(returned) /\ i + 1 \in 1..Len(returned) /\ i < i + 1
      BY <2>2
    <3> QED  BY <2>1, <3>1 DEF ListingInv
  <2> QED  BY <2>3, <2>4
<1> QED  BY <1>1, PagingInductive, PTL

-----------------------------------------------------------------------------
(***************************************************************************)
(* Cleanup: what the phases that are left will do.                         *)
(***************************************************************************)
Pending(todo, op) == UNION {todo[i].rows : i \in {j \in DOMAIN todo : todo[j].op = op}}

Gone(todo) == Pending(todo, "remove") \union Pending(todo, "delete")

Cleared(todo) ==
    Pending(todo, "clear")
    \union {k \in Pending(todo, "purge") : Table(k) \in {"inbound_items", "inbound_current_snapshots"}}

\* The database when all the statements that are left have run.
FinalRows(todo, base) == (base.rows \ Gone(todo)) \union Pending(todo, "audit")
FinalText(todo, base) ==
    [k \in DOMAIN base.text \ Gone(todo) |->
        IF k \in Pending(todo, "expire") THEN "expired"
        ELSE IF k \in Pending(todo, "purge") THEN "purged" ELSE base.text[k]]
FinalDescribed(todo, base) == base.described \ (Gone(todo) \union Cleared(todo))
FinalTriggers(todo, base) ==
    (base.triggers \ Pending(todo, "drop_trigger")) \union Pending(todo, "create_trigger")

Final(todo, base) ==
    [rows |-> FinalRows(todo, base), text |-> FinalText(todo, base),
     described |-> FinalDescribed(todo, base), triggers |-> FinalTriggers(todo, base),
     stale |-> base.stale, old |-> base.old]

\* A trigger is made after it was dropped, the event is written last, and no
\* text is given both markers.
DropsFirst(todo) ==
    \A i, j \in DOMAIN todo :
        todo[i].op = "create_trigger" /\ todo[j].op = "drop_trigger" /\ todo[i].rows \cap todo[j].rows # {}
            => j < i

EventLast(todo) ==
    \A i, j \in DOMAIN todo : todo[i].op = "audit" => j <= i

Ordered(todo) ==
    DropsFirst(todo) /\ EventLast(todo) /\ Pending(todo, "expire") \cap Pending(todo, "purge") = {}

Shaped(base) ==
    base = [rows |-> base.rows, text |-> [k \in DOMAIN base.text |-> base.text[k]],
            described |-> base.described, triggers |-> base.triggers, stale |-> base.stale, old |-> base.old]

Ops == {"drop_trigger", "create_trigger", "audit", "remove", "delete", "expire", "clear", "purge"}

Program(todo) ==
    /\ DOMAIN todo \subseteq Nat \ {0}
    /\ \A i \in DOMAIN todo : todo[i].op \in Ops
    /\ todo = [i \in DOMAIN todo |-> [op |-> todo[i].op, rows |-> todo[i].rows]]

-----------------------------------------------------------------------------
\* One statement of the first unfinished phase.
LEMMA PendingLess ==
    ASSUME NEW todo, Program(todo), NEW i \in DOMAIN todo, NEW k \in todo[i].rows, NEW op,
           NEW less, less = Rest(todo, i, k)
    PROVE  /\ Pending(less, op) \subseteq Pending(todo, op)
           /\ Pending(todo, op) \subseteq Pending(less, op) \union {k}
           /\ op # todo[i].op => Pending(less, op) = Pending(todo, op)
           /\ k \in Pending(todo, todo[i].op)
<1>1. /\ DOMAIN less = DOMAIN todo
      /\ \A j \in DOMAIN todo : less[j].op = todo[j].op
      /\ \A j \in DOMAIN todo : less[j].rows = IF j = i THEN todo[j].rows \ {k} ELSE todo[j].rows
  <2>1. less = [j \in DOMAIN todo |-> IF j = i THEN Phase(todo[j].op, todo[j].rows \ {k}) ELSE todo[j]]
    BY DEF Rest
  <2>2. \A x, y : Phase(x, y).op = x /\ Phase(x, y).rows = y
    BY DEF Phase
  <2> QED  BY <2>1, <2>2
<1>2. Pending(less, op) \subseteq Pending(todo, op)
  <2>1. \A j \in DOMAIN todo : less[j].rows \subseteq todo[j].rows
    BY <1>1
  <2>2. {j \in DOMAIN less : less[j].op = op} = {j \in DOMAIN todo : todo[j].op = op}
    BY <1>1
  <2> QED  BY <2>1, <2>2 DEF Pending
<1>3. Pending(todo, op) \subseteq Pending(less, op) \union {k}
  <2> SUFFICES ASSUME NEW r \in Pending(todo, op), r # k PROVE r \in Pending(less, op)
    OBVIOUS
  <2>1. PICK j \in DOMAIN todo : todo[j].op = op /\ r \in todo[j].rows
    BY DEF Pending
  <2>2. r \in less[j].rows /\ less[j].op = op /\ j \in DOMAIN less
    BY <1>1, <2>1
  <2> QED  BY <2>2 DEF Pending
<1>4. ASSUME op # todo[i].op PROVE Pending(less, op) = Pending(todo, op)
  <2>1. \A j \in DOMAIN todo : todo[j].op = op => less[j].rows = todo[j].rows
    BY <1>1, <1>4
  <2>2. Pending(todo, op) \subseteq Pending(less, op)
    BY <1>1, <2>1 DEF Pending
  <2> QED  BY <1>2, <2>2
<1>5. k \in Pending(todo, todo[i].op)
  BY DEF Pending
<1> QED  BY <1>2, <1>3, <1>4, <1>5

\* Only the phases from i on have anything left.
LEMMA PendingFirst ==
    ASSUME NEW todo, Program(todo), Ordered(todo), NEW i \in DOMAIN todo, NEW k \in todo[i].rows,
           \A j \in DOMAIN todo : j < i => todo[j].rows = {}
    PROVE  /\ todo[i].op = "audit" => \A op : op # "audit" => Pending(todo, op) = {}
           /\ todo[i].op = "create_trigger" => k \notin Pending(todo, "drop_trigger")
<1>1. ASSUME todo[i].op = "audit", NEW op, op # "audit" PROVE Pending(todo, op) = {}
  <2>1. \A j \in DOMAIN todo : todo[j].op = op => todo[j].rows = {}
    <3> SUFFICES ASSUME NEW j \in DOMAIN todo, todo[j].op = op PROVE todo[j].rows = {}
      OBVIOUS
    <3>1. j <= i /\ j # i
      BY <1>1 DEF Ordered, EventLast
    <3>2. i \in Nat /\ j \in Nat
      BY DEF Program
    <3> QED  BY <3>1, <3>2
  <2> QED  BY <2>1 DEF Pending
<1>2. ASSUME todo[i].op = "create_trigger" PROVE k \notin Pending(todo, "drop_trigger")
  <2> SUFFICES ASSUME NEW j \in DOMAIN todo, todo[j].op = "drop_trigger", k \in todo[j].rows PROVE FALSE
    BY DEF Pending
  <2>1. j < i
    BY <1>2 DEF Ordered, DropsFirst
  <2> QED  BY <2>1
<1> QED  BY <1>1, <1>2

\* A statement that is done leaves a program in the order of the code.
LEMMA LessOrdered ==
    ASSUME NEW todo, Program(todo), Ordered(todo), NEW i \in DOMAIN todo, NEW k \in todo[i].rows,
           NEW less, less = Rest(todo, i, k)
    PROVE  Program(less) /\ Ordered(less)
<1>1. /\ DOMAIN less = DOMAIN todo
      /\ \A j \in DOMAIN todo : less[j].op = todo[j].op
      /\ \A j \in DOMAIN todo : less[j].rows \subseteq todo[j].rows
  BY DEF Rest, Phase, Program
<1>2. Program(less)
  <2>1. less = [j \in DOMAIN less |-> less[j]] /\ DOMAIN less = DOMAIN todo
    BY DEF Rest, Phase, Program
  <2>0. DOMAIN less \subseteq Nat \ {0} /\ \A j \in DOMAIN less : less[j].op \in Ops
    BY <1>1 DEF Program
  <2>2. \A j \in DOMAIN less : less[j] = [op |-> less[j].op, rows |-> less[j].rows]
    BY DEF Rest, Phase, Program
  <2> QED  BY <2>0, <2>1, <2>2 DEF Program
<1>3. \A op : Pending(less, op) \subseteq Pending(todo, op)
  BY PendingLess
<1>4. Ordered(less)
  <2>1. DropsFirst(less)
    BY <1>1 DEF Ordered, DropsFirst
  <2>2. EventLast(less)
    BY <1>1 DEF Ordered, EventLast
  <2> QED  BY <1>3, <2>1, <2>2 DEF Ordered
<1> QED  BY <1>2, <1>4

RowsAfter(op, k, base) ==
    IF op \in {"remove", "delete"} THEN base.rows \ {k}
    ELSE IF op = "audit" THEN base.rows \union {k} ELSE base.rows
TriggersAfter(op, k, base) ==
    IF op = "drop_trigger" THEN base.triggers \ {k}
    ELSE IF op = "create_trigger" THEN base.triggers \union {k} ELSE base.triggers
DescribedAfter(op, k, base) ==
    IF \/ op \in {"remove", "delete", "clear"}
       \/ op = "purge" /\ Table(k) \in {"inbound_items", "inbound_current_snapshots"}
    THEN base.described \ {k} ELSE base.described
Marked(op, k, r, base) ==
    IF op = "expire" /\ r = k THEN "expired" ELSE IF op = "purge" /\ r = k THEN "purged" ELSE base.text[r]
TextAfter(op, k, base) ==
    [r \in DOMAIN base.text \ (IF op \in {"remove", "delete"} THEN {k} ELSE {}) |-> Marked(op, k, r, base)]

\* What a statement makes of each field of the database.
LEMMA StatementFields ==
    ASSUME NEW base, Shaped(base), NEW k, NEW op \in Ops
    PROVE  Effect(<<op, k>>, base) =
              [rows |-> RowsAfter(op, k, base), text |-> TextAfter(op, k, base),
               described |-> DescribedAfter(op, k, base), triggers |-> TriggersAfter(op, k, base),
               stale |-> base.stale, old |-> base.old]
<1> DEFINE after == Effect(<<op, k>>, base)
<1>1. CASE op = "drop_trigger"
  <2> DEFINE left == base.triggers \ {k}
  <2>1. after = [base EXCEPT !.triggers = left]
    BY <1>1 DEF Effect
  <2>2. /\ RowsAfter(op, k, base) = base.rows /\ TriggersAfter(op, k, base) = left
        /\ DescribedAfter(op, k, base) = base.described
        /\ TextAfter(op, k, base) = [r \in DOMAIN base.text |-> base.text[r]]
    BY <1>1 DEF RowsAfter, TriggersAfter, DescribedAfter, TextAfter, Marked
  <2> HIDE DEF left, after
  <2>3. after = [rows |-> base.rows, text |-> [r \in DOMAIN base.text |-> base.text[r]],
                 described |-> base.described, triggers |-> left, stale |-> base.stale, old |-> base.old]
    BY <2>1 DEF Shaped
  <2> QED  BY <2>2, <2>3 DEF after
<1>2. CASE op = "create_trigger"
  <2> DEFINE more == base.triggers \union {k}
  <2>1. after = [base EXCEPT !.triggers = more]
    BY <1>2 DEF Effect
  <2>2. /\ RowsAfter(op, k, base) = base.rows /\ TriggersAfter(op, k, base) = more
        /\ DescribedAfter(op, k, base) = base.described
        /\ TextAfter(op, k, base) = [r \in DOMAIN base.text |-> base.text[r]]
    BY <1>2 DEF RowsAfter, TriggersAfter, DescribedAfter, TextAfter, Marked
  <2> HIDE DEF more, after
  <2>3. after = [rows |-> base.rows, text |-> [r \in DOMAIN base.text |-> base.text[r]],
                 described |-> base.described, triggers |-> more, stale |-> base.stale, old |-> base.old]
    BY <2>1 DEF Shaped
  <2> QED  BY <2>2, <2>3 DEF after
<1>3. CASE op = "audit"
  BY <1>3 DEF Effect, Shaped, Insert1, RowsAfter, TriggersAfter, DescribedAfter, TextAfter, Marked
<1>4. CASE op \in {"remove", "delete"}
  BY <1>4 DEF Effect, Shaped, Delete, Without, RowsAfter, TriggersAfter, DescribedAfter, TextAfter, Marked
<1>5. CASE op = "expire"
  BY <1>5 DEF Effect, Shaped, Overwrite, RowsAfter, TriggersAfter, DescribedAfter, TextAfter, Marked
<1>6. CASE op = "clear"
  BY <1>6 DEF Effect, Shaped, Clear, RowsAfter, TriggersAfter, DescribedAfter, TextAfter, Marked
<1>7. CASE op = "purge"
  BY <1>7 DEF Effect, Shaped, Overwrite, Clear, RowsAfter, TriggersAfter, DescribedAfter, TextAfter, Marked
<1> QED  BY <1>1, <1>2, <1>3, <1>4, <1>5, <1>6, <1>7 DEF Ops

\* A statement does now what it would have done later.
LEMMA StatementFinal ==
    ASSUME NEW todo, Program(todo), Ordered(todo), NEW base, Shaped(base),
           NEW i \in DOMAIN todo, NEW k \in todo[i].rows,
           \A j \in DOMAIN todo : j < i => todo[j].rows = {},
           NEW less, less = Rest(todo, i, k),
           NEW after, after = Effect(<<todo[i].op, k>>, base)
    PROVE  Shaped(after) /\ Final(less, after) = Final(todo, base)
<1> DEFINE o == todo[i].op
           Was(x) == Pending(todo, x)
           Will(x) == Pending(less, x)
<1>1. o \in Ops
  BY DEF Program
<1>2. /\ \A x : Will(x) \subseteq Was(x) /\ Was(x) \subseteq Will(x) \union {k} /\ (x # o => Will(x) = Was(x))
      /\ k \in Was(o)
  <2>1. ASSUME NEW x
        PROVE  Will(x) \subseteq Was(x) /\ Was(x) \subseteq Will(x) \union {k} /\ (x # o => Will(x) = Was(x))
    BY PendingLess
  <2>2. k \in Was(o)
    BY PendingLess
  <2> QED  BY <2>1, <2>2
<1>3. /\ o = "audit" => \A x : x # "audit" => Was(x) = {}
      /\ o = "create_trigger" => k \notin Was("drop_trigger")
  BY PendingFirst
<1>4. Was("expire") \cap Was("purge") = {}
  BY DEF Ordered
<1>5. after = [rows |-> RowsAfter(o, k, base), text |-> TextAfter(o, k, base),
                described |-> DescribedAfter(o, k, base), triggers |-> TriggersAfter(o, k, base),
                stale |-> base.stale, old |-> base.old]
  BY <1>1, StatementFields
<1>10. /\ after.rows = RowsAfter(o, k, base) /\ after.text = TextAfter(o, k, base)
       /\ after.described = DescribedAfter(o, k, base) /\ after.triggers = TriggersAfter(o, k, base)
       /\ after.stale = base.stale /\ after.old = base.old /\ Shaped(after)
  <2>1. TextAfter(o, k, base) = [r \in DOMAIN TextAfter(o, k, base) |-> TextAfter(o, k, base)[r]]
    BY DEF TextAfter
  <2> QED  BY <1>5, <2>1 DEF Shaped
<1> HIDE DEF o, Was, Will
<1>6. FinalRows(less, after) = FinalRows(todo, base)
  <2>1. (after.rows \ (Will("remove") \union Will("delete"))) \union Will("audit")
          = (base.rows \ (Was("remove") \union Was("delete"))) \union Was("audit")
    BY <1>1, <1>2, <1>3, <1>10 DEF Ops, RowsAfter
  <2> QED  BY <2>1 DEF FinalRows, Gone, Will, Was
<1>7. FinalTriggers(less, after) = FinalTriggers(todo, base)
  <2>1. (after.triggers \ Will("drop_trigger")) \union Will("create_trigger")
          = (base.triggers \ Was("drop_trigger")) \union Was("create_trigger")
    BY <1>1, <1>2, <1>3, <1>10 DEF Ops, TriggersAfter
  <2> QED  BY <2>1 DEF FinalTriggers, Will, Was
<1>8. FinalDescribed(less, after) = FinalDescribed(todo, base)
  <2> DEFINE kept == {"inbound_items", "inbound_current_snapshots"}
  <2>1. \A r : r \in after.described /\ r \notin Will("remove") /\ r \notin Will("delete") /\ r \notin Will("clear")
                  /\ ~(r \in Will("purge") /\ Table(r) \in kept)
            <=> r \in base.described /\ r \notin Was("remove") /\ r \notin Was("delete") /\ r \notin Was("clear")
                  /\ ~(r \in Was("purge") /\ Table(r) \in kept)
    BY <1>1, <1>2, <1>10 DEF Ops, DescribedAfter
  <2> QED  BY <2>1 DEF FinalDescribed, Gone, Cleared, Will, Was
<1>9. FinalText(less, after) = FinalText(todo, base)
  <2>1. DOMAIN after.text \ (Will("remove") \union Will("delete")) = DOMAIN base.text \ (Was("remove") \union Was("delete"))
    BY <1>1, <1>2, <1>10 DEF Ops, TextAfter
  <2>2. ASSUME NEW r \in DOMAIN base.text \ (Was("remove") \union Was("delete"))
        PROVE  (IF r \in Will("expire") THEN "expired" ELSE IF r \in Will("purge") THEN "purged" ELSE after.text[r])
                 = IF r \in Was("expire") THEN "expired" ELSE IF r \in Was("purge") THEN "purged" ELSE base.text[r]
    <3>1. after.text[r] = Marked(o, k, r, base)
      BY <1>2, <1>10 DEF TextAfter
    <3> QED  BY <1>2, <1>4, <3>1 DEF Marked
  <2> QED  BY <2>1, <2>2 DEF FinalText, Gone, Will, Was
<1> QED  BY <1>6, <1>7, <1>8, <1>9, <1>10 DEF Final

-----------------------------------------------------------------------------
(***************************************************************************)
(* The phases of the programs.                                             *)
(***************************************************************************)
Phases(W) == [op : Ops, rows : SUBSET W]
ListOps == {"remove", "delete", "expire", "clear", "purge"}

\* The elements of a concatenation.
LEMMA SequenceParts ==
    ASSUME NEW X, NEW s \in Seq(X), NEW t \in Seq(X)
    PROVE  /\ s \o t \in Seq(X)
           /\ DOMAIN (s \o t) = 1..(Len(s) + Len(t)) /\ Len(s) \in Nat /\ Len(t) \in Nat
           /\ DOMAIN s = 1..Len(s) /\ DOMAIN t = 1..Len(t)
           /\ \A i \in DOMAIN s : (s \o t)[i] = s[i]
           /\ \A i \in DOMAIN t : (s \o t)[Len(s) + i] = t[i]
           /\ \A i \in DOMAIN (s \o t) : i \in DOMAIN s \/ (i - Len(s) \in DOMAIN t /\ (s \o t)[i] = t[i - Len(s)])
<1>1. /\ s \o t \in Seq(X) /\ Len(s \o t) = Len(s) + Len(t)
      /\ \A i \in 1..(Len(s) + Len(t)) : (s \o t)[i] = IF i <= Len(s) THEN s[i] ELSE t[i - Len(s)]
  BY ConcatProperties
<1>2. Len(s) \in Nat /\ Len(t) \in Nat /\ DOMAIN s = 1..Len(s) /\ DOMAIN t = 1..Len(t)
  BY LenProperties
<1>3. DOMAIN (s \o t) = 1..(Len(s) + Len(t))
  BY <1>1, LenProperties
<1>4. \A i \in DOMAIN s : (s \o t)[i] = s[i]
  BY <1>1, <1>2
<1>5. \A i \in DOMAIN t : (s \o t)[Len(s) + i] = t[i]
  BY <1>1, <1>2
<1>6. \A i \in DOMAIN (s \o t) : i \in DOMAIN s \/ (i - Len(s) \in DOMAIN t /\ (s \o t)[i] = t[i - Len(s)])
  BY <1>1, <1>2, <1>3
<1> QED  BY <1>1, <1>2, <1>3, <1>4, <1>5, <1>6

\* Two programs, one after the other, do what each of them does,
LEMMA PendingConcat ==
    ASSUME NEW X, NEW s \in Seq(X), NEW t \in Seq(X), NEW op
    PROVE  Pending(s \o t, op) = Pending(s, op) \union Pending(t, op)
<1> DEFINE u == s \o t
<1>1. /\ DOMAIN u = 1..(Len(s) + Len(t)) /\ Len(s) \in Nat /\ Len(t) \in Nat
      /\ DOMAIN s = 1..Len(s) /\ DOMAIN t = 1..Len(t)
      /\ \A i \in DOMAIN s : u[i] = s[i]
      /\ \A i \in DOMAIN t : u[Len(s) + i] = t[i]
      /\ \A i \in DOMAIN u : i \in DOMAIN s \/ (i - Len(s) \in DOMAIN t /\ u[i] = t[i - Len(s)])
  BY SequenceParts
<1> HIDE DEF u
<1>2. Pending(u, op) \subseteq Pending(s, op) \union Pending(t, op)
  BY <1>1 DEF Pending
<1>3. Pending(s, op) \subseteq Pending(u, op)
  <2>1. \A i \in DOMAIN s : i \in DOMAIN u
    BY <1>1
  <2> QED  BY <1>1, <2>1 DEF Pending
<1>4. Pending(t, op) \subseteq Pending(u, op)
  <2>1. \A i \in DOMAIN t : Len(s) + i \in DOMAIN u
    BY <1>1
  <2> QED  BY <1>1, <2>1 DEF Pending
<1> QED  BY <1>2, <1>3, <1>4 DEF u

NoEvent(todo) == \A i \in DOMAIN todo : todo[i].op # "audit"

\* No trigger that s makes is dropped by t.
Apart(s, t) == \A x : ~(x \in Pending(s, "create_trigger") /\ x \in Pending(t, "drop_trigger"))

\* and keep the order when the second drops no trigger that the first makes.
LEMMA OrderedConcat ==
    ASSUME NEW X, NEW s \in Seq(X), NEW t \in Seq(X), DropsFirst(s), DropsFirst(t), EventLast(t),
           Apart(s, t), NoEvent(s)
    PROVE  DropsFirst(s \o t) /\ EventLast(s \o t)
<1> DEFINE u == s \o t
<1>0. PICK n \in Nat, m \in Nat : n = Len(s) /\ m = Len(t)
  BY SequenceParts
<1>1. /\ DOMAIN u = 1..(n + m) /\ DOMAIN s = 1..n /\ DOMAIN t = 1..m
      /\ \A i \in 1..n : u[i] = s[i]
      /\ \A i \in (n + 1)..(n + m) : i - n \in 1..m /\ u[i] = t[i - n]
  <2>1. /\ DOMAIN u = 1..(n + m) /\ DOMAIN s = 1..n /\ DOMAIN t = 1..m
        /\ \A i \in DOMAIN s : u[i] = s[i]
        /\ \A i \in DOMAIN u : i \in DOMAIN s \/ (i - n \in DOMAIN t /\ u[i] = t[i - n])
    BY <1>0, SequenceParts
  <2> HIDE DEF u
  <2> QED  BY <2>1
<1> HIDE DEF u
<1>2. ASSUME NEW i \in 1..(n + m), NEW j \in 1..(n + m), u[i].op = "create_trigger",
             u[j].op = "drop_trigger", u[i].rows \cap u[j].rows # {}
      PROVE  j < i
  <2>1. CASE i <= n /\ j <= n
    <3>1. i \in 1..n /\ j \in 1..n
      BY <2>1
    <3> QED  BY <1>1, <1>2, <3>1 DEF DropsFirst
  <2>2. CASE i <= n /\ ~(j <= n)
    <3>1. i \in 1..n /\ j - n \in 1..m /\ u[i] = s[i] /\ u[j] = t[j - n]
      BY <1>1, <2>2
    <3>2. PICK x : x \in s[i].rows /\ x \in t[j - n].rows
      BY <1>2, <3>1
    <3>3. x \in Pending(s, "create_trigger") /\ x \in Pending(t, "drop_trigger")
      BY <1>1, <1>2, <3>1, <3>2 DEF Pending
    <3> QED  BY <3>3 DEF Apart
  <2>3. CASE ~(i <= n) /\ j <= n
    BY <2>3
  <2>4. CASE ~(i <= n) /\ ~(j <= n)
    <3>1. i - n \in 1..m /\ j - n \in 1..m /\ u[i] = t[i - n] /\ u[j] = t[j - n]
      BY <1>1, <2>4
    <3>2. j - n < i - n
      BY <1>1, <1>2, <3>1 DEF DropsFirst
    <3> QED  BY <3>2
  <2> QED  BY <2>1, <2>2, <2>3, <2>4
<1>3. ASSUME NEW i \in 1..(n + m), NEW j \in 1..(n + m), u[i].op = "audit"
      PROVE  j <= i
  <2>1. ~(i <= n)
    <3> SUFFICES ASSUME i \in 1..n PROVE FALSE
      OBVIOUS
    <3> QED  BY <1>1, <1>3 DEF NoEvent
  <2>2. i - n \in 1..m /\ u[i] = t[i - n]
    BY <1>1, <2>1
  <2>3. CASE ~(j <= n)
    <3>1. j - n \in 1..m
      BY <2>3
    <3>2. j - n <= i - n
      BY <1>1, <1>3, <2>2, <3>1 DEF EventLast
    <3> QED  BY <3>2
  <2> QED  BY <2>1, <2>3
<1>4. DropsFirst(u)
  BY <1>1, <1>2 DEF DropsFirst
<1>5. EventLast(u)
  BY <1>1, <1>3 DEF EventLast
<1> QED  BY <1>4, <1>5 DEF u

\* The statements of a program but for its event.
Body(s, W) == s \in Seq(Phases(W)) /\ DropsFirst(s) /\ NoEvent(s)

\* The same of the bodies of programs.
LEMMA BodyConcat ==
    ASSUME NEW W, NEW s, NEW t, Body(s, W), Body(t, W), Apart(s, t)
    PROVE  /\ Body(s \o t, W)
           /\ \A op, x : x \in Pending(s \o t, op) <=> x \in Pending(s, op) \/ x \in Pending(t, op)
<1> DEFINE u == s \o t
<1>1. s \in Seq(Phases(W)) /\ t \in Seq(Phases(W))
  BY DEF Body
<1>2. EventLast(t)
  BY DEF Body, NoEvent, EventLast
<1>3. DropsFirst(u)
  BY <1>1, <1>2, OrderedConcat DEF Body
<1>4. NoEvent(u)
  <2>1. NoEvent(s) /\ NoEvent(t)
    BY DEF Body
  <2>2. /\ \A i \in DOMAIN s : u[i] = s[i]
        /\ \A i \in DOMAIN u : i \in DOMAIN s \/ (i - Len(s) \in DOMAIN t /\ u[i] = t[i - Len(s)])
    BY <1>1, SequenceParts
  <2> HIDE DEF u
  <2> QED  BY <2>1, <2>2 DEF NoEvent
<1>5. u \in Seq(Phases(W))
  BY <1>1, SequenceParts
<1>6. \A op : Pending(u, op) = Pending(s, op) \union Pending(t, op)
  BY <1>1, PendingConcat
<1> HIDE DEF u
<1> QED  BY <1>3, <1>4, <1>5, <1>6 DEF Body, u

Single(o, r) == <<Phase(o, r)>>

\* A single phase.
LEMMA OnePhase ==
    ASSUME NEW W, NEW o \in Ops, NEW r \in SUBSET W
    PROVE  /\ Single(o, r) \in Seq(Phases(W)) /\ EventLast(Single(o, r))
           /\ DropsFirst(Single(o, r))
           /\ o # "audit" => Body(Single(o, r), W)
           /\ \A op, x : x \in Pending(Single(o, r), op) <=> op = o /\ x \in r
<1> DEFINE p == Phase(o, r)
           u == Single(o, r)
<1>1. p.op = o /\ p.rows = r /\ p \in Phases(W)
  BY DEF Phase, Phases
<1> HIDE DEF p
<1>2. u \in Seq(Phases(W)) /\ DOMAIN u = {1} /\ u[1] = p
  <2>1. u = <<p>>
    BY DEF Single, p
  <2> QED  BY <1>1, <2>1
<1> HIDE DEF u
<1>3. EventLast(u)
  BY <1>2 DEF EventLast
<1>4. DropsFirst(u)
  <2>1. \A i \in DOMAIN u : u[i].op = o
    BY <1>1, <1>2
  <2>2. ~(o = "create_trigger" /\ o = "drop_trigger")
    OBVIOUS
  <2> QED  BY <2>1, <2>2 DEF DropsFirst
<1>5. o # "audit" => NoEvent(u)
  BY <1>1, <1>2 DEF NoEvent
<1>6. \A op, x : x \in Pending(u, op) <=> op = o /\ x \in r
  BY <1>1, <1>2 DEF Pending
<1> QED  BY <1>2, <1>3, <1>4, <1>5, <1>6 DEF Body, p, u

\* No phase at all.
LEMMA NoPhase ==
    ASSUME NEW W
    PROVE  Body(<<>>, W) /\ \A op, x : x \notin Pending(<<>>, op)
BY DEF Body, DropsFirst, NoEvent, Pending

\* One phase for each table of a list.
LEMMA TablePhases ==
    ASSUME NEW W, NEW op \in ListOps, NEW picked \in SUBSET W,
           NEW X, NEW tables \in Seq(X)
    PROVE  /\ Body(ByTable(op, tables, picked), W)
           /\ \A o, x : x \in Pending(ByTable(op, tables, picked), o) <=> o = op /\ x \in In(tables, picked)
<1> DEFINE u == ByTable(op, tables, picked)
           slice(i) == In(<<tables[i]>>, picked)
<1>1. /\ DOMAIN u = DOMAIN tables
      /\ \A i \in DOMAIN tables : u[i] = Phase(op, slice(i)) /\ slice(i) \subseteq picked
  BY DEF ByTable, In
<1>2. \A i \in DOMAIN tables : u[i].op = op /\ u[i].rows = slice(i) /\ u[i] \in Phases(W)
  <2> HIDE DEF u, slice
  <2>1. op \in Ops
    BY DEF Ops, ListOps
  <2>2. ASSUME NEW i \in DOMAIN tables
        PROVE  u[i].op = op /\ u[i].rows = slice(i) /\ u[i] \in Phases(W)
    <3>1. u[i] = Phase(op, slice(i)) /\ slice(i) \in SUBSET W
      BY <1>1
    <3> QED  BY <2>1, <3>1 DEF Phase, Phases
  <2> QED  BY <2>2
<1>3. u \in Seq(Phases(W))
  <2>1. u = [i \in 1..Len(tables) |-> u[i]] /\ Len(tables) \in Nat /\ DOMAIN tables = 1..Len(tables)
    BY LenProperties DEF ByTable
  <2> HIDE DEF u
  <2>2. u \in [1..Len(tables) -> Phases(W)]
    BY <1>2, <2>1
  <2> QED  BY <2>1, <2>2, IsASeq
<1> HIDE DEF u
<1>4. DropsFirst(u) /\ NoEvent(u)
  BY <1>1, <1>2 DEF DropsFirst, NoEvent, ListOps
<1>5. \A x : x \in In(tables, picked) <=> \E i \in DOMAIN tables : x \in slice(i)
  <2>1. \A i : slice(i) = {k \in picked : Table(k) = tables[i]}
    BY DEF In, Range
  <2> HIDE DEF slice
  <2> QED  BY <2>1 DEF In, Range
<1>6. \A o, x : x \in Pending(u, o) <=> o = op /\ x \in In(tables, picked)
  <2> HIDE DEF slice
  <2> QED  BY <1>1, <1>2, <1>5 DEF Pending
<1> QED  BY <1>3, <1>4, <1>6 DEF Body, u

\* What the body leaves to the triggers.
SparesTriggers(body) == \A x : x \notin Pending(body, "drop_trigger") /\ x \notin Pending(body, "create_trigger")

\* A body between the drop and the creation of its triggers.
LEMMA UnguardedPhases ==
    ASSUME NEW W, NEW dropped \in SUBSET W, NEW body, Body(body, W), SparesTriggers(body)
    PROVE  /\ Body(Unguarded(dropped, body), W)
           /\ \A op, x : x \in Pending(Unguarded(dropped, body), op) <=>
                            \/ op \in {"drop_trigger", "create_trigger"} /\ x \in dropped
                            \/ x \in Pending(body, op)
<1> DEFINE d == Single("drop_trigger", dropped)
           c == Single("create_trigger", dropped)
<1>1. Body(d, W) /\ \A op, x : x \in Pending(d, op) <=> op = "drop_trigger" /\ x \in dropped
  <2>1. "drop_trigger" \in Ops /\ "drop_trigger" # "audit" /\ dropped \in SUBSET W
    BY DEF Ops
  <2>2. ASSUME NEW o \in Ops, o # "audit"
        PROVE  /\ Body(Single(o, dropped), W)
               /\ \A op, x : x \in Pending(Single(o, dropped), op) <=> op = o /\ x \in dropped
    BY <2>2, OnePhase
  <2> QED  BY <2>1, <2>2
<1>2. Body(c, W) /\ \A op, x : x \in Pending(c, op) <=> op = "create_trigger" /\ x \in dropped
  <2>1. "create_trigger" \in Ops /\ "create_trigger" # "audit" /\ dropped \in SUBSET W
    BY DEF Ops
  <2>2. ASSUME NEW o \in Ops, o # "audit"
        PROVE  /\ Body(Single(o, dropped), W)
               /\ \A op, x : x \in Pending(Single(o, dropped), op) <=> op = o /\ x \in dropped
    BY <2>2, OnePhase
  <2> QED  BY <2>1, <2>2
<1>3. Unguarded(dropped, body) = (d \o body) \o c
  BY DEF Unguarded, Restored, Single
<1> HIDE DEF d, c
<1>4. /\ Body(d \o body, W)
      /\ \A op, x : x \in Pending(d \o body, op) <=> x \in Pending(d, op) \/ x \in Pending(body, op)
  <2>1. Apart(d, body)
    BY <1>1 DEF Apart
  <2> QED  BY <1>1, <2>1, BodyConcat
<1>5. /\ Body((d \o body) \o c, W)
      /\ \A op, x : x \in Pending((d \o body) \o c, op) <=> x \in Pending(d \o body, op) \/ x \in Pending(c, op)
  <2>1. Apart(d \o body, c)
    BY <1>2 DEF Apart
  <2> QED  BY <1>2, <1>4, <2>1, BodyConcat
<1> QED  BY <1>1, <1>2, <1>3, <1>4, <1>5

\* A body and the audit event that ends it.
LEMMA Finished ==
    ASSUME NEW W, NEW e \in W, NEW s, Body(s, W), NEW p, p = s \o <<Phase("audit", {e})>>
    PROVE  /\ Program(p) /\ DropsFirst(p) /\ EventLast(p)
           /\ \A op, x : x \in Pending(p, op) <=> (op = "audit" /\ x = e) \/ (op # "audit" /\ x \in Pending(s, op))
<1> DEFINE f == Single("audit", {e})
<1>1. /\ f \in Seq(Phases(W)) /\ EventLast(f) /\ DropsFirst(f)
      /\ \A op, x : x \in Pending(f, op) <=> op = "audit" /\ x \in {e}
  <2>1. "audit" \in Ops /\ {e} \in SUBSET W
    BY DEF Ops
  <2> HIDE DEF f
  <2> QED  BY <2>1, OnePhase DEF f
<1>9. p = s \o f
  BY DEF Single
<1> HIDE DEF f
<1>0. s \in Seq(Phases(W)) /\ DropsFirst(s) /\ NoEvent(s)
  BY DEF Body
<1>2. \A x : x \notin Pending(s, "audit")
  BY <1>0 DEF NoEvent, Pending
<1>3. \A op : Pending(p, op) = Pending(s, op) \union Pending(f, op)
  BY <1>0, <1>1, <1>9, PendingConcat
<1>4. \A op, x : x \in Pending(p, op) <=> (op = "audit" /\ x = e) \/ (op # "audit" /\ x \in Pending(s, op))
  BY <1>1, <1>2, <1>3
<1>5. Apart(s, f)
  BY <1>1 DEF Apart
<1>6. DropsFirst(p) /\ EventLast(p)
  BY <1>0, <1>1, <1>5, <1>9, OrderedConcat
<1>7. p \in Seq(Phases(W))
  <2>1. s \o f \in Seq(Phases(W))
    BY <1>0, <1>1, ConcatProperties
  <2> QED  BY <1>9, <2>1
<1>8. Program(p)
  <2>1. DOMAIN p = 1..Len(p) /\ Len(p) \in Nat /\ p = [i \in DOMAIN p |-> p[i]]
    BY <1>7, LenProperties
  <2>2. \A i \in DOMAIN p : p[i] \in Phases(W)
    BY <1>7, <2>1, ElementOfSeq
  <2>3. \A i \in DOMAIN p : p[i].op \in Ops /\ p[i] = [op |-> p[i].op, rows |-> p[i].rows]
    BY <2>2 DEF Phases
  <2>4. DOMAIN p \subseteq Nat \ {0}
    BY <2>1
  <2>5. p = [i \in DOMAIN p |-> [op |-> p[i].op, rows |-> p[i].rows]]
    BY <2>1, <2>3
  <2> QED  BY <2>3, <2>4, <2>5 DEF Program
<1> QED  BY <1>4, <1>6, <1>8

-----------------------------------------------------------------------------
(***************************************************************************)
(* What the two programs do in the end.                                    *)
(***************************************************************************)
Cleanable(base) ==
    Shaped(base) /\ DOMAIN base.text = In(TextTables, base.rows) /\ base.triggers = Trigger

\* The statements of a program, kind by kind.
Does(todo, gone, expired, purged, cleared, dropped, e) ==
    \A x : /\ x \in Pending(todo, "remove") \/ x \in Pending(todo, "delete") <=> x \in gone
           /\ x \in Pending(todo, "expire") <=> x \in expired
           /\ x \in Pending(todo, "purge") <=> x \in purged
           /\ x \in Pending(todo, "clear") <=> x \in cleared
           /\ x \in Pending(todo, "drop_trigger") <=> x \in dropped
           /\ x \in Pending(todo, "create_trigger") <=> x \in dropped
           /\ x \in Pending(todo, "audit") <=> x = e

Fields6(r, t, d, g, s, o) ==
    [rows |-> r, text |-> t, described |-> d, triggers |-> g, stale |-> s, old |-> o]

Outcome(base, gone, expired, purged, cleared, e) ==
    Fields6((base.rows \ gone) \union {e},
            [k \in DOMAIN base.text \ gone |->
                IF k \in expired THEN "expired" ELSE IF k \in purged THEN "purged" ELSE base.text[k]],
            base.described
              \ (gone \union cleared
                 \union {k \in purged : Table(k) \in {"inbound_items", "inbound_current_snapshots"}}),
            Trigger, base.stale, base.old)

\* The end of a program, from the sets that its statements work on.
LEMMA FinalIs ==
    ASSUME NEW todo, NEW base, Cleanable(base), NEW gone, NEW expired, NEW purged, NEW cleared,
           NEW dropped \in SUBSET Trigger, NEW e, Does(todo, gone, expired, purged, cleared, dropped, e)
    PROVE  Final(todo, base) = Outcome(base, gone, expired, purged, cleared, e)
<1>1. /\ Gone(todo) = gone /\ Pending(todo, "expire") = expired /\ Pending(todo, "purge") = purged
      /\ Pending(todo, "clear") = cleared /\ Pending(todo, "audit") = {e}
      /\ Pending(todo, "drop_trigger") = dropped /\ Pending(todo, "create_trigger") = dropped
  BY DEF Does, Gone
<1>2. FinalTriggers(todo, base) = Trigger
  BY <1>1 DEF FinalTriggers, Cleanable
<1>3. FinalRows(todo, base) = (base.rows \ gone) \union {e}
  BY <1>1 DEF FinalRows
<1>4. FinalText(todo, base) = [k \in DOMAIN base.text \ gone |->
                           IF k \in expired THEN "expired" ELSE IF k \in purged THEN "purged" ELSE base.text[k]]
  BY <1>1 DEF FinalText
<1>5. FinalDescribed(todo, base) =
        base.described \ (gone \union cleared
                          \union {k \in purged : Table(k) \in {"inbound_items", "inbound_current_snapshots"}})
  BY <1>1 DEF FinalDescribed, Cleared
<1> QED  BY <1>2, <1>3, <1>4, <1>5 DEF Final, Outcome, Fields6

\* The tables, as sets.
Names == {"drafts", "draft_revisions", "inbound_items", "inbound_current_snapshots", "inbound_item_transitions",
          "inbound_reply_links", "inbound_acknowledgements", "inbound_archives", "delivery_attempts",
          "approvals", "policy_activations", "inbound_cursors", "audit_events"}

\* The lists are sequences of tables; what is in them.
LEMMA Lists ==
    /\ TextTables \in Seq(Names) /\ FieldTables \in Seq(Names) /\ IdTables \in Seq(Names)
    /\ SweepDeletes \in Seq(Names)
    /\ Range(TextTables) = {"draft_revisions", "inbound_items", "inbound_current_snapshots", "inbound_item_transitions"}
    /\ Range(FieldTables) = Range(TextTables) \union {"drafts"}
    /\ Range(IdTables) = {"inbound_reply_links", "inbound_acknowledgements", "inbound_archives", "delivery_attempts",
                          "approvals", "policy_activations", "inbound_cursors", "audit_events"}
    /\ Range(SweepDeletes) = {"inbound_reply_links", "inbound_acknowledgements", "inbound_archives",
                              "inbound_current_snapshots", "inbound_item_transitions", "delivery_attempts",
                              "approvals", "draft_revisions", "drafts", "inbound_items"}
<1>1. /\ TextTables \in Seq(Names) /\ IdTables \in Seq(Names) /\ SweepDeletes \in Seq(Names)
  BY DEF TextTables, IdTables, SweepDeletes, Names
<1>2. <<"drafts">> \in Seq(Names) /\ Range(<<"drafts">>) = {"drafts"}
  <2> DEFINE h == <<"drafts">>
  <2>1. h \in Seq(Names)
    BY DEF Names
  <2>3. DOMAIN h = {1}
    OBVIOUS
  <2>4. h[1] = "drafts"
    OBVIOUS
  <2> HIDE DEF h
  <2>2. \A x : x \in Range(h) <=> x \in {"drafts"}
    BY <2>3, <2>4 DEF Range
  <2> QED  BY <2>1, <2>2 DEF h
<1>3. FieldTables \in Seq(Names) /\ Range(FieldTables) = Range(TextTables) \union {"drafts"}
  <2> DEFINE h == <<"drafts">>
  <2>1. h \in Seq(Names) /\ Range(h) = {"drafts"} /\ FieldTables = h \o TextTables
    BY <1>2 DEF FieldTables
  <2> HIDE DEF h
  <2>2. Range(h \o TextTables) = Range(h) \union Range(TextTables)
    BY <1>1, <2>1, RangeConcatenation
  <2>3. h \o TextTables \in Seq(Names)
    BY <1>1, <2>1, ConcatProperties
  <2> QED  BY <2>1, <2>2, <2>3
<1>4. Range(TextTables) = {"draft_revisions", "inbound_items", "inbound_current_snapshots", "inbound_item_transitions"}
  BY DEF TextTables, Range
<1>6. Range(IdTables) = {"inbound_reply_links", "inbound_acknowledgements", "inbound_archives", "delivery_attempts",
                          "approvals", "policy_activations", "inbound_cursors", "audit_events"}
  BY DEF IdTables, Range
<1>7. Range(SweepDeletes) = {"inbound_reply_links", "inbound_acknowledgements", "inbound_archives",
                              "inbound_current_snapshots", "inbound_item_transitions", "delivery_attempts",
                              "approvals", "draft_revisions", "drafts", "inbound_items"}
  BY DEF SweepDeletes, Range
<1> QED  BY <1>1, <1>3, <1>4, <1>6, <1>7

\* Every row that refers to a row which owns others is in a table of SweepDeletes.
LEMMA OwnedTables ==
    ASSUME NEW base, NEW k \in RemovedOwners(base) \union Children(base)
    PROVE  Table(k) \in Range(SweepDeletes)
<1>1. ASSUME NEW r, NEW o, o \in Refers(r) PROVE Table(r) \in Range(SweepDeletes)
  BY <1>1, Lists DEF Refers
<1>2. CASE k \in RemovedOwners(base)
  BY <1>2, Lists DEF RemovedOwners, Owners
<1>3. CASE k \in Children(base)
  <2>1. PICK o \in RemovedOwners(base) : k \in Owned(o, base.rows)
    BY <1>3 DEF Children
  <2>2. \E r : r \in Refers(k)
    BY <2>1 DEF Owned
  <2> QED  BY <1>1, <2>2
<1> QED  BY <1>2, <1>3

\* The helpers of the code, field by field.
LEMMA DeleteFields ==
    ASSUME NEW r, NEW t, NEW d, NEW g, NEW s, NEW o, NEW S
    PROVE  Delete(Fields6(r, t, d, g, s, o), S) = Fields6(r \ S, Without(t, S), d \ S, g, s, o)
<1> DEFINE base == Fields6(r, t, d, g, s, o)
           r1 == r \ S
           t1 == Without(t, S)
           d1 == d \ S
<1>0. base.rows = r /\ base.text = t /\ base.described = d
  BY DEF Fields6
<1>1. Delete(base, S) = [base EXCEPT !.rows = r1, !.text = t1, !.described = d1]
  BY <1>0 DEF Delete
<1> HIDE DEF r1, t1, d1
<1>2. [base EXCEPT !.rows = r1] = Fields6(r1, t, d, g, s, o)
  BY DEF Fields6
<1>3. [Fields6(r1, t, d, g, s, o) EXCEPT !.text = t1] = Fields6(r1, t1, d, g, s, o)
  BY DEF Fields6
<1>4. [Fields6(r1, t1, d, g, s, o) EXCEPT !.described = d1] = Fields6(r1, t1, d1, g, s, o)
  BY DEF Fields6
<1> HIDE DEF base
<1>5. [base EXCEPT !.rows = r1, !.text = t1, !.described = d1] =
        [[[base EXCEPT !.rows = r1] EXCEPT !.text = t1] EXCEPT !.described = d1]
  OBVIOUS
<1> QED  BY <1>1, <1>2, <1>3, <1>4, <1>5 DEF r1, t1, d1, base

\* Clear.
LEMMA ClearFields ==
    ASSUME NEW r, NEW t, NEW d, NEW g, NEW s, NEW o, NEW S
    PROVE  Clear(Fields6(r, t, d, g, s, o), S) = Fields6(r, t, d \ S, g, s, o)
<1> DEFINE base == Fields6(r, t, d, g, s, o)
           d1 == d \ S
<1>0. base.described = d
  BY DEF Fields6
<1>1. Clear(base, S) = [base EXCEPT !.described = d1]
  BY <1>0 DEF Clear
<1> HIDE DEF d1
<1>2. [base EXCEPT !.described = d1] = Fields6(r, t, d1, g, s, o)
  BY DEF Fields6
<1> QED  BY <1>1, <1>2 DEF d1

\* Insert1.
LEMMA InsertFields ==
    ASSUME NEW r, NEW t, NEW d, NEW g, NEW s, NEW o, NEW k
    PROVE  Insert1(Fields6(r, t, d, g, s, o), k) = Fields6(r \union {k}, t, d, g, s, o)
<1> DEFINE base == Fields6(r, t, d, g, s, o)
           r1 == r \union {k}
<1>0. base.rows = r
  BY DEF Fields6
<1>1. Insert1(base, k) = [base EXCEPT !.rows = r1]
  BY <1>0 DEF Insert1
<1> HIDE DEF r1
<1>2. [base EXCEPT !.rows = r1] = Fields6(r1, t, d, g, s, o)
  BY DEF Fields6
<1> QED  BY <1>1, <1>2 DEF r1

\* Overwrite.
LEMMA OverwriteFields ==
    ASSUME NEW base, Cleanable(base), NEW S, NEW marker
    PROVE  Overwrite(base, S, marker) =
             Fields6(base.rows, [k \in DOMAIN base.text |-> IF k \in S THEN marker ELSE base.text[k]],
                     base.described, Trigger, base.stale, base.old)
<1> DEFINE t1 == [k \in DOMAIN base.text |-> IF k \in S THEN marker ELSE base.text[k]]
<1>1. Overwrite(base, S, marker) = [base EXCEPT !.text = t1]
  BY DEF Overwrite
<1> HIDE DEF t1
<1>2. [base EXCEPT !.text = t1] =
        Fields6(base.rows, t1, base.described, Trigger, base.stale, base.old)
  BY DEF Cleanable, Shaped, Fields6
<1> QED  BY <1>1, <1>2 DEF t1

\* Whatever a program leaves, the next cleanup can start from.
LEMMA OutcomeCleanable ==
    ASSUME NEW base, Cleanable(base), NEW gone, NEW expired, NEW purged, NEW cleared,
           NEW e, Table(e) = "audit_events"
    PROVE  Cleanable(Outcome(base, gone, expired, purged, cleared, e))
<1> DEFINE after == Outcome(base, gone, expired, purged, cleared, e)
           given == [k \in DOMAIN base.text \ gone |->
                        IF k \in expired THEN "expired" ELSE IF k \in purged THEN "purged" ELSE base.text[k]]
           kept == (base.rows \ gone) \union {e}
           fuller == base.described
              \ (gone \union cleared
                 \union {k \in purged : Table(k) \in {"inbound_items", "inbound_current_snapshots"}})
<1>1. after = Fields6(kept, given, fuller, Trigger, base.stale, base.old)
  BY DEF Outcome
<1>2. DOMAIN given = DOMAIN base.text \ gone /\ given = [k \in DOMAIN given |-> given[k]]
  OBVIOUS
<1>3. In(TextTables, kept) = In(TextTables, base.rows) \ gone
  BY Lists DEF In
<1> HIDE DEF after, given, kept, fuller
<1>4. Shaped(after) /\ after.text = given /\ after.rows = kept /\ after.triggers = Trigger
  BY <1>1, <1>2 DEF Shaped, Fields6
<1> QED  BY <1>2, <1>3, <1>4 DEF Cleanable, after

\* A sweep: what is stale and has a text, and what is removed.
LEMMA RemovedTables ==
    ASSUME NEW base
    PROVE  LET owned == RemovedOwners(base) \union Children(base)
               byAge == Removed(base) \ owned
           IN  \A x : \/ x \in In(SweepDeletes, owned \union In(<<"delivery_attempts", "approvals">>, byAge))
                      \/ x \in In(<<"inbound_acknowledgements", "inbound_archives", "inbound_reply_links",
                                    "policy_activations", "inbound_cursors", "audit_events">>, byAge)
                      <=> x \in Removed(base)
<1> DEFINE owned == RemovedOwners(base) \union Children(base)
           byAge == Removed(base) \ owned
           two == <<"delivery_attempts", "approvals">>
           six == <<"inbound_acknowledgements", "inbound_archives", "inbound_reply_links",
                    "policy_activations", "inbound_cursors", "audit_events">>
<1>1. Range(two) = {"delivery_attempts", "approvals"}
  BY DEF Range
<1>2. Range(six) = {"inbound_acknowledgements", "inbound_archives", "inbound_reply_links",
                    "policy_activations", "inbound_cursors", "audit_events"}
  BY DEF Range
<1> HIDE DEF two, six
<1>3. \A x \in owned : Table(x) \in Range(SweepDeletes)
  BY OwnedTables
<1>4. \A x \in byAge : Table(x) \in Range(IdTables)
  BY DEF Removed, OwnAge, In
<1>5. owned \subseteq Removed(base) /\ \A x \in Removed(base) : x \in owned \/ x \in byAge
  BY DEF Removed
<1>6. byAge \subseteq Removed(base)
  OBVIOUS
<1> HIDE DEF owned, byAge
<1>7. \A x : x \in In(SweepDeletes, owned \union In(two, byAge)) \/ x \in In(six, byAge) <=> x \in Removed(base)
  BY <1>1, <1>2, <1>3, <1>4, <1>5, <1>6, Lists DEF In
<1> QED  BY <1>7 DEF owned, byAge, two, six

\* The statements of a sweep have the effect of Swept.
LEMMA SweepPhases ==
    ASSUME NEW base, Cleanable(base), NEW p, p = SweepProgram(base)
    PROVE  Program(p) /\ Ordered(p) /\ Final(p, base) = Swept(base) /\ Cleanable(Swept(base))
<1> DEFINE redacted == Redacted(base)
           removed == Removed(base)
           owned == RemovedOwners(base) \union Children(base)
           byAge == removed \ owned
           two == <<"delivery_attempts", "approvals">>
           six == <<"inbound_acknowledgements", "inbound_archives", "inbound_reply_links",
                    "policy_activations", "inbound_cursors", "audit_events">>
           first == In(SweepDeletes, owned \union In(two, byAge))
           W == base.rows \union removed \union Trigger \union {SweepEvent}
           texts == ByTable("expire", TextTables, redacted)
           deletes == ByTable("remove", SweepDeletes, owned \union In(two, byAge)) \o ByTable("remove", six, byAge)
           updates == {DraftUpdate, InboundUpdate}
           others == {DraftDelete, InboundDelete, AuditDelete}
           expiry == IF redacted = {} THEN <<>> ELSE Unguarded(updates, texts)
           removal == IF removed = {} THEN <<>> ELSE Unguarded(others, deletes)
<1>1. p = (expiry \o removal) \o <<Phase("audit", {SweepEvent})>>
  BY DEF SweepProgram
<1>2. In(TextTables, redacted) = redacted /\ redacted \subseteq base.rows
  BY DEF Redacted, Cleanable, In
<1>3. \A x : x \in first \/ x \in In(six, byAge) <=> x \in removed
  BY RemovedTables
<1>4. owned \union In(two, byAge) \subseteq removed /\ byAge \subseteq removed
  BY DEF In, Removed
<1>5. six \in Seq(Names)
  BY DEF Names
<1>6. updates \subseteq Trigger /\ others \subseteq Trigger /\ updates \cap others = {}
  BY DEF Trigger, DraftUpdate, InboundUpdate, DraftDelete, InboundDelete, AuditDelete
<1>7. removed \subseteq W /\ redacted \subseteq W /\ updates \subseteq W /\ others \subseteq W /\ SweepEvent \in W
  BY <1>2, <1>6
<1> DEFINE mixed == owned \union In(two, byAge)
<1> HIDE DEF redacted, removed, byAge, six, mixed, W, updates, others, texts, owned, two
<1>8. Body(texts, W) /\ \A op, x : x \in Pending(texts, op) <=> op = "expire" /\ x \in redacted
  <2>1. redacted \in SUBSET W
    BY <1>7
  <2> QED  BY <1>2, <2>1, Lists, TablePhases DEF ListOps, texts
<1>9. /\ Body(expiry, W)
      /\ \A op, x : x \in Pending(expiry, op) <=>
                      \/ op = "expire" /\ x \in redacted
                      \/ op \in {"drop_trigger", "create_trigger"} /\ x \in updates /\ redacted # {}
  <2>1. CASE redacted = {}
    <3>1. expiry = <<>> /\ \A x : x \notin redacted
      BY <2>1
    <3> HIDE DEF expiry
    <3> QED  BY <2>1, <3>1, NoPhase
  <2>2. CASE redacted # {}
    <3>1. expiry = Unguarded(updates, texts)
      BY <2>2
    <3> HIDE DEF expiry
    <3>2. SparesTriggers(texts)
      BY <1>8 DEF SparesTriggers
    <3>3. updates \in SUBSET W
      BY <1>7
    <3> QED  BY <1>8, <2>2, <3>1, <3>2, <3>3, UnguardedPhases
  <2> QED  BY <2>1, <2>2
<1>10. /\ Body(deletes, W)
       /\ \A op, x : x \in Pending(deletes, op) <=> op = "remove" /\ x \in removed
  <2> DEFINE s == ByTable("remove", SweepDeletes, mixed)
             t == ByTable("remove", six, byAge)
  <2>0. mixed \in SUBSET W /\ byAge \in SUBSET W /\ deletes = s \o t
    BY <1>4, <1>7 DEF mixed
  <2>1. Body(s, W) /\ \A op, x : x \in Pending(s, op) <=> op = "remove" /\ x \in In(SweepDeletes, mixed)
    BY <2>0, Lists, TablePhases DEF ListOps
  <2>2. Body(t, W) /\ \A op, x : x \in Pending(t, op) <=> op = "remove" /\ x \in In(six, byAge)
    BY <1>5, <2>0, TablePhases DEF ListOps
  <2> HIDE DEF s, t, deletes
  <2>3. Apart(s, t)
    BY <2>1 DEF Apart
  <2>4. Body(s \o t, W) /\ \A op, x : x \in Pending(s \o t, op) <=> x \in Pending(s, op) \/ x \in Pending(t, op)
    BY <2>1, <2>2, <2>3, BodyConcat
  <2>5. first = In(SweepDeletes, mixed)
    BY DEF mixed
  <2> HIDE DEF first
  <2> QED  BY <1>3, <2>0, <2>1, <2>2, <2>4, <2>5
<1> HIDE DEF deletes, expiry
<1>11. /\ Body(removal, W)
       /\ \A op, x : x \in Pending(removal, op) <=>
                       \/ op = "remove" /\ x \in removed
                       \/ op \in {"drop_trigger", "create_trigger"} /\ x \in others /\ removed # {}
  <2>1. CASE removed = {}
    <3>1. removal = <<>> /\ \A x : x \notin removed
      BY <2>1
    <3> HIDE DEF removal
    <3> QED  BY <2>1, <3>1, NoPhase
  <2>2. CASE removed # {}
    <3>1. removal = Unguarded(others, deletes)
      BY <2>2
    <3> HIDE DEF removal
    <3>2. SparesTriggers(deletes)
      BY <1>10 DEF SparesTriggers
    <3>3. others \in SUBSET W
      BY <1>7
    <3> QED  BY <1>10, <2>2, <3>1, <3>2, <3>3, UnguardedPhases
  <2> QED  BY <2>1, <2>2
<1> HIDE DEF removal
<1> DEFINE whole == expiry \o removal
<1>12. /\ Body(whole, W)
       /\ \A op, x : x \in Pending(whole, op) <=> x \in Pending(expiry, op) \/ x \in Pending(removal, op)
  <2>1. Apart(expiry, removal)
    BY <1>6, <1>9, <1>11 DEF Apart
  <2> QED  BY <1>9, <1>11, <2>1, BodyConcat
<1> HIDE DEF whole
<1>13. /\ Program(p) /\ DropsFirst(p) /\ EventLast(p)
       /\ \A op, x : x \in Pending(p, op) <=>
                       (op = "audit" /\ x = SweepEvent) \/ (op # "audit" /\ x \in Pending(whole, op))
  <2>1. p = whole \o <<Phase("audit", {SweepEvent})>>
    BY <1>1 DEF whole
  <2> QED  BY <1>7, <1>12, <2>1, Finished
<1> DEFINE dropped == {x \in Trigger : \/ x \in updates /\ redacted # {}
                                       \/ x \in others /\ removed # {}}
<1> DEFINE none == {}
<1>18. \A x : x \notin none
  OBVIOUS
<1> HIDE DEF none
<1>14. Does(p, removed, redacted, none, none, dropped, SweepEvent)
  BY <1>6, <1>9, <1>11, <1>12, <1>13, <1>18 DEF Does
<1>15. Ordered(p)
  BY <1>13, <1>14, <1>18 DEF Does, Ordered
<1>16. Final(p, base) = Outcome(base, removed, redacted, none, none, SweepEvent)
  <2>1. dropped \in SUBSET Trigger
    OBVIOUS
  <2> HIDE DEF dropped
  <2> QED  BY <1>14, <2>1, FinalIs
<1>17. Final(p, base) = Swept(base)
  <2> DEFINE given == [k \in DOMAIN base.text |-> IF k \in redacted THEN "expired" ELSE base.text[k]]
             left == [k \in DOMAIN base.text \ removed |-> IF k \in redacted THEN "expired" ELSE base.text[k]]
  <2>1. Final(p, base) =
          Fields6((base.rows \ removed) \union {SweepEvent}, left, base.described \ removed,
                  Trigger, base.stale, base.old)
    <3>1. base.described \ (removed \union none
                            \union {k \in none : Table(k) \in {"inbound_items", "inbound_current_snapshots"}})
            = base.described \ removed
      BY <1>18
    <3>2. [k \in DOMAIN base.text \ removed |->
                           IF k \in redacted THEN "expired" ELSE IF k \in none THEN "purged" ELSE base.text[k]]
            = left
      BY <1>18
    <3> QED  BY <1>16, <3>1, <3>2 DEF Outcome
  <2>2. Overwrite(base, redacted, "expired") =
          Fields6(base.rows, given, base.described, Trigger, base.stale, base.old)
    BY OverwriteFields
  <2>3. Without(given, removed) = left
    BY DEF Without
  <2> HIDE DEF given, left
  <2>4. Swept(base) = Insert1(Delete(Overwrite(base, redacted, "expired"), removed), SweepEvent)
    BY DEF Swept, redacted, removed
  <2>5. Delete(Fields6(base.rows, given, base.described, Trigger, base.stale, base.old), removed) =
          Fields6(base.rows \ removed, Without(given, removed), base.described \ removed,
                  Trigger, base.stale, base.old)
    BY DeleteFields
  <2>6. Insert1(Fields6(base.rows \ removed, left, base.described \ removed, Trigger, base.stale, base.old),
                SweepEvent) =
          Fields6((base.rows \ removed) \union {SweepEvent}, left, base.described \ removed,
                  Trigger, base.stale, base.old)
    BY InsertFields
  <2> QED  BY <2>1, <2>2, <2>3, <2>4, <2>5, <2>6
<1>19. Cleanable(Outcome(base, removed, redacted, none, none, SweepEvent))
  <2>1. Table(SweepEvent) = "audit_events"
    BY DEF Table, SweepEvent
  <2> QED  BY <2>1, OutcomeCleanable
<1> QED  BY <1>13, <1>15, <1>16, <1>17, <1>19

\* A purge of the content or of the metadata, and one of both.
LEMMA PurgedPart ==
    ASSUME NEW base, Cleanable(base), NEW scope, scope # "all", NEW none, \A x : x \notin none
    PROVE  Purged(scope, base) =
             Outcome(base, Ids(scope, base), none, Texts(scope, base), Fields(scope, base),
                     PurgeEvent(BuildPlan(scope, base)))
<1> DEFINE texts == Texts(scope, base)
           fields == Fields(scope, base)
           ids == Ids(scope, base)
           e == PurgeEvent(BuildPlan(scope, base))
           kept == {k \in texts : Table(k) \in {"inbound_items", "inbound_current_snapshots"}}
           marked == [k \in DOMAIN base.text |-> IF k \in texts THEN "purged" ELSE base.text[k]]
           left == [k \in DOMAIN base.text \ ids |-> IF k \in texts THEN "purged" ELSE base.text[k]]
           emptied == base.described \ (kept \union fields)
<1>1. Purged(scope, base) =
        Insert1(Delete(Clear(Overwrite(base, texts, "purged"), kept \union fields), ids), e)
  BY DEF Purged
<1>2. Overwrite(base, texts, "purged") =
        Fields6(base.rows, marked, base.described, Trigger, base.stale, base.old)
  BY OverwriteFields
<1>3. Without(marked, ids) = left
  BY DEF Without
<1>4. Outcome(base, ids, none, texts, fields, e) =
        Fields6((base.rows \ ids) \union {e}, left, emptied \ ids, Trigger, base.stale, base.old)
  <2>1. base.described \ (ids \union fields \union kept) = emptied \ ids
    OBVIOUS
  <2>2. [k \in DOMAIN base.text \ ids |->
           IF k \in none THEN "expired" ELSE IF k \in texts THEN "purged" ELSE base.text[k]] = left
    OBVIOUS
  <2> QED  BY <2>1, <2>2 DEF Outcome
<1> HIDE DEF texts, fields, ids, e, marked, left
<1>5. Clear(Fields6(base.rows, marked, base.described, Trigger, base.stale, base.old), kept \union fields) =
        Fields6(base.rows, marked, emptied, Trigger, base.stale, base.old)
  BY ClearFields
<1> HIDE DEF emptied, kept
<1>6. Delete(Fields6(base.rows, marked, emptied, Trigger, base.stale, base.old), ids) =
        Fields6(base.rows \ ids, Without(marked, ids), emptied \ ids, Trigger, base.stale, base.old)
  BY DeleteFields
<1>7. Insert1(Fields6(base.rows \ ids, left, emptied \ ids, Trigger, base.stale, base.old), e) =
        Fields6((base.rows \ ids) \union {e}, left, emptied \ ids, Trigger, base.stale, base.old)
  BY InsertFields
<1>8. Purged(scope, base) = Outcome(base, ids, none, texts, fields, e)
  BY <1>1, <1>2, <1>3, <1>4, <1>5, <1>6, <1>7
<1> QED  BY <1>8 DEF texts, fields, ids, e

\* The scope of both.
LEMMA PurgedAll ==
    ASSUME NEW base, Cleanable(base), NEW none, \A x : x \notin none,
           NEW gone, gone = Texts("all", base) \union Fields("all", base) \union Ids("all", base)
    PROVE  Purged("all", base) = Outcome(base, gone, none, none, none, PurgeEvent(BuildPlan("all", base)))
<1> DEFINE e == PurgeEvent(BuildPlan("all", base))
           left == [k \in DOMAIN base.text \ gone |-> base.text[k]]
<1>1. Purged("all", base) = Insert1(Delete(base, gone), e)
  BY DEF Purged
<1>2. base = Fields6(base.rows, base.text, base.described, Trigger, base.stale, base.old)
  BY DEF Cleanable, Shaped, Fields6
<1>3. Without(base.text, gone) = left
  BY DEF Without
<1>4. Outcome(base, gone, none, none, none, e) =
        Fields6((base.rows \ gone) \union {e}, left, base.described \ gone, Trigger, base.stale, base.old)
  <2>1. base.described \ (gone \union none
                \union {k \in none : Table(k) \in {"inbound_items", "inbound_current_snapshots"}}) = base.described \ gone
    OBVIOUS
  <2>2. [k \in DOMAIN base.text \ gone |->
           IF k \in none THEN "expired" ELSE IF k \in none THEN "purged" ELSE base.text[k]] = left
    OBVIOUS
  <2> QED  BY <2>1, <2>2 DEF Outcome
<1> HIDE DEF e, left
<1>5. Delete(Fields6(base.rows, base.text, base.described, Trigger, base.stale, base.old), gone) =
        Fields6(base.rows \ gone, Without(base.text, gone), base.described \ gone, Trigger, base.stale, base.old)
  BY DeleteFields
<1>6. Insert1(Fields6(base.rows \ gone, left, base.described \ gone, Trigger, base.stale, base.old), e) =
        Fields6((base.rows \ gone) \union {e}, left, base.described \ gone, Trigger, base.stale, base.old)
  BY InsertFields
<1>7. Purged("all", base) = Outcome(base, gone, none, none, none, e)
  BY <1>1, <1>2, <1>3, <1>4, <1>5, <1>6
<1> QED  BY <1>7 DEF e

\* What a purge takes is in the tables of its lists.
LEMMA PurgeTables ==
    ASSUME NEW base, Cleanable(base), NEW scope \in Scope
    PROVE  /\ \A k \in Texts(scope, base) : k \in base.rows /\ Table(k) \in Range(TextTables)
           /\ \A k \in Fields(scope, base) : k \in base.rows /\ Table(k) \in Range(FieldTables)
           /\ \A k \in Fields("all", base) : Table(k) = "drafts"
           /\ \A k \in Ids(scope, base) : k \in base.rows /\ Table(k) \in Range(IdTables)
<1>1. \A k \in DOMAIN base.text : k \in base.rows /\ Table(k) \in Range(TextTables)
  BY DEF Cleanable, In
<1>2. \A k \in Texts(scope, base) : k \in DOMAIN base.text
  BY DEF Texts
<1>3. \A k \in Fields(scope, base) : k \in base.rows /\ Table(k) \in Range(FieldTables)
  BY Lists DEF Fields, In, Scope
<1>4. \A k \in Fields("all", base) : Table(k) = "drafts"
  BY DEF Fields
<1>5. \A k \in Ids(scope, base) : k \in base.rows /\ Table(k) \in Range(IdTables)
  BY DEF Ids, In
<1> QED  BY <1>1, <1>2, <1>3, <1>4, <1>5

\* The phases of one list: all rows that it was given are in its tables.
LEMMA WholeList ==
    ASSUME NEW W, NEW op \in ListOps, NEW picked \in SUBSET W,
           NEW tables \in Seq(Names), \A k \in picked : Table(k) \in Range(tables)
    PROVE  /\ Body(ByTable(op, tables, picked), W)
           /\ \A o, x : x \in Pending(ByTable(op, tables, picked), o) <=> o = op /\ x \in picked
<1>1. \A x : x \in In(tables, picked) <=> x \in picked
  BY DEF In
<1>2. /\ Body(ByTable(op, tables, picked), W)
      /\ \A o, x : x \in Pending(ByTable(op, tables, picked), o) <=> o = op /\ x \in In(tables, picked)
  BY TablePhases
<1> QED  BY <1>1, <1>2

\* The end of a purge, whatever its scope.
LEMMA PurgeEnd ==
    ASSUME NEW W, NEW e \in W, NEW dropped \in SUBSET W, NEW body, Body(body, W), SparesTriggers(body),
           NEW p, p = Unguarded(dropped, body) \o <<Phase("audit", {e})>>
    PROVE  /\ Program(p) /\ DropsFirst(p) /\ EventLast(p)
           /\ \A op, x : x \in Pending(p, op) <=>
                \/ op = "audit" /\ x = e
                \/ op \in {"drop_trigger", "create_trigger"} /\ x \in dropped
                \/ op # "audit" /\ x \in Pending(body, op)
<1> DEFINE u == Unguarded(dropped, body)
<1>1. /\ Body(u, W)
      /\ \A op, x : x \in Pending(u, op) <=>
                      \/ op \in {"drop_trigger", "create_trigger"} /\ x \in dropped
                      \/ x \in Pending(body, op)
  BY UnguardedPhases
<1>2. p = u \o <<Phase("audit", {e})>>
  OBVIOUS
<1> HIDE DEF u
<1>3. /\ Program(p) /\ DropsFirst(p) /\ EventLast(p)
      /\ \A op, x : x \in Pending(p, op) <=>
                      (op = "audit" /\ x = e) \/ (op # "audit" /\ x \in Pending(u, op))
  BY <1>1, <1>2, Finished
<1> QED  BY <1>1, <1>3

\* The statements of a purge have the effect of Purged.
LEMMA PurgePhases ==
    ASSUME NEW base, Cleanable(base), NEW scope \in Scope, NEW q, q = BuildPlan(scope, base),
           NEW p, p = PurgeProgram(q, base)
    PROVE  Program(p) /\ Ordered(p) /\ Final(p, base) = Purged(scope, base) /\ Cleanable(Purged(scope, base))
<1> DEFINE texts == Texts(scope, base)
           fields == Fields(scope, base)
           ids == Ids(scope, base)
           e == PurgeEvent(q)
           W == base.rows \union Trigger \union {e}
           none == {}
<1>0. q.scope = scope
  BY DEF BuildPlan
<1>9. \A gone, expired, purged, cleared : Cleanable(Outcome(base, gone, expired, purged, cleared, e))
  <2>1. Table(e) = "audit_events"
    BY DEF Table, PurgeEvent
  <2> HIDE DEF e
  <2> QED  BY <2>1, OutcomeCleanable
<1>1. /\ texts \in SUBSET W /\ fields \in SUBSET W /\ ids \in SUBSET W /\ e \in W
      /\ \A k \in texts : Table(k) \in Range(TextTables)
      /\ \A k \in fields : Table(k) \in Range(FieldTables)
      /\ \A k \in ids : Table(k) \in Range(IdTables)
  BY PurgeTables
<1>2. \A x : x \notin none
  OBVIOUS
<1>3. \A tables, triggers, picked : Guards(tables, triggers, picked) \subseteq triggers
  BY DEF Guards
<1>4. Trigger \subseteq W
  OBVIOUS
<1>5. /\ {DraftUpdate, InboundUpdate} \subseteq Trigger
      /\ {AuditDelete} \subseteq Trigger
  BY DEF Trigger
<1>6. CASE scope = "content"
  <2> DEFINE g == Guards({"draft_revisions", "inbound_items"}, {DraftUpdate, InboundUpdate}, texts)
             body == ByTable("purge", TextTables, texts)
  <2>1. p = Unguarded(g, body) \o <<Phase("audit", {e})>>
    BY <1>0, <1>6 DEF PurgeProgram
  <2>2. g \subseteq Trigger /\ g \in SUBSET W
    BY <1>3, <1>4, <1>5
  <2>3. fields = none /\ ids = none
    BY <1>6 DEF Fields, Ids
  <2> HIDE DEF g, none, texts, fields, ids, e, W
  <2>4. Body(body, W) /\ \A o, x : x \in Pending(body, o) <=> o = "purge" /\ x \in texts
    BY <1>1, Lists, WholeList DEF ListOps
  <2> HIDE DEF body
  <2>5. SparesTriggers(body)
    BY <2>4 DEF SparesTriggers
  <2>6. /\ Program(p) /\ DropsFirst(p) /\ EventLast(p)
        /\ \A op, x : x \in Pending(p, op) <=>
                \/ op = "audit" /\ x = e
                \/ op \in {"drop_trigger", "create_trigger"} /\ x \in g
                \/ op # "audit" /\ x \in Pending(body, op)
    BY <1>1, <2>1, <2>2, <2>4, <2>5, PurgeEnd
  <2>7. Does(p, ids, none, texts, fields, g, e)
    BY <1>2, <2>3, <2>4, <2>6 DEF Does
  <2>8. Ordered(p)
    BY <1>2, <2>6, <2>7 DEF Does, Ordered
  <2>9. Final(p, base) = Outcome(base, ids, none, texts, fields, e)
    BY <2>2, <2>7, FinalIs
  <2>10. Purged(scope, base) = Outcome(base, ids, none, texts, fields, e)
    BY <1>2, <1>6, PurgedPart DEF texts, fields, ids, e
  <2> QED  BY <1>9, <2>6, <2>8, <2>9, <2>10
<1>7. CASE scope = "metadata"
  <2> DEFINE g == Guards({"draft_revisions", "inbound_items"}, {DraftUpdate, InboundUpdate}, fields)
                  \union Guards({"audit_events"}, {AuditDelete}, ids)
             s == ByTable("clear", FieldTables, fields)
             t == ByTable("delete", IdTables, ids)
             body == s \o t
  <2>1. p = Unguarded(g, body) \o <<Phase("audit", {e})>>
    BY <1>0, <1>7 DEF PurgeProgram
  <2>2. g \subseteq Trigger /\ g \in SUBSET W
    BY <1>3, <1>4, <1>5
  <2>3. texts = none
    BY <1>7 DEF Texts
  <2> HIDE DEF g, none, texts, fields, ids, e, W
  <2>11. Body(s, W) /\ \A o, x : x \in Pending(s, o) <=> o = "clear" /\ x \in fields
    BY <1>1, Lists, WholeList DEF ListOps
  <2>12. Body(t, W) /\ \A o, x : x \in Pending(t, o) <=> o = "delete" /\ x \in ids
    BY <1>1, Lists, WholeList DEF ListOps
  <2> HIDE DEF s, t
  <2>13. Apart(s, t)
    BY <2>11 DEF Apart
  <2>4. Body(body, W) /\ \A o, x : x \in Pending(body, o) <=> x \in Pending(s, o) \/ x \in Pending(t, o)
    BY <2>11, <2>12, <2>13, BodyConcat
  <2> HIDE DEF body
  <2>5. SparesTriggers(body)
    BY <2>4, <2>11, <2>12 DEF SparesTriggers
  <2>6. /\ Program(p) /\ DropsFirst(p) /\ EventLast(p)
        /\ \A op, x : x \in Pending(p, op) <=>
                \/ op = "audit" /\ x = e
                \/ op \in {"drop_trigger", "create_trigger"} /\ x \in g
                \/ op # "audit" /\ x \in Pending(body, op)
    BY <1>1, <2>1, <2>2, <2>4, <2>5, PurgeEnd
  <2>7. Does(p, ids, none, texts, fields, g, e)
    BY <1>2, <2>3, <2>4, <2>6, <2>11, <2>12 DEF Does
  <2>8. Ordered(p)
    BY <1>2, <2>6, <2>7 DEF Does, Ordered
  <2>9. Final(p, base) = Outcome(base, ids, none, texts, fields, e)
    BY <2>2, <2>7, FinalIs
  <2>10. Purged(scope, base) = Outcome(base, ids, none, texts, fields, e)
    BY <1>2, <1>7, PurgedPart DEF texts, fields, ids, e
  <2> QED  BY <1>9, <2>6, <2>8, <2>9, <2>10
<1>8. CASE scope = "all"
  <2> DEFINE one == <<"inbound_reply_links", "inbound_acknowledgements", "inbound_archives",
                      "delivery_attempts", "approvals">>
             two == <<"draft_revisions", "inbound_current_snapshots", "inbound_item_transitions",
                      "drafts", "inbound_items">>
             three == <<"policy_activations", "inbound_cursors", "audit_events">>
             both == texts \union fields
             gone == both \union ids
             r == ByTable("delete", one, ids)
             s == ByTable("delete", two, both)
             t == ByTable("delete", three, ids)
             body == (r \o s) \o t
  <2>0. SubSeq(IdTables, 1, 5) = one /\ SubSeq(IdTables, 6, 8) = three
    <3>1. SubSeq(IdTables, 1, 5) = [i \in 1..5 |-> IdTables[i]]
      BY DEF IdTables
    <3>2. SubSeq(IdTables, 6, 8) = [i \in 1..3 |-> IdTables[i + 5]]
      BY DEF IdTables
    <3>3. one = [i \in 1..5 |-> IdTables[i]]
      BY DEF IdTables
    <3>4. three = [i \in 1..3 |-> IdTables[i + 5]]
      BY DEF IdTables
    <3> HIDE DEF one, three
    <3> QED  BY <3>1, <3>2, <3>3, <3>4
  <2>1. p = Unguarded(Trigger, body) \o <<Phase("audit", {e})>>
    BY <1>0, <1>8, <2>0 DEF PurgeProgram
  <2>2. one \in Seq(Names) /\ two \in Seq(Names) /\ three \in Seq(Names)
    BY DEF Names
  <2>3. Range(one) = {"inbound_reply_links", "inbound_acknowledgements", "inbound_archives",
                      "delivery_attempts", "approvals"}
    BY DEF Range
  <2>4. Range(two) = {"draft_revisions", "inbound_current_snapshots", "inbound_item_transitions",
                      "drafts", "inbound_items"}
    BY DEF Range
  <2>5. Range(three) = {"policy_activations", "inbound_cursors", "audit_events"}
    BY DEF Range
  <2>6. both \in SUBSET W /\ gone = both \union ids /\ both = texts \union fields
    BY <1>1
  <2> HIDE DEF one, two, three, both, gone, none, texts, fields, ids, e, W
  <2>7. \A k \in both : Table(k) \in Range(two)
    BY <1>1, <2>4, <2>6, Lists
  <2>8. Body(s, W) /\ \A o, x : x \in Pending(s, o) <=> o = "delete" /\ x \in both
    <3>1. both \in SUBSET W /\ two \in Seq(Names) /\ "delete" \in ListOps
      BY <2>2, <2>6 DEF ListOps
    <3>2. ASSUME NEW op \in ListOps, NEW picked \in SUBSET W, NEW tables \in Seq(Names),
                 \A k \in picked : Table(k) \in Range(tables)
          PROVE  /\ Body(ByTable(op, tables, picked), W)
                 /\ \A o, x : x \in Pending(ByTable(op, tables, picked), o) <=> o = op /\ x \in picked
      BY <3>2, WholeList
    <3> QED  BY <2>7, <3>1, <3>2
  <2>9. Body(r, W) /\ \A o, x : x \in Pending(r, o) <=> o = "delete" /\ x \in In(one, ids)
    BY <1>1, <2>2, TablePhases DEF ListOps
  <2>10. Body(t, W) /\ \A o, x : x \in Pending(t, o) <=> o = "delete" /\ x \in In(three, ids)
    BY <1>1, <2>2, TablePhases DEF ListOps
  <2>11. \A x : x \in In(one, ids) \/ x \in In(three, ids) <=> x \in ids
    BY <1>1, <2>3, <2>5, Lists DEF In
  <2> HIDE DEF r, s, t
  <2>12. Apart(r, s)
    BY <2>9 DEF Apart
  <2>13. Body(r \o s, W) /\ \A o, x : x \in Pending(r \o s, o) <=> x \in Pending(r, o) \/ x \in Pending(s, o)
    BY <2>8, <2>9, <2>12, BodyConcat
  <2>14. Apart(r \o s, t)
    BY <2>8, <2>9, <2>13 DEF Apart
  <2>15. Body(body, W) /\ \A o, x : x \in Pending(body, o) <=> x \in Pending(r \o s, o) \/ x \in Pending(t, o)
    BY <2>10, <2>13, <2>14, BodyConcat
  <2> HIDE DEF body
  <2>16. \A o, x : x \in Pending(body, o) <=> o = "delete" /\ x \in gone
    BY <2>6, <2>8, <2>9, <2>10, <2>11, <2>13, <2>15
  <2>17. SparesTriggers(body)
    BY <2>16 DEF SparesTriggers
  <2>18. /\ Program(p) /\ DropsFirst(p) /\ EventLast(p)
         /\ \A op, x : x \in Pending(p, op) <=>
                \/ op = "audit" /\ x = e
                \/ op \in {"drop_trigger", "create_trigger"} /\ x \in Trigger
                \/ op # "audit" /\ x \in Pending(body, op)
    <3>1. Trigger \in SUBSET W
      BY <1>4
    <3> QED  BY <1>1, <2>1, <2>15, <2>17, <3>1, PurgeEnd
  <2>19. Does(p, gone, none, none, none, Trigger, e)
    BY <1>2, <2>16, <2>18 DEF Does
  <2>20. Ordered(p)
    BY <1>2, <2>18, <2>19 DEF Does, Ordered
  <2>21. Final(p, base) = Outcome(base, gone, none, none, none, e)
    BY <2>19, FinalIs
  <2>22. Purged(scope, base) = Outcome(base, gone, none, none, none, e)
    <3>1. gone = Texts("all", base) \union Fields("all", base) \union Ids("all", base)
      BY <1>8, <2>6 DEF texts, fields, ids
    <3> QED  BY <1>2, <1>8, <3>1, PurgedAll DEF e
  <2> QED  BY <1>9, <2>18, <2>20, <2>21, <2>22
<1> QED  BY <1>6, <1>7, <1>8 DEF Scope

-----------------------------------------------------------------------------
(***************************************************************************)
(* Every step of a transaction keeps the database that it ends with.       *)
(***************************************************************************)
TransactionInv ==
    tx.pc # "idle" =>
        /\ tx = [pc |-> tx.pc, base |-> tx.base, todo |-> tx.todo, counts |-> tx.counts]
        /\ tx.pc \in {"sweep", "purge"}
        /\ Shaped(tx.base) /\ Program(tx.todo) /\ Ordered(tx.todo)
        /\ tx.pc = "sweep" => Final(tx.todo, tx.base) = Swept(db)
        /\ tx.pc = "purge" => plan.scope \in Scope /\ Final(tx.todo, tx.base) = Purged(plan.scope, db)

CleanupInv ==
    /\ Cleanable(db)
    /\ plan # NoPlan => plan.scope \in Scope
    /\ TransactionInv

\* A program whose phases are all finished has nothing to do.
LEMMA NothingLeft ==
    ASSUME NEW todo, NEW base, Shaped(base), \A i \in DOMAIN todo : todo[i].rows = {}
    PROVE  Final(todo, base) = base
<1>1. \A op, x : x \notin Pending(todo, op)
  BY DEF Pending
<1>2. \A x : x \notin Gone(todo) /\ x \notin Cleared(todo)
  BY <1>1 DEF Gone, Cleared
<1>3. FinalRows(todo, base) = base.rows
  BY <1>1, <1>2 DEF FinalRows
<1>4. FinalTriggers(todo, base) = base.triggers
  BY <1>1 DEF FinalTriggers
<1>5. FinalDescribed(todo, base) = base.described
  BY <1>2 DEF FinalDescribed
<1>6. FinalText(todo, base) = [k \in DOMAIN base.text |-> base.text[k]]
  BY <1>1, <1>2 DEF FinalText
<1> QED  BY <1>3, <1>4, <1>5, <1>6 DEF Final, Shaped

\* The first state.
LEMMA CleanupInitially == Init => CleanupInv
<1> SUFFICES ASSUME Init PROVE CleanupInv
  OBVIOUS
<1>1. db = [rows |-> db.rows, text |-> [k \in In(TextTables, db.rows) |-> db.text[k]],
            described |-> db.described, triggers |-> Trigger, stale |-> db.stale, old |-> db.old]
  BY InputAssumption DEF Init
<1>2. Cleanable(db)
  <2> DEFINE t == [k \in In(TextTables, db.rows) |-> db.text[k]]
  <2>1. DOMAIN t = In(TextTables, db.rows) /\ t = [k \in DOMAIN t |-> t[k]]
    OBVIOUS
  <2> HIDE DEF t
  <2>2. db.text = t /\ db.triggers = Trigger
    BY <1>1 DEF t
  <2>3. db = [rows |-> db.rows, text |-> t, described |-> db.described, triggers |-> Trigger,
              stale |-> db.stale, old |-> db.old]
    BY <1>1 DEF t
  <2> QED  BY <2>1, <2>2, <2>3 DEF Cleanable, Shaped
<1>3. tx.pc = "idle" /\ plan = NoPlan
  BY DEF Init, Idle
<1> QED  BY <1>2, <1>3 DEF CleanupInv, TransactionInv

\* One statement.
LEMMA StepKeeps == CleanupInv /\ Step => CleanupInv'
<1> SUFFICES ASSUME CleanupInv, Step PROVE CleanupInv'
  OBVIOUS
<1>1. PICK i \in DOMAIN tx.todo : \E k \in tx.todo[i].rows : Runs(i, k)
  BY DEF Step
<1>2. PICK k \in tx.todo[i].rows : Runs(i, k)
  BY <1>1
<1>3. tx.pc # "idle" /\ UNCHANGED <<db, plan>>
  BY DEF Step
<1>4. /\ tx = [pc |-> tx.pc, base |-> tx.base, todo |-> tx.todo, counts |-> tx.counts]
      /\ Shaped(tx.base) /\ Program(tx.todo) /\ Ordered(tx.todo)
  BY <1>3 DEF CleanupInv, TransactionInv
<1> DEFINE o == tx.todo[i].op
           less == Rest(tx.todo, i, k)
           after == Effect(<<o, k>>, tx.base)
           more == Counted(tx.counts, <<o, k>>)
<1>5. /\ tx' = [tx EXCEPT !.todo = less, !.base = after, !.counts = more]
      /\ \A j \in 1..(i - 1) : tx.todo[j].rows = {}
  BY <1>2 DEF Runs
<1>6. \A j \in DOMAIN tx.todo : j < i => tx.todo[j].rows = {}
  <2>1. \A j \in DOMAIN tx.todo : j \in Nat \ {0}
    BY <1>4 DEF Program
  <2>2. i \in Nat \ {0}
    BY <2>1
  <2> SUFFICES ASSUME NEW j \in DOMAIN tx.todo, j < i PROVE tx.todo[j].rows = {}
    OBVIOUS
  <2>3. j \in 1..(i - 1)
    BY <2>1, <2>2
  <2> QED  BY <1>5, <2>3
<1>7. Program(less) /\ Ordered(less)
  BY <1>4, LessOrdered
<1>8. Shaped(after) /\ Final(less, after) = Final(tx.todo, tx.base)
  BY <1>4, <1>6, StatementFinal
<1> HIDE DEF less, after, more
<1>9. /\ tx' = [pc |-> tx.pc, base |-> after, todo |-> less, counts |-> more]
  BY <1>4, <1>5
<1>10. tx'.pc = tx.pc /\ tx'.base = after /\ tx'.todo = less /\ tx'.counts = more
  BY <1>9
<1> QED  BY <1>3, <1>7, <1>8, <1>9, <1>10 DEF CleanupInv, TransactionInv

\* A commit shows the whole cleanup.
LEMMA CommitKeeps ==
    ASSUME CleanupInv, Commit
    PROVE  CleanupInv' /\ (db' = Swept(db) \/ \E scope \in Scope : db' = Purged(scope, db))
<1>1. /\ tx.pc \in {"sweep", "purge"} /\ Cleanable(db) /\ Shaped(tx.base)
      /\ tx.pc = "sweep" => Final(tx.todo, tx.base) = Swept(db)
      /\ tx.pc = "purge" => plan.scope \in Scope /\ Final(tx.todo, tx.base) = Purged(plan.scope, db)
  BY DEF CleanupInv, TransactionInv, Commit
<1>2. Final(tx.todo, tx.base) = tx.base
  BY <1>1, NothingLeft DEF Commit
<1>3. db' = tx.base /\ tx' = Idle /\ plan' = plan
  BY DEF Commit
<1>4. db' = Swept(db) \/ \E scope \in Scope : db' = Purged(scope, db)
  BY <1>1, <1>2, <1>3
<1>5. Cleanable(db')
  <2>1. Cleanable(Swept(db)) /\ \A scope \in Scope : Cleanable(Purged(scope, db))
    BY <1>1, SweepPhases, PurgePhases
  <2> QED  BY <1>4, <2>1
<1>6. CleanupInv'
  <2>1. tx'.pc = "idle"
    BY <1>3 DEF Idle
  <2> QED  BY <1>3, <1>5, <2>1 DEF CleanupInv, TransactionInv
<1> QED  BY <1>4, <1>6

\* The beginning of a transaction.
LEMMA BeginKeeps == CleanupInv /\ (BeginSweep \/ BeginPurge) => CleanupInv'
<1> SUFFICES ASSUME CleanupInv, BeginSweep \/ BeginPurge PROVE CleanupInv'
  OBVIOUS
<1>1. Cleanable(db) /\ Shaped(db)
  BY DEF CleanupInv, Cleanable
<1>2. UNCHANGED <<db, plan>>
  BY DEF BeginSweep, BeginPurge
<1>3. CASE BeginSweep
  <2> DEFINE p == SweepProgram(db)
  <2>1. tx' = [pc |-> "sweep", base |-> db, todo |-> p, counts |-> NoCounts]
    BY <1>3 DEF BeginSweep
  <2>2. Program(p) /\ Ordered(p) /\ Final(p, db) = Swept(db)
    BY <1>1, SweepPhases
  <2> HIDE DEF p
  <2>3. tx'.pc = "sweep" /\ tx'.base = db /\ tx'.todo = p /\ tx'.counts = NoCounts
    BY <2>1
  <2> QED  BY <1>1, <1>2, <2>1, <2>2, <2>3 DEF CleanupInv, TransactionInv
<1>4. CASE BeginPurge
  <2>0. plan # NoPlan /\ plan.scope \in Scope
    BY <1>4 DEF BeginPurge, MayExecute, CleanupInv
  <2>1. CASE Current(plan, BuildPlan(plan.scope, db))
    <3> DEFINE p == PurgeProgram(plan, db)
    <3>1. tx' = [pc |-> "purge", base |-> db, todo |-> p, counts |-> NoCounts]
      BY <1>4, <2>1 DEF BeginPurge
    <3>2. Program(p) /\ Ordered(p) /\ Final(p, db) = Purged(plan.scope, db)
      BY <1>1, <2>0, <2>1, PurgePhases DEF Current
    <3> HIDE DEF p
    <3>3. tx'.pc = "purge" /\ tx'.base = db /\ tx'.todo = p /\ tx'.counts = NoCounts
      BY <3>1
    <3> QED  BY <1>1, <1>2, <2>0, <3>1, <3>2, <3>3 DEF CleanupInv, TransactionInv
  <2>2. CASE ~Current(plan, BuildPlan(plan.scope, db))
    <3>1. UNCHANGED tx
      BY <1>4, <2>2 DEF BeginPurge
    <3> QED  BY <1>2, <3>1 DEF CleanupInv, TransactionInv
  <2> QED  BY <2>1, <2>2
<1> QED  BY <1>3, <1>4

\* A row of another command.
LEMMA ChangeKeeps == CleanupInv /\ Change => CleanupInv'
<1> SUFFICES ASSUME CleanupInv, Change PROVE CleanupInv'
  OBVIOUS
<1>1. PICK k \in NewRows(db) : db' = Insert1(db, k)
  BY DEF Change, Grown
<1>2. Table(k) \notin Range(TextTables)
  <2>1. k \in {<<t, i>> : t \in {"drafts", "policy_activations", "inbound_reply_links"}, i \in Id}
    BY DEF NewRows
  <2>2. Table(k) \in {"drafts", "policy_activations", "inbound_reply_links"}
    BY <2>1 DEF Table
  <2> QED  BY <2>2, Lists
<1>3. /\ db = Fields6(db.rows, db.text, db.described, Trigger, db.stale, db.old)
      /\ DOMAIN db.text = In(TextTables, db.rows) /\ db.text = [r \in DOMAIN db.text |-> db.text[r]]
  <2>1. Shaped(db) /\ DOMAIN db.text = In(TextTables, db.rows) /\ db.triggers = Trigger
    BY DEF CleanupInv, Cleanable
  <2>2. db.text = [r \in DOMAIN db.text |-> db.text[r]]
    BY <2>1 DEF Shaped
  <2> QED  BY <2>1, <2>2 DEF Shaped, Fields6
<1> DEFINE more == db.rows \union {k}
<1>4. db' = Fields6(more, db.text, db.described, Trigger, db.stale, db.old)
  BY <1>1, <1>3, InsertFields
<1>5. In(TextTables, more) = In(TextTables, db.rows)
  BY <1>2 DEF In
<1> HIDE DEF more
<1>6. Cleanable(db')
  BY <1>3, <1>4, <1>5 DEF Cleanable, Shaped, Fields6
<1>7. tx'.pc = "idle" /\ plan' = plan
  BY DEF Change
<1> QED  BY <1>6, <1>7 DEF CleanupInv, TransactionInv

\* Every step of Cleanup.
LEMMA CleanupStep == CleanupInv /\ Next => CleanupInv'
<1> SUFFICES ASSUME CleanupInv, Next PROVE CleanupInv'
  OBVIOUS
<1>1. CASE Change
  BY <1>1, ChangeKeeps
<1>2. ASSUME NEW scope \in Scope, MakePlan(scope) PROVE CleanupInv'
  <2>1. plan'.scope = scope /\ UNCHANGED <<db, tx>> /\ tx.pc = "idle"
    BY <1>2 DEF MakePlan, BuildPlan
  <2> QED  BY <2>1 DEF CleanupInv, TransactionInv
<1>3. CASE BeginSweep \/ BeginPurge
  BY <1>3, BeginKeeps
<1>4. CASE Step
  BY <1>4, StepKeeps
<1>5. CASE Fail \/ Kill
  <2>1. tx'.pc = "idle" /\ UNCHANGED <<db, plan>>
    BY <1>5 DEF Fail, Kill, Idle
  <2> QED  BY <2>1 DEF CleanupInv, TransactionInv
<1>6. CASE Commit
  BY <1>6, CommitKeeps
<1> QED  BY <1>1, <1>2, <1>3, <1>4, <1>5, <1>6 DEF Next

\* The invariant of Cleanup holds in every behaviour.
LEMMA CleanupInductive == PartsSpec => []CleanupInv
<1>1. PartsInit => CleanupInv
  BY CleanupInitially DEF PartsInit
<1>2. CleanupInv /\ [PartsNext]_<<part, vars, openingVars, pagingVars>> => CleanupInv'
  <2>1. CleanupInv /\ UNCHANGED vars => CleanupInv'
    BY DEF vars, CleanupInv, TransactionInv
  <2> QED  BY <2>1, CleanupStep DEF PartsNext
<1> QED  BY <1>1, <1>2, PTL DEF PartsSpec

\* RET-FR-02, RET-FR-05: a sweep or a purge happens at once or not at all,
\* whichever statement fails and wherever the process dies (Cleanup).
THEOREM CleanupAtOnce == PartsSpec => ImplementsPromise
<1>1. PartsInit => Promise!Init
  BY DEF PartsInit, Init, Promise!Init
<1>2. CleanupInv /\ [PartsNext]_<<part, vars, openingVars, pagingVars>> => [Promise!Next]_db
  <2> SUFFICES ASSUME CleanupInv, [PartsNext]_<<part, vars, openingVars, pagingVars>>, db' # db
               PROVE  Promise!Next
    OBVIOUS
  <2>1. Next
    BY DEF PartsNext, vars
  <2>2. Change \/ Commit
    BY <2>1 DEF Next, MakePlan, BeginSweep, BeginPurge, Step, Fail, Kill
  <2>3. db' \in Grown(db) \/ db' = Swept(db) \/ \E scope \in Scope : db' = Purged(scope, db)
    BY <2>2, CommitKeeps DEF Change
  <2> QED  BY <2>3 DEF Promise!Next
<1> QED  BY <1>1, <1>2, CleanupInductive, PTL DEF PartsSpec, ImplementsPromise, Promise!Spec

-----------------------------------------------------------------------------
(***************************************************************************)
(* Cleanup: no plan is executed twice.  A plan has the rows that it was    *)
(* made of, and an executed plan leaves its event among them; so plans can *)
(* be dated, each later than those whose events it has seen, and the       *)
(* event of the latest is always there.                                    *)
(***************************************************************************)
Dated(date) ==
    /\ \A k \in db.rows : NamesPlan(k) => k[2] \in DOMAIN executed
    /\ \A p \in DOMAIN executed : \A k \in p.fingerprint[1] :
          NamesPlan(k) => k[2] \in DOMAIN executed /\ date[k[2]] < date[p]
    /\ DOMAIN executed # {} =>
          \E last \in DOMAIN executed :
              PurgeEvent(last) \in db.rows /\ \A p \in DOMAIN executed : date[p] <= date[last]

OnceInv ==
    /\ \A k \in db.stale : ~NamesPlan(k)
    /\ db.old \subseteq db.stale
    /\ tx.pc = "purge" => plan = BuildPlan(plan.scope, db)
    /\ \A p \in DOMAIN executed : executed[p] = 1 /\ NamesPlan(PurgeEvent(p))
    /\ \E date \in [DOMAIN executed -> Nat] : Dated(date)

\* What a plan is named by, and what names no plan.
LEMMA PlanNames ==
    /\ \A p : PurgeEvent(p)[2] = p
    /\ \A scope, base : BuildPlan(scope, base).fingerprint[1] = base.rows
    /\ \A scope, base : NamesPlan(PurgeEvent(BuildPlan(scope, base)))
    /\ ~NamesPlan(SweepEvent)
    /\ \A t : \A i \in Id : ~NamesPlan(<<t, i>>)
<1>1. \A p : PurgeEvent(p)[2] = p
  BY DEF PurgeEvent
<1>2. \A scope, base : BuildPlan(scope, base).fingerprint[1] = base.rows
  BY DEF BuildPlan
<1>3. \A scope, base : NamesPlan(PurgeEvent(BuildPlan(scope, base)))
  <2>1. \A scope, base : "fingerprint" \in DOMAIN BuildPlan(scope, base)
    BY DEF BuildPlan
  <2> QED  BY <1>1, <2>1 DEF NamesPlan
<1>4. ~NamesPlan(SweepEvent)
  <2>1. SweepEvent[2] = NoPlan
    BY DEF SweepEvent
  <2>2. "fingerprint" \notin DOMAIN NoPlan
    BY DEF NoPlan
  <2> QED  BY <2>1, <2>2 DEF NamesPlan
<1>5. \A t : \A i \in Id : ~NamesPlan(<<t, i>>)
  <2> SUFFICES ASSUME NEW t, NEW n PROVE ~NamesPlan(<<t, [id |-> n]>>)
    BY DEF Id
  <2> DEFINE i == [id |-> n]
  <2>1. "fingerprint" \notin DOMAIN i
    OBVIOUS
  <2> HIDE DEF i
  <2>2. <<t, i>>[2] = i
    OBVIOUS
  <2> QED  BY <2>1, <2>2 DEF NamesPlan, i
<1> QED  BY <1>1, <1>2, <1>3, <1>4, <1>5

\* The event of a purge is not of those that a sweep takes.
LEMMA SweptRows ==
    ASSUME NEW base, Cleanable(base), base.old \subseteq base.stale, \A k \in base.stale : ~NamesPlan(k)
    PROVE  /\ Swept(base).stale = base.stale /\ Swept(base).old = base.old
           /\ Swept(base).rows \subseteq base.rows \union {SweepEvent}
           /\ \A p : PurgeEvent(p) \in base.rows /\ NamesPlan(PurgeEvent(p)) => PurgeEvent(p) \in Swept(base).rows
<1> DEFINE redacted == Redacted(base)
           removed == Removed(base)
           given == [k \in DOMAIN base.text |-> IF k \in redacted THEN "expired" ELSE base.text[k]]
<1>1. Overwrite(base, redacted, "expired") =
        Fields6(base.rows, given, base.described, Trigger, base.stale, base.old)
  BY OverwriteFields
<1>2. Swept(base) = Insert1(Delete(Overwrite(base, redacted, "expired"), removed), SweepEvent)
  BY DEF Swept
<1> HIDE DEF given, redacted
<1>3. Delete(Fields6(base.rows, given, base.described, Trigger, base.stale, base.old), removed) =
        Fields6(base.rows \ removed, Without(given, removed), base.described \ removed,
                Trigger, base.stale, base.old)
  BY DeleteFields
<1>4. Swept(base) = Fields6((base.rows \ removed) \union {SweepEvent}, Without(given, removed),
                            base.described \ removed, Trigger, base.stale, base.old)
  BY <1>1, <1>2, <1>3, InsertFields
<1>5. /\ Swept(base).stale = base.stale /\ Swept(base).old = base.old
      /\ Swept(base).rows = (base.rows \ removed) \union {SweepEvent}
  BY <1>4 DEF Fields6
<1>6. ASSUME NEW p, NamesPlan(PurgeEvent(p)) PROVE PurgeEvent(p) \notin Removed(base)
  <2>1. Table(PurgeEvent(p)) = "audit_events"
    BY DEF PurgeEvent, Table
  <2>2. PurgeEvent(p) \notin RemovedOwners(base)
    BY <2>1 DEF RemovedOwners, Owners
  <2>3. Refers(PurgeEvent(p)) = {}
    BY <2>1 DEF Refers
  <2>4. PurgeEvent(p) \notin Children(base)
    BY <2>3 DEF Children, Owned
  <2>5. PurgeEvent(p) \notin OwnAge(base)
    BY <1>6 DEF OwnAge
  <2> QED  BY <2>2, <2>4, <2>5 DEF Removed
<1> QED  BY <1>5, <1>6

\* Nothing but its own event is new after a purge.
LEMMA PurgedRows ==
    ASSUME NEW base, Cleanable(base), NEW scope
    PROVE  LET e == PurgeEvent(BuildPlan(scope, base))
           IN  /\ Purged(scope, base).stale = base.stale /\ Purged(scope, base).old = base.old
               /\ Purged(scope, base).rows \subseteq base.rows \union {e}
               /\ e \in Purged(scope, base).rows
<1> DEFINE e == PurgeEvent(BuildPlan(scope, base))
           none == {}
<1>1. \A x : x \notin none
  OBVIOUS
<1> HIDE DEF none
<1>2. \E gone, texts, fields : Purged(scope, base) = Outcome(base, gone, none, texts, fields, e)
  <2>1. CASE scope = "all"
    <3> DEFINE gone == Texts("all", base) \union Fields("all", base) \union Ids("all", base)
    <3>1. Purged("all", base) = Outcome(base, gone, none, none, none, PurgeEvent(BuildPlan("all", base)))
      BY <1>1, PurgedAll
    <3> HIDE DEF gone
    <3> QED  BY <2>1, <3>1
  <2>2. CASE scope # "all"
    <3>1. Purged(scope, base) = Outcome(base, Ids(scope, base), none, Texts(scope, base), Fields(scope, base), e)
      BY <1>1, <2>2, PurgedPart
    <3> QED  BY <3>1
  <2> QED  BY <2>1, <2>2
<1> HIDE DEF e
<1>3. ASSUME NEW gone, NEW texts, NEW fields
      PROVE  LET after == Outcome(base, gone, none, texts, fields, e)
             IN  /\ after.stale = base.stale /\ after.old = base.old
                 /\ after.rows = (base.rows \ gone) \union {e}
  BY DEF Outcome, Fields6
<1>4. /\ Purged(scope, base).stale = base.stale /\ Purged(scope, base).old = base.old
      /\ Purged(scope, base).rows \subseteq base.rows \union {e}
      /\ e \in Purged(scope, base).rows
  BY <1>2, <1>3
<1> QED  BY <1>4 DEF e

\* The first state: nothing was executed, no row is the event of a purge.
LEMMA OnceInitially == Init => OnceInv
<1> SUFFICES ASSUME Init PROVE OnceInv
  OBVIOUS
<1>1. db \in Databases /\ executed = <<>> /\ tx = Idle
  BY DEF Init
<1>2. /\ db.old \subseteq db.stale /\ \A k \in db.rows \union db.stale : ~NamesPlan(k)
  BY <1>1, InputAssumption
<1>3. DOMAIN executed = {}
  BY <1>1
<1>4. tx.pc # "purge"
  BY <1>1 DEF Idle
<1>5. \E date \in [DOMAIN executed -> Nat] : Dated(date)
  <2> DEFINE date == [p \in DOMAIN executed |-> 0]
  <2>1. date \in [DOMAIN executed -> Nat]
    OBVIOUS
  <2>2. Dated(date)
    BY <1>2, <1>3 DEF Dated
  <2> QED  BY <2>1, <2>2
<1> QED  BY <1>2, <1>3, <1>4, <1>5 DEF OnceInv

\* A step that executes nothing and keeps the events of purges.
LEMMA OnceKept ==
    ASSUME OnceInv, UNCHANGED executed, tx'.pc = "purge" => plan' = BuildPlan(plan'.scope, db'),
           db'.stale = db.stale, db'.old = db.old,
           \A k \in db'.rows \ db.rows : ~NamesPlan(k),
           \A p \in DOMAIN executed : PurgeEvent(p) \in db.rows => PurgeEvent(p) \in db'.rows
    PROVE  OnceInv'
<1>1. PICK date \in [DOMAIN executed -> Nat] : Dated(date)
  BY DEF OnceInv
<1>2. /\ \A k \in db'.rows : NamesPlan(k) => k[2] \in DOMAIN executed
      /\ DOMAIN executed # {} =>
          \E last \in DOMAIN executed :
              PurgeEvent(last) \in db'.rows /\ \A p \in DOMAIN executed : date[p] <= date[last]
  BY <1>1 DEF Dated
<1>3. Dated(date)'
  BY <1>1, <1>2 DEF Dated
<1> QED  BY <1>1, <1>3 DEF OnceInv

\* A purge that commits: its plan is a new one, and the latest.
LEMMA OnceExecuted ==
    ASSUME CleanupInv, OnceInv, Commit, tx.pc = "purge"
    PROVE  OnceInv'
<1> DEFINE e == PurgeEvent(plan)
           D == DOMAIN executed
<1>1. /\ plan = BuildPlan(plan.scope, db) /\ plan.scope \in Scope
      /\ Cleanable(db) /\ Shaped(tx.base) /\ Final(tx.todo, tx.base) = Purged(plan.scope, db)
  BY DEF CleanupInv, TransactionInv, OnceInv
<1>2. db' = Purged(plan.scope, db) /\ tx' = Idle /\ plan' = plan
  BY <1>1, NothingLeft DEF Commit
<1>3. /\ db'.stale = db.stale /\ db'.old = db.old
      /\ db'.rows \subseteq db.rows \union {e} /\ e \in db'.rows
  BY <1>1, <1>2, PurgedRows
<1>4. e[2] = plan /\ plan.fingerprint[1] = db.rows /\ NamesPlan(e)
  BY <1>1, PlanNames
<1>5. PICK date \in [D -> Nat] : Dated(date)
  BY DEF OnceInv
<1>6. plan \notin D
  <2> SUFFICES ASSUME plan \in D PROVE FALSE
    OBVIOUS
  <2>1. PICK last \in D : PurgeEvent(last) \in db.rows /\ \A p \in D : date[p] <= date[last]
    BY <1>5 DEF Dated
  <2>2. PurgeEvent(last)[2] = last
    BY PlanNames
  <2>3. NamesPlan(PurgeEvent(last))
    BY <2>1 DEF OnceInv
  <2>4. date[last] < date[plan]
    BY <1>4, <1>5, <2>1, <2>2, <2>3 DEF Dated
  <2> QED  BY <1>5, <2>1, <2>4
<1>7. executed' = [p \in D \union {plan} |-> Times(p) + IF p = plan THEN 1 ELSE 0]
  BY DEF Commit
<1>8. \A p \in DOMAIN executed' : executed'[p] = 1 /\ NamesPlan(PurgeEvent(p))
  <2>1. \A p \in D : Times(p) = 1
    BY DEF OnceInv, Times
  <2>2. Times(plan) = 0
    BY <1>6 DEF Times
  <2>3. \A p \in D \union {plan} : NamesPlan(PurgeEvent(p))
    BY <1>4 DEF OnceInv
  <2> QED  BY <1>6, <1>7, <2>1, <2>2, <2>3
<1>9. DOMAIN executed' = D \union {plan}
  BY <1>7
<1>10. PICK top \in Nat : \A p \in D : date[p] < top
  <2>1. CASE D = {}
    BY <2>1
  <2>2. CASE D # {}
    <3>1. PICK last \in D : \A p \in D : date[p] <= date[last]
      BY <1>5, <2>2 DEF Dated
    <3>2. date[last] + 1 \in Nat /\ \A p \in D : date[p] < date[last] + 1
      BY <1>5, <3>1
    <3> QED  BY <3>2
  <2> QED  BY <2>1, <2>2
<1>11. PICK later \in [D \union {plan} -> Nat] : later[plan] = top /\ \A p \in D : later[p] = date[p]
  <2> DEFINE f == [p \in D \union {plan} |-> IF p = plan THEN top ELSE date[p]]
  <2>1. f \in [D \union {plan} -> Nat] /\ f[plan] = top /\ \A p \in D : f[p] = date[p]
    BY <1>5, <1>6
  <2> QED  BY <2>1
<1> HIDE DEF D, e
<1>12. \A k \in db'.rows : NamesPlan(k) => k[2] \in D \union {plan}
  BY <1>3, <1>4, <1>5 DEF Dated, D
<1>13. \A p \in D \union {plan} : \A k \in p.fingerprint[1] :
          NamesPlan(k) => k[2] \in D \union {plan} /\ later[k[2]] < later[p]
  <2>1. ASSUME NEW p \in D, NEW k \in p.fingerprint[1], NamesPlan(k)
        PROVE  k[2] \in D /\ later[k[2]] < later[p]
    BY <1>5, <1>11, <2>1 DEF Dated, D
  <2>2. ASSUME NEW k \in plan.fingerprint[1], NamesPlan(k)
        PROVE  k[2] \in D /\ later[k[2]] < later[plan]
    BY <1>4, <1>5, <1>10, <1>11, <2>2 DEF Dated, D
  <2> QED  BY <2>1, <2>2
<1>14. e \in db'.rows /\ \A p \in D \union {plan} : later[p] <= later[plan]
  BY <1>3, <1>5, <1>10, <1>11
<1>15. Dated(later)'
  BY <1>9, <1>12, <1>13, <1>14 DEF Dated, e
<1>16. tx'.pc # "purge"
  BY <1>2 DEF Idle
<1>17. (\A k \in db.stale : ~NamesPlan(k)) /\ db.old \subseteq db.stale
  BY DEF OnceInv
<1>18. \E f \in [DOMAIN executed -> Nat]' : Dated(f)'
  BY <1>9, <1>11, <1>15
<1> QED  BY <1>3, <1>8, <1>16, <1>17, <1>18 DEF OnceInv

\* Every step of Cleanup.
LEMMA OnceStep == CleanupInv /\ OnceInv /\ Next => OnceInv'
<1> SUFFICES ASSUME CleanupInv, OnceInv, Next PROVE OnceInv'
  OBVIOUS
<1>1. CASE Change
  <2>1. PICK k \in NewRows(db) : db' = Insert1(db, k)
    BY <1>1 DEF Change, Grown
  <2>2. ~NamesPlan(k)
    BY PlanNames DEF NewRows
  <2>3. db = Fields6(db.rows, db.text, db.described, db.triggers, db.stale, db.old)
    BY DEF CleanupInv, Cleanable, Shaped, Fields6
  <2>4. db' = Fields6(db.rows \union {k}, db.text, db.described, db.triggers, db.stale, db.old)
    BY <2>1, <2>3, InsertFields
  <2>5. db'.rows = db.rows \union {k} /\ db'.stale = db.stale /\ db'.old = db.old
    BY <2>4 DEF Fields6
  <2>6. tx'.pc # "purge" /\ UNCHANGED executed
    BY <1>1 DEF Change
  <2> QED  BY <2>2, <2>5, <2>6, OnceKept
<1>2. ASSUME NEW scope \in Scope, MakePlan(scope) PROVE OnceInv'
  <2>1. tx'.pc # "purge" /\ UNCHANGED <<db, executed>>
    BY <1>2 DEF MakePlan
  <2> QED  BY <2>1, OnceKept
<1>3. CASE BeginSweep
  <2>1. tx'.pc # "purge" /\ UNCHANGED <<db, executed>>
    BY <1>3 DEF BeginSweep
  <2> QED  BY <2>1, OnceKept
<1>4. CASE BeginPurge
  <2>1. UNCHANGED <<db, plan, executed>>
    BY <1>4 DEF BeginPurge
  <2>2. tx'.pc = "purge" => plan = BuildPlan(plan.scope, db)
    BY <1>4 DEF BeginPurge, Current
  <2> QED  BY <2>1, <2>2, OnceKept
<1>5. CASE Step
  <2>1. UNCHANGED <<db, plan, executed>>
    BY <1>5 DEF Step
  <2>2. tx'.pc = tx.pc
    <3>1. tx.pc # "idle" /\ \E i \in DOMAIN tx.todo : \E k \in tx.todo[i].rows : Runs(i, k)
      BY <1>5 DEF Step
    <3>2. tx = [pc |-> tx.pc, base |-> tx.base, todo |-> tx.todo, counts |-> tx.counts]
      BY <3>1 DEF CleanupInv, TransactionInv
    <3>3. PICK i \in DOMAIN tx.todo : \E k \in tx.todo[i].rows : Runs(i, k)
      BY <3>1
    <3>4. PICK k \in tx.todo[i].rows : Runs(i, k)
      BY <3>3
    <3> DEFINE s == <<tx.todo[i].op, k>>
               x == Rest(tx.todo, i, k)
               y == Effect(s, tx.base)
               z == Counted(tx.counts, s)
    <3>5. tx' = [tx EXCEPT !.todo = x, !.base = y, !.counts = z]
      BY <3>4 DEF Runs
    <3> HIDE DEF x, y, z
    <3> QED  BY <3>2, <3>5
  <2>3. tx'.pc = "purge" => plan = BuildPlan(plan.scope, db)
    BY <2>2 DEF OnceInv
  <2> QED  BY <2>1, <2>3, OnceKept
<1>6. CASE Fail \/ Kill
  <2>1. tx'.pc # "purge" /\ UNCHANGED <<db, executed>>
    BY <1>6 DEF Fail, Kill, Idle
  <2> QED  BY <2>1, OnceKept
<1>7. CASE Commit
  <2>1. CASE tx.pc = "purge"
    BY <1>7, <2>1, OnceExecuted
  <2>2. CASE tx.pc # "purge"
    <3>1. tx.pc = "sweep" /\ Cleanable(db) /\ Shaped(tx.base) /\ Final(tx.todo, tx.base) = Swept(db)
      BY <1>7, <2>2 DEF CleanupInv, TransactionInv, Commit
    <3>2. db' = Swept(db) /\ tx'.pc # "purge" /\ UNCHANGED executed
      BY <1>7, <2>2, <3>1, NothingLeft DEF Commit, Idle
    <3>3. /\ db'.stale = db.stale /\ db'.old = db.old
          /\ db'.rows \subseteq db.rows \union {SweepEvent}
          /\ \A p : PurgeEvent(p) \in db.rows /\ NamesPlan(PurgeEvent(p)) => PurgeEvent(p) \in db'.rows
      BY <3>1, <3>2, SweptRows DEF OnceInv
    <3>4. \A p \in DOMAIN executed : NamesPlan(PurgeEvent(p))
      BY DEF OnceInv
    <3> QED  BY <3>2, <3>3, <3>4, PlanNames, OnceKept
  <2> QED  BY <2>1, <2>2
<1> QED  BY <1>1, <1>2, <1>3, <1>4, <1>5, <1>6, <1>7 DEF Next

\* A confirmed plan is executed at most once, also by a process that was killed
\* and began again with an empty memory (Cleanup, PurgeExecutor::execute).
THEOREM ExecutedOnce == PartsSpec => []PlanExecutedOnce
<1>1. PartsInit => OnceInv
  BY OnceInitially DEF PartsInit
<1>2. CleanupInv /\ OnceInv /\ [PartsNext]_<<part, vars, openingVars, pagingVars>> => OnceInv'
  <2> SUFFICES ASSUME CleanupInv, OnceInv, [PartsNext]_<<part, vars, openingVars, pagingVars>>
               PROVE  OnceInv'
    OBVIOUS
  <2>1. CASE Next
    BY <2>1, OnceStep
  <2>2. CASE UNCHANGED vars
    <3>1. UNCHANGED <<db, plan, tx, executed>>
      BY <2>2 DEF vars
    <3>2. tx'.pc = "purge" => plan = BuildPlan(plan.scope, db)
      BY <3>1 DEF OnceInv
    <3> QED  BY <3>1, <3>2, OnceKept
  <2> QED  BY <2>1, <2>2 DEF PartsNext
<1>3. OnceInv => PlanExecutedOnce
  BY DEF OnceInv, PlanExecutedOnce
<1> QED  BY <1>1, <1>2, <1>3, CleanupInductive, PTL DEF PartsSpec
=============================================================================
