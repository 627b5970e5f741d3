---------------------------- MODULE DataDir_proofs ----------------------------
(***************************************************************************)
(* The promises about the data directory, for any number of pages, models, *)
(* lists, archives and commits.                                            *)
(***************************************************************************)
EXTENDS DataDir, FiniteSetTheorems, TLAPS

\* The database and its log.
LEMMA ReadTyped ==
  ASSUME NEW m \in Dumps, NEW w \in Frames
  PROVE  Read(m, w) \in Dumps /\ DOMAIN w \in SUBSET Pages
<1>1. PICK P \in SUBSET Pages : w \in [P -> 1..MaxCommits]
  BY DEF Frames
<1>2. QED
  BY <1>1, DataDirAssumption DEF Read, Dumps, DataDirAssumption

\* Over an empty log a connection reads the database file.
LEMMA EmptyLog ==
  ASSUME NEW m \in Dumps
  PROVE  <<>> \in Frames /\ Read(m, <<>>) = m
<1>1. <<>> \in [{} -> 1..MaxCommits] /\ DOMAIN <<>> = {}
  OBVIOUS
<1>2. QED
  BY <1>1 DEF Read, Dumps, Frames

\* A commit of pages P puts them into the log.
LEMMA LogGrows ==
  ASSUME NEW w \in Frames, NEW P \in SUBSET Pages, NEW n \in 1..MaxCommits
  PROVE  [p \in P \cup DOMAIN w |-> IF p \in P THEN n ELSE w[p]] \in Frames
<1>1. PICK Q \in SUBSET Pages : w \in [Q -> 1..MaxCommits]
  BY DEF Frames
<1>2. [p \in P \cup DOMAIN w |-> IF p \in P THEN n ELSE w[p]] \in [P \cup Q -> 1..MaxCommits]
  BY <1>1
<1>3. QED
  BY <1>2 DEF Frames

\* An empty data directory.
LEMMA InitDataInv == Init => DataInv
<1> SUFFICES ASSUME Init PROVE DataInv
  OBVIOUS
<1>1. NoPages \in Dumps
  BY DataDirAssumption DEF NoPages, Dumps, DataDirAssumption
<1>2. wal \in Frames /\ LogComplete
  BY <1>1, EmptyLog DEF Init, LogComplete
<1>3. TypeOK
  <2>1. [f \in Files |-> "none"] \in Contents /\ NoDump \in Copies
    BY <1>1 DEF Contents, NoDump, Copies
  <2>2. NoArchive \in Archives
    BY <2>1 DEF NoArchive, Archives
  <2>3. /\ main \in Dumps /\ last \in Dumps /\ models \in Contents /\ dump \in Copies
        /\ dirs \in SUBSET {"ca", "models"}
    BY <1>1, <2>1 DEF Init
  <2>4. archives \in [Stamps -> Archives]
    BY <2>2 DEF Init
  <2>5. /\ stamp \in 0..MaxStamp /\ restoring \in 0..MaxStamp /\ commits \in 0..MaxCommits
        /\ tries \in 0..3
    BY DataDirAssumption DEF Init, DataDirAssumption
  <2>6. /\ updater = "off" /\ scope \in SUBSET Files /\ once \in BOOLEAN
        /\ todo \in SUBSET Files /\ current \in Files \cup {Nothing} /\ clean \in BOOLEAN
        /\ errors \in SUBSET Checked /\ replaced \in BOOLEAN
    BY DEF Init
  <2>7. engine = "up" /\ job = "idle" /\ wal \in Frames
    BY <1>2 DEF Init
  <2>8. QED
    BY <2>3, <2>4, <2>5, <2>6, <2>7 DEF TypeOK
<1>4. ArchiveOfJob /\ ModelsAccounted
  BY DEF Init, ArchiveOfJob, ModelsAccounted, NoArchive, Running
<1>5. QED
  BY <1>2, <1>3, <1>4 DEF DataInv

-----------------------------------------------------------------------------
(* One lemma for each program, each for one conjunct of the invariant or   *)
(* for those that the program does not disturb.                            *)

\* Steps that leave the archives, the backup command and the updater alone.
LEMMA OtherFrame ==
  ASSUME ArchiveOfJob, ModelsAccounted,
         UNCHANGED <<archives, stamp, job>>, UNCHANGED updaterVars, UNCHANGED models,
         UNCHANGED replaced
  PROVE  ArchiveOfJob' /\ ModelsAccounted'
BY DEF ArchiveOfJob, ModelsAccounted, Running, updaterVars

\* A commit goes to the log, and is what a connection reads from then on.
LEMMA CommitStep ==
  ASSUME DataInv, NEW P \in (SUBSET Pages) \ {{}}, Commit(P) PROVE DataInv'
<1>1. commits + 1 \in 1..MaxCommits /\ wal' \in Frames
  <2>1. commits + 1 \in 1..MaxCommits
    BY DataDirAssumption DEF DataInv, TypeOK, Commit, DataDirAssumption
  <2>2. wal \in Frames /\ P \in SUBSET Pages
    BY DEF DataInv, TypeOK
  <2>3. QED
    BY <2>1, <2>2, LogGrows DEF Commit
<1>2. last' \in Dumps /\ LogComplete'
  <2>1. last = [p \in Pages |-> IF p \in DOMAIN wal THEN wal[p] ELSE main[p]]
    BY DEF DataInv, LogComplete, Read
  <2>2. last' = [p \in Pages |-> IF p \in P THEN commits + 1 ELSE last[p]]
    BY DEF Commit
  <2>3. Read(main', wal') = last'
    BY <2>1, <2>2 DEF Commit, Read
  <2>4. QED
    BY <1>1, <2>3, ReadTyped DEF DataInv, TypeOK, Commit, LogComplete
<1>3. TypeOK'
  BY <1>1, <1>2, DataDirAssumption
  DEF DataInv, TypeOK, Commit, SameButEngine, backupVars, updaterVars, DataDirAssumption
<1>4. QED
  BY <1>2, <1>3, OtherFrame DEF DataInv, Commit, SameButEngine, backupVars

\* A checkpoint moves pages from the log to the file; what is read stays the same.
LEMMA FlushKeeps ==
  ASSUME DataInv, Flush, UNCHANGED last
  PROVE  main' \in Dumps /\ wal' \in Frames /\ LogComplete'
<1>1. main \in Dumps /\ wal \in Frames /\ main' = Read(main, wal) /\ wal' = <<>>
  BY DEF DataInv, TypeOK, Flush
<1>2. QED
  BY <1>1, ReadTyped, EmptyLog DEF DataInv, LogComplete

\* The other steps of the API and of SQLite.
LEMMA EngineStep ==
  ASSUME DataInv, Checkpoint \/ Stop \/ Start \/ MakeCA PROVE DataInv'
<1>1. main' \in Dumps /\ wal' \in Frames /\ LogComplete'
  <2>1. CASE Flush /\ UNCHANGED last
    BY <2>1, FlushKeeps
  <2>2. CASE UNCHANGED <<main, wal, last>>
    BY <2>2 DEF DataInv, TypeOK, LogComplete
  <2>3. QED
    BY <2>1, <2>2 DEF Checkpoint, Stop, Start, MakeCA, dbVars, history
<1>2. TypeOK'
  BY <1>1 DEF DataInv, TypeOK, Checkpoint, Stop, Start, MakeCA, SameButEngine, dbVars,
       backupVars, updaterVars, history
<1>3. ArchiveOfJob' /\ ModelsAccounted'
  BY OtherFrame DEF DataInv, Checkpoint, Stop, Start, MakeCA, SameButEngine, backupVars,
       history
<1>4. QED
  BY <1>1, <1>2, <1>3 DEF DataInv

-----------------------------------------------------------------------------
(* The backup command.                                                     *)

\* What a new archive looks like.
LEMMA Blank ==
  /\ NoDump \in Copies /\ NoArchive \in Archives
  /\ [NoArchive EXCEPT !.state = "partial"] \in Archives
  /\ [NoArchive EXCEPT !.state = "partial"].state = "partial"
  /\ NoArchive.state = "none"
<1>1. NoPages \in Dumps
  BY DataDirAssumption DEF NoPages, Dumps, DataDirAssumption
<1>2. NoDump \in Copies /\ [f \in Files |-> "none"] \in Contents
  BY <1>1 DEF NoDump, Copies, Contents
<1>3. QED
  BY <1>2 DEF NoArchive, Archives

\* Writing the archive under the stamp of this run leaves the others alone.
LEMMA PutIs ==
  ASSUME archives \in [Stamps -> Archives], stamp' \in Stamps, NEW a \in Archives, Put(a)
  PROVE  /\ archives' \in [Stamps -> Archives]
         /\ archives'[stamp'] = a
         /\ \A s \in Stamps : s # stamp' => archives'[s] = archives[s]
BY DEF Put

\* What is left to be shown of a step of the backup command.
LEMMA BackupFrame ==
  ASSUME DataInv, SameButBackup, LogComplete', ArchiveOfJob',
         main' \in Dumps, wal' \in Frames, archives' \in [Stamps -> Archives],
         stamp' \in 0..MaxStamp, job' \in {"idle", "log", "rest", "prune"}, dump' \in Copies
  PROVE  DataInv'
<1>1. TypeOK'
  BY DEF DataInv, TypeOK, SameButBackup, updaterVars, history
<1>2. ModelsAccounted'
  BY DEF DataInv, ModelsAccounted, Running, SameButBackup, updaterVars, history
<1>3. QED
  BY <1>1, <1>2 DEF DataInv

\* The database is as it was, unless the command was the last to close it.
LEMMA SameDatabase ==
  ASSUME DataInv, UNCHANGED last, UNCHANGED <<main, wal>> \/ Flush
  PROVE  main' \in Dumps /\ wal' \in Frames /\ LogComplete'
<1>1. CASE UNCHANGED <<main, wal>>
  BY <1>1 DEF DataInv, TypeOK, LogComplete
<1>2. QED
  BY <1>1, FlushKeeps

\* A snapshot opens a new archive under a new stamp.
LEMMA OpensStep ==
  ASSUME DataInv, Opens, job' \in {"log", "rest"}
  PROVE  /\ archives' \in [Stamps -> Archives] /\ stamp' \in 0..MaxStamp
         /\ ArchiveOfJob'
<1>1. stamp' \in Stamps /\ stamp \in 0..MaxStamp /\ stamp' = stamp + 1
  BY DataDirAssumption DEF DataInv, TypeOK, Opens, Stamps, DataDirAssumption
<1>2. /\ archives' \in [Stamps -> Archives]
      /\ archives'[stamp'] = [NoArchive EXCEPT !.state = "partial"]
      /\ \A s \in Stamps : s # stamp' => archives'[s] = archives[s]
  BY <1>1, Blank, PutIs DEF DataInv, TypeOK, Opens
<1>3. \A s \in Stamps : s > stamp' => archives'[s].state = "none"
  BY <1>1, <1>2, DataDirAssumption DEF DataInv, ArchiveOfJob, Stamps, DataDirAssumption
<1>4. QED
  BY <1>1, <1>2, <1>3, Blank DEF ArchiveOfJob, Stamps

\* The beginning of a snapshot, by either way of copying.
LEMMA SnapshotStep ==
  ASSUME DataInv, Snapshot \/ SnapshotLive PROVE DataInv'
<1>1. UNCHANGED last /\ SameButBackup
  BY DEF Snapshot, SnapshotLive, SameButBackup, history
<1>2. Opens /\ job' \in {"log", "rest"} /\ (UNCHANGED <<main, wal>> \/ Flush)
  BY DEF Snapshot, SnapshotLive
<1>3. dump' \in Copies
  <2>1. main \in Dumps /\ Read(main, wal) \in Dumps
    BY ReadTyped DEF DataInv, TypeOK
  <2>2. \A d \in Dumps : /\ [NoDump EXCEPT !.pages = d] \in Copies
                         /\ [NoDump EXCEPT !.live = TRUE, !.pages = d] \in Copies
    BY Blank DEF Copies
  <2>3. QED
    BY <2>1, <2>2 DEF Snapshot, SnapshotLive, Copy
<1>4. QED
  BY <1>1, <1>2, <1>3, OpensStep, SameDatabase, BackupFrame

\* The error of a snapshot with nothing to archive.
LEMMA RefusedStep ==
  ASSUME DataInv, SnapshotRefused PROVE DataInv'
<1>1. UNCHANGED <<last, archives, stamp, job, dump>> /\ SameButBackup
  BY DEF SnapshotRefused, SameButBackup, history
<1>2. ArchiveOfJob' /\ (UNCHANGED <<main, wal>> \/ Flush)
  BY <1>1 DEF DataInv, ArchiveOfJob, SnapshotRefused
<1>3. /\ archives' \in [Stamps -> Archives] /\ stamp' \in 0..MaxStamp
      /\ job' \in {"idle", "log", "rest", "prune"} /\ dump' \in Copies
  BY <1>1 DEF DataInv, TypeOK
<1>4. QED
  BY <1>1, <1>2, <1>3, SameDatabase, BackupFrame

\* Adding the log and the rest to the archive, or failing at that.
LEMMA CopyStep ==
  ASSUME DataInv, CopyLog \/ CopyRest \/ SnapshotFails PROVE DataInv'
<1>1. UNCHANGED last /\ SameButBackup /\ UNCHANGED <<main, wal>> /\ UNCHANGED stamp
  BY DEF CopyLog, CopyRest, SnapshotFails, SameButBackup, history
<1>2. stamp' \in Stamps /\ stamp \in 0..MaxStamp
  BY <1>1, DataDirAssumption
  DEF DataInv, TypeOK, ArchiveOfJob, CopyLog, CopyRest, SnapshotFails, Stamps, DataDirAssumption
<1>3. CASE CopyLog
  <2>1. Read(dump.pages, wal) \in Dumps
    BY ReadTyped DEF DataInv, TypeOK, Copies
  <2>2. dump' \in Copies
    BY <1>3, <2>1 DEF CopyLog, DataInv, TypeOK, Copies
  <2>3. archives' \in [Stamps -> Archives] /\ ArchiveOfJob'
    BY <1>3 DEF CopyLog, DataInv, TypeOK, ArchiveOfJob
  <2>4. QED
    BY <1>1, <1>2, <1>3, <2>2, <2>3, SameDatabase, BackupFrame DEF CopyLog
<1>4. CASE CopyRest
  <2>1. [state |-> "whole", dump |-> dump, models |-> Archived] \in Archives
    BY DEF DataInv, TypeOK, Archives, Archived, Contents
  <2>2. /\ archives' \in [Stamps -> Archives]
        /\ archives'[stamp] = [state |-> "whole", dump |-> dump, models |-> Archived]
        /\ \A s \in Stamps : s # stamp => archives'[s] = archives[s]
    BY <1>1, <1>2, <1>4, <2>1, PutIs DEF CopyRest, DataInv, TypeOK
  <2>3. ArchiveOfJob'
    BY <1>1, <1>2, <1>4, <2>2 DEF CopyRest, DataInv, ArchiveOfJob, Stamps
  <2>4. QED
    BY <1>1, <1>2, <1>4, <2>2, <2>3, Blank, SameDatabase, BackupFrame DEF CopyRest
<1>5. CASE SnapshotFails
  <2>1. /\ archives' \in [Stamps -> Archives]
        /\ archives'[stamp] = NoArchive
        /\ \A s \in Stamps : s # stamp => archives'[s] = archives[s]
    BY <1>1, <1>2, <1>5, Blank, PutIs DEF SnapshotFails, DataInv, TypeOK
  <2>2. ArchiveOfJob'
    BY <1>1, <1>2, <1>5, <2>1, Blank DEF SnapshotFails, DataInv, ArchiveOfJob, Stamps
  <2>3. QED
    BY <1>1, <1>2, <1>5, <2>1, <2>2, Blank, SameDatabase, BackupFrame DEF SnapshotFails
<1>6. QED
  BY <1>3, <1>4, <1>5

\* The end of a snapshot: being killed, or pruning the old ones.
LEMMA EndStep ==
  ASSUME DataInv, BackupKilled \/ Prune PROVE DataInv'
<1>1. UNCHANGED last /\ SameButBackup /\ UNCHANGED <<main, wal>> /\ UNCHANGED stamp /\ job' = "idle"
  BY DEF BackupKilled, Prune, SameButBackup, history
<1>2. archives' \in [Stamps -> Archives] /\ dump' \in Copies
  BY Blank DEF BackupKilled, Prune, DataInv, TypeOK
<1>3. ArchiveOfJob'
  <2>1. \A s \in Stamps : archives[s].state = "none" => archives'[s].state = "none"
    BY Blank DEF BackupKilled, Prune, DataInv, TypeOK
  <2>2. QED
    BY <1>1, <2>1 DEF DataInv, ArchiveOfJob
<1>4. QED
  BY <1>1, <1>2, <1>3, SameDatabase, BackupFrame DEF DataInv, TypeOK

-----------------------------------------------------------------------------
(* A restore.                                                              *)

\* A restore, which may be killed between its halves.
LEMMA RestoreStep ==
  ASSUME DataInv, Restoring PROVE DataInv'
<1>1. UNCHANGED <<engine, commits, dirs, archives, stamp, job, dump, updaterVars>>
  BY DEF Restoring, Restore, RestoreRest, RestoreKilled, SameButRestore, dbVars
<1>2. restoring' \in 0..MaxStamp
  BY DataDirAssumption
  DEF DataInv, TypeOK, Restoring, Restore, RestoreRest, RestoreKilled, Stamps, DataDirAssumption
<1>3. /\ main' \in Dumps /\ wal' \in Frames /\ last' \in Dumps /\ LogComplete'
      /\ models' \in Contents
  <2>1. ASSUME NEW d \in Copies, Extract(d)
        PROVE  main' \in Dumps /\ wal' \in Frames /\ last' \in Dumps /\ LogComplete'
    <3>1. main' \in Dumps /\ wal' \in Frames
      BY <2>1, EmptyLog DEF Extract, Copies, DataInv, TypeOK
    <3>2. QED
      BY <2>1, <3>1, ReadTyped DEF Extract, LogComplete
  <2>2. ASSUME NEW a \in Archives PROVE Over(a.models, models) \in Contents
    BY DEF Over, Archives, Contents, DataInv, TypeOK
  <2>3. CASE UNCHANGED <<main, wal, last, models>>
    BY <2>3 DEF DataInv, TypeOK, LogComplete
  <2>4. ASSUME NEW s \in Stamps,
               \/ Extract(archives[s].dump) /\ UNCHANGED models
               \/ models' = Over(archives[s].models, models) /\ UNCHANGED <<main, wal, last>>
        PROVE  /\ main' \in Dumps /\ wal' \in Frames /\ last' \in Dumps /\ LogComplete'
               /\ models' \in Contents
    <3>1. archives[s] \in Archives /\ archives[s].dump \in Copies
      BY DEF DataInv, TypeOK, Archives
    <3>2. CASE Extract(archives[s].dump) /\ UNCHANGED models
      BY <2>1, <3>1, <3>2 DEF DataInv, TypeOK
    <3>3. CASE models' = Over(archives[s].models, models) /\ UNCHANGED <<main, wal, last>>
      BY <2>2, <3>1, <3>3 DEF DataInv, TypeOK, LogComplete
    <3>4. QED
      BY <2>4, <3>2, <3>3
  <2>5. CASE \E s \in Stamps : Restore(s)
    BY <2>4, <2>5 DEF Restore
  <2>6. CASE RestoreRest
    <3>1. restoring \in Stamps
      BY <2>6, DataDirAssumption DEF RestoreRest, DataInv, TypeOK, Stamps, DataDirAssumption
    <3>2. QED
      BY <2>4, <2>6, <3>1 DEF RestoreRest
  <2>7. CASE RestoreKilled
    BY <2>3, <2>7 DEF RestoreKilled, dbVars, history
  <2>8. QED
    BY <2>5, <2>6, <2>7 DEF Restoring
<1>4. replaced' \in BOOLEAN /\ (Running /\ ~replaced' => UNCHANGED models)
  BY DEF DataInv, TypeOK, Restoring, Restore, RestoreRest, RestoreKilled, SameButRestore, history
<1>5. TypeOK'
  BY <1>1, <1>2, <1>3, <1>4 DEF DataInv, TypeOK, updaterVars
<1>6. ArchiveOfJob'
  BY <1>1 DEF DataInv, ArchiveOfJob
<1>7. ModelsAccounted'
  <2>1. Running /\ ~replaced' => ~replaced
    BY DEF Restoring, Restore, RestoreRest, RestoreKilled, SameButRestore, history, DataInv, TypeOK
  <2>2. QED
    BY <1>1, <1>4, <2>1 DEF DataInv, ModelsAccounted, Running, updaterVars
<1>8. QED
  BY <1>3, <1>5, <1>6, <1>7 DEF DataInv

-----------------------------------------------------------------------------
(* The updater.                                                            *)

\* What is left to be shown of a step of the updater.
LEMMA UpdaterFrame ==
  ASSUME DataInv, SameButUpdater, models' \in Contents, ModelsAccounted',
         dirs' \in SUBSET {"ca", "models"},
         updater' \in {"off", "run", "fetch", "sleep", "ok", "failed"},
         scope' \in SUBSET Files, once' \in BOOLEAN,
         todo' \in SUBSET Files, current' \in Files \cup {Nothing}, tries' \in 0..3,
         clean' \in BOOLEAN, errors' \in SUBSET Checked, replaced' \in BOOLEAN
  PROVE  DataInv'
<1>1. TypeOK' /\ LogComplete'
  BY DEF DataInv, TypeOK, LogComplete, SameButUpdater, dbVars, backupVars
<1>2. ArchiveOfJob'
  BY DEF DataInv, ArchiveOfJob, SameButUpdater, backupVars
<1>3. QED
  BY <1>1, <1>2 DEF DataInv

\* A cycle begins with every file of its scope to do.
LEMMA BeginStep ==
  ASSUME DataInv, UpdaterStarts \/ NextCycle PROVE DataInv'
<1>1. scope' \in SUBSET Files /\ once' \in BOOLEAN /\ Cycle(scope')
  BY DEF UpdaterStarts, NextCycle, Cycle, DataInv, TypeOK, Files
<1>2. ModelsAccounted'
  BY <1>1 DEF Cycle, ModelsAccounted, Running
<1>3. /\ models' \in Contents /\ SameButUpdater /\ dirs' \in SUBSET {"ca", "models"}
      /\ updater' \in {"off", "run", "fetch", "sleep", "ok", "failed"}
      /\ todo' \in SUBSET Files /\ current' \in Files \cup {Nothing} /\ tries' \in 0..3
      /\ clean' \in BOOLEAN /\ errors' \in SUBSET Checked /\ replaced' \in BOOLEAN
  <2>1. /\ dirs' = dirs /\ models' = models /\ SameButUpdater /\ updater' = "run" /\ todo' = scope'
        /\ current' = Nothing /\ tries' = 0 /\ clean' = TRUE /\ errors' = {}
        /\ replaced' = FALSE
    BY <1>1 DEF Cycle
  <2>2. models \in Contents /\ dirs \in SUBSET {"ca", "models"}
    BY DEF DataInv, TypeOK
  <2>3. models' \in Contents /\ dirs' \in SUBSET {"ca", "models"}
    BY <2>1, <2>2
  <2>4. /\ todo' \in SUBSET Files /\ tries' \in 0..3 /\ errors' \in SUBSET Checked
    BY <1>1, <2>1
  <2>5. /\ current' \in Files \cup {Nothing} /\ clean' \in BOOLEAN /\ replaced' \in BOOLEAN
        /\ updater' \in {"off", "run", "fetch", "sleep", "ok", "failed"}
    BY <1>1, <2>1
  <2>6. QED
    BY <2>1, <2>3, <2>4, <2>5
<1>4. QED
  BY <1>1, <1>2, <1>3, UpdaterFrame

\* It ends, one way or the other.
LEMMA OverStep ==
  ASSUME DataInv,
         CycleEnds \/ CycleFails \/ CycleBreaks \/ UpdaterKilled \/ UpdaterMisconfigured
  PROVE  DataInv'
<1>1. Reset /\ updater' \in {"off", "sleep", "ok", "failed"}
  BY DEF CycleEnds, CycleFails, CycleBreaks, UpdaterKilled, UpdaterMisconfigured, CycleOver, Exit
<1>2. scope' \in SUBSET Files /\ once' \in BOOLEAN
  BY DEF CycleEnds, CycleFails, CycleBreaks, UpdaterKilled, UpdaterMisconfigured, CycleOver, Exit,
         DataInv, TypeOK
<1>3. ModelsAccounted'
  BY <1>1 DEF Reset, ModelsAccounted, Running
<1>4. /\ models' \in Contents /\ SameButUpdater /\ dirs' \in SUBSET {"ca", "models"}
      /\ todo' \in SUBSET Files /\ current' \in Files \cup {Nothing} /\ tries' \in 0..3
      /\ clean' \in BOOLEAN /\ errors' \in SUBSET Checked /\ replaced' \in BOOLEAN
      /\ updater' \in {"off", "run", "fetch", "sleep", "ok", "failed"}
  <2>1. /\ dirs' = dirs /\ models' = models /\ SameButUpdater /\ todo' = {}
        /\ current' = Nothing /\ tries' = 0 /\ clean' = TRUE /\ errors' = {}
        /\ replaced' = FALSE
    BY <1>1 DEF Reset
  <2>2. models \in Contents /\ dirs \in SUBSET {"ca", "models"}
    BY DEF DataInv, TypeOK
  <2>3. models' \in Contents /\ dirs' \in SUBSET {"ca", "models"}
    BY <2>1, <2>2
  <2>4. /\ todo' \in SUBSET Files /\ tries' \in 0..3 /\ errors' \in SUBSET Checked
    BY <1>1, <2>1
  <2>5. /\ current' \in Files \cup {Nothing} /\ clean' \in BOOLEAN /\ replaced' \in BOOLEAN
        /\ updater' \in {"off", "run", "fetch", "sleep", "ok", "failed"}
    BY <1>1, <2>1
  <2>6. QED
    BY <2>1, <2>3, <2>4, <2>5
<1>5. QED
  BY <1>2, <1>3, <1>4, UpdaterFrame

\* The updater takes up a file, and looks at what is already there.
LEMMA DownloadStep ==
  ASSUME DataInv, NEW f \in Files, Download(f) PROVE DataInv'
<1>1. models' \in Contents /\ todo' \in SUBSET Files /\ tries' \in 0..3
  BY DEF Download, DataInv, TypeOK
<1>2. dirs' \in SUBSET {"ca", "models"}
  <2>1. dirs' = dirs \/ dirs' = dirs \cup {"models"}
    BY DEF Download
  <2>2. QED
    BY <2>1 DEF DataInv, TypeOK
<1>3. ModelsAccounted'
  BY DataDirAssumption
  DEF Download, DataInv, TypeOK, ModelsAccounted, Running, Files, DataDirAssumption
<1>4. QED
  BY <1>1, <1>2, <1>3, UpdaterFrame DEF Download, DataInv, TypeOK

\* A transfer ends with the bytes of the file, or with others.
LEMMA FetchStep ==
  ASSUME DataInv, Fetched \/ FetchFails PROVE DataInv'
<1>1. updater = "fetch" /\ current \in Files
  BY DEF Fetched, FetchFails, DataInv, ModelsAccounted
<1>2. CASE updater' = "fetch"
  <2>1. Again /\ UNCHANGED models /\ tries < 3
    BY <1>2 DEF Fetched, FetchFails, Install, Done
  <2>2. ModelsAccounted'
    BY <2>1 DEF Again, DataInv, ModelsAccounted, Running
  <2>3. QED
    BY <2>1, <2>2, UpdaterFrame DEF Again, DataInv, TypeOK
<1>3. CASE updater' # "fetch"
  <2>1. \/ models' = models /\ Done(TRUE)
        \/ \E b \in Bytes(current) : /\ b # "bad" /\ Done(FALSE)
                                     /\ models' = [models EXCEPT ![current] = b]
    BY <1>1, <1>3 DEF Fetched, FetchFails, Again, Install
  <2>2. models' \in Contents
    <3>1. models \in Contents
      BY DEF DataInv, TypeOK
    <3>2. ASSUME NEW b \in Bytes(current), models' = [models EXCEPT ![current] = b]
          PROVE  models' \in Contents
      <4>1. b \in UNION {Bytes(f) : f \in Files}
        BY <1>1, <3>2
      <4>2. QED
        BY <3>1, <3>2, <4>1 DEF Contents
    <3>3. QED
      BY <2>1, <3>1, <3>2
  <2>3. /\ updater' = "run" /\ current' = Nothing /\ tries' = 0 /\ clean' = TRUE
        /\ errors' \in SUBSET Checked /\ UNCHANGED <<scope, once, todo, dirs, replaced>>
        /\ SameButUpdater
    BY <2>1 DEF Done, DataInv, TypeOK
  <2>4. ModelsAccounted'
    <3>1. ASSUME NEW f \in scope \cap Checked, ~replaced
          PROVE  f \in todo' \cup errors' \/ models'[f] = "good"
      <4>1. f \in Files /\ (f \in todo \cup errors \cup {current} \/ models[f] = "good")
        BY <1>1, <3>1 DEF DataInv, ModelsAccounted, Running, Files
      <4>2. CASE f = current
        BY <1>1, <2>1, <4>1, <4>2 DEF Done, Bytes, DataInv, TypeOK, Contents
      <4>3. CASE f # current
        BY <1>1, <2>1, <4>1, <4>3 DEF Done, DataInv, TypeOK, Contents
      <4>4. QED
        BY <4>2, <4>3
    <3>2. QED
      BY <2>3, <3>1 DEF ModelsAccounted, Running
  <2>5. QED
    BY <2>2, <2>3, <2>4, UpdaterFrame DEF DataInv, TypeOK
<1>4. QED
  BY <1>2, <1>3

\* Every step of the API, the backup command and the updater.
LEMMA StepDataInv == DataInv /\ [Next]_vars => DataInv'
<1> SUFFICES ASSUME DataInv, [Next]_vars PROVE DataInv'
  OBVIOUS
<1>1. ASSUME NEW P \in (SUBSET Pages) \ {{}}, Commit(P) PROVE DataInv'
  BY <1>1, CommitStep
<1>2. CASE Checkpoint \/ Stop \/ Start \/ MakeCA
  BY <1>2, EngineStep
<1>3. CASE \/ Snapshot \/ SnapshotRefused \/ SnapshotLive \/ CopyLog \/ CopyRest \/ SnapshotFails
           \/ BackupKilled \/ Prune
  BY <1>3, SnapshotStep, RefusedStep, CopyStep, EndStep
<1>4. CASE Restoring
  BY <1>4, RestoreStep
<1>5. CASE \/ UpdaterStarts \/ NextCycle \/ UpdaterKilled \/ UpdaterMisconfigured
           \/ CycleEnds \/ CycleFails \/ CycleBreaks
  BY <1>5, BeginStep, OverStep
<1>6. ASSUME NEW f \in Files, Download(f) PROVE DataInv'
  BY <1>6, DownloadStep
<1>7. CASE Fetched \/ FetchFails
  BY <1>7, FetchStep
<1>8. CASE UNCHANGED vars
  BY <1>8 DEF vars, dbVars, backupVars, updaterVars, history, DataInv, TypeOK, LogComplete,
       ArchiveOfJob, ModelsAccounted, Running
<1>9. QED
  BY <1>1, <1>2, <1>3, <1>4, <1>5, <1>6, <1>7, <1>8 DEF Next, Update

-----------------------------------------------------------------------------
\* The database reads as its last commit or restore left it, the archive in the
\* making is the youngest, and what the updater has finished is verified or an error.
THEOREM DataDirSafe == Spec => []DataInv
<1>1. QED
  BY InitDataInv, StepDataInv, PTL DEF Spec

-----------------------------------------------------------------------------
\* A snapshot made through the backup interface has every commit, those in the log
\* that a killed API left included.  (backup.py, _create_sqlite_backup)
THEOREM NothingLeftOutAlways == Spec => NothingLeftOut
<1>1. DataInv /\ [Next]_vars => [job = "idle" /\ job' = "rest" => dump'.pages = last]_vars
  <2> SUFFICES ASSUME DataInv, Next, job = "idle", job' = "rest" PROVE dump'.pages = last
    BY DEF vars
  <2>1. Snapshot
    BY DEF Next, Commit, Checkpoint, Stop, Start, MakeCA, SameButEngine, backupVars,
         SnapshotRefused, SnapshotLive, CopyLog, CopyRest, SnapshotFails, BackupKilled, Prune,
         Restoring, Restore, RestoreRest, RestoreKilled, SameButRestore,
         Update, UpdaterStarts, UpdaterMisconfigured, NextCycle, UpdaterKilled, Cycle, Download,
         Fetched, Install, Done, FetchFails, Again, CycleEnds, CycleFails, CycleBreaks, CycleOver,
         Exit, Reset, SameButUpdater
  <2>2. dump' = [NoDump EXCEPT !.pages = last]
    BY <2>1 DEF Snapshot, Copy, DataInv, LogComplete
  <2>3. QED
    BY <2>2 DEF NoDump
<1>2. QED
  BY <1>1, DataDirSafe, PTL DEF Spec, NothingLeftOut

\* Nothing is younger than the archive of the snapshot that prunes.
LEMMA YoungestKept ==
  ASSUME DataInv, NEW s \in Stamps, \A t \in Stamps : t > s => archives[t].state = "none"
  PROVE  s \notin Excess
<1>1. {t \in Listed : t > s} = {}
  BY DEF Listed
<1>2. After(s) = 0
  BY <1>1, FS_EmptySet DEF After
<1>3. QED
  BY <1>2, DataDirAssumption DEF Excess, DataDirAssumption

\* The household keeps a whole archive once it has one, however its later snapshots
\* end.  (backup.py, prune, list_snapshots and snapshot)
THEOREM WholeArchiveRemainsAlways == Spec => WholeArchiveRemains
<1>1. DataInv /\ [Next]_vars
        => [(\E s \in Stamps : archives[s].state = "whole")
              => \E s \in Stamps : archives'[s].state = "whole"]_vars
  <2> SUFFICES ASSUME DataInv, Next, archives' # archives,
                      NEW s \in Stamps, archives[s].state = "whole"
               PROVE  \E t \in Stamps : archives'[t].state = "whole"
    BY DEF vars, backupVars
  <2>1. Opens \/ CopyRest \/ SnapshotFails \/ Prune
    BY DEF Next, Commit, Checkpoint, Stop, Start, MakeCA, SameButEngine, backupVars,
         Snapshot, SnapshotRefused, SnapshotLive, CopyLog, BackupKilled,
         Restoring, Restore, RestoreRest, RestoreKilled, SameButRestore,
         Update, UpdaterStarts, UpdaterMisconfigured, NextCycle, UpdaterKilled, Cycle, Download,
         Fetched, Install, Done, FetchFails, Again, CycleEnds, CycleFails, CycleBreaks, CycleOver,
         Exit, Reset, SameButUpdater
  <2>2. stamp \in 0..MaxStamp
    BY DEF DataInv, TypeOK
  <2>3. CASE Opens \/ CopyRest \/ SnapshotFails
    <3>1. s # stamp'
      BY <2>2, <2>3 DEF Opens, CopyRest, SnapshotFails, DataInv, ArchiveOfJob, Stamps
    <3>2. PICK a : Put(a)
      BY <2>3 DEF Opens, CopyRest, SnapshotFails
    <3>3. archives'[s] = archives[s]
      BY <3>1, <3>2 DEF Put, DataInv, TypeOK
    <3>4. QED
      BY <3>3
  <2>4. CASE Prune
    <3>1. stamp \in Stamps /\ archives[stamp].state = "whole"
      BY <2>2, <2>4 DEF Prune, DataInv, ArchiveOfJob, Stamps
    <3>2. stamp \notin Excess
      BY <3>1, YoungestKept DEF DataInv, ArchiveOfJob
    <3>3. archives'[stamp] = archives[stamp]
      BY <2>4, <3>1, <3>2 DEF Prune
    <3>4. QED
      BY <3>1, <3>3
  <2>5. QED
    BY <2>1, <2>3, <2>4
<1>2. QED
  BY <1>1, DataDirSafe, PTL DEF Spec, WholeArchiveRemains

-----------------------------------------------------------------------------
\* The updater moves a model to its place only when it is verified, and never takes
\* one away.  (updater.py, _download)
THEOREM VerifiedStaysAlways == Spec => VerifiedStays
<1>1. DataInv /\ [Next]_vars
        => [\A f \in Checked : models'[f] # models[f] /\ ~Restoring => models'[f] = "good"]_vars
  <2> SUFFICES ASSUME DataInv, Next, ~Restoring, NEW f \in Checked, models'[f] # models[f]
               PROVE  models'[f] = "good"
    BY DEF vars
  <2>1. Fetched
    BY DEF Next, Commit, Checkpoint, Stop, Start, MakeCA, SameButEngine,
         Snapshot, SnapshotRefused, SnapshotLive, CopyLog, CopyRest, SnapshotFails,
         BackupKilled, Prune, SameButBackup,
         Update, UpdaterStarts, UpdaterMisconfigured, NextCycle, UpdaterKilled, Cycle, Download,
         FetchFails, Done, Again, CycleEnds, CycleFails, CycleBreaks, CycleOver, Exit, Reset,
         SameButUpdater
  <2>2. PICK b \in Bytes(current) : Install(b)
    BY <2>1 DEF Fetched
  <2>3. b # "bad" /\ models' = [models EXCEPT ![current] = b]
    BY <2>2 DEF Install
  <2>4. f = current /\ models'[f] = b
    BY <2>3 DEF DataInv, TypeOK, Contents, Files
  <2>5. QED
    BY <2>3, <2>4 DEF Bytes
<1>2. QED
  BY <1>1, DataDirSafe, PTL DEF Spec, VerifiedStays

\* When a cycle ends successfully, each model of its scope is there and verified, unless
\* a restore has replaced them meanwhile.  (updater.py, run; __main__.py, main)
THEOREM CycleIsHonestAlways == Spec => CycleIsHonest
<1>1. DataInv /\ [Next]_vars
        => [CycleEnds /\ ~replaced => \A f \in scope \cap Checked : models'[f] = "good"]_vars
  <2> SUFFICES ASSUME DataInv, CycleEnds, ~replaced, NEW f \in scope \cap Checked
               PROVE  models'[f] = "good"
    OBVIOUS
  <2>1. todo = {} /\ errors = {} /\ UNCHANGED models /\ updater = "run"
    BY DEF CycleEnds, CycleOver, Exit, Reset
  <2>2. f # current
    BY <2>1, DataDirAssumption DEF DataInv, ModelsAccounted, Files, DataDirAssumption
  <2>3. QED
    BY <2>1, <2>2 DEF DataInv, ModelsAccounted, Running
<1>2. QED
  BY <1>1, DataDirSafe, PTL DEF Spec, CycleIsHonest
=============================================================================
