------------------------------ MODULE DataDir ------------------------------
(***************************************************************************)
(* The files under pod.data_dir and who writes them: the API's database    *)
(* engine, the backup command and the updater of models and lists.  Each   *)
(* may be killed between two steps; the files stay.                        *)
(*                                                                         *)
(* The database is a number of pages, each with the number of the commit   *)
(* that wrote it.  SQLite appends commits to policy.db-wal and moves them  *)
(* to policy.db at a checkpoint, which the last connection to close makes. *)
(***************************************************************************)
EXTENDS Integers, FiniteSets

CONSTANTS
  Pages,        \* pages of the database
  Checked,      \* models, which have a checksum in the catalogue
  Lists,        \* block lists, which have none
  Nothing,      \* no file
  Retention,    \* archives kept; 0 keeps all
  MaxCommits,   \* bound on commits
  MaxStamp      \* bound on snapshots: their stamps are 1, 2, ...

Files == Checked \cup Lists

ASSUME DataDirAssumption ==
  /\ Checked \cap Lists = {} /\ Nothing \notin Files
  /\ Retention \in Nat /\ MaxCommits \in Nat /\ MaxStamp \in Nat

VARIABLES
  engine,       \* the API is "up" or "down"
  main, wal,    \* pages in policy.db; committed pages still in policy.db-wal
  commits,      \* number of commits
  dirs,         \* which of the directories "ca" and "models" there are
  models,       \* bytes of each downloaded file under its final name
  archives,     \* stamp -> tarball
  stamp,        \* of the last snapshot
  job, dump,    \* the backup command: "idle", "log", "rest", "prune"; its copy
  restoring,    \* stamp of the archive being restored, or 0
  updater,      \* "run", "fetch", "sleep"; ended: "off" killed, "ok" 0, "failed" 1
  scope, once,  \* its environment: the files it updates, and whether only once
  todo, current, tries, clean, errors,  \* of run() and _download
  last,         \* history: the last state committed, or made by a restore
  replaced      \* history: a restore has written since the cycle began

dbVars      == <<engine, main, wal, commits>>
backupVars  == <<archives, stamp, job, dump, restoring>>
updaterVars == <<updater, scope, once, todo, current, tries, clean, errors>>
history     == <<last, replaced>>
vars == <<dbVars, dirs, models, backupVars, updaterVars, history>>

\* What a connection reads: the log hides the file.
Read(m, w) == [p \in Pages |-> IF p \in DOMAIN w THEN w[p] ELSE m[p]]

Stamps == 1..MaxStamp
Dumps == [Pages -> 0..MaxCommits]
Frames == UNION {[P -> 1..MaxCommits] : P \in SUBSET Pages}

\* Nobody can tell the bytes of a list from others.
Bytes(f) == IF f \in Checked THEN {"good", "bad"} ELSE {"some"}
Contents == [Files -> (UNION {Bytes(f) : f \in Files}) \cup {"none"}]

\* In a cycle, and as a process.
Running == updater \in {"run", "fetch"}
Alive == Running \/ updater = "sleep"

NoPages == [p \in Pages |-> 0]

\* A copy of the database is live if it was made of the files, and then may have
\* the log with it.
NoDump == [live |-> FALSE, log |-> FALSE, pages |-> NoPages]
NoArchive == [state |-> "none", dump |-> NoDump, models |-> [f \in Files |-> "none"]]

\* "pre-mounted" weights may be anything.
Init ==
  /\ engine = "up" /\ main = NoPages /\ wal = <<>> /\ commits = 0
  /\ models \in {c \in Contents :
                   \A f \in Files : c[f] # "none" => f \in Checked /\ c[f] \in Bytes(f)}
  /\ dirs = IF \A f \in Files : models[f] = "none" THEN {} ELSE {"models"}
  /\ archives = [s \in Stamps |-> NoArchive] /\ stamp = 0
  /\ job = "idle" /\ dump = NoDump /\ restoring = 0
  /\ updater = "off" /\ scope = {} /\ once = FALSE
  /\ todo = {} /\ current = Nothing /\ tries = 0 /\ clean = TRUE /\ errors = {}
  /\ last = NoPages /\ replaced = FALSE

-----------------------------------------------------------------------------
(* The database engine, and the proxy's CA.                                *)

SameButEngine == UNCHANGED <<dirs, models, backupVars, updaterVars, replaced>>

Commit(P) ==
  /\ engine = "up" /\ commits < MaxCommits
  /\ commits' = commits + 1
  /\ wal' = [p \in P \cup DOMAIN wal |-> IF p \in P THEN commits + 1 ELSE wal[p]]
  /\ last' = [p \in Pages |-> IF p \in P THEN commits + 1 ELSE last[p]]
  /\ UNCHANGED <<engine, main>> /\ SameButEngine

Flush == main' = Read(main, wal) /\ wal' = <<>>

Checkpoint ==
  /\ engine = "up" /\ wal # <<>> /\ Flush
  /\ UNCHANGED <<engine, commits, last>> /\ SameButEngine

\* The API ends and closes its connections, or is killed.
Stop ==
  /\ engine = "up" /\ engine' = "down"
  /\ Flush \/ UNCHANGED <<main, wal>>
  /\ UNCHANGED <<commits, last>> /\ SameButEngine

\* "The DB engine must be stopped before calling restore": not while it runs.
Start ==
  /\ engine = "down" /\ restoring = 0 /\ engine' = "up"
  /\ UNCHANGED <<main, wal, commits, last>> /\ SameButEngine

MakeCA ==
  /\ "ca" \notin dirs /\ dirs' = dirs \cup {"ca"}
  /\ UNCHANGED <<dbVars, models, backupVars, updaterVars, history>>

-----------------------------------------------------------------------------
(* seenoevil-backup snapshot, one at a time and each in a second of its own. *)

SameButBackup == UNCHANGED <<engine, commits, dirs, models, restoring, updaterVars, history>>

Put(a) == archives' = [archives EXCEPT ![stamp'] = a]

\* Mutant: policy.db is copied without what is still in the log.
FileOnly(m, w) == m

\* Connection.backup reads one state, log included.
Copy(m, w) == Read(m, w)

\* With nothing but the database there is nothing "backup-eligible"; a directory
\* may be empty.
Eligible == dirs # {}

\* The command has its stamp, and opens the tarball.
Opens ==
  /\ job = "idle" /\ stamp < MaxStamp
  /\ stamp' = stamp + 1
  /\ Put([NoArchive EXCEPT !.state = "partial"])

\* A copy through the backup interface, which closes the last connection if the
\* API is down.
Snapshot ==
  /\ Opens /\ Eligible
  /\ dump' = [NoDump EXCEPT !.pages = Copy(main, wal)]
  /\ IF engine = "down" THEN Flush ELSE UNCHANGED <<main, wal>>
  /\ job' = "rest"
  /\ SameButBackup

\* An error: no tarball is opened.
SnapshotRefused ==
  /\ job = "idle" /\ ~Eligible
  /\ IF engine = "down" THEN Flush ELSE UNCHANGED <<main, wal>>
  /\ UNCHANGED <<archives, stamp, job, dump>> /\ SameButBackup

\* That has failed: the live files are copied, policy.db first.
SnapshotLive ==
  /\ Opens
  /\ dump' = [NoDump EXCEPT !.live = TRUE, !.pages = main]
  /\ job' = "log"
  /\ UNCHANGED <<main, wal>> /\ SameButBackup

CopyLog ==
  /\ job = "log" /\ job' = "rest"
  /\ dump' = [dump EXCEPT !.pages = Read(@, wal), !.log = engine = "up" \/ wal # <<>>]
  /\ UNCHANGED <<archives, stamp, main, wal>> /\ SameButBackup

\* The lists are not among _BACKUP_PATHS.
Archived == [f \in Files |-> IF f \in Checked THEN models[f] ELSE "none"]

CopyRest ==
  /\ job = "rest" /\ job' = "prune" /\ UNCHANGED stamp
  /\ Put([state |-> "whole", dump |-> dump, models |-> Archived])
  /\ dump' = NoDump
  /\ UNCHANGED <<main, wal>> /\ SameButBackup

\* The disk is full: the tarball is removed.
SnapshotFails ==
  /\ job \in {"log", "rest"} /\ job' = "idle" /\ UNCHANGED stamp
  /\ Put(NoArchive) /\ dump' = NoDump
  /\ UNCHANGED <<main, wal>> /\ SameButBackup

\* The command is killed, and what it has written stays.
BackupKilled ==
  /\ job # "idle" /\ job' = "idle" /\ dump' = NoDump
  /\ UNCHANGED <<archives, stamp, main, wal>> /\ SameButBackup

\* list_snapshots does not look into the files.
Listed == {s \in Stamps : archives[s].state # "none"}
After(s) == Cardinality({t \in Listed : t > s})

\* Mutant: one too many.
ExcessByOne == {s \in Listed : Retention > 0 /\ After(s) >= Retention - 1}

\* The oldest beyond the retention.
Excess == {s \in Listed : Retention > 0 /\ After(s) >= Retention}

\* Some of them may withstand.
Prune ==
  /\ job = "prune" /\ job' = "idle"
  /\ \E E \in SUBSET Excess :
       archives' = [s \in Stamps |-> IF s \in E THEN NoArchive ELSE archives[s]]
  /\ UNCHANGED <<stamp, dump, main, wal>> /\ SameButBackup

-----------------------------------------------------------------------------
(* seenoevil-backup restore.                                               *)

Over(new, old) == [f \in Files |-> IF new[f] = "none" THEN old[f] ELSE new[f]]

\* The database is extracted over the old one; a log on disk stays, unless there
\* is one in the archive.
Extract(d) ==
  /\ main' = d.pages
  /\ wal' = IF d.log THEN <<>> ELSE wal
  /\ last' = Read(main', wal')

SameButRestore ==
  /\ replaced' = (replaced \/ Running)
  /\ UNCHANGED <<engine, commits, dirs, archives, stamp, job, dump, updaterVars>>

\* A truncated tarball is refused.  A live copy begins with the database, the
\* other one with the directories.
Restore(s) ==
  /\ engine = "down" /\ restoring = 0 /\ archives[s].state = "whole"
  /\ restoring' = s
  /\ IF archives[s].dump.live
     THEN Extract(archives[s].dump) /\ UNCHANGED models
     ELSE models' = Over(archives[s].models, models) /\ UNCHANGED <<main, wal, last>>
  /\ SameButRestore

RestoreRest ==
  /\ restoring # 0 /\ restoring' = 0
  /\ LET a == archives[restoring] IN
       IF a.dump.live
       THEN models' = Over(a.models, models) /\ UNCHANGED <<main, wal, last>>
       ELSE Extract(a.dump) /\ UNCHANGED models
  /\ SameButRestore

RestoreKilled ==
  /\ restoring # 0 /\ restoring' = 0
  /\ UNCHANGED <<dbVars, dirs, models, archives, stamp, job, dump, updaterVars, history>>

-----------------------------------------------------------------------------
(* The updater: a process that runs a cycle, sleeps and runs the next.  Its *)
(* temporary file is seen by nobody before it is verified and moved.        *)

SameButUpdater == UNCHANGED <<dbVars, backupVars, last>>

\* Nothing is left of a cycle.
Reset ==
  /\ todo' = {} /\ current' = Nothing /\ tries' = 0 /\ clean' = TRUE
  /\ errors' = {} /\ replaced' = FALSE
  /\ UNCHANGED <<dirs, models>> /\ SameButUpdater

Cycle(files) ==
  /\ updater' = "run" /\ todo' = files /\ current' = Nothing /\ tries' = 0 /\ clean' = TRUE
  /\ errors' = {} /\ replaced' = FALSE
  /\ UNCHANGED <<dirs, models>> /\ SameButUpdater

\* The process ends.
Exit(status) == updater' = status /\ scope' = {} /\ once' = FALSE /\ Reset

\* With the pod, and again by its restart policy: SKIP_MODELS, SKIP_LISTS and
\* SNE_UPDATE_INTERVAL stay what they are for the life of the process.
UpdaterStarts ==
  /\ ~Alive
  /\ scope' \in {Files, Checked, Lists, {}} /\ once' \in BOOLEAN
  /\ Cycle(scope')

\* MODEL_VARIANT is unknown: sys.exit.
UpdaterMisconfigured == ~Alive /\ Exit("failed")

\* Models first.  One that is there with its checksum is left alone; the others need
\* a directory.
Download(f) ==
  /\ updater = "run" /\ f \in todo /\ (f \in Lists => todo \subseteq Lists)
  /\ todo' = todo \ {f}
  /\ IF f \in Checked /\ models[f] = "good"
     THEN UNCHANGED <<updater, current, tries, dirs>>
     ELSE /\ updater' = "fetch" /\ current' = f /\ tries' = 1
          /\ dirs' = IF f \in Checked THEN dirs \cup {"models"} ELSE dirs
  /\ UNCHANGED <<scope, once, clean, errors, models, replaced>> /\ SameButUpdater

\* This file is over.  A list that fails is no error.
Done(failed) ==
  /\ updater' = "run" /\ current' = Nothing /\ tries' = 0 /\ clean' = TRUE
  /\ errors' = IF failed THEN errors \cup ({current} \cap Checked) ELSE errors
  /\ UNCHANGED <<scope, once, todo, dirs, replaced>> /\ SameButUpdater

\* Mutant: the file is moved to its place and verified there.
InstallFirst(b) ==
  /\ models' = [models EXCEPT ![current] = b]
  /\ Done(b = "bad")

\* A model with a wrong checksum is deleted, anything else moved to its place.
Install(b) ==
  IF b = "bad"
  THEN UNCHANGED models /\ Done(TRUE)
  ELSE models' = [models EXCEPT ![current] = b] /\ Done(FALSE)

\* The stream ends without an error.  What follows a beginning that could not be
\* truncated is not the file, and a list has no checksum to compare with.
Fetched ==
  /\ updater = "fetch"
  /\ \E b \in Bytes(current) : (b = "good" => clean) /\ Install(b)

\* The truncation may fail unnoticed.
Again ==
  /\ tries' = tries + 1 /\ clean' \in BOOLEAN
  /\ UNCHANGED <<updater, scope, once, todo, current, errors, dirs, replaced>> /\ SameButUpdater

\* Mutant: the failure of the last attempt is swallowed.
FetchFailsSilently ==
  /\ updater = "fetch" /\ UNCHANGED models
  /\ IF tries < 3 THEN Again ELSE Done(FALSE)

\* Three attempts.
FetchFails ==
  /\ updater = "fetch" /\ UNCHANGED models
  /\ IF tries < 3 THEN Again ELSE Done(TRUE)

\* Sleep until the next cycle, or return.
CycleOver ==
  IF once THEN Exit("ok") ELSE updater' = "sleep" /\ Reset /\ UNCHANGED <<scope, once>>

\* "updater finished successfully".
CycleEnds == updater = "run" /\ todo = {} /\ errors = {} /\ CycleOver

\* "updater finished with errors": SystemExit is no Exception.
CycleFails == updater = "run" /\ todo = {} /\ errors # {} /\ Exit("failed")

\* The HTTP client cannot be made: the exception is logged and swallowed.
CycleBreaks == updater = "run" /\ todo = scope /\ errors = {} /\ CycleOver

NextCycle == updater = "sleep" /\ Cycle(scope) /\ UNCHANGED <<scope, once>>

\* It is killed; its temporary file stays, under a name nobody asks for.
UpdaterKilled == Alive /\ Exit("off")

Update ==
  \/ UpdaterStarts \/ UpdaterMisconfigured \/ NextCycle \/ UpdaterKilled
  \/ (\E f \in Files : Download(f)) \/ Fetched \/ FetchFails
  \/ CycleEnds \/ CycleFails \/ CycleBreaks

Restoring == (\E s \in Stamps : Restore(s)) \/ RestoreRest \/ RestoreKilled

Next ==
  \/ \E P \in (SUBSET Pages) \ {{}} : Commit(P)
  \/ Checkpoint \/ Stop \/ Start \/ MakeCA
  \/ Snapshot \/ SnapshotRefused \/ SnapshotLive \/ CopyLog \/ CopyRest \/ SnapshotFails
  \/ BackupKilled \/ Prune
  \/ Restoring
  \/ Update

Spec == Init /\ [][Next]_vars

-----------------------------------------------------------------------------
Copies == [live : BOOLEAN, log : BOOLEAN, pages : Dumps]
Archives == [state : {"none", "partial", "whole"}, dump : Copies, models : Contents]

TypeOK ==
  /\ engine \in {"up", "down"} /\ main \in Dumps /\ wal \in Frames /\ commits \in 0..MaxCommits
  /\ dirs \in SUBSET {"ca", "models"} /\ models \in Contents
  /\ archives \in [Stamps -> Archives]
  /\ stamp \in 0..MaxStamp
  /\ job \in {"idle", "log", "rest", "prune"} /\ dump \in Copies
  /\ restoring \in 0..MaxStamp
  /\ updater \in {"off", "run", "fetch", "sleep", "ok", "failed"}
  /\ scope \in SUBSET Files /\ once \in BOOLEAN
  /\ todo \in SUBSET Files /\ current \in Files \cup {Nothing} /\ tries \in 0..3
  /\ clean \in BOOLEAN /\ errors \in SUBSET Checked
  /\ last \in Dumps /\ replaced \in BOOLEAN

\* "a consistent SQLite backup": whatever the API has committed, checkpointed or
\* left in the log when it was killed, a copy made through the backup interface
\* has all of it.
NothingLeftOut ==
  [][job = "idle" /\ job' = "rest" => dump'.pages = last]_vars

\* Snapshots that fail or are killed count for the retention like the others, and
\* still none of them costs the household its last whole archive.
WholeArchiveRemains ==
  [][(\E s \in Stamps : archives[s].state = "whole")
       => \E s \in Stamps : archives'[s].state = "whole"]_vars

\* "refuses to use a file whose checksum does not match": transfers that fail,
\* deliver other bytes or are cut off never cost the pod a verified model, nor put
\* an unverified one in its place; only a restore does.
VerifiedStays ==
  [][\A f \in Checked : models'[f] # models[f] /\ ~Restoring => models'[f] = "good"]_vars

\* "updater finished successfully": when a cycle ends so, each model it was to update
\* is there and verified, whatever transfers failed in it, what had been mounted
\* there or was left by earlier cycles; unless a restore has written meanwhile.
CycleIsHonest ==
  [][CycleEnds /\ ~replaced => \A f \in scope \cap Checked : models'[f] = "good"]_vars

\* "Restore reads a tarball back over the same paths": when it has ended, the
\* database is the archived one.
RestoreBringsBack ==
  [][RestoreRest => Read(main', wal') = archives[restoring].dump.pages]_vars

\* What a reader of the database would see is what was last committed or restored.
LogComplete == last = Read(main, wal)

\* How far the backup command is with the archive of its stamp; none is younger.
ArchiveOfJob ==
  /\ job # "idle" => stamp # 0
  /\ \A s \in Stamps : s > stamp => archives[s].state = "none"
  /\ job \in {"log", "rest"} => archives[stamp].state = "partial"
  /\ job = "prune" => archives[stamp].state = "whole"

\* A model the updater is done with is verified or counted as an error.
ModelsAccounted ==
  /\ IF updater = "fetch" THEN current \in Files ELSE current = Nothing
  /\ Running /\ ~replaced =>
       \A f \in scope \cap Checked :
         f \in todo \cup errors \cup {current} \/ models[f] = "good"

\* The inductive invariant.
DataInv == TypeOK /\ LogComplete /\ ArchiveOfJob /\ ModelsAccounted
=============================================================================
