-------------------------- MODULE VaultFilesProofs --------------------------
(***************************************************************************)
(* Passphrases, backups and restores, for any number of paths, restoring    *)
(* processes and passphrases and under every fault.                         *)
(***************************************************************************)
EXTENDS VaultFiles, TLAPS

(* FilesInv holds initially and through the steps that publish no file: the   *)
(* vault's own (create, start, unlock, rotate) and those in which a backup or *)
(* restore only prepares what it will publish.                                *)

(* The special files are four, and none is a database. *)
LEMMA FileKinds ==
    /\ NoFile \notin Database /\ Schema \notin Database /\ Torn \notin Database /\ Live \notin Database
    /\ NoFile # Schema /\ NoFile # Torn /\ NoFile # Live
    /\ Database \subseteq File /\ NoFile \in File /\ Torn \in File /\ Live \in File
BY PassphrasesNamed DEF NoFile, Schema, Torn, Live, Special, Database, File

(* Snapshots, sidecars and outputs have names of their own. *)
LEMMA NameKinds ==
    /\ \A p \in Path : Snapshot(p) \in DataName /\ Snapshot(p) \in Name
    /\ \A p \in Path : Sidecar(p) \in Name /\ Sidecar(p) \notin DataName
    /\ \A o \in Output : Restored(o) \in DataName /\ Restored(o) \in Name
    /\ \A p, q \in Path : Snapshot(p) = Snapshot(q) => p = q
    /\ \A p, q \in Path : Sidecar(p) = Sidecar(q) => p = q
    /\ \A o, q \in Output : Restored(o) = Restored(q) => o = q
    /\ \A p \in Path, o \in Output : Snapshot(p) # Restored(o) /\ Sidecar(p) # Restored(o)
    /\ \A p, q \in Path : Snapshot(p) # Sidecar(q)
    /\ DataName \subseteq Name
    /\ \A n \in DataName : (\E p \in Path : n = Snapshot(p)) \/ (\E o \in Output : n = Restored(o))
BY DEF Snapshot, Sidecar, Restored, DataName, Name

(* Idle is a job, without files. *)
LEMMA IdleJob == Idle \in Job /\ Idle.at = "idle"
BY FileKinds DEF Idle, Job, Place

(* A job that moves on changes nothing but its place. *)
LEMMA GotoJob ==
    ASSUME job \in [Jobs -> Job], NEW j \in Jobs, NEW place \in Place, Goto(j, place)
    PROVE  /\ job' \in [Jobs -> Job] /\ job'[j].at = place
           /\ job'[j].path = job[j].path /\ job'[j].out = job[j].out
           /\ job'[j].temp = job[j].temp /\ job'[j].synced = job[j].synced
           /\ job'[j].manifest = job[j].manifest
           /\ \A i \in Jobs \ {j} : job'[i] = job[i]
BY DEF Goto, Job

(* A job that ends is idle. *)
LEMMA StopJob ==
    ASSUME job \in [Jobs -> Job], NEW j \in Jobs, Stop(j)
    PROVE  /\ job' \in [Jobs -> Job] /\ job'[j] = Idle /\ job'[j].at = "idle"
           /\ \A i \in Jobs \ {j} : job'[i] = job[i]
BY IdleJob DEF Stop

(* A job that takes down a manifest changes nothing else but its place. *)
LEMMA DescribeJob ==
    ASSUME job \in [Jobs -> Job], NEW j \in Jobs, NEW place \in Place, NEW m \in File,
           job' = [job EXCEPT ![j].manifest = m, ![j].at = place]
    PROVE  /\ job' \in [Jobs -> Job] /\ job'[j].at = place /\ job'[j].manifest = m
           /\ job'[j].path = job[j].path /\ job'[j].temp = job[j].temp
           /\ \A i \in Jobs \ {j} : job'[i] = job[i]
<1>1. job[j] \in Job /\ job'[j] = [job[j] EXCEPT !.manifest = m, !.at = place]
  OBVIOUS
<1>2. job'[j] \in Job
  BY <1>1, ZenonT(60) DEF Job
<1>3. /\ job'[j].at = place /\ job'[j].manifest = m
      /\ job'[j].path = job[j].path /\ job'[j].temp = job[j].temp
  BY <1>1 DEF Job
<1>4. \A i \in Jobs \ {j} : job'[i] = job[i]
  OBVIOUS
<1>5. job' \in [Jobs -> Job]
  BY <1>2, <1>4
<1> QED  BY <1>3, <1>4, <1>5

(* Init *)
LEMMA InitFiles == Init => FilesInv
<1> SUFFICES ASSUME Init PROVE FilesInv
  OBVIOUS
<1>1. FTypeOK
  BY FileKinds, IdleJob DEF Init, FTypeOK
<1>2. PassphraseKnown /\ BackupKept /\ PublishedWhole /\ RestoredAsManifest
  BY FileKinds, NameKinds DEF Init, PassphraseKnown, BackupKept, PublishedWhole, RestoredAsManifest, Down
<1>3. JobsInv
  BY IdleJob DEF Init, JobsInv, BackupJob, RestoreJob, Jobs
<1> QED  BY <1>1, <1>2, <1>3 DEF FilesInv, Init, Down

-----------------------------------------------------------------------------
(* Steps of the vault leave the files and the jobs alone. *)
LEMMA VaultOnly ==
    ASSUME FilesInv, UNCHANGED <<filevars, job, history>>,
           job["backup"] = Idle \/ UNCHANGED daemon \/ ~ daemon.up,
           db' \in Database \cup {NoFile, Schema},
           daemon' \in {Down} \cup [up : {TRUE}, env : Passphrase, unlocked : BOOLEAN],
           daemon'.up => db' \in Database, PassphraseKnown'
    PROVE  FilesInv'
<1>1. FTypeOK'
  BY Zenon DEF FilesInv, FTypeOK, filevars, history
<1>2. BackupKept' /\ PublishedWhole' /\ RestoredAsManifest' /\ dirty' \cap DataName = {}
  BY ZenonT(60) DEF FilesInv, BackupKept, PublishedWhole, RestoredAsManifest, filevars, history
<1>3. JobsInv'
  BY IdleJob, SMTT(40) DEF FilesInv, JobsInv, BackupJob, RestoreJob, filevars, history
<1> QED  BY <1>1, <1>2, <1>3 DEF FilesInv

(* A running daemon has read an envelope of a database. *)
LEMMA RunningDaemon ==
    ASSUME FilesInv, daemon.up
    PROVE  daemon \in [up : {TRUE}, env : Passphrase, unlocked : BOOLEAN] /\ db \in Database
<1>1. ~ Down.up
  BY DEF Down
<1>2. daemon # Down
  BY <1>1
<1> QED  BY <1>2, Zenon DEF FilesInv, FTypeOK

(* Every step of the vault but Switch keeps the invariant. *)
LEMMA CreateSchemaInv == ASSUME FilesInv, CreateSchema PROVE FilesInv'
<1>1. ~ daemon.up /\ UNCHANGED daemon
  BY FileKinds DEF FilesInv, CreateSchema
<1>2. PassphraseKnown' /\ db' = Schema
  BY <1>1, FileKinds DEF PassphraseKnown, CreateSchema
<1> QED  BY <1>1, <1>2, VaultOnly, Zenon DEF CreateSchema, FilesInv, FTypeOK

(* See CreateSchemaInv. *)
LEMMA InsertEnvelopeInv ==
    ASSUME FilesInv, NEW p \in Passphrase, InsertEnvelope(p) PROVE FilesInv'
<1>1. ~ daemon.up /\ UNCHANGED daemon
  BY FileKinds DEF FilesInv, InsertEnvelope
<1>2. PassphraseKnown' /\ db' \in Database
  BY <1>1, ContentBounded DEF PassphraseKnown, InsertEnvelope, Database
<1> QED  BY <1>1, <1>2, VaultOnly, Zenon DEF InsertEnvelope, FilesInv, FTypeOK

(* See CreateSchemaInv. *)
LEMMA StartInv == ASSUME FilesInv, Start PROVE FilesInv'
<1>1. /\ PassphraseKnown' /\ db' \in Database
      /\ daemon' \in [up : {TRUE}, env : Passphrase, unlocked : BOOLEAN]
  BY DEF FilesInv, PassphraseKnown, Start, Database
<1> QED  BY <1>1, VaultOnly DEF Start

(* See CreateSchemaInv. *)
LEMMA LockInv ==
    ASSUME FilesInv, Lock \/ FullCheckpoint \/ \E p \in Passphrase : Unlock(p) PROVE FilesInv'
<1>1. daemon \in [up : {TRUE}, env : Passphrase, unlocked : BOOLEAN] /\ db \in Database
  <2>1. daemon.up
    BY DEF Lock, FullCheckpoint, Unlock, Ready
  <2> QED  BY <2>1, RunningDaemon, Zenon
<1>2. /\ daemon' \in [up : {TRUE}, env : Passphrase, unlocked : BOOLEAN]
      /\ daemon'.env = daemon.env /\ UNCHANGED <<db, filevars, job, history>>
  BY <1>1, Zenon DEF Lock, FullCheckpoint, Unlock
<1>3. PassphraseKnown'
  BY <1>1, <1>2, Zenon DEF FilesInv, PassphraseKnown
<1> QED  BY <1>1, <1>2, <1>3, VaultOnly, Zenon DEF Lock, FullCheckpoint, Unlock, Ready

(* See CreateSchemaInv. *)
LEMMA WriteInv == ASSUME FilesInv, Write PROVE FilesInv'
<1>1. db \in Database /\ daemon.up
  BY DEF FilesInv, Write, Ready
<1>2. db' \in Database /\ db'.env = db.env /\ db'.known = db.known
  BY <1>1, ContentBounded DEF Write, Database
<1>3. PassphraseKnown'
  BY <1>1, <1>2 DEF FilesInv, PassphraseKnown, Write
<1> QED  BY <1>2, <1>3, VaultOnly, Zenon DEF Write, FilesInv, FTypeOK

(* See CreateSchemaInv. *)
LEMMA RotateInv ==
    ASSUME FilesInv, NEW p \in Passphrase, NEW q \in Passphrase, RotatePassphrase(p, q)
    PROVE  FilesInv'
<1>1. /\ daemon \in [up : {TRUE}, env : Passphrase, unlocked : BOOLEAN] /\ db \in Database
      /\ db.env \in db.known /\ daemon.env \in db.known
  <2>1. daemon.up
    BY DEF RotatePassphrase, Ready
  <2> QED  BY <2>1, RunningDaemon, Zenon DEF FilesInv, PassphraseKnown
<1>2. /\ Committed(q) \in Database /\ Committed(q).env = q /\ Committed(q).known = db.known \cup {q}
  BY <1>1, Zenon DEF Committed, Database
<1>3. /\ db' \in Database /\ db'.env \in db'.known
      /\ daemon' \in {Down} \cup [up : {TRUE}, env : Passphrase, unlocked : BOOLEAN]
      /\ daemon'.up => daemon'.env \in db'.known
  <2>1. CASE Rotated(q)
    BY <1>1, <2>1, Zenon DEF Rotated, Database
  <2>2. CASE /\ db' \in {[db EXCEPT !.known = @ \cup {q}], Committed(q)}
             /\ daemon' = [daemon EXCEPT !.unlocked = FALSE]
    <3>1. /\ [db EXCEPT !.known = @ \cup {q}] \in Database
          /\ [db EXCEPT !.known = @ \cup {q}].env = db.env
          /\ [db EXCEPT !.known = @ \cup {q}].known = db.known \cup {q}
      BY <1>1 DEF Database
    <3>2. /\ daemon' \in [up : {TRUE}, env : Passphrase, unlocked : BOOLEAN]
          /\ daemon'.env = daemon.env
      BY <1>1, <2>2, Zenon
    <3> QED  BY <1>1, <1>2, <2>2, <3>1, <3>2, ZenonT(60)
  <2>3. CASE db' = Committed(q) /\ (UNCHANGED daemon \/ daemon' = Down)
    <3>1. ~ Down.up
      BY DEF Down
    <3>2. CASE UNCHANGED daemon
      BY <1>1, <1>2, <2>3, <3>2, Zenon
    <3>3. CASE daemon' = Down
      BY <1>2, <2>3, <3>1, <3>3
    <3> QED  BY <2>3, <3>2, <3>3, Zenon
  <2> QED  BY <2>1, <2>2, <2>3, Zenon DEF RotatePassphrase
<1>4. PassphraseKnown'
  BY <1>3 DEF PassphraseKnown
<1> QED  BY <1>3, <1>4, VaultOnly, Zenon DEF RotatePassphrase, Ready

-----------------------------------------------------------------------------
(* Steps that change nothing but a job. *)
LEMMA JobOnly ==
    ASSUME FilesInv, UNCHANGED <<db, daemon, filevars, history>>, job' \in [Jobs -> Job], JobsInv'
    PROVE  FilesInv'
<1>1. FTypeOK' /\ PassphraseKnown'
  BY Zenon DEF FilesInv, FTypeOK, PassphraseKnown, filevars, history
<1>2. BackupKept' /\ PublishedWhole' /\ RestoredAsManifest'
  BY DEF FilesInv, BackupKept, PublishedWhole, RestoredAsManifest, filevars, history
<1> QED  BY <1>1, <1>2 DEF FilesInv, filevars

(* A step that moves one job j keeps JobsInv when j and the jobs it may disturb are as they *)
(* should be.                                                                              *)
LEMMA OneJobMoves ==
    ASSUME JobsInv, NEW j \in Jobs, \A i \in Jobs \ {j} : job'[i] = job[i],
           job'[j].at = "idle" => job'[j] = Idle,
           BackupJob', \A r \in Restorer : RestoreJob(r)',
           \A r \in Restorer \ {j} : j \in Restorer /\ job'[j].at = "publish"
              /\ job[r].at = "publish" => job[r].out # job'[j].out
    PROVE  JobsInv'
<1>1. ASSUME NEW i \in Jobs, job'[i].at = "idle" PROVE job'[i] = Idle
  <2>1. CASE i = j
    BY <1>1, <2>1
  <2>2. CASE i # j
    BY <1>1, <2>2 DEF JobsInv
  <2> QED  BY <2>1, <2>2
<1>2. ASSUME NEW r \in Restorer, NEW s \in Restorer, r # s,
             job'[r].at = "publish", job'[s].at = "publish", job'[r].out = job'[s].out
      PROVE  FALSE
  <2>1. r \in Jobs /\ s \in Jobs
    BY DEF Jobs
  <2>2. CASE r = j
    BY <1>2, <2>1, <2>2
  <2>3. CASE s = j
    BY <1>2, <2>1, <2>3
  <2>4. CASE r # j /\ s # j
    BY <1>2, <2>1, <2>4 DEF JobsInv
  <2> QED  BY <2>2, <2>3, <2>4
<1> QED  BY <1>1, <1>2 DEF JobsInv

(* A step of the backup that changes no file disturbs no restore. *)
LEMMA BackupMoves ==
    ASSUME FilesInv, \A i \in Jobs \ {"backup"} : job'[i] = job[i],
           job'["backup"].at = "idle" => job'["backup"] = Idle, BackupJob',
           UNCHANGED <<file, restored>>
    PROVE  JobsInv'
<1>1. JobsInv /\ "backup" \in Jobs /\ "backup" \notin Restorer
  BY NamesDiffer, ZenonT(60) DEF FilesInv, Jobs
<1>2. \A r \in Restorer : RestoreJob(r)'
  <2> TAKE r \in Restorer
  <2>1. job'[r] = job[r] /\ RestoreJob(r)
    BY <1>1 DEF JobsInv, Jobs
  <2> QED  BY <2>1 DEF RestoreJob
<1> QED  BY <1>1, <1>2, OneJobMoves

(* A step of a restore that changes no file disturbs neither the backup nor another restore. *)
LEMMA RestoreMoves ==
    ASSUME FilesInv, NEW r \in Restorer, \A i \in Jobs \ {r} : job'[i] = job[i],
           job'[r].at = "idle" => job'[r] = Idle, job'[r].at # "publish", RestoreJob(r)',
           UNCHANGED <<daemon, filevars, history>>
    PROVE  JobsInv'
<1>1. /\ JobsInv /\ r \in Jobs /\ "backup" \in Jobs \ {r}
      /\ file' = file /\ loose' = loose /\ acked' = acked /\ restored' = restored
  BY NamesDiffer, ZenonT(60) DEF FilesInv, Jobs, filevars, history
<1>2. BackupJob'
  <2>1. job'["backup"] = job["backup"] /\ BackupJob
    BY <1>1 DEF JobsInv
  <2> QED  BY <1>1, <2>1 DEF BackupJob
<1>3. \A t \in Restorer : RestoreJob(t)'
  <2> TAKE t \in Restorer
  <2>1. CASE t = r
    BY <2>1, Zenon
  <2>2. CASE t # r
    <3>1. job'[t] = job[t] /\ RestoreJob(t)
      BY <1>1, <2>2 DEF JobsInv, Jobs
    <3> QED  BY <1>1, <3>1, ZenonT(60) DEF RestoreJob
  <2> QED  BY <2>1, <2>2
<1> QED  BY <1>1, <1>2, <1>3, OneJobMoves

(* Whoever stops leaves the other jobs as they are. *)
LEMMA StopInv ==
    ASSUME FilesInv, NEW j \in Jobs, Stop(j), UNCHANGED <<db, daemon, filevars, history>>
    PROVE  FilesInv'
<1>1. /\ job' \in [Jobs -> Job] /\ job'[j] = Idle /\ job'[j].at = "idle"
      /\ \A i \in Jobs \ {j} : job'[i] = job[i]
  BY StopJob DEF FilesInv, FTypeOK
<1>2. JobsInv'
  <2>1. CASE j = "backup"
    <3>1. BackupJob'
      BY <1>1, <2>1 DEF BackupJob
    <3> QED  BY <1>1, <2>1, <3>1, BackupMoves, Zenon DEF filevars, history
  <2>2. CASE j # "backup"
    <3>1. j \in Restorer /\ RestoreJob(j)'
      BY <1>1, <2>2 DEF RestoreJob, Jobs
    <3> QED  BY <1>1, <3>1, RestoreMoves, Zenon
  <2> QED  BY <2>1, <2>2
<1> QED  BY <1>1, <1>2, JobOnly

(* SyncTemporary: the temporary file is a database once it is to be published. *)
LEMMA SyncTemporaryInv == ASSUME FilesInv, NEW j \in Jobs, SyncTemporary(j) PROVE FilesInv'
<1>1. CASE job[j].temp \in Database
  <2>1. /\ job' \in [Jobs -> Job] /\ job'[j].at = "link" /\ job'[j].synced
        /\ job'[j].path = job[j].path /\ job'[j].out = job[j].out
        /\ job'[j].temp = job[j].temp /\ job'[j].manifest = job[j].manifest
        /\ \A i \in Jobs \ {j} : job'[i] = job[i]
    BY <1>1 DEF FilesInv, FTypeOK, SyncTemporary, Job, Place
  <2>2. JobsInv'
    <3>1. job[j].at = "sync" /\ UNCHANGED <<db, daemon, filevars, history>>
      BY DEF SyncTemporary
    <3>2. CASE j = "backup"
      <4>1. BackupJob'
        BY <2>1, <3>1, <3>2, ZenonT(60)
        DEF FilesInv, JobsInv, BackupJob, Copied, Linked, filevars, history
      <4> QED  BY <2>1, <3>1, <3>2, <4>1, BackupMoves, Zenon DEF filevars, history
    <3>3. CASE j # "backup"
      <4>1. j \in Restorer
        BY <3>3, Zenon DEF Jobs
      <4>2. RestoreJob(j)'
        BY <2>1, <3>1, <4>1, ZenonT(60) DEF FilesInv, JobsInv, RestoreJob, filevars, history
      <4> QED  BY <2>1, <3>1, <4>1, <4>2, RestoreMoves
    <3> QED  BY <3>2, <3>3
  <2> QED  BY <2>1, <2>2, JobOnly DEF SyncTemporary
<1>2. CASE job[j].temp \notin Database
  BY <1>2, StopInv DEF SyncTemporary
<1> QED  BY <1>1, <1>2

(* StartBackup: the path is not one of a complete backup, whose snapshot exists. *)
LEMMA StartBackupInv == ASSUME FilesInv, NEW p \in Path, StartBackup(p) PROVE FilesInv'
<1>1. p \notin acked
  BY FileKinds DEF FilesInv, BackupKept, StartBackup
<1>2. /\ job' \in [Jobs -> Job] /\ job'["backup"].at = "copy" /\ job'["backup"].path = p
      /\ \A i \in Jobs \ {"backup"} : job'[i] = job[i]
  BY IdleJob, ZenonT(60) DEF FilesInv, FTypeOK, StartBackup, Idle, Job, Place, Jobs
<1>3. JobsInv'
  <2>1. BackupJob'
    BY <1>1, <1>2 DEF BackupJob, Copied, Linked, StartBackup, Ready, history
  <2> QED  BY <1>2, <2>1, BackupMoves DEF StartBackup, filevars, history
<1> QED  BY <1>2, <1>3, JobOnly DEF StartBackup

(* CopyDatabase: the copy is the database of a running daemon. *)
LEMMA CopyDatabaseInv == ASSUME FilesInv, CopyDatabase PROVE FilesInv'
<1>1. /\ job["backup"].at = "copy" /\ daemon.up /\ db \in Database /\ db.env \in db.known
  BY DEF FilesInv, JobsInv, BackupJob, CopyDatabase, PassphraseKnown
<1>2. /\ job' \in [Jobs -> Job] /\ job'["backup"].at = "sync" /\ job'["backup"].temp = db
      /\ job'["backup"].path = job["backup"].path
      /\ \A i \in Jobs \ {"backup"} : job'[i] = job[i]
  BY <1>1, FileKinds DEF FilesInv, FTypeOK, CopyDatabase, Job, Place, Jobs
<1>3. JobsInv'
  <2>1. BackupJob'
    BY <1>1, <1>2, ZenonT(60) DEF FilesInv, JobsInv, BackupJob, Copied, Linked, CopyDatabase, history
  <2> QED  BY <1>2, <2>1, BackupMoves DEF CopyDatabase, filevars, history
<1> QED  BY <1>2, <1>3, JobOnly DEF CopyDatabase

(* Checksum: the manifest describes the published snapshot. *)
LEMMA ChecksumInv == ASSUME FilesInv, Checksum PROVE FilesInv'
<1>1. "backup" \in Jobs
  BY DEF Jobs
<1>2. CASE Stop("backup")
  BY <1>1, <1>2, StopInv DEF Checksum
<1>3. CASE job' = [job EXCEPT !["backup"].manifest = file[Snapshot(job["backup"].path)],
                              !["backup"].at = "create"]
  <2> DEFINE m == file[Snapshot(job["backup"].path)]
  <2>0. m \in Database /\ job' = [job EXCEPT !["backup"].manifest = m, !["backup"].at = "create"]
    BY <1>3, SMTT(40) DEF FilesInv, JobsInv, BackupJob, Checksum, Linked, Copied
  <2> HIDE DEF m
  <2>1. /\ job' \in [Jobs -> Job] /\ job'["backup"].at = "create" /\ job'["backup"].manifest = m
        /\ job'["backup"].path = job["backup"].path /\ job'["backup"].temp = job["backup"].temp
        /\ \A i \in Jobs \ {"backup"} : job'[i] = job[i]
    <3>1. job \in [Jobs -> Job] /\ m \in File /\ "create" \in Place
      BY <2>0, FileKinds DEF FilesInv, FTypeOK, Place
    <3> QED  BY <1>1, <2>0, <3>1, DescribeJob, Zenon
  <2>2. JobsInv'
    <3>1. BackupJob'
      BY <2>1 DEF FilesInv, JobsInv, BackupJob, Copied, Linked, Checksum, filevars, history, m
    <3> QED  BY <2>1, <3>1, BackupMoves, ZenonT(60) DEF Checksum, filevars, history
  <2> QED  BY <2>1, <2>2, JobOnly, ZenonT(60) DEF Checksum
<1> QED  BY <1>2, <1>3 DEF Checksum

(* ReadManifest: a whole sidecar gives the length and the hash of a database. *)
LEMMA ReadManifestInv ==
    ASSUME FilesInv, NEW r \in Restorer, NEW p \in Path, NEW o \in Output, ReadManifest(r, p, o)
    PROVE  FilesInv'
<1> DEFINE m == file[Sidecar(p)]
<1>1. m \in Database /\ r \in Jobs
  BY DEF ReadManifest, Jobs
<1>2. job' = [job EXCEPT ![r] = [Idle EXCEPT !.at = "verify", !.path = p, !.out = o, !.manifest = m]]
  BY DEF ReadManifest
<1> HIDE DEF m
<1>3. /\ job' \in [Jobs -> Job] /\ job'[r].at = "verify"
      /\ job'[r].path = p /\ job'[r].out = o /\ job'[r].manifest = m
      /\ \A i \in Jobs \ {r} : job'[i] = job[i]
  BY <1>1, <1>2, IdleJob, FileKinds, ZenonT(60) DEF FilesInv, FTypeOK, Idle, Job, Place
<1>4. JobsInv'
  <2>1. RestoreJob(r)'
    BY <1>1, <1>3, Zenon DEF RestoreJob
  <2> QED  BY <1>3, <2>1, RestoreMoves DEF ReadManifest
<1> QED  BY <1>3, <1>4, JobOnly DEF ReadManifest

(* VerifyBackup: from here on the snapshot is what the manifest describes. *)
LEMMA VerifyBackupInv == ASSUME FilesInv, NEW r \in Restorer, VerifyBackup(r) PROVE FilesInv'
<1>1. r \in Jobs /\ "copy" \in Place
  BY DEF Jobs, Place
<1>2. CASE Stop(r)
  BY <1>1, <1>2, StopInv DEF VerifyBackup
<1>3. CASE file[Snapshot(job[r].path)] = job[r].manifest /\ Goto(r, "copy")
  <2>1. /\ job' \in [Jobs -> Job] /\ job'[r].at = "copy"
        /\ job'[r].path = job[r].path /\ job'[r].out = job[r].out
        /\ job'[r].manifest = job[r].manifest
        /\ \A i \in Jobs \ {r} : job'[i] = job[i]
    BY <1>1, <1>3, GotoJob, ZenonT(60) DEF FilesInv, FTypeOK
  <2>2. JobsInv'
    <3>1. RestoreJob(r)'
      BY <1>3, <2>1, ZenonT(60) DEF FilesInv, JobsInv, RestoreJob, VerifyBackup, filevars
    <3> QED  BY <2>1, <3>1, RestoreMoves, SMTT(40) DEF VerifyBackup
  <2> QED  BY <2>1, <2>2, JobOnly, Zenon DEF VerifyBackup
<1> QED  BY <1>2, <1>3 DEF VerifyBackup

(* CopySnapshot: the copy is what the manifest describes. *)
LEMMA CopySnapshotInv == ASSUME FilesInv, NEW r \in Restorer, CopySnapshot(r) PROVE FilesInv'
<1> DEFINE m == file[Snapshot(job[r].path)]
<1>1. /\ r \in Jobs /\ job[r].at = "copy" /\ job[r].path \in Path /\ job[r].out \in Output
      /\ m = job[r].manifest /\ m \in Database
  BY ZenonT(60) DEF FilesInv, JobsInv, RestoreJob, CopySnapshot, Jobs
<1>2. m.env \in m.known
  BY <1>1, NameKinds, FileKinds DEF FilesInv, PublishedWhole
<1>3. job' = [job EXCEPT ![r].temp = m, ![r].at = "sync"]
  BY DEF CopySnapshot
<1> HIDE DEF m
<1>4. /\ job' \in [Jobs -> Job] /\ job'[r].at = "sync" /\ job'[r].temp = m
      /\ job'[r].path = job[r].path /\ job'[r].out = job[r].out
      /\ job'[r].manifest = job[r].manifest
      /\ \A i \in Jobs \ {r} : job'[i] = job[i]
  BY <1>1, <1>3, FileKinds DEF FilesInv, FTypeOK, Job, Place
<1>5. JobsInv'
  <2>1. RestoreJob(r)'
    BY <1>1, <1>2, <1>4 DEF RestoreJob
  <2> QED  BY <1>4, <2>1, RestoreMoves, Zenon DEF CopySnapshot
<1> QED  BY <1>4, <1>5, JobOnly, Zenon DEF CopySnapshot

-----------------------------------------------------------------------------
(* Steps that give a file its name, write the sidecar or make both durable. *)

(* Link: the new name was free, so no other job, backup or restore relies on it. *)
LEMMA LinkInv ==
    ASSUME FilesInv, NEW j \in Jobs, job[j].at = "link", file[Target(j)] = NoFile, Link(j),
           UNCHANGED <<db, daemon, history>>
    PROVE  FilesInv'
<1> DEFINE n == Target(j)
<1>1. job[j].temp \in Database /\ job[j].temp.env \in job[j].temp.known /\ job[j].synced
  BY ZenonT(60) DEF FilesInv, JobsInv, BackupJob, RestoreJob, Jobs, Copied
<1>2. /\ j = "backup" => job[j].path \in Path \ acked /\ n = Snapshot(job[j].path)
      /\ j # "backup" => j \in Restorer /\ job[j].out \in Output /\ n = Restored(job[j].out)
  BY DEF FilesInv, JobsInv, BackupJob, RestoreJob, Jobs, Target
<1>3. n \in DataName /\ n \in Name
  BY <1>2, NameKinds
<1>4. /\ job' \in [Jobs -> Job] /\ job'[j].at = "publish"
      /\ job'[j].path = job[j].path /\ job'[j].out = job[j].out
      /\ job'[j].temp = job[j].temp /\ job'[j].synced = job[j].synced
      /\ job'[j].manifest = job[j].manifest
      /\ \A i \in Jobs \ {j} : job'[i] = job[i]
  <2>1. job \in [Jobs -> Job] /\ "publish" \in Place /\ Goto(j, "publish")
    BY DEF FilesInv, FTypeOK, Place, Link
  <2> QED  BY <2>1, GotoJob
<1>5. /\ file' = [file EXCEPT ![n] = job[j].temp] /\ loose' = loose \cup {n} /\ dirty' = dirty
      /\ file \in [Name -> File] /\ file[n] = NoFile
  BY <1>1 DEF Link, FilesInv, FTypeOK
<1> HIDE DEF n
<1>6. file'[n] = job[j].temp /\ \A k \in Name \ {n} : file'[k] = file[k]
  BY <1>3, <1>5
<1>7. FTypeOK'
  BY <1>1, <1>3, <1>4, <1>5, FileKinds, ZenonT(60) DEF FilesInv, FTypeOK, history
<1>8. PublishedWhole' /\ dirty' \cap DataName = {} /\ PassphraseKnown' /\ (daemon'.up => db' \in Database)
  BY <1>1, <1>3, <1>5, <1>6, NameKinds, ZenonT(60) DEF FilesInv, PublishedWhole, PassphraseKnown
<1>9. BackupKept'
  BY <1>3, <1>5, <1>6, NameKinds, FileKinds, SMTT(40) DEF FilesInv, FTypeOK, BackupKept, history
<1>10. RestoredAsManifest'
  BY <1>3, <1>5, <1>6, NameKinds, FileKinds, ZenonT(60) DEF FilesInv, RestoredAsManifest, history
<1>11. \A r \in Restorer \ {j} : RestoreJob(r)'
  <2> TAKE r \in Restorer \ {j}
  <2>1. job'[r] = job[r] /\ RestoreJob(r) /\ restored' = restored
    BY <1>4 DEF FilesInv, JobsInv, Jobs, history
  <2> QED  BY <2>1, <1>5, <1>6, NameKinds, FileKinds, SMTT(40) DEF RestoreJob
<1>12. CASE j = "backup"
  <2>1. BackupJob'
    <3>1. /\ daemon.up /\ job["backup"].path \in Path \ acked /\ daemon' = daemon /\ acked' = acked
          /\ file'[Snapshot(job["backup"].path)] = job["backup"].temp
      BY <1>1, <1>2, <1>6, <1>12, Zenon DEF FilesInv, JobsInv, BackupJob, history
    <3>2. "publish" \in Copied /\ "publish" \notin Linked \ {"publish"}
      BY Zenon DEF Copied
    <3> QED  BY <1>1, <1>4, <1>12, <3>1, <3>2, Zenon DEF BackupJob
  <2>2. \A r \in Restorer : r # j /\ r \in Jobs
    BY <1>12, NamesDiffer, Zenon DEF Jobs
  <2>3. JobsInv'
    BY <1>4, <1>11, <2>1, <2>2, OneJobMoves, ZenonT(60) DEF FilesInv
  <2> QED  BY <1>7, <1>8, <1>9, <1>10, <2>3, Zenon DEF FilesInv
<1>13. CASE j # "backup"
  <2>1. restored'[job[j].out] = NoFile
    BY <1>2, <1>5, <1>13, ZenonT(60) DEF FilesInv, RestoredAsManifest, history
  <2>2. RestoreJob(j)'
    BY <1>1, <1>2, <1>4, <1>6, <1>13, <2>1, ZenonT(60) DEF FilesInv, JobsInv, RestoreJob
  <2>3. BackupJob'
    <3>1. job'["backup"] = job["backup"] /\ BackupJob /\ daemon' = daemon /\ acked' = acked
      BY <1>4, <1>13, Zenon DEF FilesInv, JobsInv, Jobs, history
    <3>2. \A p \in Path : Snapshot(p) # n /\ Sidecar(p) # n /\ Snapshot(p) \in Name /\ Sidecar(p) \in Name
      BY <1>2, <1>13, NameKinds
    <3> QED  BY <3>1, <3>2, <1>5, <1>6, ZenonT(60) DEF BackupJob
  <2>4. \A r \in Restorer \ {j} : job[r].at = "publish" => job[r].out # job[j].out
    <3> SUFFICES ASSUME NEW r \in Restorer \ {j}, job[r].at = "publish"
                 PROVE  job[r].out # job[j].out
      OBVIOUS
    <3>1. RestoreJob(r)
      BY Zenon DEF FilesInv, JobsInv
    <3>2. file[Restored(job[r].out)] \in Database
      BY <3>1, Zenon DEF RestoreJob
    <3>3. file[Restored(job[j].out)] = NoFile
      BY <1>2, <1>5, <1>13, Zenon
    <3> QED  BY <3>2, <3>3, FileKinds, Zenon
  <2>5. JobsInv'
    BY <1>4, <1>11, <2>2, <2>3, <2>4, OneJobMoves DEF FilesInv
  <2> QED  BY <1>7, <1>8, <1>9, <1>10, <2>5 DEF FilesInv
<1> QED  BY <1>12, <1>13, ZenonT(60)

(* Publish links the file, or finds the name taken. *)
LEMMA PublishInv == ASSUME FilesInv, NEW j \in Jobs, Publish(j) PROVE FilesInv'
BY LinkInv, StopInv DEF Publish

(* SyncSnapshot: the snapshot's name is durable. *)
LEMMA SyncSnapshotInv == ASSUME FilesInv, SyncSnapshot PROVE FilesInv'
<1> DEFINE b == job["backup"]
<1>1. "backup" \in Jobs /\ b.at = "publish" /\ b.path \in Path \ acked
  BY DEF FilesInv, JobsInv, BackupJob, SyncSnapshot, Jobs
<1>2. /\ job' \in [Jobs -> Job] /\ job'["backup"].at = "checksum"
      /\ job'["backup"].path = b.path /\ job'["backup"].temp = b.temp
      /\ \A i \in Jobs \ {"backup"} : job'[i] = job[i]
  <2>1. job \in [Jobs -> Job] /\ "checksum" \in Place /\ Goto("backup", "checksum")
    BY DEF FilesInv, FTypeOK, Place, SyncSnapshot
  <2> QED  BY <1>1, <2>1, GotoJob
<1>3. loose' = loose \ {Snapshot(b.path)} /\ UNCHANGED <<db, daemon, file, dirty, history>>
  BY DEF SyncSnapshot, Target
<1>4. FTypeOK' /\ PassphraseKnown'
  BY <1>2, <1>3, ZenonT(60) DEF FilesInv, FTypeOK, PassphraseKnown, history
<1>5. BackupKept' /\ PublishedWhole' /\ RestoredAsManifest'
  BY <1>3, Zenon DEF FilesInv, BackupKept, PublishedWhole, RestoredAsManifest, history
<1>6. BackupJob'
  BY <1>1, <1>2, <1>3, ZenonT(60) DEF FilesInv, JobsInv, BackupJob, Copied, Linked, history
<1>7. JobsInv'
  BY <1>2, <1>3, <1>6, BackupMoves, Zenon DEF history
<1> QED  BY <1>3, <1>4, <1>5, <1>7, ZenonT(60) DEF FilesInv

(* A step of write_new_file touches one sidecar, of a backup not yet complete. *)
LEMMA SidecarOnly ==
    ASSUME FilesInv, NEW f \in File, NEW place \in Place, job["backup"].at \in {"create", "write"},
           file' = [file EXCEPT ![Sidecar(job["backup"].path)] = f], Goto("backup", place),
           dirty' \in {dirty, dirty \cup {Sidecar(job["backup"].path)}},
           loose' \in {loose, loose \cup {Sidecar(job["backup"].path)}},
           place \in {"write", "finish"}, place = "finish" => f = job["backup"].manifest,
           UNCHANGED <<db, daemon, history>>
    PROVE  FilesInv'
<1> DEFINE b == job["backup"]
           n == Sidecar(b.path)
<1>1. /\ "backup" \in Jobs /\ b.path \in Path \ acked /\ file \in [Name -> File]
      /\ acked \subseteq Path
  BY ZenonT(60) DEF FilesInv, FTypeOK, JobsInv, BackupJob, Jobs
<1>2. n \in Name /\ n \notin DataName /\ \A p \in acked : n # Sidecar(p) /\ n # Snapshot(p)
  BY <1>1, NameKinds
<1>3. /\ job' \in [Jobs -> Job] /\ job'["backup"].at = place
      /\ job'["backup"].path = b.path /\ job'["backup"].temp = b.temp
      /\ job'["backup"].manifest = b.manifest
      /\ \A i \in Jobs \ {"backup"} : job'[i] = job[i]
  <2>1. job \in [Jobs -> Job]
    BY Zenon DEF FilesInv, FTypeOK
  <2> QED  BY <1>1, <2>1, GotoJob, ZenonT(60)
<1>4. file'[n] = f /\ \A k \in Name \ {n} : file'[k] = file[k]
  BY <1>1, <1>2
<1> HIDE DEF n
<1>5. FTypeOK' /\ PassphraseKnown'
  BY <1>1, <1>2, <1>3, ZenonT(60) DEF FilesInv, FTypeOK, PassphraseKnown, history, n
<1>6. BackupKept'
  BY <1>1, <1>2, <1>4, NameKinds, ZenonT(60) DEF FilesInv, BackupKept, history, n
<1>7. PublishedWhole' /\ dirty' \cap DataName = {}
  BY <1>2, <1>4, NameKinds DEF FilesInv, PublishedWhole, n
<1>8. RestoredAsManifest'
  BY <1>2, <1>4, NameKinds, SMTT(40) DEF FilesInv, RestoredAsManifest, history, n
<1>9. BackupJob'
  <2>1. Snapshot(b.path) \in Name \ {n}
    BY <1>1, NameKinds, Zenon DEF n
  <2>2. /\ file'[Snapshot(b.path)] = file[Snapshot(b.path)]
        /\ Snapshot(b.path) \notin loose => Snapshot(b.path) \notin loose'
    BY <2>1, <1>4 DEF n
  <2> QED  BY <1>1, <1>3, <1>4, <2>2, SMTT(40) DEF FilesInv, JobsInv, BackupJob, Copied, Linked, history, n
<1>10. \A r \in Restorer : RestoreJob(r)'
  <2> TAKE r \in Restorer
  <2>1. job'[r] = job[r] /\ RestoreJob(r) /\ restored' = restored
    BY <1>3, NamesDiffer, ZenonT(60) DEF FilesInv, JobsInv, Jobs, history
  <2> QED  BY <2>1, <1>2, <1>4, NameKinds, SMTT(40) DEF RestoreJob
<1>11. JobsInv'
  <2>1. JobsInv /\ job'["backup"].at # "idle" /\ "backup" \notin Restorer
    BY <1>3, NamesDiffer, Zenon DEF FilesInv
  <2> QED  BY <2>1, <1>1, <1>3, <1>9, <1>10, OneJobMoves, ZenonT(60)
<1> QED  BY <1>5, <1>6, <1>7, <1>8, <1>11, ZenonT(60) DEF FilesInv

(* CreateSidecar and WriteSidecar are such steps, or end the backup. *)
LEMMA SidecarInv == ASSUME FilesInv, CreateSidecar \/ WriteSidecar PROVE FilesInv'
<1>1. /\ "backup" \in Jobs /\ "write" \in Place /\ "finish" \in Place /\ Torn \in File
      /\ job["backup"].manifest \in File
  BY FileKinds, ZenonT(60) DEF Jobs, Place, FilesInv, FTypeOK, Job
<1>2. CASE CreateSidecar
  BY <1>1, <1>2, SidecarOnly, StopInv DEF CreateSidecar
<1>3. CASE WriteSidecar
  BY <1>1, <1>3, SidecarOnly, ZenonT(60) DEF WriteSidecar
<1> QED  BY <1>2, <1>3, Zenon

(* SyncSidecar: snapshot and sidecar are durable and belong together. *)
LEMMA SyncSidecarInv == ASSUME FilesInv, SyncSidecar PROVE FilesInv'
<1> DEFINE b == job["backup"]
<1>1. /\ "backup" \in Jobs /\ b.path \in Path \ acked
      /\ file[Snapshot(b.path)] \in Database /\ Snapshot(b.path) \notin loose
      /\ file[Sidecar(b.path)] = file[Snapshot(b.path)]
  BY ZenonT(60) DEF FilesInv, JobsInv, BackupJob, SyncSidecar, Jobs, Linked, Copied
<1>2. /\ job' \in [Jobs -> Job] /\ job'["backup"] = Idle /\ job'["backup"].at = "idle"
      /\ \A i \in Jobs \ {"backup"} : job'[i] = job[i]
  BY <1>1, StopJob, Zenon DEF FilesInv, FTypeOK, SyncSidecar
<1>3. /\ dirty' = dirty \ {Sidecar(b.path)} /\ loose' = loose \ {Sidecar(b.path)}
      /\ acked' = acked \cup {b.path} /\ UNCHANGED <<db, daemon, file, restored>>
  BY Zenon DEF SyncSidecar
<1>4. Snapshot(b.path) \notin dirty
  BY <1>1, NameKinds DEF FilesInv
<1>5. FTypeOK' /\ PassphraseKnown'
  BY <1>1, <1>2, <1>3, ZenonT(60) DEF FilesInv, FTypeOK, PassphraseKnown
<1>6. BackupKept'
  BY <1>1, <1>3, <1>4, SMTT(40) DEF FilesInv, BackupKept
<1>7. PublishedWhole' /\ RestoredAsManifest' /\ dirty' \cap DataName = {}
  BY <1>3, Zenon DEF FilesInv, PublishedWhole, RestoredAsManifest
<1>8. JobsInv'
  <2>1. BackupJob'
    BY <1>2 DEF BackupJob
  <2> QED  BY <1>2, <1>3, <2>1, BackupMoves, Zenon
<1> QED  BY <1>3, <1>5, <1>6, <1>7, <1>8, ZenonT(60) DEF FilesInv

(* SyncRestored: the output is durable and holds what the manifest describes. *)
LEMMA SyncRestoredInv == ASSUME FilesInv, NEW r \in Restorer, SyncRestored(r) PROVE FilesInv'
<1> DEFINE o == job[r].out
<1>1. /\ r \in Jobs /\ r # "backup" /\ o \in Output /\ job[r].manifest \in Database
      /\ file[Restored(o)] = job[r].manifest /\ job[r].at = "publish"
  BY NamesDiffer, ZenonT(60) DEF FilesInv, JobsInv, RestoreJob, SyncRestored, Jobs
<1>2. /\ job' \in [Jobs -> Job] /\ job'[r] = Idle /\ job'[r].at = "idle"
      /\ \A i \in Jobs \ {r} : job'[i] = job[i]
  BY <1>1, StopJob, Zenon DEF FilesInv, FTypeOK, SyncRestored
<1>3. /\ loose' = loose \ {Restored(o)} /\ restored' = [restored EXCEPT ![o] = job[r].manifest]
      /\ UNCHANGED <<db, daemon, file, dirty, acked>>
  BY <1>1, ZenonT(60) DEF SyncRestored, Target
<1>4. Restored(o) \notin dirty
  BY <1>1, NameKinds DEF FilesInv
<1> HIDE DEF o
<1>5. FTypeOK' /\ PassphraseKnown'
  BY <1>1, <1>2, <1>3, ZenonT(60) DEF FilesInv, FTypeOK, PassphraseKnown
<1>6. BackupKept' /\ PublishedWhole' /\ dirty' \cap DataName = {}
  BY <1>3, ZenonT(60) DEF FilesInv, BackupKept, PublishedWhole
<1>7. RestoredAsManifest'
  BY <1>1, <1>3, <1>4, ZenonT(60) DEF FilesInv, FTypeOK, RestoredAsManifest
<1>8. BackupJob'
  BY <1>1, <1>2, <1>3, ZenonT(60) DEF FilesInv, JobsInv, BackupJob, Jobs
<1>9. \A s \in Restorer \ {r} : job[s].at = "publish" => job[s].out # o
  BY <1>1 DEF FilesInv, JobsInv, o
<1>10. \A s \in Restorer : RestoreJob(s)'
  <2> TAKE s \in Restorer
  <2>1. CASE s = r
    BY <1>2, <2>1, SMTT(40) DEF RestoreJob
  <2>2. CASE s # r
    <3>1. job'[s] = job[s] /\ RestoreJob(s)
      BY <1>2, <2>2, ZenonT(60) DEF FilesInv, JobsInv, Jobs
    <3>2. job[s].at = "publish" => job[s].out \in Output /\ restored'[job[s].out] = restored[job[s].out]
      BY <3>1, <1>3, <1>9, <2>2, ZenonT(60) DEF RestoreJob, FilesInv, FTypeOK
    <3> QED  BY <3>1, <3>2, <1>3, ZenonT(60) DEF RestoreJob
  <2> QED  BY <2>1, <2>2
<1>11. JobsInv'
  BY <1>1, <1>2, <1>8, <1>10, OneJobMoves DEF FilesInv
<1> QED  BY <1>3, <1>5, <1>6, <1>7, <1>11, ZenonT(60) DEF FilesInv

-----------------------------------------------------------------------------
(* The remaining steps, and the theorems. *)

(* Switch: the restored database opens with a passphrase its owner knew. *)
LEMMA SwitchInv == ASSUME FilesInv, NEW o \in Output, Switch(o) PROVE FilesInv'
<1> DEFINE n == Restored(o)
<1>1. /\ ~ daemon.up /\ restored[o] # NoFile /\ file[n] = restored[o] /\ restored[o] \in Database
      /\ n \in DataName /\ n \in Name /\ file \in [Name -> File]
  BY NameKinds DEF FilesInv, FTypeOK, RestoredAsManifest, Switch
<1>2. file[n].env \in file[n].known
  BY <1>1, FileKinds DEF FilesInv, PublishedWhole
<1>3. /\ db' = file[n] /\ file' = [file EXCEPT ![n] = Live]
      /\ restored' = [restored EXCEPT ![o] = NoFile] /\ UNCHANGED <<daemon, dirty, loose, job, acked>>
  BY DEF Switch
<1>4. \A k \in Name \ {n} : file'[k] = file[k]
  BY <1>1, <1>3
<1>5. file'[n] = Live
  BY <1>1, <1>3
<1>6. /\ \A p \in Path : Snapshot(p) # n /\ Sidecar(p) # n /\ Snapshot(p) \in Name /\ Sidecar(p) \in Name
      /\ \A q \in Output : Restored(q) = n => q = o
  BY NameKinds
<1> HIDE DEF n
<1>7. FTypeOK' /\ PassphraseKnown' /\ ~ daemon'.up
  BY <1>1, <1>2, <1>3, FileKinds, ZenonT(60) DEF FilesInv, FTypeOK, PassphraseKnown
<1>8. BackupKept' /\ dirty' \cap DataName = {}
  BY <1>3, <1>4, <1>6 DEF FilesInv, FTypeOK, BackupKept
<1>9. PublishedWhole'
  BY <1>4, <1>5, NameKinds, Zenon DEF FilesInv, PublishedWhole
<1>10. RestoredAsManifest'
  BY <1>3, <1>4, <1>6, NameKinds, ZenonT(60) DEF FilesInv, FTypeOK, RestoredAsManifest
<1>11. BackupJob'
  BY <1>1, <1>3, ZenonT(60) DEF FilesInv, JobsInv, BackupJob
<1>12. \A r \in Restorer : RestoreJob(r)'
  <2> TAKE r \in Restorer
  <2>1. job'[r] = job[r] /\ RestoreJob(r)
    BY <1>3, Zenon DEF FilesInv, JobsInv
  <2>2. job[r].at = "publish" => job[r].out # o
    BY <2>1, <1>1, Zenon DEF RestoreJob
  <2> QED  BY <2>1, <2>2, <1>3, <1>4, <1>6, NameKinds, ZenonT(60) DEF RestoreJob, FilesInv, FTypeOK
<1>13. JobsInv'
  BY <1>3, <1>11, <1>12, ZenonT(60) DEF FilesInv, JobsInv
<1> QED  BY <1>7, <1>8, <1>9, <1>10, <1>13, Zenon DEF FilesInv

(* StopDaemon ends the backup with the daemon. *)
LEMMA StopDaemonInv == ASSUME FilesInv, StopDaemon PROVE FilesInv'
<1>1. "backup" \in Jobs /\ ~ Down.up
  BY DEF Jobs, Down
<1>2. /\ job' \in [Jobs -> Job] /\ job'["backup"] = Idle /\ job'["backup"].at = "idle"
      /\ \A i \in Jobs \ {"backup"} : job'[i] = job[i]
  BY <1>1, StopJob, Zenon DEF FilesInv, FTypeOK, StopDaemon
<1>3. FTypeOK' /\ PassphraseKnown'
  BY <1>1, <1>2, ZenonT(60) DEF FilesInv, FTypeOK, PassphraseKnown, StopDaemon, filevars, history
<1>4. BackupKept' /\ PublishedWhole' /\ RestoredAsManifest' /\ dirty' \cap DataName = {}
  BY DEF FilesInv, BackupKept, PublishedWhole, RestoredAsManifest, StopDaemon, filevars, history
<1>5. JobsInv'
  <2>1. BackupJob'
    BY <1>2 DEF BackupJob
  <2> QED  BY <1>2, <2>1, BackupMoves DEF StopDaemon, filevars, history
<1> QED  BY <1>1, <1>3, <1>4, <1>5 DEF FilesInv, StopDaemon

(* PowerLoss takes nothing that was synced. *)
LEMMA PowerLossInv == ASSUME FilesInv, PowerLoss PROVE FilesInv'
<1>1. /\ file' \in [Name -> File] /\ dirty' = {} /\ loose' = {} /\ daemon' = Down
      /\ job' = [j \in Jobs |-> Idle] /\ UNCHANGED <<db, history>>
  BY FileKinds DEF FilesInv, FTypeOK, PowerLoss
<1>2. /\ \A n \in Name : n \notin loose \cup dirty => file'[n] = file[n]
      /\ \A n \in Name : n \notin dirty => file'[n] \in {file[n], NoFile}
  BY DEF PowerLoss
<1>3. ~ daemon'.up
  BY <1>1 DEF Down
<1>4. FTypeOK' /\ PassphraseKnown'
  BY <1>1, <1>3, IdleJob, ZenonT(60) DEF FilesInv, FTypeOK, PassphraseKnown, history
<1>5. BackupKept'
  BY <1>1, <1>2, NameKinds, ZenonT(60) DEF FilesInv, FTypeOK, BackupKept, history
<1>6. PublishedWhole'
  BY <1>2, NameKinds, ZenonT(60) DEF FilesInv, PublishedWhole
<1>7. RestoredAsManifest'
  BY <1>1, <1>2, NameKinds, ZenonT(60) DEF FilesInv, RestoredAsManifest, history
<1>8. JobsInv'
  BY <1>1, IdleJob DEF JobsInv, BackupJob, RestoreJob, Jobs
<1> QED  BY <1>1, <1>3, <1>4, <1>5, <1>6, <1>7, <1>8 DEF FilesInv

(* Remove spares the files of backups and restores in progress. *)
LEMMA RemoveInv == ASSUME FilesInv, NEW n \in Name, Remove(n) PROVE FilesInv'
<1>1. /\ file' = [file EXCEPT ![n] = NoFile] /\ dirty' = dirty \ {n} /\ loose' = loose \ {n}
      /\ acked' = acked \ {n[1]} /\ UNCHANGED <<db, daemon, job>>
      /\ restored' = [o \in Output |-> IF n = Restored(o) THEN NoFile ELSE restored[o]]
      /\ file \in [Name -> File]
  BY DEF Remove, FilesInv, FTypeOK
<1>2. \A k \in Name \ {n} : file'[k] = file[k]
  BY <1>1
<1>3. file'[n] = NoFile
  BY <1>1
<1>4. \A p : (n = Snapshot(p) \/ n = Sidecar(p)) => n[1] = p
  BY DEF Snapshot, Sidecar
<1>5. \A o : n = Restored(o) => n[1] = o
  BY DEF Restored
<1>6. FTypeOK' /\ PassphraseKnown'
  BY <1>1, FileKinds, ZenonT(60) DEF FilesInv, FTypeOK, PassphraseKnown
<1>7. BackupKept'
  BY <1>1, <1>2, <1>4, NameKinds, ZenonT(60) DEF FilesInv, FTypeOK, BackupKept
<1>8. PublishedWhole' /\ dirty' \cap DataName = {}
  BY <1>1, <1>2, <1>3, NameKinds, ZenonT(60) DEF FilesInv, PublishedWhole
<1>9. RestoredAsManifest'
  BY <1>1, <1>2, NameKinds DEF FilesInv, RestoredAsManifest
<1>10. \A j \in Jobs : job[j].at # "idle" => n[1] # job[j].path /\ n[1] # job[j].out
  BY IdleJob, Zenon DEF Remove, Uses
<1>11. BackupJob'
  <2>1. BackupJob /\ "backup" \in Jobs
    BY Zenon DEF FilesInv, JobsInv, Jobs
  <2> QED  BY <2>1, <1>1, <1>2, <1>4, <1>10, NameKinds, ZenonT(60) DEF BackupJob
<1>12. \A r \in Restorer : RestoreJob(r)'
  <2> TAKE r \in Restorer
  <2>1. RestoreJob(r) /\ r \in Jobs
    BY Zenon DEF FilesInv, JobsInv, Jobs
  <2> QED  BY <2>1, <1>1, <1>2, <1>4, <1>5, <1>10, NameKinds, ZenonT(60) DEF RestoreJob
<1>13. JobsInv'
  BY <1>1, <1>11, <1>12, ZenonT(60) DEF FilesInv, JobsInv
<1> QED  BY <1>1, <1>6, <1>7, <1>8, <1>9, <1>13, ZenonT(60) DEF FilesInv

-----------------------------------------------------------------------------
(* Every step keeps the invariant. *)
LEMMA NextFiles == FilesInv /\ [Next]_vars => FilesInv'
<1> SUFFICES ASSUME FilesInv, [Next]_vars PROVE FilesInv'
  OBVIOUS
<1>1. CASE VaultStep
  BY <1>1, CreateSchemaInv, InsertEnvelopeInv, StartInv, SwitchInv, LockInv, WriteInv, RotateInv, Zenon
  DEF VaultStep
<1>2. CASE BackupStep
  BY <1>2, StartBackupInv, CopyDatabaseInv, SyncSnapshotInv, ChecksumInv, SidecarInv, SyncSidecarInv, Zenon
  DEF BackupStep
<1>3. ASSUME NEW r \in Restorer, RestoreStep(r) PROVE FilesInv'
  BY <1>3, ReadManifestInv, VerifyBackupInv, CopySnapshotInv, SyncRestoredInv, Zenon DEF RestoreStep
<1>4. ASSUME NEW j \in Jobs, JobStep(j) PROVE FilesInv'
  BY <1>4, SyncTemporaryInv, PublishInv, StopInv, Zenon DEF JobStep, Fails
<1>5. CASE UNCHANGED vars
  <2>1. UNCHANGED <<filevars, job, history>> /\ UNCHANGED db /\ UNCHANGED daemon
    BY <1>5 DEF vars
  <2>2. PassphraseKnown'
    BY <2>1 DEF FilesInv, PassphraseKnown
  <2> QED  BY <2>1, <2>2, VaultOnly, Zenon DEF FilesInv, FTypeOK
<1> QED
  BY <1>1, <1>2, <1>3, <1>4, <1>5, StopDaemonInv, PowerLossInv, RemoveInv, Zenon DEF Next

(* FilesInv holds of every vault, whatever the faults. *)
THEOREM FilesInvariant == Spec => []FilesInv
BY InitFiles, NextFiles, PTL DEF Spec

(* Every variable keeps its type, and only a database with an envelope is served. *)
THEOREM FilesTypeCorrect == Spec => []FTypeOK
<1>1. FilesInv => FTypeOK
  BY DEF FilesInv
<1> QED  BY <1>1, FilesInvariant, PTL

(* An acknowledged rotate_passphrase retires every earlier passphrase, and a   *)
(* failed one leaves the vault open to a passphrase its owner knows.           *)
THEOREM PassphraseStaysKnown == Spec => []PassphraseKnown
<1>1. FilesInv => PassphraseKnown
  BY DEF FilesInv
<1> QED  BY <1>1, FilesInvariant, PTL

(* A backup reported complete stays restorable until the operator removes it. *)
THEOREM BackupsKept == Spec => []BackupKept
<1>1. FilesInv => BackupKept
  BY DEF FilesInv
<1> QED  BY <1>1, FilesInvariant, PTL

(* No snapshot and no restored database is ever partial. *)
THEOREM PublishedAreWhole == Spec => []PublishedWhole
<1>1. FilesInv => PublishedWhole
  BY DEF FilesInv
<1> QED  BY <1>1, FilesInvariant, PTL

(* A completed restore holds the database its manifest describes. *)
THEOREM RestoresMatchManifest == Spec => []RestoredAsManifest
<1>1. FilesInv => RestoredAsManifest
  BY DEF FilesInv
<1> QED  BY <1>1, FilesInvariant, PTL

(* A job that runs publishes a name of its own. *)
LEMMA TargetName ==
    ASSUME FilesInv, NEW j \in Jobs, job[j].at # "idle"
    PROVE  Target(j) \in Name
<1>1. CASE j = "backup"
  <2>1. job["backup"].path \in Path
    BY <1>1, Zenon DEF FilesInv, JobsInv, BackupJob
  <2> QED  BY <1>1, <2>1, NameKinds, Zenon DEF Target
<1>2. CASE j # "backup"
  <2>1. j \in Restorer
    BY <1>2, Zenon DEF Jobs
  <2>2. job[j].out \in Output
    BY <2>1, Zenon DEF FilesInv, JobsInv, RestoreJob
  <2> QED  BY <1>2, <2>2, NameKinds, Zenon DEF Target
<1> QED  BY <1>1, <1>2, Zenon

(* publish_new_file never replaces a file, whichever processes race for it. *)
THEOREM PublishedNeverOverwritten == Spec => NeverOverwritten
<1> DEFINE Kept == \A n \in DataName : file[n] # NoFile => file'[n] \in {file[n], NoFile, Live}
<1>1. ASSUME FilesInv, Next PROVE Kept
  <2>0. file \in [Name -> File] /\ DataName \subseteq Name
    BY <1>1, NameKinds DEF FilesInv, FTypeOK
  <2>1. ASSUME NEW n \in Name, NEW f, f \in {NoFile, Live} \/ file[n] = NoFile \/ n \notin DataName,
               file' = [file EXCEPT ![n] = f]
        PROVE  Kept
    BY <2>0, <2>1
  <2>2. CASE UNCHANGED file
    BY <2>2, Zenon
  <2>3. ASSUME NEW o \in Output, Switch(o) PROVE Kept
    BY <2>1, <2>3, NameKinds, ZenonT(60) DEF Switch
  <2>4. ASSUME NEW j \in Jobs, Publish(j) PROVE Kept
    <3>1. Target(j) \in Name
      BY <1>1, <2>4, TargetName, Zenon DEF Publish
    <3>2. CASE file[Target(j)] = NoFile
      <4>1. file' = [file EXCEPT ![Target(j)] = job[j].temp]
        BY <2>4, <3>2, Zenon DEF Publish, Link
      <4> QED  BY <2>1, <3>1, <3>2, <4>1, Zenon
    <3>3. CASE file[Target(j)] # NoFile
      BY <2>2, <2>4, <3>3, Zenon DEF Publish, filevars
    <3> QED  BY <3>2, <3>3, Zenon
  <2>5. CASE CreateSidecar \/ WriteSidecar
    <3>1. Sidecar(job["backup"].path) \in Name \ DataName
      BY <1>1, <2>5, NameKinds, ZenonT(60) DEF CreateSidecar, WriteSidecar, FilesInv, JobsInv, BackupJob
    <3>2. \/ UNCHANGED file
          \/ \E f : file' = [file EXCEPT ![Sidecar(job["backup"].path)] = f]
      BY <2>5, Zenon DEF CreateSidecar, WriteSidecar, filevars
    <3> QED  BY <2>1, <2>2, <3>1, <3>2, Zenon
  <2>6. CASE PowerLoss
    BY <1>1, <2>0, <2>6, ZenonT(60) DEF PowerLoss, FilesInv
  <2>7. ASSUME NEW n \in Name, Remove(n) PROVE Kept
    BY <2>1, <2>7 DEF Remove
  <2> HIDE DEF Kept
  <2>8. CASE VaultStep
    BY <2>2, <2>3, <2>8, Zenon
    DEF VaultStep, CreateSchema, InsertEnvelope, Start, Unlock, Lock, FullCheckpoint, Write,
        RotatePassphrase, filevars
  <2>9. CASE BackupStep
    BY <2>2, <2>5, <2>9, Zenon
    DEF BackupStep, StartBackup, CopyDatabase, SyncSnapshot, Checksum, SyncSidecar, filevars
  <2>10. ASSUME NEW r \in Restorer, RestoreStep(r) PROVE Kept
    BY <2>2, <2>10, Zenon
    DEF RestoreStep, ReadManifest, VerifyBackup, CopySnapshot, SyncRestored, filevars
  <2>11. ASSUME NEW j \in Jobs, JobStep(j) PROVE Kept
    BY <2>2, <2>4, <2>11, Zenon DEF JobStep, SyncTemporary, Fails, filevars
  <2>12. StopDaemon => UNCHANGED file
    BY DEF StopDaemon, filevars
  <2> QED  BY <1>1, <2>2, <2>6, <2>7, <2>8, <2>9, <2>10, <2>11, <2>12, Zenon DEF Next
<1> HIDE DEF Kept
<1>2. FilesInv /\ [Next]_vars => (Kept \/ UNCHANGED vars)
  BY <1>1
<1>3. [][Kept]_vars => NeverOverwritten
  BY PTL DEF NeverOverwritten, Kept
<1> QED  BY <1>2, <1>3, FilesInvariant, PTL DEF Spec
=============================================================================
