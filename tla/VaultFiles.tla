----------------------------- MODULE VaultFiles -----------------------------
(***************************************************************************)
(* The files of a vault: the database with its root envelope                *)
(* (vlt1-core/src/vault.rs, storage.rs), encrypted snapshots with their     *)
(* sidecars and restored databases (backup.rs), over a file system whose    *)
(* unsynced data and directory entries a power loss may take away.  The     *)
(* daemon serialises its requests with the vault mutex; restores are run by *)
(* the CLI, in processes of their own.                                      *)
(***************************************************************************)
EXTENDS Integers, FiniteSets

CONSTANTS
    Passphrase,    \* nonempty passphrases
    NoPassphrase,  \* no envelope
    Path,          \* backup destinations
    Output,        \* restore destinations
    Restorer,      \* CLI processes that restore
    MaxContent,    \* bound: how often the vault is written
    Faults         \* which of "crash", "power", "Storage", "InvalidInput", "remove" happen

ASSUME PassphrasesNamed == NoPassphrase \notin Passphrase
ASSUME ContentBounded == MaxContent \in Nat
ASSUME NamesDiffer == "backup" \notin Restorer

(***************************************************************************)
(* A database: the passphrase that opens its root envelope, what it holds,  *)
(* and, as history, the passphrases its owner has reason to try: the last   *)
(* acknowledged one and the replacements tried since.  The root key itself  *)
(* never changes.                                                           *)
(***************************************************************************)
Database == [env : Passphrase, content : 0 .. MaxContent, known : SUBSET Passphrase]
Special(n) == [env |-> NoPassphrase, content |-> n, known |-> {}]
NoFile == Special(0)  \* nothing under this name
Schema == Special(1)  \* a database without an envelope
Torn == Special(2)    \* an empty, partial or damaged file
Live == Special(3)    \* the database a daemon was given: its state is db
File == Database \cup {NoFile, Schema, Torn, Live}

(* A sidecar is written as the database whose length and SHA-256 it gives. *)
Snapshot(p) == <<p, "snapshot">>
Sidecar(p) == <<p, "sidecar">>
Restored(o) == <<o, "vault">>
DataName == (Path \X {"snapshot"}) \cup (Output \X {"vault"})
Name == DataName \cup (Path \X {"sidecar"})

VARIABLES
    db,        \* the vault database, which SQLite commits durably
    daemon,    \* whether vlt1d runs, the envelope it read, whether it is unlocked
    file,      \* the files under each name
    dirty,     \* names whose data is not synced
    loose,     \* names whose directory entry is not synced
    job,       \* the backup and the restores in progress
    acked,     \* history: backups reported complete and not removed since
    restored   \* history: the manifest each completed restore was checked against

filevars == <<file, dirty, loose>>
history == <<acked, restored>>
vars == <<db, daemon, filevars, job, history>>

Jobs == Restorer \cup {"backup"}
Idle == [at |-> "idle", path |-> "none", out |-> "none", temp |-> NoFile,
         synced |-> FALSE, manifest |-> NoFile]
Down == [up |-> FALSE, env |-> NoPassphrase, unlocked |-> FALSE]

Init ==
    /\ db = NoFile
    /\ daemon = Down
    /\ file = [n \in Name |-> NoFile]
    /\ dirty = {} /\ loose = {}
    /\ job = [j \in Jobs |-> Idle]
    /\ acked = {}
    /\ restored = [o \in Output |-> NoFile]

-----------------------------------------------------------------------------
(* The vault and its root envelope *)

(* Vault::create: the file and its tables, then the envelope. *)
CreateSchema ==
    /\ db = NoFile
    /\ db' = Schema
    /\ UNCHANGED <<daemon, filevars, job, history>>

InsertEnvelope(p) ==
    /\ db = Schema
    /\ db' = [env |-> p, content |-> 0, known |-> {p}]
    /\ UNCHANGED <<daemon, filevars, job, history>>

(* A bug: a database without an envelope is opened all the same. *)
MutantStart ==
    /\ ~ daemon.up /\ db # NoFile
    /\ daemon' = [up |-> TRUE, env |-> db.env, unlocked |-> FALSE]
    /\ UNCHANGED <<db, filevars, job, history>>

(* Vault::open reads the envelope once; a database without one is refused. *)
Start ==
    /\ ~ daemon.up /\ db \in Database
    /\ daemon' = [up |-> TRUE, env |-> db.env, unlocked |-> FALSE]
    /\ UNCHANGED <<db, filevars, job, history>>

(* After a completed restore, a stopped daemon is given its output. *)
Switch(o) ==
    /\ ~ daemon.up /\ restored[o] # NoFile
    /\ db' = file[Restored(o)]
    /\ file' = [file EXCEPT ![Restored(o)] = Live]
    /\ restored' = [restored EXCEPT ![o] = NoFile]
    /\ UNCHANGED <<daemon, dirty, loose, job, acked>>

Ready == daemon.up /\ job["backup"] = Idle

(* Vault::unlock tries the envelope in memory; a wrong passphrase changes nothing. *)
Unlock(p) ==
    /\ Ready
    /\ daemon' = [daemon EXCEPT !.unlocked = @ \/ p = daemon.env]
    /\ UNCHANGED <<db, filevars, job, history>>

Lock ==
    /\ Ready
    /\ daemon' = [daemon EXCEPT !.unlocked = FALSE]
    /\ UNCHANGED <<db, filevars, job, history>>

(* full_checkpoint moves pages of the log, which changes nothing here; a      *)
(* checkpoint that fails or is busy locks the vault, as a failed put does.     *)
FullCheckpoint ==
    /\ Ready /\ daemon.unlocked /\ "Storage" \in Faults
    /\ daemon' = [daemon EXCEPT !.unlocked = FALSE]
    /\ UNCHANGED <<db, filevars, job, history>>

Write ==
    /\ Ready /\ daemon.unlocked /\ db.content < MaxContent
    /\ db' = [db EXCEPT !.content = @ + 1]
    /\ UNCHANGED <<daemon, filevars, job, history>>

Committed(new) == [db EXCEPT !.env = new, !.known = @ \cup {new}]

(* A bug: the envelope in memory stays the one that was read at the start. *)
MutantRotated(new) ==
    /\ db' = [db EXCEPT !.env = new, !.known = {new}]
    /\ daemon' = [daemon EXCEPT !.unlocked = FALSE]

Rotated(new) ==
    /\ db' = [db EXCEPT !.env = new, !.known = {new}]
    /\ daemon' = [daemon EXCEPT !.env = new, !.unlocked = FALSE]

(***************************************************************************)
(* rotate_passphrase: the envelope in memory is opened and sealed again,    *)
(* replace_root_envelope commits it, then checks the state files, and only  *)
(* a success replaces the envelope in memory.  Storage locks the vault,     *)
(* InvalidInput (a state file that is not a regular file) does not.         *)
(***************************************************************************)
RotatePassphrase(current, new) ==
    /\ Ready /\ current = daemon.env
    /\ \/ Rotated(new)
       \/ /\ "Storage" \in Faults
          /\ db' \in {[db EXCEPT !.known = @ \cup {new}], Committed(new)}
          /\ daemon' = [daemon EXCEPT !.unlocked = FALSE]
       \/ /\ "InvalidInput" \in Faults
          /\ db' = Committed(new)
          /\ UNCHANGED daemon
       \/ /\ "crash" \in Faults
          /\ db' = Committed(new)
          /\ daemon' = Down
    /\ UNCHANGED <<filevars, job, history>>

-----------------------------------------------------------------------------
(* Files *)

Goto(j, place) == job' = [job EXCEPT ![j].at = place]
Stop(j) == job' = [job EXCEPT ![j] = Idle]

(* A step that only fails: the job ends, what it has published stays. *)
Fails(j) ==
    /\ "Storage" \in Faults /\ job[j] # Idle
    /\ Stop(j)
    /\ UNCHANGED <<db, daemon, filevars, history>>

(* The name the job publishes its temporary file under. *)
Target(j) == IF j = "backup" THEN Snapshot(job[j].path) ELSE Restored(job[j].out)

(* A bug: the temporary file is published without being synced. *)
MutantSyncTemporary(j) ==
    /\ job[j].at = "sync"
    /\ Goto(j, "link")
    /\ UNCHANGED <<db, daemon, filevars, history>>

(* sync_file, then verify_snapshot_database, which refuses a damaged copy. *)
SyncTemporary(j) ==
    /\ job[j].at = "sync"
    /\ IF job[j].temp \in Database
       THEN job' = [job EXCEPT ![j].synced = TRUE, ![j].at = "link"]
       ELSE Stop(j)
    /\ UNCHANGED <<db, daemon, filevars, history>>

Link(j) ==
    /\ file' = [file EXCEPT ![Target(j)] = job[j].temp]
    /\ loose' = loose \cup {Target(j)}
    /\ dirty' = IF job[j].synced THEN dirty ELSE dirty \cup {Target(j)}
    /\ Goto(j, "publish")

(* A bug: the temporary file is renamed over whatever is there. *)
MutantPublish(j) ==
    /\ job[j].at = "link" /\ Link(j)
    /\ UNCHANGED <<db, daemon, history>>

(* publish_new_file: hard_link fails when the name exists. *)
Publish(j) ==
    /\ job[j].at = "link"
    /\ IF file[Target(j)] = NoFile
       THEN Link(j)
       ELSE Stop(j) /\ UNCHANGED filevars
    /\ UNCHANGED <<db, daemon, history>>

-----------------------------------------------------------------------------
(* create_snapshot *)

(* backup_to needs no root key. *)
StartBackup(p) ==
    /\ Ready /\ file[Snapshot(p)] = NoFile
    /\ job' = [job EXCEPT !["backup"] = [Idle EXCEPT !.at = "copy", !.path = p]]
    /\ UNCHANGED <<db, daemon, filevars, history>>

CopyDatabase ==
    /\ job["backup"].at = "copy"
    /\ job' = [job EXCEPT !["backup"].temp = db, !["backup"].at = "sync"]
    /\ UNCHANGED <<db, daemon, filevars, history>>

SyncSnapshot ==
    /\ job["backup"].at = "publish"
    /\ loose' = loose \ {Target("backup")}
    /\ Goto("backup", "checksum")
    /\ UNCHANGED <<db, daemon, file, dirty, history>>

(* from_snapshot reads the published file; then the sidecar must be new. *)
Checksum ==
    /\ job["backup"].at = "checksum"
    /\ LET p == job["backup"].path IN
       IF file[Snapshot(p)] # NoFile /\ file[Sidecar(p)] = NoFile
       THEN job' = [job EXCEPT !["backup"].manifest = file[Snapshot(p)],
                               !["backup"].at = "create"]
       ELSE Stop("backup")
    /\ UNCHANGED <<db, daemon, filevars, history>>

(* write_new_file: create_new, write_all, sync_all and the directory. *)
CreateSidecar ==
    /\ job["backup"].at = "create"
    /\ LET n == Sidecar(job["backup"].path) IN
       IF file[n] = NoFile
       THEN /\ file' = [file EXCEPT ![n] = Torn]
            /\ dirty' = dirty \cup {n} /\ loose' = loose \cup {n}
            /\ Goto("backup", "write")
       ELSE Stop("backup") /\ UNCHANGED filevars
    /\ UNCHANGED <<db, daemon, history>>

WriteSidecar ==
    /\ job["backup"].at = "write"
    /\ file' = [file EXCEPT ![Sidecar(job["backup"].path)] = job["backup"].manifest]
    /\ Goto("backup", "finish")
    /\ UNCHANGED <<db, daemon, dirty, loose, history>>

(* A bug: the answer is sent before the sidecar is synced. *)
MutantSyncSidecar ==
    /\ job["backup"].at = "finish"
    /\ acked' = acked \cup {job["backup"].path}
    /\ Stop("backup")
    /\ UNCHANGED <<db, daemon, filevars, restored>>

SyncSidecar ==
    /\ job["backup"].at = "finish"
    /\ LET n == Sidecar(job["backup"].path) IN
       dirty' = dirty \ {n} /\ loose' = loose \ {n}
    /\ acked' = acked \cup {job["backup"].path}
    /\ Stop("backup")
    /\ UNCHANGED <<db, daemon, file, restored>>

-----------------------------------------------------------------------------
(* restore_snapshot *)

(* read_from: a sidecar that is missing or not a whole manifest is refused. *)
ReadManifest(r, p, o) ==
    /\ job[r] = Idle /\ file[Sidecar(p)] \in Database
    /\ job' = [job EXCEPT ![r] = [Idle EXCEPT !.at = "verify", !.path = p, !.out = o,
                                              !.manifest = file[Sidecar(p)]]]
    /\ UNCHANGED <<db, daemon, filevars, history>>

(* A bug: the snapshot is only checked to be a sound database. *)
MutantVerifyBackup(r) ==
    /\ job[r].at = "verify"
    /\ IF file[Snapshot(job[r].path)] \in Database /\ file[Target(r)] = NoFile
       THEN Goto(r, "copy")
       ELSE Stop(r)
    /\ UNCHANGED <<db, daemon, filevars, history>>

(* verify_backup, then the output must be new. *)
VerifyBackup(r) ==
    /\ job[r].at = "verify"
    /\ IF file[Snapshot(job[r].path)] = job[r].manifest /\ file[Target(r)] = NoFile
       THEN Goto(r, "copy")
       ELSE Stop(r)
    /\ UNCHANGED <<db, daemon, filevars, history>>

CopySnapshot(r) ==
    /\ job[r].at = "copy"
    /\ job' = [job EXCEPT ![r].temp = file[Snapshot(job[r].path)], ![r].at = "sync"]
    /\ UNCHANGED <<db, daemon, filevars, history>>

SyncRestored(r) ==
    /\ job[r].at = "publish"
    /\ loose' = loose \ {Target(r)}
    /\ restored' = [restored EXCEPT ![job[r].out] = job[r].manifest]
    /\ Stop(r)
    /\ UNCHANGED <<db, daemon, file, dirty, acked>>

-----------------------------------------------------------------------------
(* The environment *)

(* The daemon stops or is killed, in the middle of a backup or not. *)
StopDaemon ==
    /\ daemon.up /\ ("crash" \in Faults \/ job["backup"] = Idle)
    /\ daemon' = Down
    /\ Stop("backup")
    /\ UNCHANGED <<db, filevars, history>>

(* Every process ends; names not synced may be gone, data not synced torn. *)
PowerLoss ==
    /\ "power" \in Faults
    /\ \E gone \in SUBSET loose, torn \in SUBSET dirty :
          file' = [n \in Name |-> CASE n \in gone -> NoFile
                                    [] n \in torn \ gone -> Torn
                                    [] OTHER -> file[n]]
    /\ dirty' = {} /\ loose' = {}
    /\ daemon' = Down
    /\ job' = [j \in Jobs |-> Idle]
    /\ UNCHANGED <<db, history>>

Uses(j, n) == job[j] # Idle /\ n[1] \in {job[j].path, job[j].out}

(* The operator deletes a file that no backup or restore is using. *)
Remove(n) ==
    /\ "remove" \in Faults
    /\ file[n] \notin {NoFile, Live} /\ \A j \in Jobs : ~ Uses(j, n)
    /\ file' = [file EXCEPT ![n] = NoFile]
    /\ dirty' = dirty \ {n} /\ loose' = loose \ {n}
    /\ acked' = acked \ {n[1]}
    /\ restored' = [o \in Output |-> IF n = Restored(o) THEN NoFile ELSE restored[o]]
    /\ UNCHANGED <<db, daemon, job>>

VaultStep ==
    \/ CreateSchema
    \/ \E p \in Passphrase : InsertEnvelope(p)
    \/ Start
    \/ \E o \in Output : Switch(o)
    \/ \E p \in Passphrase : Unlock(p)
    \/ Lock
    \/ FullCheckpoint
    \/ Write
    \/ \E p, q \in Passphrase : RotatePassphrase(p, q)

BackupStep ==
    \/ \E p \in Path : StartBackup(p)
    \/ CopyDatabase
    \/ SyncSnapshot
    \/ Checksum
    \/ CreateSidecar
    \/ WriteSidecar
    \/ SyncSidecar

RestoreStep(r) ==
    \/ \E p \in Path, o \in Output : ReadManifest(r, p, o)
    \/ VerifyBackup(r)
    \/ CopySnapshot(r)
    \/ SyncRestored(r)

JobStep(j) == SyncTemporary(j) \/ Publish(j) \/ Fails(j)

Next ==
    \/ VaultStep
    \/ BackupStep
    \/ \E r \in Restorer : RestoreStep(r)
    \/ \E j \in Jobs : JobStep(j)
    \/ StopDaemon
    \/ PowerLoss
    \/ \E n \in Name : Remove(n)

Spec == Init /\ [][Next]_vars

-----------------------------------------------------------------------------
(* Properties *)

Place == {"idle", "verify", "copy", "sync", "link", "publish", "checksum", "create",
          "write", "finish"}
Job == [at : Place, path : Path \cup {"none"}, out : Output \cup {"none"}, temp : File,
        synced : BOOLEAN, manifest : File]

(* Every variable stays in its type; a running daemon has read an envelope,   *)
(* as Vault::open refuses the database that an interrupted create left.        *)
FTypeOK ==
    /\ db \in Database \cup {NoFile, Schema}
    /\ daemon \in {Down} \cup [up : {TRUE}, env : Passphrase, unlocked : BOOLEAN]
    /\ file \in [Name -> File]
    /\ dirty \subseteq Name /\ loose \subseteq Name
    /\ job \in [Jobs -> Job]
    /\ acked \subseteq Path
    /\ restored \in [Output -> Database \cup {NoFile}]

(* The passphrase that opens the vault, in the running daemon and after a      *)
(* restart, is the last one whose rotation was acknowledged or a replacement   *)
(* tried since: rotate_passphrase may fail after its commit, but an            *)
(* acknowledged rotation retires every earlier passphrase at once.             *)
PassphraseKnown ==
    /\ db \in Database => db.env \in db.known
    /\ daemon.up => daemon.env \in db.known

(* A backup that create_snapshot reported complete can be restored, whatever   *)
(* crashes, power losses, later backups and restores do: snapshot and sidecar  *)
(* are durable and belong together, until the operator removes one.            *)
BackupKept ==
    \A p \in acked :
        /\ file[Snapshot(p)] \in Database /\ file[Sidecar(p)] = file[Snapshot(p)]
        /\ {Snapshot(p), Sidecar(p)} \cap (dirty \cup loose) = {}

(* Whatever step create_snapshot or restore_snapshot was stopped at, by a      *)
(* failure, a crash or a power loss, a file under a snapshot's or an output's  *)
(* name is a whole database and opens with a passphrase its owner knew then.   *)
PublishedWhole ==
    \A n \in DataName :
        file[n] \notin {NoFile, Live} => file[n] \in Database /\ file[n].env \in file[n].known

(* A completed restore_from_backup holds the database its manifest describes,  *)
(* also when the snapshot was removed and made again next to an old sidecar.   *)
RestoredAsManifest ==
    \A o \in Output :
        restored[o] # NoFile => file[Restored(o)] = restored[o] /\ Restored(o) \notin loose \cup dirty

(* publish_new_file never replaces a file: a database under a name stays the   *)
(* same until it is removed or given to a daemon, also when two restores race  *)
(* for one output.                                                             *)
NeverOverwritten ==
    [][\A n \in DataName : file[n] # NoFile => file'[n] \in {file[n], NoFile, Live}]_vars

-----------------------------------------------------------------------------
(* What a backup and a restore in progress have established so far. *)
Copied == {"sync", "link", "publish", "checksum", "create", "write", "finish"}
Linked == Copied \ {"sync", "link"}

BackupJob ==
    LET b == job["backup"] IN
    b.at # "idle" =>
        /\ daemon.up /\ b.path \in Path \ acked
        /\ b.at \in Copied \cup {"copy"}
        /\ b.at \in Copied => b.temp \in Database /\ b.temp.env \in b.temp.known
        /\ b.at = "link" => b.synced
        /\ b.at \in Linked => file[Snapshot(b.path)] \in Database
        /\ b.at \in Linked \ {"publish"} => Snapshot(b.path) \notin loose
        /\ b.at \in {"create", "write", "finish"} => b.manifest = file[Snapshot(b.path)]
        /\ b.at = "finish" => file[Sidecar(b.path)] = b.manifest

RestoreJob(r) ==
    LET t == job[r] IN
    t.at # "idle" =>
        /\ t.path \in Path /\ t.out \in Output /\ t.manifest \in Database
        /\ t.at \in {"verify", "copy", "sync", "link", "publish"}
        /\ t.at = "copy" => file[Snapshot(t.path)] = t.manifest
        /\ t.at \in {"sync", "link", "publish"} =>
              t.temp = t.manifest /\ t.temp.env \in t.temp.known
        /\ t.at = "link" => t.synced
        /\ t.at = "publish" => file[Restored(t.out)] = t.temp /\ restored[t.out] = NoFile

JobsInv ==
    /\ \A j \in Jobs : job[j].at = "idle" => job[j] = Idle
    /\ BackupJob
    /\ \A r \in Restorer : RestoreJob(r)
    /\ \A r, s \in Restorer :
          job[r].at = "publish" /\ job[s].at = "publish" /\ job[r].out = job[s].out => r = s

(***************************************************************************)
(* The inductive invariant: what every name, and every backup and restore   *)
(* in progress, has established at the step it is at (create_snapshot,      *)
(* restore_snapshot).                                                       *)
(***************************************************************************)
FilesInv ==
    /\ FTypeOK /\ PassphraseKnown /\ BackupKept /\ PublishedWhole /\ RestoredAsManifest
    /\ daemon.up => db \in Database
    /\ dirty \cap DataName = {}
    /\ JobsInv
=============================================================================
