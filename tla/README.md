# A TLA+ model of VLT/1

VLT/1 is a single-owner encrypted vault: immutable object versions in SQLite, a
local daemon that serves one owner, and an optional external *freshness witness*
that remembers the latest version of every object so that an older database
cannot pass for the current one. This directory models the parts whose
correctness depends on the order of events, checks them with TLC on small
instances, and proves the central results with TLAPS for every instance.

## The system

| Part | Source (`src/crates/`) | State | Operations | Talks to | Modelled by |
|---|---|---|---|---|---|
| Witness service | `vlt1-witness/src/lib.rs`, `main.rs` | `object_heads`, `vault_epochs`, signing key | `issue_wire`, `head_wire`, restart with another seed | HTTPS client | `WitnessService` |
| Witness protocol of the vault | `vlt1-core/src/vault.rs`, `storage.rs`, `witness.rs` | `pending_witness_publications`, `freshness_receipts`, `objects` | stage, issue, finalize, recover, verify heads | witness, storage | `WitnessedVault` |
| Versions and storage | `vault.rs`, `storage.rs`, `format.rs` | `versions`, `chunks`, `objects` | publish, streaming publish, read | vault | `VersionRecords`, `StreamTransfer`; in `WitnessedVault` a version is a name |
| Lifecycle | `vault.rs`, `error.rs`, `crypto.rs` | root key, root envelope | create, unlock, lock, lock on error, rotate passphrase, checkpoint | daemon | `WitnessedVault` (locking), `VaultFiles` (envelope) |
| Daemon | `vlt1-daemon/src/lib.rs` | witness, vault and recovery mutexes, connection count, long-operation flag, shutdown flag | accept loop, one thread per connection, one handler per request | clients | `DaemonThreads` (threads), `WitnessedVault` and `StreamTransfer` (what the requests do) |
| Backup and restore | `backup.rs`, `path_safety.rs` | snapshot file, sidecar, restored file | create, verify, restore | daemon, CLI | `VaultFiles`; what a restore means for the witness: `WitnessedVault` |
| Local protocol and CLI | `vlt1-protocol/src/lib.rs`, `vlt1-cli/src/main.rs` | stream position | frames, stream items, output file | daemon | `StreamTransfer` |
| Canonical encoding | `cde.rs` | none | encode, decode a Manifest | vault | `ManifestCode` |
| Cryptography | `crypto.rs` | none | seal, open, derive | vault | keys and associated data in `VersionRecords`; the primitives are ideal |
| Benchmarks, key generator, fuzz targets | `vlt1-bench.rs`, `vlt1-witness-key.rs`, `fuzz/` | none | none | none | not modelled |

What makes the system hard:

- A strict put takes three durable steps on two machines (stage in the vault,
  advance the head in the witness, finalize in the vault). A crash, a storage
  error or a lost answer can fall between any two.
- An issue request may be handled long after the client gave up, and recovery
  sends it again, so copies arrive late and repeated.
- Every writing transaction is followed by a permission check whose failure is
  reported although the change is durable.
- Whether an error locks the vault depends on its kind, and the vault's safety
  depends on it being locked while something is pending.
- Operators restore older databases, rotate the witness's signing key, and may
  run the same database with and without the witness.
- The daemon's threads share a count taken with a compare-and-exchange, a flag
  checked twice on different paths, and three mutexes.
- A file written, linked and reported complete is safe only once its data *and*
  its directory entry are synced, in the right order, on every path.
- A streamed plaintext is cut three ways on its way (items on the socket, reads
  of the daemon, chunks of the version), and either process may stop anywhere.

## Modules

`MonotonicHeads` is what a witness promises: a register per object, and every
change carries an epoch above all earlier ones.

`WitnessService` is the service itself. `head` is the table `object_heads` of
one vault (all rows are keyed by the vault id), `nextEpoch` is its row in
`vault_epochs`, `signer` the key the process was started with. `IssueWire` is one
transaction of `issue_wire`; `IssueStatus` is the status `dispatch` answers;
`Readable` is the signature check in `load_receipt`, made with the key of the
*running* process. `WNext` lets any client send any request at any time.
`MaxEpoch` is the largest SQLite integer.

`WitnessedVault` composes the service with a vault and its daemon.

- The database is `active` (objects), `receipts` (freshness_receipts) and
  `pending` (pending_witness_publications); `snapshot` is the last backup of
  them. Version ids are random and content is immutable, so a version is a
  model value; `owner` and `expected` record what its issue request says.
- The process is `profile` ("down", "strict" with a witness, "local" without),
  `unlocked` (the root key is in memory) and `op`, the request being executed.
  The daemon holds the vault mutex for a whole request, so there is one `op`.
- `net` holds the versions whose issue request may still reach the witness.
- `reply` and `acked` record the last answer and, per object, the epoch of the
  last put that was answered with "published".

A request is a sequence of actions, cut where something else can happen:
`UnlockStrict`, then `RecoverNext`, `AnswerIssue`, `Finalize` for every pending
row, then `RecoverDone`, `CheckObject` for every active object, `CheckDone`. A
strict put is `PutStrict` (prepare, read the local epoch, stage, send),
`AnswerIssue`, `Finalize`. `HandleUnanswered` is the witness handling a request
nobody waits for; `WitnessTimeout`, `StorageError` and `Crash` end a request at
any point. A SQLite transaction is one step (WAL, `synchronous=FULL`).
`Enforced` is the permission check after a commit. Definitions named `Mutant...`
are deliberate bugs, used to see that each property can fail; no action uses
them.

The constants `Profiles`, `Requests` and `Faults` select a deployment.

`DaemonThreads` is the process `vlt1d`. `acceptor` is where the accept loop is
and what it has read of `active_connections`; `LoadActive`, `Exchange` and
`ExchangeFails` are the loop of `try_acquire_connection`. `pc[c]` is where the
handler of connection `c` is: reading its request, in `dispatch`, waiting for a
mutex, inside the vault, answering, or dropping its permits. `Dispatch` and
`StatusCheck` are the two reads of `long_operation_active`, `TryAcquireLong` its
exchange, `DropLong` and `DropConnection` the `Drop` implementations. A panic
inside the vault operation unwinds the handler in a dev or test build (`Panic`:
guards are released, their mutexes poisoned, permits returned) and ends the
process in a release build (`PanicAborts`); either may happen in the model, so the
properties hold of both. What an operation does to the vault is one step,
`RunVault`, because the mutex is held throughout. `early` records which handlers
had passed the flag check when a long operation took the flag: only they may
wait for its mutexes.

`VaultFiles` is the database with its root envelope, the snapshots and sidecars
of backups, and restored databases. A file has a content (`file`), and is
`dirty` while its data and `loose` while its directory entry is not synced; a
power loss may take either away (`PowerLoss`), a crash of a process neither. A
backup is `StartBackup`, `CopyDatabase`, `SyncTemporary`, `Publish` (the hard
link that fails when the name is taken), `SyncSnapshot`, `Checksum`,
`CreateSidecar`, `WriteSidecar`, `SyncSidecar`, as in `create_snapshot`; a
restore reads the manifest, verifies, copies, syncs and publishes, as in
`restore_snapshot`, in a CLI process of its own, so two may race for one output.
A sidecar is modelled as the database whose length and digest it states.
`known` is the history of passphrases an owner has reason to try: the last
acknowledged one and the replacements tried since.

`VersionRecords` gives the rows of a version: how many chunks a plaintext has,
which key and associated data each record is sealed with, what the manifest
binds, and what a read accepts. A sealed record opens only under its key and its
associated data. Manifests are sealed as the values of their fields;
`ManifestCode` has their byte encoding (`encode_manifest`, `decode_manifest`),
with u64 values as eight bytes so that every width of the encoding exists.

`StreamTransfer` extends `VersionRecords` with one transfer between the CLI and
the daemon. `cli` and `srv` are the two processes, `up` and `down` the items on
the socket, `rows` and `active` the committed tables, `file` the client's output
file. `SendChunk`, `ReadItem`, `CopyBytes` and `AppendChunk` cut the same bytes
into items, reads and chunks; `Finish` commits the streaming transaction;
`ServeChunk` sends a chunk of a read after a first pass has verified all of them;
`PublishOutput` links the client's temporary file to its name. `Abort`, `Crash`,
`LoseDaemon`, `ReadFails` and `StorageFails` stop a transfer at any step, and
`DamageRow` and `DamagePointer` are storage faults that a read must notice.

## Runs

| Run | Bounds | Shows |
|---|---|---|
| `witness_service` | 2 objects, 2 versions, 2 keys, 5 epochs | `EpochsUnique` and the refinement `HeadsMonotonic` for arbitrary clients, up to and including epoch exhaustion |
| `vault_strict` | 2 objects, 3 versions, 2 keys; crash, lost, Storage, signer | `Reconcilable`, `HeadHeldLocally`, `ServesReconciled`, `AckedNotLost`, `FinalizeCommits`, `ReceiptsComplete`, `CommitsInOrder`, and the inductive invariant `CommitInv` |
| `vault_operators` | 2 objects, 2 versions, 2 keys; every request, fault and profile | `VerifiedNotRolledBack` and the inductive invariant `CheckedInv` |
| `vault_progress` | 2 objects, 2 versions; crash, lost, Storage | `EventuallyReconciled` under `Fairness` |
| `daemon_threads` | 3 connections, 2 permits, strict, 5 request kinds | `PermitsExact`, `LongExclusive`, `LockOrder`, `NoLateWait`, `RecoveryMonotone`, the inductive invariant `ThreadInv`, and `EveryConnectionEnds` under `Fairness` |
| `vault_files` | 2 passphrases, 1 backup path, 1 output, 2 restores, `MaxContent` 1; every fault | `PassphraseKnown`, `BackupKept`, `PublishedWhole`, `RestoredAsManifest`, `NeverOverwritten`, and the inductive invariant `FilesInv` |
| `transfer` | 2 objects, 2 versions, chunks and items of 2 bytes, at most 2 chunks, plaintexts of 0, 3, 4 and 5 bytes, 1 item on the socket, 1 storage fault | `StoredWhole`, `OutputWhole`, `SentVerified`, `PutAcknowledged`, the inductive invariant `TransferInv`, and `VaultReleased` under the handler's fairness; and, as assumptions TLC evaluates, the manifest encoding's round trip on samples of every integer width |
| `vault_stream_put` | 1 object, 1 version | violated: `StrictActiveHasReceipt` |
| `vault_lost_object` | 1 object, 1 version, restore | violated: `RollbackDetected` |
| `vault_state_file` | 1 object, 2 versions, InvalidInput | violated: `Reconcilable` |
| `witness_signer` | 1 object, 1 version, 2 keys | violated: `HeadsServable` |
| `transfer_error` | as `transfer`, without faults | violated: `PutErrorReadable` |

Bounds. A version is issued at most once with effect, so the number of versions
bounds puts and epochs; `MaxEpoch = 8` is never reached in the vault runs, and
exhaustion is covered by `witness_service`. Two objects are needed because
epochs are shared by the objects of a vault (an expectation taken from the wrong
object must show); three versions allow a put that follows another of the same
object while a third belongs to the other object. A rollback needs two versions
of one object. Objects, versions and keys are symmetric in the two safety runs
(`vault_strict`, `vault_operators`), passphrases and restorers in `vault_files`;
no symmetry is used where liveness is checked.

In `daemon_threads` a third connection meets the limit of two, and two handlers
race for every mutex and flag. The five kinds are one of each way through
`dispatch`: with the second flag check, with both mutexes, long with a recorded
result, streamed, and without a mutex; the others differ from these only in their
name, and the theorems cover all twelve. `CHECK_DEADLOCK FALSE`: every connection
is used once, and the daemon may exit. In `vault_files` one path and one output
are enough for a collision, because names are compared only with themselves; the
two passphrases are a rotation, and the second content tells an old snapshot from
a new one. In `transfer` the plaintexts are no chunk, a short last chunk, exactly
the limit, and one byte over it; one item on the socket makes either side wait for
the other. One storage fault can hit any row, chunk or pointer.

Fairness. `Start`, the checks and the reads are weakly fair: the service manager
restarts the daemon and its own code runs on. `WitnessTimeout` is weakly fair:
the HTTP client has a timeout. `UnlockStrict`, `RecoverNext`, `AnswerIssue` and
`Finalize` are strongly fair: the owner keeps unlocking, and a witness that is
asked again and again is in time again and again; crashes, timeouts and storage
errors may still interrupt any number of attempts. The code does not make these
happen; they are the assumption under which recovery must succeed.

In `DaemonThreads` the accept loop and every handler are weakly fair: the
operating system schedules them, socket reads and writes end by `io_timeout`,
witness calls by the HTTP timeout, streams by their chunk limit. `Exchange` is
strongly fair: a weak compare-and-exchange may fail for no reason, but not
forever. Mutexes need nothing more, because each connection asks once. In
`StreamTransfer` only the daemon's handler is weakly fair; the client may stop
sending or reading at any time, and `VaultReleased` must hold nevertheless.

### Disagreements between documents and code

1. A streamed put never involves the witness, so a strict daemon can have active
   versions without a receipt (`vault_stream_put`). The CLI's `put` always
   streams. The next strict get, verify or unlock then answers WitnessConflict.
2. Heads are compared only for objects that are active locally, so an older
   database that lacks an object altogether passes a strict unlock
   (`vault_lost_object`). `VerifiedNotRolledBack` is the part that does hold:
   what is there is never older than what was acknowledged.
3. A state file that is not a regular file makes the check after a commit answer
   InvalidInput (`private_file.rs:27`), and that error does not lock the vault.
   When this happens to the staging of a strict put, the vault stays unlocked with
   a version pending, accepts the next put of the same object, and the witness
   then answers every attempt to recover the first one with a conflict: no strict
   unlock succeeds any more (`vault_state_file`). `ARCHITECTURE.md` says that the
   vault "reconciles a staged receipt after restart" (line 50) and "remains or
   becomes locked" on an ambiguous backend failure (line 62).
4. After the witness operator deploys a new signer, heads signed by the old one
   can be neither read nor advanced, so the documented rotation cannot finish
   (`witness_signer`).
5. When a streamed put fails after `StreamReady`, the daemon answers with a
   stream error item, and the CLI, which reads a frame there, takes its marker for
   an impossible length. The user sees a protocol error instead of the reason
   (`transfer_error`).

Remarks without a run:

- A wrong passphrase sent to an unlocked vault leaves it unlocked
  (`UnlockWrongPassphrase`), where `ARCHITECTURE.md:62` says "remains or becomes
  locked".
- The second pass of `get_to_writer` does not compare chunk indices, so rows lost
  between its two passes would leave a gap in the sink, where the comment at
  `vault.rs:331` speaks of a verified prefix. `SentVerified` states when the
  prefix is one: as long as no fault has touched the rows of the version. The
  length check at the end turns a read with a gap into an error, and `OutputWhole`
  holds in either case.
- `WITNESS_PROTOCOL.md:26` has a conflict answered with the current signed head;
  `dispatch` answers only that there is one (`witness/src/main.rs:79`).
- `WITNESS_PROTOCOL.md:61` has a strict client obtain the current head before
  publication; a put takes its expected epoch from the local receipt and leaves
  the comparison to the witness. In a strict deployment `ServesReconciled` is why
  the two agree.
- `validate_parent_directory` inspects every ancestor of the parent
  (`path_safety.rs:59`), and the last ancestor of a relative path is the empty
  path, which cannot be inspected. So a relative path is refused, where the
  repository's `README.md:41` has `vlt1 init ./vault.sqlite`. Paths are names in
  `VaultFiles`, without directories.

## Proofs

`WitnessedVaultProofs` begins with the witness service by itself: from
`WitnessAssumption` only, it keeps its types and unique epochs and implements
`MonotonicHeads`. The one lemma everything there rests on is `IssueWireStep`: a
step changes nothing, or stores a receipt with the current epoch and advances the
counter within its column.

The module then proves `TypeOK` of the vault in every deployment and under every
fault. `TypeOK` alone is not inductive: the witness looks up the object of the
version it is asked about, so the induction also carries `IdsStaged` (only
staged versions are sent, recovered, pending or backed up).

From the same invariant follows `WitnessEmbedded`: every step of the composed
system is a step of the stand-alone service or leaves the witness alone. So what
holds of the service for arbitrary clients (`MonotonicHeads`, unique epochs) holds
in every deployment (`VaultHeadsMonotonic`).

It also proves `VerifiedNotRolledBack` there, with streamed puts, restores,
local-profile daemons and signer changes included. A success compares nothing at
the moment it is answered, so the property needs `CheckedInv`:

- `WitnessHoldsAcked`: no head of the witness is behind an acknowledged put. It
  is kept because `issue_wire` only moves a head to a higher epoch.
- `OpChecks`: what the running request has established, in particular that every
  outdated object (`Outdated`) is still among those to be checked. A restore
  cannot come between a check and its answer because it needs the daemon down.

`StrictSuccessSteps` then shows that only `CheckDone` and `Read` end an unlock,
verify or get with success.

The last part of the module proves the strict properties under the hypothesis
`StrictDeployment`: no daemon without a witness, no streamed put, no restore,
and no state file replaced by a special file. Each exclusion is needed: the first
three break the agreement outright, the last makes a failed publication end
without locking (`vault_state_file`). Signer changes, crashes, lost and late
answers and storage errors are all included. The inductive invariant is
`StrictInv`:

- `StagedInOrder`: at most one version is pending, it was staged against the
  epoch that is still the local one, and the witness has moved past the
  expectation of every other staged version. The last part is why a late copy of
  an old request is harmless, and it is not visible in the properties.
- `OpTracksPending`: what the running request knows about the pending version.
  An unlocked idle daemon has nothing pending because every failure that can
  leave something pending also locks.
- `HeadHeldLocally` and `AckedNotLost` themselves.

`IssueKeepsDb` is the heart of the induction: an issue request, on time, late or
repeated, moves a head only to the version that is pending.

`StrictInv` does not say that a receipt can be inserted: `UNIQUE(witness_public_key,
witness_epoch)` speaks of every receipt ever stored, of any object.
`ReceiptsInOrder` adds that a head which moved past the epoch its pending version
was staged with is later than every stored receipt. It is kept because the witness
numbers all objects of a vault with one counter and the vault has one version
pending at a time. For the same reason `ReceiptsComplete` holds: no epoch is
missing from the table except that of the pending version. `CommitInv` is the
conjunction, and from it follow `FinalizeCommits` (recovery is never stopped by a
constraint of the table) and `CommitsInOrder` (the table only grows, in the order
of the epochs). Together they make the receipt table a beginning of the witness's
history of the vault, at most one entry short.

`DaemonThreadsProofs` proves the safety properties of the threads for any number
of connections, any limit and all request kinds, from `ConnFinite`,
`PermitsPositive`, `FlagsBoolean` and `KindsKnown`. None of them is inductive by
itself: whether a decrement of the count, a release or a store is right depends on
where its handler is. `ThreadInv` adds `Places`, which says for every place of a
handler which permit, mutexes and scan it has. The proof has one lemma per action.

`VaultFilesProofs` proves the file properties for any number of paths, outputs,
passphrases and restores, from `PassphrasesNamed`, `ContentBounded` and
`NamesDiffer`. `FilesInv` adds `JobsInv`, what a backup or restore has established
at the step it is at, and that no published name has unsynced data; that is why a
power loss right after the link cannot leave a torn file under a final name.
`LinkInv` is the heart of it: the name was free, so nobody else relies on it.

`ManifestCodeProofs` proves that whatever `decode_manifest` accepts is exactly the
encoding of what it returns (`DecodedIsCanonical`), for every byte string, and so
that a manifest has only one accepted encoding (`OneEncoding`). The argument goes
field by field over `SubSeq`; no induction over data is needed because the number
of fields is fixed.

`StreamTransferProofs` proves every safety property of `StreamTransfer` (`TTypeOK`,
`StoredWhole`, `OutputWhole`, `SentVerified` and `PutAcknowledged`) for any
objects, byte strings, chunk and item sizes, limit on chunks, number of versions,
socket buffer and choice of faults. It rests on `StreamStoreProofs` (the operators,
the steps that change the database, the types), `StreamUploadProofs` and
`StreamDownloadProofs` (the parts of the invariant each direction has), and on the
assumptions `VersionsNumbered`, `PlainBytes`, `ChunkPolicy` and
`StreamBounds`. A plaintext is cut in three ways, into the client's items, the
chunks of a version and the daemon's items, and none of the properties is
inductive without saying where each cut is. `TransferInv` says it:

- `Paired` and `Numbered`: the two ends of a connection work on the same request,
  and the open transaction has the next version number.
- `Chunked` and `InFlight`: the sealed chunks, the buffer of `read_next_chunk`,
  the item being copied and the items on the socket are adjacent pieces of the
  client's input, up to what it has sent; the end of the stream stands behind the
  last byte only. This is why a lost connection cannot pass for a short input, and
  `StoredWhole` follows when `Finish` commits.
- `Sealed`: a damaged row still holds records that some put sealed, so a chunk
  that opens under its key and associated data is the chunk of that number.
- `Written`: what a download has handed out is no longer than the chunks it has
  passed, and equal to them if it is as long, which it is unless the version was
  damaged. A row lost between the two passes
  makes it shorter for good, so the comparison of lengths at the end finds it.
- `Downloads`: the client's temporary file and the items on the socket make up
  what was handed out; the end of the stream is sent behind a whole published
  plaintext. `OutputWhole` follows when the client links the file to
  its name.
- `Reports`: a version on its way to the client of a put holds its input.

Where an item ends is a function from the items to positions in the plaintext, so
the steps are proved by extending, shifting or joining such a function
(`JoinsInFlight`, `LeavesInFlight`, `DeliversNext`, `DeliversItems`), and no
induction over sequences is needed.

Only model-checked: that encoding loses nothing (round trip, on samples); and
liveness under fairness (`EventuallyReconciled`, `EveryConnectionEnds`,
`VaultReleased`), which is out of the prover's reach.

## Not modelled

Assumed: cryptography is ideal, SQLite transactions are atomic and durable,
clients trust every key in `Key`, random ids do not collide.

Simplified:

- An operator's removal of a file is durable at once, and does not fall into a
  backup or restore on the same path.
- Inserting the envelope into a database whose creation was interrupted stands for
  removing that file and creating it again.
- Damaged rows are looked at by a get only; `verify` runs the same checks.
- What a handler answers while the process is shutting down is left open: its
  thread ends with the process.

Left out:

- benchmarks, the key generator and the fuzz targets: measurement and one-shot
  I/O without state of their own;
- the CLI's argument parsing, prompts and printing, and JSON: text in, text out;
- the limit on the length of a frame, which is one comparison;
- the policy on Argon2id parameters: bounds on numbers read once;
- binding the socket and the permission checks of its directory, symbolic links
  in paths: properties of the file system around the program. That such a check
  can fail after a commit is modelled (`Enforced`, `InvalidInput`).
