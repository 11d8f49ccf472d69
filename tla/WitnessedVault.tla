--------------------------- MODULE WitnessedVault ---------------------------
(***************************************************************************)
(* One vault, its daemon and its witness (vlt1-core vault.rs, storage.rs,   *)
(* witness.rs; vlt1-daemon lib.rs; vlt1-witness through WitnessService).    *)
(*                                                                          *)
(* The daemon holds the vault mutex for a whole request, so requests run    *)
(* one at a time; what interleaves with the steps of a request is the       *)
(* witness (which may handle an issue request long after the client timed   *)
(* out), process crashes, storage errors, and operators who restore a       *)
(* backup, change the signer or restart the daemon in another profile.      *)
(* A SQLite transaction is one step: WAL with synchronous=FULL either       *)
(* commits durably or leaves nothing.  Version ids are random and never     *)
(* repeat, and versions, chunks and manifests are immutable, so a version   *)
(* is a name; its plaintext always authenticates.                           *)
(***************************************************************************)
EXTENDS WitnessService, FiniteSets

CONSTANTS
    NoObject,
    Profiles,   \* how the daemon may be started: "strict", "local" or both
    Requests,   \* the request kinds clients send
    Faults      \* the environment events that may happen

RequestKind ==
    {"unlock", "lock", "put", "put_stream", "get", "get_stream", "verify", "backup"}

FaultKind ==
    {"crash",         \* the daemon process dies
     "lost",          \* a witness answer is lost or late
     "Storage",       \* SQLite or the file system fails
     "InvalidInput",  \* a state file is no longer a regular file
     "restore",       \* the vault is restored from its backup
     "signer"}        \* the witness operator changes the signing key

ASSUME VaultAssumption ==
    /\ NoObject \notin Object
    /\ Profiles \subseteq {"strict", "local"}
    /\ Requests \subseteq RequestKind
    /\ Faults \subseteq FaultKind

VARIABLES
    (* the vault database *)
    active,     \* objects: object -> active version
    receipts,   \* freshness_receipts: version -> receipt
    pending,    \* pending_witness_publications: the staged versions
    snapshot,   \* the last backup of these three tables
    (* what an issue request for a version says; fixed when it is staged *)
    owner,      \* version -> object, NoObject while the id is unused
    expected,   \* version -> the expected_epoch it was staged with
    (* the daemon process *)
    profile,    \* "down", or the profile it runs in
    unlocked,   \* the root key is in memory
    op,         \* the request being executed
    (* the network *)
    net,        \* versions whose issue request may still reach the witness
    (* observation *)
    reply,      \* the last answer to a client
    acked       \* object -> epoch of the last put acknowledged by "published"

dbvars == <<active, receipts, pending>>
idvars == <<owner, expected>>
vars == <<wvars, dbvars, snapshot, idvars, profile, unlocked, op, net, reply, acked>>

-----------------------------------------------------------------------------
(* The request in progress: which step it is at and what it still has to do. *)
Op == [kind : RequestKind \cup {"none"}, object : Object \cup {NoObject},
       phase : {"idle", "recover", "issue", "finalize", "check", "read"},
       version : Version \cup {NoVersion}, receipt : Receipt \cup {NoReceipt},
       recover : SUBSET Version, check : SUBSET Object]

Idle == [kind |-> "none", object |-> NoObject, phase |-> "idle",
         version |-> NoVersion, receipt |-> NoReceipt,
         recover |-> {}, check |-> {}]

Code == {"ok", "Locked", "UnlockFailed", "NotFound", "InvalidInput",
         "Storage", "Invariant", "WitnessUnavailable", "WitnessConflict"}

(* VaultError::requires_lock *)
RequiresLock(code) ==
    code \in {"Storage", "Invariant", "WitnessUnavailable", "WitnessConflict"}

Answer(kind, code) == [kind |-> kind, code |-> code]

Init ==
    /\ WInit
    /\ active = [o \in Object |-> NoVersion]
    /\ receipts = [v \in Version |-> NoReceipt]
    /\ pending = {}
    /\ snapshot = [active |-> active, receipts |-> receipts, pending |-> pending]
    /\ owner = [v \in Version |-> NoObject]
    /\ expected = [v \in Version |-> 0]
    /\ profile = "down"
    /\ unlocked = FALSE
    /\ op = Idle
    /\ net = {}
    /\ reply = Answer("none", "ok")
    /\ acked = [o \in Object |-> 0]

-----------------------------------------------------------------------------
(* Storage *)

Fresh == {v \in Version : owner[v] = NoObject}

ActiveObjects == {o \in Object : active[o] # NoVersion}

(* active_receipt: no active version, or one without a receipt, gives none. *)
ActiveReceipt(o) ==
    IF active[o] = NoVersion THEN NoReceipt ELSE receipts[active[o]]

(* A bug: the epoch of the highest receipt of the vault, not of the object. *)
MutantExpectedEpoch(o) == nextEpoch - 1

(* The expected_epoch of a new publication. *)
ExpectedEpoch(o) == ActiveReceipt(o).epoch

(***************************************************************************)
(* Every writing transaction ends with enforce_owner_private_state_files    *)
(* AFTER the commit: its failure is reported although the change is durable.*)
(***************************************************************************)
Enforced == {"ok"} \cup (Faults \cap {"Storage", "InvalidInput"})

(* insert_receipt: the primary key and UNIQUE(witness_public_key, epoch). *)
ReceiptInsertable(v, r) ==
    /\ receipts[v] = NoReceipt
    /\ \A w \in Version : ~ (receipts[w].epoch = r.epoch /\ receipts[w].key = r.key)

-----------------------------------------------------------------------------
(* Requests *)

Ready == profile # "down" /\ op = Idle

(* The current request ends; lock_after_failure. *)
Finish(kind, code) ==
    /\ op' = Idle
    /\ unlocked' = (unlocked /\ ~ RequiresLock(code))
    /\ reply' = Answer(kind, code)

(* A bug: an error does not lock the vault. *)
MutantFail(code) ==
    /\ op' = Idle
    /\ reply' = Answer(op.kind, code)
    /\ UNCHANGED unlocked

Fail(code) == Finish(op.kind, code)

(* require_root_key: any vault operation on a locked vault. *)
RefuseLocked(kind, o) ==
    /\ Ready /\ kind \in Requests /\ ~ unlocked
    /\ kind \in {"put", "put_stream", "get", "get_stream", "verify"}
    /\ Finish(kind, "Locked")
    /\ UNCHANGED <<wvars, dbvars, snapshot, idvars, profile, net, acked>>

(* Lock, and every other request that ends by dropping the root key. *)
Lock ==
    /\ Ready /\ "lock" \in Requests
    /\ unlocked' = FALSE
    /\ reply' = Answer("lock", "ok")
    /\ UNCHANGED <<wvars, dbvars, snapshot, idvars, profile, op, net, acked>>

(***************************************************************************)
(* Unlock: a wrong passphrase leaves the vault as it is; the right one sets *)
(* the root key and, in the strict profile, recovers the pending            *)
(* publications and checks every active object before it answers.           *)
(***************************************************************************)
UnlockWrongPassphrase ==
    /\ Ready /\ "unlock" \in Requests
    /\ reply' = Answer("unlock", "UnlockFailed")
    /\ UNCHANGED <<wvars, dbvars, snapshot, idvars, profile, unlocked, op, net, acked>>

UnlockLocal ==
    /\ Ready /\ "unlock" \in Requests /\ profile = "local"
    /\ unlocked' = TRUE
    /\ reply' = Answer("unlock", "ok")
    /\ UNCHANGED <<wvars, dbvars, snapshot, idvars, profile, op, net, acked>>

(* A bug: verification without reconciling what was staged. *)
MutantUnlockStrict ==
    /\ Ready /\ "unlock" \in Requests /\ profile = "strict"
    /\ unlocked' = TRUE
    /\ op' = [Idle EXCEPT !.kind = "unlock", !.phase = "recover"]
    /\ UNCHANGED <<wvars, dbvars, snapshot, idvars, profile, net, reply, acked>>

UnlockStrict ==
    /\ Ready /\ "unlock" \in Requests /\ profile = "strict"
    /\ unlocked' = TRUE
    /\ op' = [Idle EXCEPT !.kind = "unlock", !.phase = "recover", !.recover = pending]
    /\ UNCHANGED <<wvars, dbvars, snapshot, idvars, profile, net, reply, acked>>

(* recover_pending: the next staged version is issued again, with the epoch  *)
(* it was staged with; version ids are random, so any order is possible.     *)
RecoverNext(v) ==
    /\ op.phase = "recover" /\ v \in op.recover
    /\ op' = [op EXCEPT !.phase = "issue", !.version = v, !.recover = @ \ {v}]
    /\ net' = net \cup {v}
    /\ UNCHANGED <<wvars, dbvars, snapshot, idvars, profile, unlocked, reply, acked>>

RecoverDone ==
    /\ op.phase = "recover" /\ op.recover = {}
    /\ op' = [op EXCEPT !.phase = "check", !.version = NoVersion, !.check = ActiveObjects]
    /\ UNCHANGED <<wvars, dbvars, snapshot, idvars, profile, unlocked, net, reply, acked>>

(***************************************************************************)
(* Put in the strict profile: prepare, read the local epoch, stage, send.   *)
(***************************************************************************)
Stage(o, v) ==
    /\ owner' = [owner EXCEPT ![v] = o]
    /\ expected' = [expected EXCEPT ![v] = ExpectedEpoch(o)]
    /\ pending' = pending \cup {v}

PutStrict(o, v) ==
    /\ Ready /\ "put" \in Requests /\ profile = "strict" /\ unlocked
    /\ v \in Fresh
    /\ Stage(o, v)
    /\ \E code \in Enforced :
          IF code = "ok"
          THEN /\ op' = [Idle EXCEPT !.kind = "put", !.object = o,
                                     !.phase = "issue", !.version = v]
               /\ net' = net \cup {v}
               /\ UNCHANGED <<unlocked, reply>>
          ELSE Finish("put", code) /\ UNCHANGED net
    /\ UNCHANGED <<wvars, active, receipts, snapshot, profile, acked>>

(***************************************************************************)
(* publish, and StreamingPublication::finish: one transaction, no receipt.  *)
(* A put of the local profile ends here; so does put_stream in BOTH         *)
(* profiles.                                                                *)
(***************************************************************************)
PublishPlain(kind, o, v) ==
    /\ Ready /\ kind \in Requests /\ unlocked
    /\ kind = "put_stream" \/ (kind = "put" /\ profile = "local")
    /\ v \in Fresh
    /\ owner' = [owner EXCEPT ![v] = o]
    /\ active' = [active EXCEPT ![o] = v]
    /\ \E code \in Enforced : Finish(kind, code)
    /\ UNCHANGED <<wvars, receipts, pending, snapshot, expected, profile, net, acked>>

(* The transaction of a put fails before its commit. *)
PutRolledBack(kind, o) ==
    /\ "Storage" \in Faults
    /\ Ready /\ kind \in Requests \cap {"put", "put_stream"} /\ unlocked
    /\ Finish(kind, "Storage")
    /\ UNCHANGED <<wvars, dbvars, snapshot, idvars, profile, net, acked>>

(***************************************************************************)
(* The witness handles an issue request.  A request whose client gave up    *)
(* may be handled late, and a copy of one that was sent again may follow.   *)
(***************************************************************************)
Consume(v) ==
    /\ v \in net
    /\ net' = net \ {v} \/ ("lost" \in Faults /\ net' = net)

AnswerIssue(v) ==
    /\ op.phase = "issue" /\ op.version = v
    /\ Consume(v)
    /\ IssueWire(owner[v], v, expected[v])
    /\ LET status == IssueStatus(owner[v], v, expected[v])
           r == head'[owner[v]]
       IN  IF status = "ok" /\ r.epoch > expected[v]
           THEN /\ op' = [op EXCEPT !.phase = "finalize", !.receipt = r]
                /\ UNCHANGED <<unlocked, reply>>
           ELSE Fail(IF status = "invalid" THEN "WitnessUnavailable"
                                           ELSE "WitnessConflict")
    /\ UNCHANGED <<signer, dbvars, snapshot, idvars, profile, acked>>

HandleUnanswered(v) ==
    /\ "lost" \in Faults
    /\ Consume(v)
    /\ IssueWire(owner[v], v, expected[v])
    /\ UNCHANGED <<signer, dbvars, snapshot, idvars, profile, unlocked, op, reply, acked>>

(* A bug: an unanswered publication is taken back. *)
MutantWitnessTimeout ==
    /\ "lost" \in Faults
    /\ op.phase = "issue" \/ (op.phase = "check" /\ op.check # {})
    /\ Fail("WitnessUnavailable")
    /\ pending' = pending \ {op.version}
    /\ UNCHANGED <<wvars, active, receipts, snapshot, idvars, profile, net, acked>>

(* post_issue, post_head: no answer within HTTP_TIMEOUT. *)
WitnessTimeout ==
    /\ "lost" \in Faults
    /\ op.phase = "issue" \/ (op.phase = "check" /\ op.check # {})
    /\ Fail("WitnessUnavailable")
    /\ UNCHANGED <<wvars, dbvars, snapshot, idvars, profile, net, acked>>

(* A bug: the active pointer is not advanced. *)
MutantFinalizeCommit(v, r) ==
    /\ receipts' = [receipts EXCEPT ![v] = r]
    /\ pending' = pending \ {v}
    /\ UNCHANGED active

(***************************************************************************)
(* finalize_witness_publication: receipt, active pointer and pending row    *)
(* change in one transaction.  A put then answers; recovery goes on.        *)
(***************************************************************************)
FinalizeCommit(v, r) ==
    /\ receipts' = [receipts EXCEPT ![v] = r]
    /\ active' = [active EXCEPT ![owner[v]] = v]
    /\ pending' = pending \ {v}

FinalizeContinue(v) ==
    IF op.kind = "put"
    THEN /\ Finish("put", "ok")
         /\ acked' = [acked EXCEPT ![op.object] = op.receipt.epoch]
    ELSE /\ op' = [op EXCEPT !.phase = "recover", !.receipt = NoReceipt]
         /\ UNCHANGED <<unlocked, reply, acked>>

Finalize(v) ==
    /\ op.phase = "finalize" /\ op.version = v
    /\ IF v \in pending /\ ReceiptInsertable(v, op.receipt)
       THEN /\ FinalizeCommit(v, op.receipt)
            /\ \E code \in Enforced :
                  IF code = "ok" THEN FinalizeContinue(v)
                                 ELSE Fail(code) /\ UNCHANGED acked
       ELSE /\ Fail(IF v \in pending THEN "Storage" ELSE "Invariant")
            /\ UNCHANGED <<dbvars, acked>>
    /\ UNCHANGED <<wvars, snapshot, idvars, profile, net>>

(* A bug: a get reads without asking the witness first. *)
MutantStartRead(kind, o) ==
    /\ Ready /\ kind \in Requests \cap {"get", "get_stream"} /\ unlocked
    /\ op' = [Idle EXCEPT !.kind = kind, !.object = o, !.phase = "read"]
    /\ UNCHANGED <<wvars, dbvars, snapshot, idvars, profile, unlocked, net, reply, acked>>

(***************************************************************************)
(* Reads.  verify_active_objects_with_witness compares every LOCALLY active *)
(* object with a fresh head; a get of the strict profile does that first,   *)
(* get_stream never does.                                                   *)
(***************************************************************************)
StartRead(kind, o) ==
    /\ Ready /\ kind \in Requests \cap {"get", "get_stream"} /\ unlocked
    /\ op' = IF kind = "get" /\ profile = "strict"
             THEN [Idle EXCEPT !.kind = kind, !.object = o, !.phase = "check",
                               !.check = ActiveObjects]
             ELSE [Idle EXCEPT !.kind = kind, !.object = o, !.phase = "read"]
    /\ UNCHANGED <<wvars, dbvars, snapshot, idvars, profile, unlocked, net, reply, acked>>

StartVerify ==
    /\ Ready /\ "verify" \in Requests /\ unlocked
    /\ op' = [Idle EXCEPT !.kind = "verify", !.phase = "check",
                          !.check = IF profile = "strict" THEN ActiveObjects ELSE {}]
    /\ UNCHANGED <<wvars, dbvars, snapshot, idvars, profile, unlocked, net, reply, acked>>

(* A bug: the head only has to be present. *)
MutantHeadMatches(o) == head[o] # NoReceipt

HeadMatches(o) == head[o] = ActiveReceipt(o) /\ ActiveReceipt(o).key = signer

CheckObject(o) ==
    /\ op.phase = "check" /\ o \in op.check
    /\ IF ActiveReceipt(o) # NoReceipt /\ Readable(o) /\ HeadMatches(o)
       THEN op' = [op EXCEPT !.check = @ \ {o}] /\ UNCHANGED <<unlocked, reply>>
       ELSE Fail(IF ActiveReceipt(o) # NoReceipt /\ ~ Readable(o)
                 THEN "WitnessUnavailable" ELSE "WitnessConflict")
    /\ UNCHANGED <<wvars, dbvars, snapshot, idvars, profile, net, acked>>

CheckDone ==
    /\ op.phase = "check" /\ op.check = {}
    /\ IF op.kind = "get"
       THEN op' = [op EXCEPT !.phase = "read"] /\ UNCHANGED <<unlocked, reply>>
       ELSE Finish(op.kind, "ok")
    /\ UNCHANGED <<wvars, dbvars, snapshot, idvars, profile, net, acked>>

Read ==
    /\ op.phase = "read"
    /\ Finish(op.kind,
              IF active[op.object] = NoVersion THEN "NotFound" ELSE "ok")
    /\ UNCHANGED <<wvars, dbvars, snapshot, idvars, profile, net, acked>>

(* A query or a transaction of the running request fails. *)
StorageError ==
    /\ "Storage" \in Faults
    /\ op.phase \in {"recover", "finalize", "check", "read"}
    /\ Fail("Storage")
    /\ UNCHANGED <<wvars, dbvars, snapshot, idvars, profile, net, acked>>

-----------------------------------------------------------------------------
(* Operators *)

(* backup_to needs no root key, and its failure does not lock. *)
Backup ==
    /\ Ready /\ "backup" \in Requests
    /\ \/ /\ snapshot' = [active |-> active, receipts |-> receipts, pending |-> pending]
          /\ reply' = Answer("backup", "ok")
       \/ /\ "Storage" \in Faults
          /\ reply' = Answer("backup", "Storage")
          /\ UNCHANGED snapshot
    /\ UNCHANGED <<wvars, dbvars, idvars, profile, unlocked, op, net, acked>>

(* restore_from_backup into a new file, which the daemon is then given. *)
Restore ==
    /\ "restore" \in Faults
    /\ profile = "down"
    /\ active' = snapshot.active
    /\ receipts' = snapshot.receipts
    /\ pending' = snapshot.pending
    /\ UNCHANGED <<wvars, snapshot, idvars, profile, unlocked, op, net, reply, acked>>

Crash ==
    /\ "crash" \in Faults
    /\ profile # "down"
    /\ profile' = "down"
    /\ unlocked' = FALSE
    /\ op' = Idle
    /\ UNCHANGED <<wvars, dbvars, snapshot, idvars, net, reply, acked>>

(* Vault::open: always locked. *)
Start(p) ==
    /\ profile = "down"
    /\ profile' = p
    /\ UNCHANGED <<wvars, dbvars, snapshot, idvars, unlocked, op, net, reply, acked>>

ChangeSigner ==
    /\ "signer" \in Faults
    /\ \E k \in Key : DeploySigner(k)
    /\ UNCHANGED <<dbvars, snapshot, idvars, profile, unlocked, op, net, reply, acked>>

ClientStep ==
    \/ Lock \/ UnlockWrongPassphrase \/ UnlockLocal \/ UnlockStrict \/ StartVerify
    \/ \E kind \in RequestKind, o \in Object :
          \/ RefuseLocked(kind, o)
          \/ PutRolledBack(kind, o)
          \/ StartRead(kind, o)
          \/ \E v \in Version : PublishPlain(kind, o, v)
    \/ \E o \in Object, v \in Version : PutStrict(o, v)

DaemonStep ==
    \/ RecoverDone \/ CheckDone \/ Read \/ StorageError \/ WitnessTimeout
    \/ \E v \in Version : RecoverNext(v) \/ AnswerIssue(v) \/ Finalize(v)
    \/ \E o \in Object : CheckObject(o)

OperatorStep ==
    \/ Backup \/ Restore \/ Crash \/ ChangeSigner
    \/ \E p \in Profiles : Start(p)

Next ==
    \/ ClientStep \/ DaemonStep \/ OperatorStep
    \/ \E v \in Version : HandleUnanswered(v)

Spec == Init /\ [][Next]_vars

(***************************************************************************)
(* Fairness for progress.  The service manager restarts the daemon and the  *)
(* owner keeps unlocking; the daemon's own steps run on; and a witness that *)
(* is asked again and again answers in time again and again.  Strong        *)
(* fairness is needed because a crash, a timeout or a storage error may     *)
(* disable each of these steps before it is taken.                          *)
(***************************************************************************)
Fairness ==
    /\ WF_vars(\E p \in Profiles : Start(p))
    /\ SF_vars(UnlockStrict)
    /\ \A v \in Version :
          SF_vars(RecoverNext(v)) /\ SF_vars(AnswerIssue(v)) /\ SF_vars(Finalize(v))
    /\ \A o \in Object : WF_vars(CheckObject(o))
    /\ WF_vars(WitnessTimeout) /\ WF_vars(RecoverDone) /\ WF_vars(CheckDone)
    /\ WF_vars(Read)

FairSpec == Spec /\ Fairness

-----------------------------------------------------------------------------
(* Properties *)

Snapshot == [active : [Object -> Version \cup {NoVersion}],
             receipts : [Version -> Receipt \cup {NoReceipt}],
             pending : SUBSET Version]

(* Type invariant of the database, the daemon, the network and the history. *)
TypeOK ==
    /\ WTypeOK
    /\ active \in [Object -> Version \cup {NoVersion}]
    /\ receipts \in [Version -> Receipt \cup {NoReceipt}]
    /\ pending \in SUBSET Version
    /\ snapshot \in Snapshot
    /\ owner \in [Version -> Object \cup {NoObject}]
    /\ expected \in [Version -> 0 .. MaxEpoch]
    /\ profile \in Profiles \cup {"down"}
    /\ unlocked \in BOOLEAN
    /\ op \in Op
    /\ net \in SUBSET Version
    /\ reply \in [kind : RequestKind \cup {"none"}, code : Code]
    /\ acked \in [Object -> 0 .. MaxEpoch]

(***************************************************************************)
(* Recovery is always possible: whatever was lost, late, repeated or cut by *)
(* a crash, the witness never answers 409 for a version the vault still     *)
(* holds as pending, so the next unlock can finalize it                     *)
(* (recover_pending_witness_publications).  ARCHITECTURE.md: the vault      *)
(* "reconciles a staged receipt after restart".  It holds where every       *)
(* failure after staging locks the vault; InvalidInput does not.            *)
(***************************************************************************)
Reconcilable ==
    \A v \in pending : IssueStatus(owner[v], v, expected[v]) # "conflict"

(***************************************************************************)
(* The witness is never ahead of the vault by something the vault does not  *)
(* hold: its head of an object is the receipt of the active version, or a   *)
(* version of that object that is still pending                             *)
(* (put_with_witness_inner stages before it asks the witness).              *)
(***************************************************************************)
HeadHeldLocally ==
    \A o \in Object :
       \/ head[o] = ActiveReceipt(o)
       \/ \E v \in pending :
             /\ owner[v] = o
             /\ head[o].version = v
             /\ head[o].epoch > ActiveReceipt(o).epoch

(***************************************************************************)
(* A strict daemon that is unlocked between two requests has nothing        *)
(* pending and agrees with the witness on every object: a failed            *)
(* publication locks it (lock_after_failure) and unlocking reconciles.      *)
(***************************************************************************)
ServesReconciled ==
    Ready /\ profile = "strict" /\ unlocked =>
        /\ pending = {}
        /\ \A o \in Object : head[o] = ActiveReceipt(o)

(***************************************************************************)
(* An acknowledged put is never undone: the active version of its object is *)
(* that version or one with a later epoch, through crashes, lost answers    *)
(* and late issue requests (finalize_witness_publication, issue_wire).      *)
(***************************************************************************)
AckedNotLost ==
    \A o \in Object : acked[o] <= ActiveReceipt(o).epoch

(***************************************************************************)
(* A receipt the daemon has accepted can always be committed: its version   *)
(* is still pending and neither the primary key nor the UNIQUE constraint   *)
(* of the receipt table refuses it, whichever keys signed the earlier ones. *)
(* Otherwise every later unlock would fail on that version                  *)
(* (finalize_witness_publication, insert_receipt).                          *)
(***************************************************************************)
FinalizeCommits ==
    op.phase = "finalize" =>
        op.version \in pending /\ ReceiptInsertable(op.version, op.receipt)

(***************************************************************************)
(* The receipt table grows in the order of the witness's epochs and keeps   *)
(* what it has: a stored receipt is never replaced or removed, and a new    *)
(* one is later than all of them (finalize_witness_publication,             *)
(* recover_pending).                                                        *)
(***************************************************************************)
CommitsInOrder ==
    [][\A v \in Version : receipts'[v] # receipts[v] =>
          /\ receipts[v] = NoReceipt
          /\ \A w \in Version : receipts[w].epoch < receipts'[v].epoch]_vars

(***************************************************************************)
(* No receipt is lost with an answer: every epoch the witness has handed    *)
(* out is in the receipt table, or is the head of a version that is still   *)
(* pending and that recovery will ask for again (put_with_witness_inner,    *)
(* recover_pending_witness_publications).                                   *)
(***************************************************************************)
ReceiptsComplete ==
    \A e \in 1 .. nextEpoch - 1 :
       \/ \E w \in Version : receipts[w].epoch = e
       \/ \E v \in pending : head[owner[v]].epoch = e /\ e > expected[v]

(***************************************************************************)
(* A strict unlock, verify or get that succeeds never vouches for a version *)
(* older than the last acknowledged put of its object, whatever the         *)
(* operators restored and whichever profile ran in between                  *)
(* (verify_active_objects_with_witness_inner).                              *)
(***************************************************************************)
StrictSuccess ==
    /\ profile = "strict" /\ op.kind \in {"unlock", "verify", "get"}
    /\ op' = Idle /\ profile' = profile /\ reply'.code = "ok"

VerifiedNotRolledBack ==
    [][StrictSuccess =>
         \A o \in ActiveObjects : acked[o] <= ActiveReceipt(o).epoch]_vars

(***************************************************************************)
(* Every staged version is eventually finalized: neither timeouts nor       *)
(* crashes nor storage errors leave it pending forever                      *)
(* (recover_pending_witness_publications_inner under Fairness).             *)
(***************************************************************************)
EventuallyReconciled == \A v \in Version : v \in pending ~> v \notin pending

(***************************************************************************)
(* ARCHITECTURE.md, "Freshness witness profile": the vault "persists the    *)
(* receipt in the publication transaction".  So a vault that only ever ran  *)
(* in the strict profile has a receipt for every active version             *)
(* (Daemon::put_stream).                                                    *)
(***************************************************************************)
StrictActiveHasReceipt ==
    \A o \in ActiveObjects : receipts[active[o]] # NoReceipt

(***************************************************************************)
(* ARCHITECTURE.md, "Threat boundary": rollback to an authentic older       *)
(* database is "detected only by a correctly independent strict witness     *)
(* profile".  So a strict unlock, verify or get does not succeed on a       *)
(* database that lost an acknowledged put.                                  *)
(***************************************************************************)
RollbackDetected ==
    [][StrictSuccess => \A o \in Object : acked[o] <= ActiveReceipt(o).epoch]_vars

-----------------------------------------------------------------------------
(***************************************************************************)
(* The inductive invariant behind Reconcilable, HeadHeldLocally,            *)
(* ServesReconciled and AckedNotLost.  They hold in a strict deployment: no *)
(* daemon without a witness, no streamed put (which bypasses the witness),  *)
(* no restored database, and no state file replaced by a special file.      *)
(***************************************************************************)
StrictDeployment ==
    /\ Profiles \subseteq {"strict"}
    /\ "put_stream" \notin Requests
    /\ Faults \cap {"InvalidInput", "restore"} = {}

Staged == {v \in Version : owner[v] # NoObject}

(* Only staged versions are sent, recovered, pending or backed up. *)
IdsStaged ==
    net \cup pending \cup snapshot.pending \cup op.recover \subseteq Staged

(***************************************************************************)
(* At most one version is pending; it was staged against the epoch that is  *)
(* still the local one, and every other staged version is one the witness   *)
(* has moved past, so a late copy of its issue request changes nothing.     *)
(***************************************************************************)
StagedInOrder ==
    /\ \A v, w \in pending : v = w
    /\ \A v \in pending : expected[v] = ActiveReceipt(owner[v]).epoch
    /\ \A v \in Staged \ pending : head[owner[v]].epoch > expected[v]
    /\ \A o \in ActiveObjects : owner[active[o]] = o
    /\ \A o \in Object : head[o].epoch < nextEpoch

(* What the request in progress knows about the pending version. *)
OpTracksPending ==
    /\ op # Idle => unlocked
    /\ unlocked => profile # "down"
    /\ unlocked /\ op.phase \in {"idle", "check", "read"} => pending = {}
    /\ op.phase = "recover" => pending = op.recover /\ op.kind # "put"
    /\ op.phase \in {"issue", "finalize"} =>
          /\ pending = {op.version}
          /\ op.recover = {}
          /\ op.kind = "put" => owner[op.version] = op.object
    /\ op.phase = "finalize" =>
          /\ op.receipt = head[owner[op.version]]
          /\ op.receipt.version = op.version
          /\ op.receipt.epoch > expected[op.version]

DbInv == StagedInOrder /\ HeadHeldLocally /\ AckedNotLost

StrictInv == TypeOK /\ IdsStaged /\ DbInv /\ OpTracksPending

(***************************************************************************)
(* Only a finalized version has a receipt, and the witness hands out epochs *)
(* above all stored ones: a head that moved past the epoch a pending        *)
(* version was staged with is later than every receipt in the table.        *)
(***************************************************************************)
ReceiptsInOrder ==
    /\ \A w \in Version : receipts[w].epoch < nextEpoch
    /\ \A w \in Version : w \in pending \/ w \notin Staged => receipts[w] = NoReceipt
    /\ \A v \in pending : head[owner[v]].epoch > expected[v] =>
          \A w \in Version : receipts[w].epoch < head[owner[v]].epoch

(* The inductive invariant behind FinalizeCommits, CommitsInOrder and       *)
(* ReceiptsComplete.                                                        *)
CommitInv == StrictInv /\ ReceiptsInOrder /\ ReceiptsComplete

-----------------------------------------------------------------------------
(***************************************************************************)
(* The inductive invariant behind VerifiedNotRolledBack, in any deployment. *)
(***************************************************************************)

(* The witness is never behind an acknowledged put. *)
WitnessHoldsAcked ==
    \A o \in Object : acked[o] <= head[o].epoch /\ head[o].epoch < nextEpoch

(* The objects whose active version is older than their last acknowledged put. *)
Outdated == {o \in ActiveObjects : ~ (acked[o] <= ActiveReceipt(o).epoch)}

(* What the request in progress has established. *)
OpChecks ==
    /\ profile = "down" => op = Idle
    /\ op.phase = "recover" => op.kind # "put"
    /\ op.phase \in {"issue", "finalize"} =>
          /\ op.version \in Staged
          /\ op.kind = "put" => owner[op.version] = op.object
    /\ op.phase = "finalize" => op.receipt.epoch <= head[owner[op.version]].epoch
    /\ profile = "strict" =>
          /\ op.phase = "check" => Outdated \subseteq op.check
          /\ op.phase = "read" /\ op.kind # "get_stream" => Outdated = {}

(***************************************************************************)
(* The witness stays ahead of every acknowledged put, and every object a    *)
(* strict check has passed is as new as that, until the request ends; a     *)
(* restore cannot come in between because it needs the daemon to be down    *)
(* (issue_wire, verify_active_objects_with_witness_inner).                  *)
(***************************************************************************)
CheckedInv == TypeOK /\ IdsStaged /\ WitnessHoldsAcked /\ OpChecks
=============================================================================
