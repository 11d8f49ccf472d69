--------------------------- MODULE WitnessService ---------------------------
(***************************************************************************)
(* The freshness witness (crates/vlt1-witness): a single-threaded HTTP      *)
(* service over one SQLite database.  Table object_heads is head, table     *)
(* vault_epochs is nextEpoch, and signer is the Ed25519 key the process was *)
(* started with.  Every row is keyed by the vault, so one vault is          *)
(* modelled.  A commitment is a digest over the vault, object, version and  *)
(* sealed manifest, so equal version ids stand for equal (version,          *)
(* commitment) pairs; the signature of a row is the key that signed it.     *)
(***************************************************************************)
EXTENDS Naturals

CONSTANTS
    Object, Version, Key,
    NoVersion, NoKey,
    MaxEpoch    \* largest value of a SQLite INTEGER (2^63 - 1 in the build)

ASSUME WitnessAssumption ==
    /\ NoVersion \notin Version
    /\ NoKey \notin Key
    /\ MaxEpoch \in Nat \ {0}

VARIABLES head, nextEpoch, signer

wvars == <<head, nextEpoch, signer>>

(***************************************************************************)
(* A receipt, and the absent row: load_receipt returns None, which the wire *)
(* shows as epoch 0 and no version.                                         *)
(***************************************************************************)
Receipt == [version : Version, epoch : 1 .. MaxEpoch, key : Key]

NoReceipt == [version |-> NoVersion, epoch |-> 0, key |-> NoKey]

WInit ==
    /\ head = [o \in Object |-> NoReceipt]
    /\ nextEpoch = 1
    /\ signer \in Key

(***************************************************************************)
(* load_receipt rebuilds a stored row with the public key of the running    *)
(* process and verifies its signature: a row signed by another key is an    *)
(* error, which dispatch answers with status 400.                           *)
(***************************************************************************)
Readable(o) == head[o] = NoReceipt \/ head[o].key = signer

(* The request already took effect and is still the head. *)
Replays(o, v, e) == head[o].version = v /\ head[o].epoch > e

(* A bug: the successor of the last epoch no longer fits the column. *)
MutantEpochsLeft == nextEpoch <= MaxEpoch

(* next_epoch: both the epoch and its successor must fit the column. *)
EpochsLeft == nextEpoch < MaxEpoch

(* A bug: the head advances without the predecessor check. *)
MutantAdvances(o, v, e) ==
    /\ Readable(o)
    /\ ~ Replays(o, v, e)
    /\ EpochsLeft

Advances(o, v, e) ==
    /\ Readable(o)
    /\ ~ Replays(o, v, e)
    /\ head[o].epoch = e
    /\ EpochsLeft

(***************************************************************************)
(* The status of the HTTP answer: 200, 409 or 400.                          *)
(***************************************************************************)
IssueStatus(o, v, e) ==
    IF ~ Readable(o) THEN "invalid"
    ELSE IF Replays(o, v, e) THEN "ok"
    ELSE IF head[o].epoch # e THEN "conflict"
    ELSE IF EpochsLeft THEN "ok" ELSE "invalid"

(* A bug: the epoch row is written back without the increment. *)
MutantEpochNotAdvanced == nextEpoch

(* The value next_epoch stores for the following issue. *)
NextEpoch == nextEpoch + 1

(* A bug: the request's own expectation decides the new epoch. *)
MutantIssueFromExpected(o, v, e) ==
    IF Advances(o, v, e)
    THEN /\ head' = [head EXCEPT ![o] =
                        [version |-> v, epoch |-> e + 1, key |-> signer]]
         /\ nextEpoch' = NextEpoch
    ELSE UNCHANGED <<head, nextEpoch>>

(* A bug: the row keeps the expected epoch instead of the new one. *)
MutantIssueExpected(o, v, e) ==
    IF Advances(o, v, e)
    THEN /\ head' = [head EXCEPT ![o] =
                        [version |-> v, epoch |-> e, key |-> signer]]
         /\ nextEpoch' = NextEpoch
    ELSE UNCHANGED <<head, nextEpoch>>

(***************************************************************************)
(* issue_wire: both rows change in one transaction, or neither does.        *)
(***************************************************************************)
IssueWire(o, v, e) ==
    IF Advances(o, v, e)
    THEN /\ head' = [head EXCEPT ![o] =
                        [version |-> v, epoch |-> nextEpoch, key |-> signer]]
         /\ nextEpoch' = NextEpoch
    ELSE UNCHANGED <<head, nextEpoch>>

(* The operator restarts the service with another signing seed. *)
DeploySigner(k) ==
    /\ k # signer
    /\ signer' = k
    /\ UNCHANGED <<head, nextEpoch>>

(***************************************************************************)
(* Any client may send any request, in any order, any number of times.      *)
(***************************************************************************)
WIssue(o, v, e) == IssueWire(o, v, e) /\ UNCHANGED signer

WNext ==
    \/ \E o \in Object, v \in Version, e \in 0 .. MaxEpoch : WIssue(o, v, e)
    \/ \E k \in Key : DeploySigner(k)

WSpec == WInit /\ [][WNext]_wvars

-----------------------------------------------------------------------------
(***************************************************************************)
(* Type invariant: rows are absent or hold a version, a positive epoch and  *)
(* a key; the sequence row stays within the SQLite column.                  *)
(***************************************************************************)
WTypeOK ==
    /\ head \in [Object -> Receipt \cup {NoReceipt}]
    /\ nextEpoch \in 1 .. MaxEpoch
    /\ signer \in Key

(***************************************************************************)
(* Every head is older than the next epoch to be issued, and no two objects *)
(* share an epoch: an epoch names one receipt of the vault, which is what   *)
(* the vault's UNIQUE(witness_public_key, witness_epoch) relies on          *)
(* (issue_wire, next_epoch).                                                *)
(***************************************************************************)
EpochsUnique ==
    /\ \A o \in Object : head[o].epoch < nextEpoch
    /\ \A o, p \in Object :
          o # p /\ head[o].epoch = head[p].epoch => head[o].epoch = 0

(***************************************************************************)
(* The service implements MonotonicHeads for any client at all: a lost,     *)
(* repeated, reordered or arbitrary issue request never moves a head back   *)
(* and never reuses an epoch.                                               *)
(***************************************************************************)
Abstract == INSTANCE MonotonicHeads WITH
    reg <- [o \in Object |->
               [version |-> head[o].version, epoch |-> head[o].epoch]],
    top <- nextEpoch - 1

HeadsMonotonic == Abstract!Spec

(***************************************************************************)
(* WITNESS_PROTOCOL.md, "Trust bootstrap": the operator deploys the new     *)
(* signer first and clients follow.  That needs the service to keep serving *)
(* the heads it had acknowledged before the change (load_receipt).          *)
(***************************************************************************)
HeadsServable == \A o \in Object : Readable(o)
=============================================================================
