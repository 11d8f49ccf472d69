------------------------ MODULE WitnessedVaultProofs ------------------------
(***************************************************************************)
(* Proofs about the witness service, for any width of the epoch column, and *)
(* about the vault, its daemon and its witness, for any number of objects,  *)
(* versions and keys.                                                       *)
(***************************************************************************)
EXTENDS WitnessedVault, TLAPS

-----------------------------------------------------------------------------
(* The witness service *)

(* What a step of issue_wire does to the two tables when it changes them. *)
LEMMA IssueWireStep ==
    ASSUME WTypeOK, NEW o \in Object, NEW v \in Version, NEW e, IssueWire(o, v, e)
    PROVE  \/ UNCHANGED <<head, nextEpoch>>
           \/ LET r == [version |-> v, epoch |-> nextEpoch, key |-> signer]
              IN  /\ r \in Receipt
                  /\ head' = [head EXCEPT ![o] = r]
                  /\ nextEpoch' = nextEpoch + 1
                  /\ nextEpoch' \in 1 .. MaxEpoch
BY WitnessAssumption
   DEF IssueWire, Advances, EpochsLeft, NextEpoch, WTypeOK, Receipt

(* The step keeps the tables within their types. *)
LEMMA IssueWireType ==
    ASSUME WTypeOK, NEW o \in Object, NEW v \in Version, NEW e, IssueWire(o, v, e)
    PROVE  /\ head' \in [Object -> Receipt \cup {NoReceipt}]
           /\ nextEpoch' \in 1 .. MaxEpoch
BY IssueWireStep, ZenonT(60) DEF WTypeOK

(***************************************************************************)
(* The tables and the signer keep their types, whatever clients send and    *)
(* however often the signer changes (issue_wire, next_epoch).               *)
(***************************************************************************)
THEOREM WTypeCorrect == WSpec => []WTypeOK
<1>1. WInit => WTypeOK
  BY WitnessAssumption DEF WInit, WTypeOK
<1>2. WTypeOK /\ [WNext]_wvars => WTypeOK'
  <2> SUFFICES ASSUME WTypeOK, [WNext]_wvars
               PROVE  WTypeOK'
    OBVIOUS
  <2>1. ASSUME NEW o \in Object, NEW v \in Version, NEW e \in 0 .. MaxEpoch,
               WIssue(o, v, e)
        PROVE  WTypeOK'
    BY <2>1, IssueWireType DEF WIssue, WTypeOK
  <2>2. ASSUME NEW k \in Key, DeploySigner(k)
        PROVE  WTypeOK'
    BY <2>2 DEF DeploySigner, WTypeOK
  <2>3. CASE UNCHANGED wvars
    BY <2>3 DEF wvars, WTypeOK
  <2> QED
    BY <2>1, <2>2, <2>3 DEF WNext
<1> QED
  BY <1>1, <1>2, PTL DEF WSpec

(* One issue keeps epochs unique: the new head takes an epoch above all. *)
LEMMA IssueWireUnique ==
    ASSUME WTypeOK, EpochsUnique,
           NEW o \in Object, NEW v \in Version, NEW e, IssueWire(o, v, e)
    PROVE  EpochsUnique'
<1>1. \A p \in Object : head[p].epoch \in Nat
  BY WitnessAssumption DEF WTypeOK, Receipt, NoReceipt
<1>2. CASE UNCHANGED <<head, nextEpoch>>
  BY <1>2 DEF EpochsUnique
<1>3. ASSUME NEW r, r = [version |-> v, epoch |-> nextEpoch, key |-> signer],
             head' = [head EXCEPT ![o] = r], nextEpoch' = nextEpoch + 1
      PROVE  EpochsUnique'
  <2>1. nextEpoch \in Nat
    BY WitnessAssumption DEF WTypeOK
  <2>2. head'[o].epoch = nextEpoch
    BY <1>3 DEF WTypeOK
  <2>3. \A p \in Object \ {o} : head'[p] = head[p]
    BY <1>3 DEF WTypeOK
  <2> QED
    BY <1>1, <1>3, <2>1, <2>2, <2>3 DEF EpochsUnique
<1> QED
  BY <1>2, <1>3, IssueWireStep, Zenon

(***************************************************************************)
(* No two heads of a vault ever share an epoch, and each is older than the  *)
(* next one to be issued (issue_wire, next_epoch).                          *)
(***************************************************************************)
THEOREM EpochsStayUnique == WSpec => []EpochsUnique
<1>1. WInit => EpochsUnique
  BY DEF WInit, EpochsUnique, NoReceipt
<1>2. WTypeOK /\ EpochsUnique /\ [WNext]_wvars => EpochsUnique'
  <2> SUFFICES ASSUME WTypeOK, EpochsUnique, [WNext]_wvars
               PROVE  EpochsUnique'
    OBVIOUS
  <2>1. ASSUME NEW o \in Object, NEW v \in Version, NEW e \in 0 .. MaxEpoch,
               WIssue(o, v, e)
        PROVE  EpochsUnique'
    BY <2>1, IssueWireUnique DEF WIssue
  <2>2. CASE UNCHANGED <<head, nextEpoch>>
    BY <2>2 DEF EpochsUnique
  <2> QED
    BY <2>1, <2>2 DEF WNext, DeploySigner, wvars
<1> QED
  BY <1>1, <1>2, WTypeCorrect, PTL DEF WSpec

(***************************************************************************)
(* The service implements MonotonicHeads: lost, repeated, reordered or      *)
(* arbitrary requests never move a head back and never reuse an epoch       *)
(* (issue_wire).                                                            *)
(***************************************************************************)
THEOREM HeadsAreMonotonic == WSpec => HeadsMonotonic
<1>1. WInit => Abstract!Init
  BY DEF WInit, NoReceipt, Abstract!Init, Abstract!Empty
<1>2. WTypeOK /\ [WNext]_wvars => [Abstract!Next]_(Abstract!hvars)
  <2> SUFFICES ASSUME WTypeOK, [WNext]_wvars
               PROVE  [Abstract!Next]_(Abstract!hvars)
    OBVIOUS
  <2>1. CASE UNCHANGED <<head, nextEpoch>>
    BY <2>1 DEF Abstract!hvars
  <2>2. ASSUME NEW o \in Object, NEW v \in Version, NEW e \in 0 .. MaxEpoch,
               WIssue(o, v, e)
        PROVE  [Abstract!Next]_(Abstract!hvars)
    <3>1. CASE UNCHANGED <<head, nextEpoch>>
      BY <3>1, <2>1
    <3>2. ASSUME NEW r, r = [version |-> v, epoch |-> nextEpoch, key |-> signer],
                 head' = [head EXCEPT ![o] = r], nextEpoch' = nextEpoch + 1
          PROVE  Abstract!Advance(o)
      <4>1. (nextEpoch - 1)' = nextEpoch /\ (nextEpoch - 1)' > nextEpoch - 1
        BY <3>2, WitnessAssumption DEF WTypeOK
      <4>2. [p \in Object |-> [version |-> head[p].version, epoch |-> head[p].epoch]]'
              = [[p \in Object |-> [version |-> head[p].version, epoch |-> head[p].epoch]]
                   EXCEPT ![o] = [version |-> v, epoch |-> nextEpoch]]
        BY <3>2, Zenon DEF WTypeOK
      <4>3. [p \in Object |-> [version |-> head[p].version, epoch |-> head[p].epoch]]'
              = [[p \in Object |-> [version |-> head[p].version, epoch |-> head[p].epoch]]
                   EXCEPT ![o] = [version |-> v, epoch |-> (nextEpoch - 1)']]
        BY <4>1, <4>2, Zenon
      <4> QED
        BY <4>1, <4>3, Zenon DEF Abstract!Advance
    <3> QED
      BY <2>2, <3>1, <3>2, IssueWireStep, Zenon DEF WIssue, Abstract!Next
  <2> QED
    BY <2>1, <2>2 DEF WNext, DeploySigner, wvars
<1> QED
  BY <1>1, <1>2, WTypeCorrect, PTL DEF WSpec, HeadsMonotonic, Abstract!Spec

-----------------------------------------------------------------------------
(* The vault, its daemon and its witness *)

TypeInv == TypeOK /\ IdsStaged

(* What every step must keep of the daemon process. *)
ProcessType ==
    /\ profile \in Profiles \cup {"down"}
    /\ unlocked \in BOOLEAN
    /\ op \in Op
    /\ reply \in [kind : RequestKind \cup {"none"}, code : Code]
    /\ op.recover \subseteq Staged

(* The state a step of the daemon process alone leaves as it is. *)
durable == <<head, nextEpoch, dbvars, snapshot, idvars, net, acked>>

(* No request in progress is a request state. *)
LEMMA IdleType == Idle \in Op
BY DEF Idle, Op

(* No request is in progress on a daemon that is down or idle. *)
LEMMA PhaseOfIdle == Idle.phase = "idle" /\ Idle.recover = {}
BY DEF Idle

(* A finished request leaves a well-formed process (Finish). *)
LEMMA FinishType ==
    ASSUME TypeOK, NEW kind \in RequestKind \cup {"none"}, NEW code \in Code,
           Finish(kind, code)
    PROVE  /\ unlocked' \in BOOLEAN
           /\ op' \in Op
           /\ op'.recover = {}
           /\ reply' \in [kind : RequestKind \cup {"none"}, code : Code]
<1>1. op' = Idle /\ reply' = [kind |-> kind, code |-> code]
  BY DEF Finish, Answer
<1>2. unlocked' \in BOOLEAN
  BY Zenon DEF Finish
<1> QED
  BY <1>1, <1>2, IdleType DEF Idle

(* So does a failed one (Fail). *)
LEMMA FailType ==
    ASSUME TypeOK, NEW code \in Code, Fail(code)
    PROVE  /\ unlocked' \in BOOLEAN
           /\ op' \in Op
           /\ op'.recover = {}
           /\ reply' \in [kind : RequestKind \cup {"none"}, code : Code]
<1>1. op.kind \in RequestKind \cup {"none"}
  BY DEF TypeOK, Op
<1> QED  BY <1>1, FinishType, Zenon DEF Fail

(* A step that changes the process only keeps TypeInv if it keeps its part. *)
LEMMA ProcessStepType ==
    ASSUME TypeInv, UNCHANGED durable, signer' \in Key, ProcessType'
    PROVE  TypeInv'
<1>1. Staged' = Staged
  BY DEF durable, idvars, Staged
<1>2. TypeOK'
  BY DEF TypeInv, TypeOK, WTypeOK, durable, dbvars, idvars, ProcessType
<1>3. IdsStaged'
  BY <1>1 DEF TypeInv, IdsStaged, durable, dbvars, ProcessType
<1> QED
  BY <1>2, <1>3 DEF TypeInv

(* The codes a request can end with. *)
LEMMA EnforcedCodes == Enforced \subseteq Code
BY DEF Enforced, Code

-----------------------------------------------------------------------------
(* Steps that change the daemon process only. *)
LEMMA ProcessSteps ==
    ASSUME TypeInv,
           \/ Lock \/ UnlockWrongPassphrase \/ UnlockLocal \/ UnlockStrict \/ StartVerify
           \/ RecoverDone \/ CheckDone \/ Read \/ StorageError \/ WitnessTimeout
           \/ Crash \/ ChangeSigner
           \/ \E p \in Profiles : Start(p)
           \/ \E o \in Object : CheckObject(o)
           \/ \E kind \in RequestKind, o \in Object :
                 RefuseLocked(kind, o) \/ PutRolledBack(kind, o) \/ StartRead(kind, o)
    PROVE  UNCHANGED durable /\ signer' \in Key /\ ProcessType'
<1> USE DEF TypeInv
<1>1. ProcessType /\ signer \in Key
  BY DEF TypeOK, WTypeOK, IdsStaged, ProcessType
<1>2. ASSUME UNCHANGED idvars
      PROVE  Staged' = Staged
  BY <1>2 DEF idvars, Staged
<1>3. ActiveObjects \subseteq Object /\ pending \subseteq Staged
  BY DEF ActiveObjects, IdsStaged
<1>4. CASE Lock
  BY <1>4, <1>1, <1>2, Zenon DEF Lock, Answer, ProcessType, durable, wvars, Code, RequestKind
<1>5. CASE UnlockWrongPassphrase
  BY <1>5, <1>1, <1>2 DEF UnlockWrongPassphrase, Answer, ProcessType, durable, wvars,
     Code, RequestKind
<1>6. CASE UnlockLocal
  BY <1>6, <1>1, <1>2 DEF UnlockLocal, Answer, ProcessType, durable, wvars, Code, RequestKind
<1>7. CASE UnlockStrict
  <2>1. op' \in Op /\ op'.recover = pending
    BY <1>7, <1>3, ZenonT(60) DEF UnlockStrict, Idle, Op, RequestKind, TypeOK
  <2> QED
    BY <1>7, <2>1, <1>1, <1>2, <1>3 DEF UnlockStrict, ProcessType, durable, wvars
<1>8. CASE StartVerify
  <2>1. op' \in Op /\ op'.recover = {}
    BY <1>8, <1>3, ZenonT(60) DEF StartVerify, Idle, Op, RequestKind
  <2> QED
    BY <1>8, <2>1, <1>1, <1>2 DEF StartVerify, ProcessType, durable, wvars
<1>9. ASSUME NEW kind \in RequestKind, NEW o \in Object, StartRead(kind, o)
      PROVE  UNCHANGED durable /\ signer' \in Key /\ ProcessType'
  <2>1. \/ op' = [Idle EXCEPT !.kind = kind, !.object = o, !.phase = "check",
                             !.check = ActiveObjects]
        \/ op' = [Idle EXCEPT !.kind = kind, !.object = o, !.phase = "read"]
    BY <1>9, Zenon DEF StartRead
  <2>2. op' \in Op /\ op'.recover = {}
    BY <2>1, <1>3, ZenonT(60) DEF Idle, Op
  <2> QED
    BY <1>9, <2>2, <1>1, <1>2, Zenon DEF StartRead, ProcessType, durable, wvars
<1>10. CASE RecoverDone
  <2>1. op' \in Op /\ op'.recover = op.recover
    BY <1>10, <1>1, <1>3, Zenon DEF RecoverDone, Op, ProcessType
  <2> QED
    BY <1>10, <2>1, <1>1, <1>2 DEF RecoverDone, ProcessType, durable, wvars
<1>11. CASE CheckDone
  <2>1. CASE op.kind = "get"
    <3>1. op' \in Op /\ op'.recover = op.recover
      BY <1>11, <2>1, <1>1 DEF CheckDone, Op, ProcessType
    <3> QED
      BY <1>11, <2>1, <3>1, <1>1, <1>2 DEF CheckDone, ProcessType, durable, wvars
  <2>2. CASE op.kind # "get"
    BY <1>11, <2>2, <1>1, <1>2, FinishType, Zenon DEF CheckDone, ProcessType, durable, wvars, Code, Op
  <2> QED
    BY <2>1, <2>2
<1>12. CASE Read
  BY <1>12, <1>1, <1>2, FinishType, ZenonT(60) DEF Read, ProcessType, durable, wvars, Code, Op
<1>13. CASE StorageError \/ WitnessTimeout
  BY <1>13, <1>1, <1>2, FailType DEF StorageError, WitnessTimeout, ProcessType, durable, wvars, Code
<1>14. CASE Crash
  BY <1>14, <1>1, <1>2, IdleType, ZenonT(60) DEF Crash, Idle, ProcessType, durable, wvars
<1>15. ASSUME NEW p \in Profiles, Start(p)
      PROVE  UNCHANGED durable /\ signer' \in Key /\ ProcessType'
  BY <1>15, <1>1, <1>2 DEF Start, ProcessType, durable, wvars
<1>16. CASE ChangeSigner
  BY <1>16, <1>1, <1>2 DEF ChangeSigner, DeploySigner, ProcessType, durable
<1>17. ASSUME NEW o \in Object, CheckObject(o)
      PROVE  UNCHANGED durable /\ signer' \in Key /\ ProcessType'
  <2>1. CASE op' = [op EXCEPT !.check = @ \ {o}] /\ UNCHANGED <<unlocked, reply>>
    <3>1. op' \in Op /\ op'.recover = op.recover
      BY <2>1, <1>1 DEF Op, ProcessType
    <3> QED
      BY <1>17, <2>1, <3>1, <1>1, <1>2 DEF CheckObject, ProcessType, durable, wvars
  <2>2. CASE \E code \in {"WitnessUnavailable", "WitnessConflict"} : Fail(code)
    BY <1>17, <2>2, <1>1, <1>2, FailType, ZenonT(60) DEF CheckObject, ProcessType, durable, wvars, Code
  <2> QED
    BY <1>17, <2>1, <2>2 DEF CheckObject
<1>18. CASE \E kind \in RequestKind, o \in Object :
              RefuseLocked(kind, o) \/ PutRolledBack(kind, o)
  BY <1>18, <1>1, <1>2, FinishType DEF RefuseLocked, PutRolledBack, ProcessType, durable, wvars, Code
<1> QED
  BY <1>4, <1>5, <1>6, <1>7, <1>8, <1>9, <1>10, <1>11, <1>12, <1>13, <1>14, <1>15, <1>16,
     <1>17, <1>18

-----------------------------------------------------------------------------
(* Steps that change the tables, the network or the history. *)

(* An issue request handled by the witness keeps the witness's types. *)
LEMMA IssueStep ==
    ASSUME TypeInv, NEW v \in net, IssueWire(owner[v], v, expected[v]), UNCHANGED signer
    PROVE  owner[v] \in Object /\ v \in Version /\ WTypeOK'
<1>1. owner[v] \in Object /\ v \in Version
  BY DEF TypeInv, TypeOK, IdsStaged, Staged
<1> QED
  BY <1>1, IssueWireType, ZenonT(60) DEF TypeInv, TypeOK, WTypeOK

(* put under a strict profile: staging keeps the types. *)
LEMMA PutStrictType ==
    ASSUME TypeInv, NEW o \in Object, NEW v \in Version, PutStrict(o, v)
    PROVE  TypeInv'
<1>1. /\ owner' \in [Version -> Object \cup {NoObject}]
      /\ Staged' = Staged \cup {v}
  BY VaultAssumption DEF TypeInv, TypeOK, PutStrict, Stage, Staged
<1>2. ActiveReceipt(o) \in Receipt \cup {NoReceipt}
  BY DEF ActiveReceipt, TypeInv, TypeOK
<1>3. ExpectedEpoch(o) \in 0 .. MaxEpoch
  BY <1>2, WitnessAssumption DEF ExpectedEpoch, Receipt, NoReceipt
<1>4. expected' \in [Version -> 0 .. MaxEpoch]
  BY <1>3 DEF TypeInv, TypeOK, PutStrict, Stage
<1>5. PICK code \in Enforced :
          IF code = "ok"
          THEN /\ op' = [Idle EXCEPT !.kind = "put", !.object = o,
                                     !.phase = "issue", !.version = v]
               /\ net' = net \cup {v}
               /\ UNCHANGED <<unlocked, reply>>
          ELSE Finish("put", code) /\ UNCHANGED net
  BY Zenon DEF PutStrict
<1>6. /\ unlocked' \in BOOLEAN /\ op' \in Op /\ op'.recover = {}
      /\ reply' \in [kind : RequestKind \cup {"none"}, code : Code]
      /\ net' \subseteq net \cup {v}
  <2>1. CASE code = "ok"
    <3>1. op' \in Op /\ op'.recover = {}
      BY <1>5, <2>1, ZenonT(60) DEF Idle, Op, RequestKind
    <3> QED
      BY <1>5, <2>1, <3>1 DEF TypeInv, TypeOK
  <2>2. CASE code # "ok"
    BY <1>5, <2>2, FinishType, EnforcedCodes DEF RequestKind, TypeInv
  <2> QED
    BY <2>1, <2>2
<1>7. pending' = pending \cup {v}
      /\ UNCHANGED <<wvars, active, receipts, snapshot, profile, acked>>
  BY DEF PutStrict, Stage
<1>8. TypeOK'
  BY <1>1, <1>4, <1>6, <1>7, ZenonT(60) DEF TypeInv, TypeOK, WTypeOK, wvars
<1>9. IdsStaged'
  BY <1>1, <1>6, <1>7 DEF TypeInv, IdsStaged
<1> QED
  BY <1>8, <1>9 DEF TypeInv

(* Publication without a witness keeps the types. *)
LEMMA PublishPlainType ==
    ASSUME TypeInv, NEW kind \in RequestKind, NEW o \in Object, NEW v \in Version,
           PublishPlain(kind, o, v)
    PROVE  TypeInv'
<1>1. /\ owner' \in [Version -> Object \cup {NoObject}]
      /\ Staged' = Staged \cup {v}
      /\ active' \in [Object -> Version \cup {NoVersion}]
  BY VaultAssumption DEF TypeInv, TypeOK, PublishPlain, Staged
<1>2. /\ unlocked' \in BOOLEAN /\ op' \in Op /\ op'.recover = {}
      /\ reply' \in [kind : RequestKind \cup {"none"}, code : Code]
  BY FinishType, EnforcedCodes DEF PublishPlain, TypeInv
<1>3. UNCHANGED <<wvars, receipts, pending, snapshot, expected, profile, net, acked>>
  BY Zenon DEF PublishPlain
<1>4. TypeOK'
  BY <1>1, <1>2, <1>3, Zenon DEF TypeInv, TypeOK, WTypeOK, wvars
<1>5. IdsStaged'
  BY <1>1, <1>2, <1>3, Zenon DEF TypeInv, IdsStaged
<1> QED
  BY <1>4, <1>5 DEF TypeInv

(* Taking up a pending publication keeps the types. *)
LEMMA RecoverNextType ==
    ASSUME TypeInv, NEW v \in Version, RecoverNext(v)
    PROVE  TypeInv'
<1>1. op' \in Op /\ op'.recover \subseteq op.recover /\ v \in Staged
  BY Zenon DEF TypeInv, TypeOK, IdsStaged, RecoverNext, Op
<1>2. net' = net \cup {v}
      /\ UNCHANGED <<wvars, dbvars, snapshot, idvars, profile, unlocked, reply, acked>>
  BY DEF RecoverNext
<1>3. TypeOK'
  BY <1>1, <1>2, Zenon DEF TypeInv, TypeOK, WTypeOK, wvars, dbvars, idvars
<1>4. IdsStaged'
  BY <1>1, <1>2 DEF TypeInv, IdsStaged, Staged, dbvars, idvars
<1> QED
  BY <1>3, <1>4 DEF TypeInv

(* An answer of the witness, accepted or refused, keeps the types. *)
LEMMA AnswerIssueType ==
    ASSUME TypeInv, NEW v \in Version, AnswerIssue(v)
    PROVE  TypeInv'
<1>1. v \in net /\ net' \subseteq net
  BY DEF AnswerIssue, Consume
<1>2. owner[v] \in Object /\ WTypeOK'
  BY <1>1, IssueStep DEF AnswerIssue
<1>3. /\ unlocked' \in BOOLEAN /\ op' \in Op /\ op'.recover \subseteq op.recover
      /\ reply' \in [kind : RequestKind \cup {"none"}, code : Code]
  <2>1. CASE /\ op' = [op EXCEPT !.phase = "finalize", !.receipt = head'[owner[v]]]
             /\ UNCHANGED <<unlocked, reply>>
    BY <2>1, <1>2, Zenon DEF TypeInv, TypeOK, WTypeOK, Op
  <2>2. CASE \E code \in {"WitnessUnavailable", "WitnessConflict"} : Fail(code)
    BY <2>2, FailType DEF TypeInv, Code
  <2> QED
    BY <2>1, <2>2 DEF AnswerIssue
<1>4. UNCHANGED <<dbvars, snapshot, idvars, profile, acked>>
  BY Zenon DEF AnswerIssue
<1>5. TypeOK'
  BY <1>1, <1>2, <1>3, <1>4, ZenonT(60) DEF TypeInv, TypeOK, dbvars, idvars
<1>6. IdsStaged'
  BY <1>1, <1>3, <1>4 DEF TypeInv, IdsStaged, Staged, dbvars, idvars
<1> QED
  BY <1>5, <1>6 DEF TypeInv

(* A request handled without an answer keeps the types. *)
LEMMA HandleUnansweredType ==
    ASSUME TypeInv, NEW v \in Version, HandleUnanswered(v)
    PROVE  TypeInv'
<1>1. v \in net /\ net' \subseteq net
  BY DEF HandleUnanswered, Consume
<1>2. WTypeOK'
  BY <1>1, IssueStep DEF HandleUnanswered
<1>3. UNCHANGED <<dbvars, snapshot, idvars, profile, unlocked, op, reply, acked>>
  BY DEF HandleUnanswered
<1>4. TypeOK'
  BY <1>1, <1>2, <1>3, Zenon DEF TypeInv, TypeOK, dbvars, idvars
<1>5. IdsStaged'
  BY <1>1, <1>3 DEF TypeInv, IdsStaged, Staged, dbvars, idvars
<1> QED
  BY <1>4, <1>5 DEF TypeInv

(* The finalizing transaction keeps the types. *)
LEMMA FinalizeType ==
    ASSUME TypeInv, NEW v \in Version, Finalize(v)
    PROVE  TypeInv'
<1>1. UNCHANGED <<wvars, snapshot, idvars, profile, net>>
  BY DEF Finalize
<1>2. op.receipt \in Receipt \cup {NoReceipt} /\ op.receipt.epoch \in 0 .. MaxEpoch
  BY WitnessAssumption DEF TypeInv, TypeOK, Op, Receipt, NoReceipt
<1>3. /\ active' \in [Object -> Version \cup {NoVersion}]
      /\ receipts' \in [Version -> Receipt \cup {NoReceipt}]
      /\ pending' \subseteq pending
  BY <1>2, Zenon DEF TypeInv, TypeOK, Finalize, FinalizeCommit, dbvars
<1>4. /\ unlocked' \in BOOLEAN /\ op' \in Op /\ op'.recover \subseteq op.recover
      /\ reply' \in [kind : RequestKind \cup {"none"}, code : Code]
      /\ acked' \in [Object -> 0 .. MaxEpoch]
  <2>1. CASE \E code \in Code : Fail(code) /\ UNCHANGED acked
    BY <2>1, FailType, Zenon DEF TypeInv, TypeOK
  <2>2. CASE FinalizeContinue(v) /\ op.kind = "put"
    <3>1. acked' \in [Object -> 0 .. MaxEpoch]
      BY <2>2, <1>2 DEF FinalizeContinue, TypeInv, TypeOK
    <3>2. Finish("put", "ok")
      BY <2>2 DEF FinalizeContinue
    <3> QED
      BY <3>1, <3>2, FinishType DEF RequestKind, Code, TypeInv
  <2>3. CASE FinalizeContinue(v) /\ op.kind # "put"
    <3>1. op' \in Op /\ op'.recover = op.recover
      BY <2>3, ZenonT(60) DEF FinalizeContinue, Op, TypeInv, TypeOK
    <3> QED
      BY <2>3, <3>1 DEF FinalizeContinue, TypeInv, TypeOK
  <2> QED
    BY <2>1, <2>2, <2>3, EnforcedCodes, Zenon DEF Finalize, Code
<1>5. TypeOK'
  BY <1>1, <1>3, <1>4 DEF TypeInv, TypeOK, WTypeOK, wvars, idvars
<1>6. IdsStaged'
  BY <1>1, <1>3, <1>4 DEF TypeInv, IdsStaged, Staged, idvars
<1> QED
  BY <1>5, <1>6 DEF TypeInv

(* The operator copying the database out or back keeps the types. *)
LEMMA BackupRestoreType ==
    ASSUME TypeInv, Backup \/ Restore
    PROVE  TypeInv'
<1>1. CASE Backup
  <2>1. snapshot' \in Snapshot /\ snapshot'.pending \subseteq Staged
    BY <1>1 DEF Backup, Snapshot, TypeInv, TypeOK, IdsStaged
  <2>2. reply' \in [kind : RequestKind \cup {"none"}, code : Code]
    BY <1>1 DEF Backup, Answer, RequestKind, Code
  <2>3. UNCHANGED <<wvars, dbvars, idvars, profile, unlocked, op, net, acked>>
    BY <1>1 DEF Backup
  <2>4. TypeOK'
    BY <2>1, <2>2, <2>3 DEF TypeInv, TypeOK, WTypeOK, wvars, dbvars, idvars
  <2>5. IdsStaged'
    BY <2>1, <2>3 DEF TypeInv, IdsStaged, Staged, dbvars, idvars
  <2> QED
    BY <2>4, <2>5 DEF TypeInv
<1>2. CASE Restore
  <2>1. /\ active' \in [Object -> Version \cup {NoVersion}]
        /\ receipts' \in [Version -> Receipt \cup {NoReceipt}]
        /\ pending' = snapshot.pending /\ pending' \subseteq Version
    BY <1>2 DEF Restore, Snapshot, TypeInv, TypeOK
  <2>2. UNCHANGED <<wvars, snapshot, idvars, profile, unlocked, op, net, reply, acked>>
    BY <1>2, Zenon DEF Restore
  <2>3. TypeOK'
    BY <2>1, <2>2, Zenon DEF TypeInv, TypeOK, WTypeOK, wvars, idvars
  <2>4. IdsStaged'
    BY <2>1, <2>2 DEF TypeInv, IdsStaged, Staged, idvars
  <2> QED
    BY <2>3, <2>4 DEF TypeInv
<1> QED
  BY <1>1, <1>2

(* Every step keeps TypeInv. *)
LEMMA NextType == TypeInv /\ [Next]_vars => TypeInv'
<1> SUFFICES ASSUME TypeInv, [Next]_vars
             PROVE  TypeInv'
  OBVIOUS
<1>1. CASE UNCHANGED vars
  BY <1>1 DEF vars, wvars, dbvars, idvars, TypeInv, TypeOK, WTypeOK, IdsStaged, Staged
<1>2. CASE ClientStep
  BY <1>2, ProcessSteps, ProcessStepType, PublishPlainType, PutStrictType DEF ClientStep
<1>3. CASE DaemonStep
  BY <1>3, ProcessSteps, ProcessStepType, RecoverNextType, AnswerIssueType, FinalizeType
     DEF DaemonStep
<1>4. CASE OperatorStep
  BY <1>4, ProcessSteps, ProcessStepType, BackupRestoreType DEF OperatorStep
<1>5. CASE \E v \in Version : HandleUnanswered(v)
  BY <1>5, HandleUnansweredType
<1> QED
  BY <1>1, <1>2, <1>3, <1>4, <1>5 DEF Next

(* The initial state is well typed. *)
LEMMA InitType == Init => TypeInv
<1> SUFFICES ASSUME Init
             PROVE  TypeInv
  OBVIOUS
<1>1. WTypeOK
  BY WitnessAssumption DEF Init, WInit, WTypeOK
<1>2. op = Idle /\ op \in Op /\ op.recover = {}
  BY IdleType, Zenon DEF Init, Idle
<1>3. reply \in [kind : RequestKind \cup {"none"}, code : Code]
  BY Zenon DEF Init, Answer, Code
<1>4. /\ active \in [Object -> Version \cup {NoVersion}]
      /\ receipts \in [Version -> Receipt \cup {NoReceipt}]
      /\ snapshot \in Snapshot /\ snapshot.pending = {}
  BY DEF Init, Snapshot
<1>5. /\ pending = {} /\ net = {} /\ profile = "down" /\ unlocked = FALSE
      /\ owner \in [Version -> Object \cup {NoObject}]
      /\ expected \in [Version -> 0 .. MaxEpoch]
      /\ acked \in [Object -> 0 .. MaxEpoch]
  BY WitnessAssumption DEF Init
<1>6. TypeOK
  BY <1>1, <1>2, <1>3, <1>4, <1>5, ZenonT(60) DEF TypeOK
<1>7. IdsStaged
  BY <1>2, <1>4, <1>5 DEF IdsStaged
<1> QED
  BY <1>6, <1>7 DEF TypeInv

(***************************************************************************)
(* The database, the daemon and the network keep their types in every       *)
(* deployment, with every fault (all operations of vault.rs and lib.rs).    *)
(***************************************************************************)
THEOREM TypeCorrect == Spec => []TypeOK
<1>1. TypeInv => TypeOK
  BY DEF TypeInv
<1> QED
  BY <1>1, InitType, NextType, PTL DEF Spec

(* What a step of the composed system does to the witness's rows. *)
LEMMA NextWitness == TypeInv /\ [Next]_vars => [WNext]_wvars
<1> SUFFICES ASSUME TypeInv, [Next]_vars
             PROVE  WNext \/ UNCHANGED wvars
  BY Zenon
<1>1. ASSUME NEW v \in Version, AnswerIssue(v) \/ HandleUnanswered(v)
      PROVE  WNext
  <2>1. v \in net /\ IssueWire(owner[v], v, expected[v]) /\ UNCHANGED signer
    BY <1>1, Zenon DEF AnswerIssue, HandleUnanswered, Consume
  <2>2. owner[v] \in Object /\ expected[v] \in 0 .. MaxEpoch
    BY <2>1, IssueStep, Zenon DEF TypeInv, TypeOK
  <2> QED
    BY <2>1, <2>2, Zenon DEF WNext, WIssue
<1>2. CASE ChangeSigner
  BY <1>2, Zenon DEF ChangeSigner, WNext
<1>3. CASE UNCHANGED vars
  BY <1>3, Zenon DEF vars
<1>4. CASE ClientStep
  BY <1>4, Zenon DEF ClientStep, Lock, UnlockWrongPassphrase, UnlockLocal, UnlockStrict,
     StartVerify, RefuseLocked, PutRolledBack, StartRead, PublishPlain, PutStrict
<1>5. CASE DaemonStep
  BY <1>1, <1>5, Zenon DEF DaemonStep, RecoverDone, CheckDone, Read, StorageError,
     WitnessTimeout, RecoverNext, Finalize, CheckObject
<1>6. CASE OperatorStep
  BY <1>2, <1>6, Zenon DEF OperatorStep, Backup, Restore, Crash, Start
<1> QED
  BY <1>1, <1>3, <1>4, <1>5, <1>6, Zenon DEF Next

(***************************************************************************)
(* The composition implements its component: in a deployment of any kind    *)
(* the witness goes through a behaviour of the stand-alone service, so what *)
(* is shown of WitnessService for arbitrary clients holds with this daemon, *)
(* its retries and its operators (issue_wire, post_issue).                  *)
(***************************************************************************)
THEOREM WitnessEmbedded == Spec => WSpec
<1>1. Init => WInit
  BY Zenon DEF Init
<1> QED
  BY <1>1, InitType, NextType, NextWitness, PTL DEF Spec, WSpec

(***************************************************************************)
(* In the composed system heads never move back and no epoch is reused,     *)
(* with every fault and in every profile (issue_wire, next_epoch).          *)
(***************************************************************************)
THEOREM VaultHeadsMonotonic == Spec => HeadsMonotonic /\ []EpochsUnique
BY WitnessEmbedded, HeadsAreMonotonic, EpochsStayUnique, PTL

-----------------------------------------------------------------------------
(* What a strict success vouches for. *)

(* Epochs are natural numbers. *)
LEMMA EpochTypes ==
    ASSUME TypeOK
    PROVE  /\ nextEpoch \in Nat
           /\ \A o \in Object : /\ head[o].epoch \in Nat
                                /\ ActiveReceipt(o).epoch \in Nat
                                /\ acked[o] \in Nat
           /\ \A v \in Version : expected[v] \in Nat
<1>1. \A r \in Receipt \cup {NoReceipt} : r.epoch \in Nat
  BY WitnessAssumption DEF Receipt, NoReceipt
<1>2. \A o \in Object : ActiveReceipt(o) \in Receipt \cup {NoReceipt}
  BY ZenonT(60) DEF TypeOK, ActiveReceipt
<1> QED
  BY <1>1, <1>2, WitnessAssumption DEF TypeOK, WTypeOK

(* A request that ended has nothing left to establish. *)
LEMMA IdleChecks ==
    ASSUME op' = Idle
    PROVE  OpChecks'
BY DEF OpChecks, Idle

(* What is outdated depends on the database and the history only. *)
LEMMA OutdatedStutter ==
    ASSUME UNCHANGED <<dbvars, acked>>
    PROVE  Outdated' = Outdated
BY Zenon DEF Outdated, ActiveObjects, ActiveReceipt, dbvars

(* Handling an issue request moves no head back and none behind acked. *)
LEMMA IssueAdvances ==
    ASSUME CheckedInv, NEW v \in net, IssueWire(owner[v], v, expected[v]),
           UNCHANGED <<signer, acked>>
    PROVE  /\ WitnessHoldsAcked'
           /\ \A o \in Object : head[o].epoch <= head'[o].epoch
<1>1. TypeInv /\ TypeOK /\ WTypeOK /\ WitnessHoldsAcked
  BY Zenon DEF CheckedInv, TypeInv, TypeOK
<1>2. owner[v] \in Object /\ v \in Version
  BY <1>1, IssueStep, Zenon
<1>3. /\ nextEpoch \in Nat
      /\ \A o \in Object : head[o].epoch \in Nat /\ acked[o] \in Nat
  BY <1>1, EpochTypes, Zenon
<1>4. CASE UNCHANGED <<head, nextEpoch>>
  BY <1>1, <1>3, <1>4, SMTT(30) DEF WitnessHoldsAcked
<1>5. CASE /\ head' = [head EXCEPT ![owner[v]] =
                         [version |-> v, epoch |-> nextEpoch, key |-> signer]]
           /\ nextEpoch' = nextEpoch + 1
  <2>1. head'[owner[v]].epoch = nextEpoch
    BY <1>1, <1>2, <1>5, Zenon DEF WTypeOK
  <2>2. \A o \in Object \ {owner[v]} : head'[o] = head[o]
    BY <1>1, <1>5, Zenon DEF WTypeOK
  <2> QED
    BY <1>1, <1>3, <1>5, <2>1, <2>2 DEF WitnessHoldsAcked
<1> QED
  BY <1>1, <1>2, <1>4, <1>5, IssueWireStep, Zenon

(* Steps that change the daemon process only. *)
LEMMA ProcessChecks ==
    ASSUME CheckedInv, UNCHANGED durable,
           \/ Lock \/ UnlockWrongPassphrase \/ UnlockLocal \/ UnlockStrict \/ StartVerify
           \/ RecoverDone \/ CheckDone \/ Read \/ StorageError \/ WitnessTimeout
           \/ Crash \/ ChangeSigner
           \/ \E p \in Profiles : Start(p)
           \/ \E o \in Object : CheckObject(o)
           \/ \E kind \in RequestKind, o \in Object :
                 RefuseLocked(kind, o) \/ PutRolledBack(kind, o) \/ StartRead(kind, o)
    PROVE  WitnessHoldsAcked' /\ OpChecks'
<1>1. OpChecks /\ op \in Op
  BY Zenon DEF CheckedInv, TypeOK
<1>2. WitnessHoldsAcked'
  BY DEF CheckedInv, WitnessHoldsAcked, durable
<1> SUFFICES OpChecks'
  BY <1>2, Zenon
<1>3. /\ Staged' = Staged /\ Outdated' = Outdated /\ Outdated \subseteq ActiveObjects
      /\ UNCHANGED <<head, owner>>
  BY OutdatedStutter DEF durable, idvars, Staged, Outdated
<1>4. ASSUME NEW kind, NEW code, Finish(kind, code)
      PROVE  OpChecks'
  BY <1>4, IdleChecks DEF Finish
<1>5. CASE Lock \/ UnlockWrongPassphrase \/ UnlockLocal \/ Crash
           \/ \E p \in Profiles : Start(p)
  <2>1. op' = Idle
    BY <1>5, <1>1, Zenon DEF Lock, UnlockWrongPassphrase, UnlockLocal, Crash, Start, Ready, OpChecks
  <2> QED
    BY <2>1, IdleChecks, Zenon
<1>6. CASE Read \/ StorageError \/ WitnessTimeout
           \/ \E kind \in RequestKind, o \in Object :
                 RefuseLocked(kind, o) \/ PutRolledBack(kind, o)
  BY <1>6, <1>4, Zenon DEF Read, StorageError, WitnessTimeout, RefuseLocked, PutRolledBack, Fail
<1>7. CASE UnlockStrict
  <2>1. op'.phase = "recover" /\ op'.kind = "unlock" /\ profile' # "down"
    BY <1>7, Zenon DEF UnlockStrict, Idle, Ready
  <2> QED
    BY <2>1, Zenon DEF OpChecks
<1>8. ASSUME op'.phase = "check", op'.check = ActiveObjects \/ profile' # "strict",
             profile' # "down"
      PROVE  OpChecks'
  BY <1>3, <1>8 DEF OpChecks
<1>9. CASE StartVerify
  <2>1. op'.phase = "check" /\ (op'.check = ActiveObjects \/ profile' # "strict")
    BY <1>9 DEF StartVerify, Idle
  <2> QED
    BY <1>8, <1>9, <2>1 DEF StartVerify, Ready
<1>10. ASSUME NEW kind \in RequestKind, NEW o \in Object, StartRead(kind, o)
       PROVE  OpChecks'
  <2>1. profile' = profile /\ profile # "down" /\ kind \in {"get", "get_stream"}
    BY <1>10, Zenon DEF StartRead, Ready
  <2>2. CASE kind = "get" /\ profile = "strict"
    <3>1. op'.phase = "check" /\ op'.check = ActiveObjects
      BY <1>10, <2>2, ZenonT(60) DEF StartRead, Idle
    <3> QED
      BY <1>8, <2>1, <3>1, Zenon
  <2>3. CASE ~ (kind = "get" /\ profile = "strict")
    <3>1. op'.phase = "read" /\ op'.kind = kind
      BY <1>10, <2>3, Zenon DEF StartRead, Idle
    <3> QED
      BY <2>1, <2>3, <3>1 DEF OpChecks
  <2> QED
    BY <2>2, <2>3
<1>11. CASE RecoverDone
  <2>1. op'.phase = "check" /\ op'.check = ActiveObjects /\ profile' = profile
    BY <1>11, <1>1 DEF RecoverDone, Op
  <2>2. profile # "down"
    BY <1>11, <1>1, PhaseOfIdle, Zenon DEF RecoverDone, OpChecks
  <2> QED
    BY <1>8, <2>1, <2>2
<1>12. CASE CheckDone
  <2>1. CASE op.kind = "get"
    <3>1. op'.phase = "read" /\ profile' = profile
      BY <1>12, <2>1, <1>1 DEF CheckDone, Op
    <3>2. op.phase = "check" /\ op.check = {} /\ profile # "down"
      BY <1>12, <1>1, PhaseOfIdle, Zenon DEF CheckDone, OpChecks
    <3>3. profile = "strict" => Outdated = {}
      BY <3>2, <1>1 DEF OpChecks
    <3> QED
      BY <3>1, <3>2, <3>3, <1>3 DEF OpChecks
  <2>2. CASE op.kind # "get"
    BY <1>12, <2>2, <1>4 DEF CheckDone
  <2> QED
    BY <2>1, <2>2, ZenonT(60)
<1>13. ASSUME NEW o \in Object, CheckObject(o)
       PROVE  OpChecks'
  <2>1. CASE ActiveReceipt(o) # NoReceipt /\ Readable(o) /\ HeadMatches(o)
    <3>1. /\ op'.phase = "check" /\ op'.check = op.check \ {o}
          /\ op.phase = "check" /\ profile' = profile
      BY <1>13, <2>1, <1>1, Zenon DEF CheckObject, Op
    <3>2. profile # "down"
      BY <3>1, <1>1, PhaseOfIdle, Zenon DEF OpChecks
    <3>3. o \notin Outdated
      BY <2>1, Zenon DEF HeadMatches, CheckedInv, WitnessHoldsAcked, Outdated
    <3>4. profile = "strict" => Outdated \subseteq op'.check
      BY <3>1, <3>3, <1>1, Zenon DEF OpChecks
    <3> QED
      BY <3>1, <3>2, <3>4, <1>3 DEF OpChecks
  <2>2. CASE ~ (ActiveReceipt(o) # NoReceipt /\ Readable(o) /\ HeadMatches(o))
    BY <1>13, <2>2, <1>4, Zenon DEF CheckObject, Fail
  <2> QED
    BY <2>1, <2>2, ZenonT(60)
<1>14. CASE ChangeSigner
  BY <1>14, <1>1, <1>3, Zenon DEF ChangeSigner, OpChecks
<1> QED
  BY <1>5, <1>6, <1>7, <1>9, <1>10, <1>11, <1>12, <1>13, <1>14, Zenon

(* Staging and plain publication. *)
LEMMA PutChecks ==
    ASSUME CheckedInv,
           \/ \E o \in Object, v \in Version : PutStrict(o, v)
           \/ \E kind \in RequestKind, o \in Object, v \in Version : PublishPlain(kind, o, v)
    PROVE  WitnessHoldsAcked' /\ OpChecks'
<1>1. UNCHANGED <<head, nextEpoch, acked>>
  BY Zenon DEF PutStrict, PublishPlain, wvars
<1>2. WitnessHoldsAcked'
  BY <1>1, Zenon DEF CheckedInv, WitnessHoldsAcked
<1>3. ASSUME NEW o \in Object, NEW v \in Version, PutStrict(o, v)
      PROVE  OpChecks'
  <2>1. owner'[v] = o /\ v \in Staged' /\ profile' # "down"
    BY <1>3, VaultAssumption, ZenonT(60)
       DEF PutStrict, Stage, Staged, Ready, CheckedInv, TypeOK
  <2>2. CASE op' = [Idle EXCEPT !.kind = "put", !.object = o,
                                !.phase = "issue", !.version = v]
    <3>1. /\ op'.phase = "issue" /\ op'.kind = "put"
          /\ op'.version = v /\ op'.object = o
      BY <2>2, Zenon DEF Idle
    <3> QED
      BY <2>1, <3>1 DEF OpChecks
  <2> QED
    BY <1>3, <2>2, IdleChecks, Zenon DEF PutStrict, Finish
<1> QED
  BY <1>2, <1>3, IdleChecks, Zenon DEF PublishPlain, Finish

(* The next pending publication is taken up. *)
LEMMA RecoverNextChecks ==
    ASSUME CheckedInv, NEW v \in Version, RecoverNext(v)
    PROVE  WitnessHoldsAcked' /\ OpChecks'
<1>1. OpChecks /\ op \in Op /\ op.recover \subseteq Staged
  BY DEF CheckedInv, TypeOK, IdsStaged
<1>2. UNCHANGED <<head, nextEpoch, owner, profile, acked>> /\ Staged' = Staged
  BY DEF RecoverNext, wvars, idvars, Staged
<1>3. op'.phase = "issue" /\ op'.version = v /\ op'.kind = op.kind /\ v \in Staged
  BY <1>1 DEF RecoverNext, Op
<1>4. op.kind # "put" /\ profile # "down"
  BY <1>1, PhaseOfIdle, Zenon DEF RecoverNext, OpChecks
<1>5. OpChecks'
  BY <1>2, <1>3, <1>4 DEF OpChecks
<1> QED
  BY <1>2, <1>5, ZenonT(60) DEF CheckedInv, WitnessHoldsAcked

(* The witness answers the running request. *)
LEMMA AnswerIssueChecks ==
    ASSUME CheckedInv, NEW v \in Version, AnswerIssue(v)
    PROVE  WitnessHoldsAcked' /\ OpChecks'
<1>1. OpChecks /\ op \in Op /\ TypeInv
  BY DEF CheckedInv, TypeOK, TypeInv
<1>2. v \in net /\ op.phase = "issue" /\ op.version = v
  BY DEF AnswerIssue, Consume
<1>3. UNCHANGED <<owner, profile, acked>> /\ Staged' = Staged
  BY DEF AnswerIssue, idvars, Staged
<1>4. WitnessHoldsAcked' /\ owner[v] \in Object /\ WTypeOK'
  BY <1>1, <1>2, IssueAdvances, IssueStep DEF AnswerIssue
<1>5. CASE op' = [op EXCEPT !.phase = "finalize", !.receipt = head'[owner[v]]]
  <2>1. /\ op'.phase = "finalize" /\ op'.receipt = head'[owner[v]]
        /\ op'.version = v /\ op'.kind = op.kind /\ op'.object = op.object
    BY <1>1, <1>2, <1>5, Zenon DEF Op
  <2>2. head'[owner[v]].epoch \in Nat
    BY <1>4, WitnessAssumption DEF WTypeOK, Receipt, NoReceipt
  <2>3. op'.receipt.epoch <= head'[owner'[op'.version]].epoch
    BY <2>1, <2>2, <1>3
  <2>4. profile # "down" /\ v \in Staged /\ (op.kind = "put" => owner[v] = op.object)
    BY <1>1, <1>2, PhaseOfIdle, Zenon DEF OpChecks
  <2>5. OpChecks'
    BY <2>1, <2>3, <2>4, <1>3, Zenon DEF OpChecks
  <2> QED
    BY <1>4, <2>5
<1> QED
  BY <1>4, <1>5, IdleChecks, ZenonT(60) DEF AnswerIssue, Fail, Finish

(* The witness handles a request nobody waits for. *)
LEMMA HandleUnansweredChecks ==
    ASSUME CheckedInv, NEW v \in Version, HandleUnanswered(v)
    PROVE  WitnessHoldsAcked' /\ OpChecks'
<1>1. OpChecks /\ op \in Op /\ TypeInv /\ TypeOK
  BY Zenon DEF CheckedInv, TypeOK, TypeInv
<1>2. v \in net
  BY Zenon DEF HandleUnanswered, Consume
<1>3. /\ UNCHANGED <<owner, profile, op>>
      /\ Staged' = Staged /\ Outdated' = Outdated
  BY OutdatedStutter, Zenon DEF HandleUnanswered, idvars, Staged
<1>4. WitnessHoldsAcked' /\ \A o \in Object : head[o].epoch <= head'[o].epoch
  BY <1>2, IssueAdvances, Zenon DEF HandleUnanswered
<1>5. WTypeOK'
  BY <1>1, <1>2, IssueStep, Zenon DEF HandleUnanswered
<1>6. ASSUME op.phase = "finalize"
      PROVE  op.receipt.epoch <= head'[owner[op.version]].epoch
  <2>1. op.version \in Staged /\ op.receipt.epoch <= head[owner[op.version]].epoch
    BY <1>1, <1>6, Zenon DEF OpChecks
  <2>2. owner[op.version] \in Object
    BY <2>1, <1>1, Zenon DEF Staged, TypeOK
  <2>3. \A r \in Receipt \cup {NoReceipt} : r.epoch \in Nat
    BY WitnessAssumption DEF Receipt, NoReceipt
  <2>4. /\ op.receipt.epoch \in Nat
        /\ head[owner[op.version]].epoch \in Nat /\ head'[owner[op.version]].epoch \in Nat
    BY <1>1, <1>5, <2>2, <2>3, Zenon DEF Op, TypeOK, WTypeOK
  <2> QED
    BY <1>4, <2>1, <2>2, <2>4
<1>7. OpChecks'
  BY <1>1, <1>3, <1>6, Zenon DEF OpChecks
<1> QED
  BY <1>4, <1>7, Zenon

(* A finalized put is acknowledged with an epoch the witness has reached. *)
LEMMA FinalizeChecks ==
    ASSUME CheckedInv, NEW v \in Version, Finalize(v)
    PROVE  WitnessHoldsAcked' /\ OpChecks'
<1>1. OpChecks /\ op \in Op /\ TypeOK /\ WitnessHoldsAcked
  BY Zenon DEF CheckedInv, TypeOK
<1>2. UNCHANGED <<head, nextEpoch, profile>> /\ op.phase = "finalize" /\ op.version = v
  BY Zenon DEF Finalize, wvars
<1>3. CASE UNCHANGED acked /\ \E code : Fail(code)
  BY <1>1, <1>2, <1>3, IdleChecks, Zenon DEF WitnessHoldsAcked, Fail, Finish
<1>4. CASE FinalizeContinue(v) /\ op.kind = "put"
  <2>1. op' = Idle /\ acked' = [acked EXCEPT ![op.object] = op.receipt.epoch]
    BY <1>4, Zenon DEF FinalizeContinue, Finish
  <2>2. op.receipt.epoch <= head[op.object].epoch
    BY <1>1, <1>2, <1>4, Zenon DEF OpChecks
  <2>3. \A o \in Object : acked'[o] <= head[o].epoch
    BY <1>1, <2>1, <2>2, ZenonT(60) DEF WitnessHoldsAcked, TypeOK
  <2> QED
    BY <1>1, <1>2, <2>1, <2>3, IdleChecks DEF WitnessHoldsAcked
<1>5. CASE FinalizeContinue(v) /\ op.kind # "put"
  <2>1. UNCHANGED acked /\ op'.phase = "recover" /\ op'.kind = op.kind
    BY <1>1, <1>5, ZenonT(60) DEF FinalizeContinue, Op
  <2>2. profile # "down"
    BY <1>1, <1>2, PhaseOfIdle, Zenon DEF OpChecks
  <2>3. OpChecks'
    BY <1>2, <1>5, <2>1, <2>2, Zenon DEF OpChecks
  <2> QED
    BY <1>1, <1>2, <2>1, <2>3 DEF WitnessHoldsAcked
<1> QED
  BY <1>3, <1>4, <1>5, Zenon DEF Finalize

(* The database is copied out between requests, and back with the daemon down. *)
LEMMA BackupRestoreChecks ==
    ASSUME CheckedInv, Backup \/ Restore
    PROVE  WitnessHoldsAcked' /\ OpChecks'
<1>1. UNCHANGED <<head, nextEpoch, acked>> /\ op' = Idle
  BY DEF Backup, Restore, wvars, Ready, CheckedInv, OpChecks
<1> QED
  BY <1>1, IdleChecks, ZenonT(60) DEF CheckedInv, WitnessHoldsAcked

(* Every step keeps CheckedInv. *)
LEMMA NextChecks == CheckedInv /\ [Next]_vars => CheckedInv'
<1> SUFFICES ASSUME CheckedInv, [Next]_vars
             PROVE  CheckedInv'
  OBVIOUS
<1>1. TypeInv /\ TypeInv'
  BY NextType DEF CheckedInv, TypeInv
<1> SUFFICES WitnessHoldsAcked' /\ OpChecks'
  BY <1>1, Zenon DEF CheckedInv, TypeInv
<1>2. CASE UNCHANGED vars
  <2>1. UNCHANGED <<head, nextEpoch, acked, op, profile, owner>>
    BY <1>2, Zenon DEF vars, wvars, idvars
  <2>2. Staged' = Staged /\ Outdated' = Outdated
    BY <1>2, OutdatedStutter, Zenon DEF vars, idvars, Staged
  <2> QED
    BY <2>1, <2>2, Zenon DEF CheckedInv, WitnessHoldsAcked, OpChecks
<1>3. CASE ClientStep
  BY <1>1, <1>3, ProcessSteps, ProcessChecks, PutChecks, Zenon DEF ClientStep
<1>4. CASE DaemonStep
  BY <1>1, <1>4, ProcessSteps, ProcessChecks, RecoverNextChecks, AnswerIssueChecks,
     FinalizeChecks, ZenonT(60) DEF DaemonStep
<1>5. CASE OperatorStep
  BY <1>1, <1>5, ProcessSteps, ProcessChecks, BackupRestoreChecks DEF OperatorStep
<1> QED
  BY <1>2, <1>3, <1>4, <1>5, HandleUnansweredChecks DEF Next

(***************************************************************************)
(* The witness stays ahead of every acknowledged put, and what a strict     *)
(* check has passed stays as new as that until its request ends             *)
(* (issue_wire, verify_active_objects_with_witness_inner).                  *)
(***************************************************************************)
THEOREM CheckedInvariant == Spec => []CheckedInv
<1>1. Init => CheckedInv
  <2> SUFFICES ASSUME Init
               PROVE  CheckedInv
    OBVIOUS
  <2>1. WitnessHoldsAcked
    <3>1. \A o \in Object : head[o].epoch = 0
      BY ZenonT(60) DEF Init, WInit, NoReceipt
    <3>2. nextEpoch = 1 /\ \A o \in Object : acked[o] = 0
      BY DEF Init, WInit
    <3>3. 0 <= 0 /\ 0 < 1
      OBVIOUS
    <3> QED
      BY <3>1, <3>2, <3>3, Zenon DEF WitnessHoldsAcked
  <2>2. OpChecks
    BY Zenon DEF Init, OpChecks, Idle
  <2> QED
    BY <2>1, <2>2, InitType DEF CheckedInv, TypeInv
<1> QED
  BY <1>1, NextChecks, PTL DEF Spec

(* The only steps that end an unlock, verify or get with success. *)
LEMMA StrictSuccessSteps ==
    ASSUME CheckedInv, Next, StrictSuccess
    PROVE  CheckDone \/ Read
<1>1. op # Idle /\ op.kind # "none" /\ op' # op
  BY DEF StrictSuccess, Idle
<1>2. ~ ClientStep
  BY <1>1, ZenonT(60) DEF ClientStep, Ready, Lock, UnlockWrongPassphrase, UnlockLocal, UnlockStrict,
     StartVerify, RefuseLocked, PutRolledBack, StartRead, PublishPlain, PutStrict
<1>3. ~ OperatorStep
  BY <1>1, Zenon DEF OperatorStep, Ready, Backup, Restore, Crash, Start, ChangeSigner, StrictSuccess
<1>4. ~ \E v \in Version : HandleUnanswered(v)
  BY <1>1, Zenon DEF HandleUnanswered
<1>5. ASSUME NEW code, Fail(code), code # "ok"
      PROVE  FALSE
  BY <1>5, Zenon DEF Fail, Finish, Answer, StrictSuccess
<1>6. ASSUME op'.phase # "idle"
      PROVE  FALSE
  BY <1>6, Zenon DEF StrictSuccess, Idle
<1>7. op \in Op
  BY Zenon DEF CheckedInv, TypeOK
<1>8. ~ (StorageError \/ WitnessTimeout)
  BY <1>5, Zenon DEF StorageError, WitnessTimeout
<1>9. ~ RecoverDone /\ ~ \E v \in Version : RecoverNext(v)
  BY <1>6, <1>7, ZenonT(60) DEF RecoverDone, RecoverNext, Op
<1>10. ASSUME NEW v \in Version, AnswerIssue(v)
       PROVE  FALSE
  BY <1>5, <1>6, <1>7, <1>10, Zenon DEF AnswerIssue, Op
<1>11. ASSUME NEW v \in Version, Finalize(v)
       PROVE  FALSE
  BY <1>5, <1>6, <1>7, <1>11, Zenon DEF Finalize, FinalizeContinue, StrictSuccess, Op
<1>12. ASSUME NEW o \in Object, CheckObject(o)
       PROVE  FALSE
  BY <1>5, <1>6, <1>7, <1>12 DEF CheckObject, Op
<1> QED
  BY <1>2, <1>3, <1>4, <1>8, <1>9, <1>10, <1>11, <1>12, Zenon DEF Next, DaemonStep

(***************************************************************************)
(* In every deployment, whatever is restored and whichever profile ran in   *)
(* between, a strict unlock, verify or get that succeeds vouches for no     *)
(* version older than the last acknowledged put of its object               *)
(* (verify_active_objects_with_witness_inner).                              *)
(***************************************************************************)
THEOREM VerifiedNeverRolledBack == Spec => VerifiedNotRolledBack
<1>1. CheckedInv /\ [Next]_vars =>
        [StrictSuccess => \A o \in ActiveObjects : acked[o] <= ActiveReceipt(o).epoch]_vars
  <2> SUFFICES ASSUME CheckedInv, Next, StrictSuccess
               PROVE  Outdated = {}
    BY Zenon DEF Outdated
  <2>1. OpChecks /\ op \in Op
    BY DEF CheckedInv, TypeOK
  <2>2. CASE CheckDone
    BY <2>1, <2>2, Zenon DEF CheckDone, StrictSuccess, OpChecks
  <2>3. CASE Read
    <3>1. op.phase = "read" /\ profile = "strict" /\ op.kind \in {"unlock", "verify", "get"}
      BY <2>3 DEF Read, StrictSuccess
    <3> QED
      BY <3>1, <2>1, Zenon DEF OpChecks
  <2> QED
    BY <2>2, <2>3, StrictSuccessSteps
<1> QED
  BY <1>1, CheckedInvariant, PTL DEF Spec, VerifiedNotRolledBack

-----------------------------------------------------------------------------
(***************************************************************************)
(* In a strict deployment a vault and its witness never disagree for good:  *)
(* what is pending can be finalized, what was acknowledged stays, and an    *)
(* unlocked daemon between two requests agrees with the witness.  The       *)
(* induction is on StrictInv; one lemma per step that changes the tables.   *)
(***************************************************************************)

(* The state DbInv speaks about. *)
dbstate == <<head, nextEpoch, dbvars, idvars, acked>>

(* A step that leaves the database and the witness alone keeps DbInv. *)
LEMMA DbStutter ==
    ASSUME DbInv, UNCHANGED dbstate
    PROVE  DbInv'
<1>1. UNCHANGED <<head, nextEpoch, active, receipts, pending, owner, expected, acked>>
  BY Zenon DEF dbstate, dbvars, idvars
<1>2. UNCHANGED <<ActiveObjects, Staged>> /\ \A o : ActiveReceipt(o)' = ActiveReceipt(o)
  BY <1>1, Zenon DEF ActiveObjects, Staged, ActiveReceipt
<1>3. StagedInOrder'
  BY <1>1, <1>2, Zenon DEF DbInv, StagedInOrder
<1>4. HeadHeldLocally'
  BY <1>1, <1>2, Zenon DEF DbInv, HeadHeldLocally
<1>5. AckedNotLost'
  BY <1>1, <1>2, Zenon DEF DbInv, AckedNotLost
<1> QED
  BY <1>3, <1>4, <1>5, Zenon DEF DbInv

(* Epochs in a chain. *)
LEMMA Later ==
    ASSUME NEW a \in Nat, NEW b \in Nat, NEW c \in Nat
    PROVE  (a >= b /\ b > c => a > c) /\ (a < b => b > a)
           /\ (a > b /\ c <= b => c <= a) /\ (a = b => b <= a)
BY SMTT(30)

(* A request that ended leaves nothing pending unless it locked the vault. *)
LEMMA IdleTracks ==
    ASSUME op' = Idle, unlocked' => profile' # "down" /\ pending' = {}
    PROVE  OpTracksPending'
BY DEF OpTracksPending, Idle

(* A failure that locks. *)
LEMMA FailTracks ==
    ASSUME NEW code, RequiresLock(code), Fail(code)
    PROVE  OpTracksPending'
BY IdleTracks, Zenon DEF Fail, Finish

(* The process is at most unlocked as before when a request just ends. *)
LEMMA FinishTracks ==
    ASSUME NEW kind, NEW code, Finish(kind, code),
           unlocked /\ ~ RequiresLock(code) => profile' # "down" /\ pending' = {}
    PROVE  OpTracksPending'
BY IdleTracks, Zenon DEF Finish

(* In a strict deployment only a storage error follows a commit. *)
LEMMA StrictEnforced ==
    ASSUME StrictDeployment, NEW code \in Enforced
    PROVE  code = "ok" \/ code = "Storage"
BY DEF StrictDeployment, Enforced

-----------------------------------------------------------------------------
(* Steps that change the daemon process only. *)
LEMMA ProcessTracks ==
    ASSUME StrictDeployment, StrictInv, UNCHANGED durable,
           \/ Lock \/ UnlockWrongPassphrase \/ UnlockLocal \/ UnlockStrict \/ StartVerify
           \/ RecoverDone \/ CheckDone \/ Read \/ StorageError \/ WitnessTimeout
           \/ Crash \/ ChangeSigner
           \/ \E p \in Profiles : Start(p)
           \/ \E o \in Object : CheckObject(o)
           \/ \E kind \in RequestKind, o \in Object :
                 RefuseLocked(kind, o) \/ PutRolledBack(kind, o) \/ StartRead(kind, o)
    PROVE  OpTracksPending'
<1>1. OpTracksPending /\ TypeOK
  BY DEF StrictInv
<1>2. UNCHANGED <<pending, owner, head, expected>>
  BY DEF durable, dbvars, idvars
<1>3. CASE Lock \/ Crash
  BY <1>3, IdleTracks, Zenon DEF Lock, Crash, Ready
<1>4. CASE UnlockWrongPassphrase
  BY <1>4, <1>1, <1>2, IdleTracks, PhaseOfIdle, Zenon DEF UnlockWrongPassphrase, Ready, OpTracksPending
<1>5. CASE UnlockLocal
  BY <1>5, <1>1, Zenon DEF UnlockLocal, StrictDeployment, TypeOK
<1>6. CASE UnlockStrict
  <2>1. /\ op'.phase = "recover" /\ op'.recover = pending /\ op'.kind # "put"
        /\ unlocked' /\ profile' # "down"
    BY <1>6, Zenon DEF UnlockStrict, Idle
  <2> QED
    BY <2>1, <1>2 DEF OpTracksPending
<1>7. CASE StartVerify
  <2>1. op'.phase = "check" /\ unlocked' /\ profile' # "down" /\ pending = {}
    BY <1>7, <1>1, PhaseOfIdle, ZenonT(60) DEF StartVerify, Idle, Ready, OpTracksPending
  <2> QED
    BY <2>1, <1>2, Zenon DEF OpTracksPending
<1>8. ASSUME NEW kind \in RequestKind, NEW o \in Object, StartRead(kind, o)
      PROVE  OpTracksPending'
  <2>1. \/ op' = [Idle EXCEPT !.kind = kind, !.object = o, !.phase = "check",
                             !.check = ActiveObjects]
        \/ op' = [Idle EXCEPT !.kind = kind, !.object = o, !.phase = "read"]
    BY <1>8, Zenon DEF StartRead
  <2>2. op'.phase \in {"check", "read"}
    BY <2>1, ZenonT(60) DEF Idle
  <2>3. unlocked' /\ profile' # "down" /\ pending = {}
    BY <1>8, <1>1, PhaseOfIdle, Zenon DEF StartRead, Ready, OpTracksPending
  <2> QED
    BY <2>2, <2>3, <1>2, SMTT(40) DEF OpTracksPending
<1>9. CASE RecoverDone
  <2>1. op'.phase = "check" /\ unlocked' = unlocked /\ profile' = profile
    BY <1>9, <1>1 DEF RecoverDone, TypeOK, Op
  <2>2. pending = {} /\ unlocked
    BY <1>9, <1>1, PhaseOfIdle, Zenon DEF RecoverDone, OpTracksPending
  <2> QED
    BY <2>1, <2>2, <1>1, <1>2 DEF OpTracksPending
<1>10. CASE CheckDone
  <2>1. unlocked /\ pending = {} /\ profile' # "down"
    BY <1>10, <1>1, PhaseOfIdle, Zenon DEF CheckDone, OpTracksPending
  <2>2. CASE op.kind = "get"
    <3>1. op'.phase = "read" /\ unlocked' = unlocked
      BY <1>10, <2>2, <1>1 DEF CheckDone, TypeOK, Op
    <3> QED
      BY <2>1, <3>1, <1>2, Zenon DEF OpTracksPending
  <2>3. CASE op.kind # "get"
    BY <1>10, <2>1, <2>3, <1>2, FinishTracks, Zenon DEF CheckDone
  <2> QED
    BY <2>2, <2>3
<1>11. CASE Read
  <2>1. unlocked /\ pending = {} /\ profile' # "down"
    BY <1>11, <1>1, PhaseOfIdle, Zenon DEF Read, OpTracksPending
  <2> QED
    BY <1>11, <2>1, <1>2, FinishTracks, Zenon DEF Read
<1>12. CASE StorageError \/ WitnessTimeout
  BY <1>12, FailTracks, Zenon DEF StorageError, WitnessTimeout, RequiresLock
<1>13. CASE ChangeSigner
  BY <1>13, <1>1, <1>2, ZenonT(60) DEF ChangeSigner, OpTracksPending
<1>14. ASSUME NEW p \in Profiles, Start(p)
      PROVE  OpTracksPending'
  <2>1. ~ unlocked /\ op = Idle
    BY <1>14, <1>1, Zenon DEF Start, OpTracksPending
  <2> QED
    BY <1>14, <2>1, IdleTracks, SMTT(40) DEF Start
<1>15. ASSUME NEW o \in Object, CheckObject(o)
      PROVE  OpTracksPending'
  <2>1. CASE op' = [op EXCEPT !.check = @ \ {o}] /\ UNCHANGED <<unlocked, reply>>
    <3>1. op'.phase = "check"
      BY <1>15, <2>1, <1>1, ZenonT(60) DEF CheckObject, TypeOK, Op
    <3>2. unlocked /\ pending = {} /\ profile' # "down"
      BY <1>15, <1>1, PhaseOfIdle, Zenon DEF CheckObject, OpTracksPending
    <3> QED
      BY <2>1, <3>1, <3>2, <1>2, ZenonT(60) DEF OpTracksPending
  <2>2. CASE \E code \in {"WitnessUnavailable", "WitnessConflict"} : Fail(code)
    BY <2>2, FailTracks, Zenon DEF RequiresLock
  <2> QED
    BY <1>15, <2>1, <2>2 DEF CheckObject
<1>16. ASSUME NEW kind \in RequestKind, NEW o \in Object,
             RefuseLocked(kind, o) \/ PutRolledBack(kind, o)
      PROVE  OpTracksPending'
  BY <1>16, FinishTracks, ZenonT(60) DEF RefuseLocked, PutRolledBack, RequiresLock
<1> QED
  BY <1>3, <1>4, <1>5, <1>6, <1>7, <1>8, <1>9, <1>10, <1>11, <1>12, <1>13, <1>14, <1>15,
     <1>16, ZenonT(60)

-----------------------------------------------------------------------------
(* Steps that change the tables of the witness or of the vault. *)

(***************************************************************************)
(* An issue request, on time, late or repeated, moves a head only to the    *)
(* version that is pending (issue_wire).                                    *)
(***************************************************************************)
LEMMA IssueKeepsDb ==
    ASSUME StrictInv, NEW v \in net, IssueWire(owner[v], v, expected[v]),
           UNCHANGED <<signer, dbvars, idvars, acked>>
    PROVE  /\ DbInv'
           /\ \/ head' = head
              \/ /\ v \in pending
                 /\ ~ Replays(owner[v], v, expected[v])
<1>1. owner[v] \in Object /\ v \in Version /\ v \in Staged /\ TypeOK /\ DbInv
  BY IssueStep DEF StrictInv, TypeInv, IdsStaged
<1>2. CASE UNCHANGED <<head, nextEpoch>>
  BY <1>1, <1>2, DbStutter, Zenon DEF dbstate
<1>3. CASE Advances(owner[v], v, expected[v])
  <2> DEFINE o == owner[v]
             r == [version |-> v, epoch |-> nextEpoch, key |-> signer]
  <2>1. head' = [head EXCEPT ![o] = r] /\ nextEpoch' = nextEpoch + 1
    BY <1>3, Zenon DEF IssueWire, NextEpoch
  <2>2. head[o].epoch = expected[v] /\ ~ Replays(o, v, expected[v])
    BY <1>3, Zenon DEF Advances
  <2>3. v \in pending
    <3> SUFFICES ASSUME v \notin pending PROVE FALSE
      OBVIOUS
    <3>1. head[o].epoch > expected[v] /\ expected[v] \in Nat
      BY <1>1, EpochTypes, Zenon DEF DbInv, StagedInOrder
    <3>2. ~ (expected[v] > expected[v])
      BY <3>1
    <3> QED  BY <2>2, <3>1, <3>2, Zenon
  <2>4. /\ head'[o] = r
        /\ \A p \in Object \ {o} : head'[p] = head[p]
    BY <1>1, <2>1, Zenon DEF TypeOK, WTypeOK
  <2>5. \A p \in Object : head'[p].epoch >= head[p].epoch /\ head'[p].epoch < nextEpoch'
    <3>1. nextEpoch \in Nat /\ nextEpoch' = nextEpoch + 1 /\ r.epoch = nextEpoch
      BY <1>1, <2>1, EpochTypes, Zenon
    <3>2. \A p \in Object : head[p].epoch \in Nat /\ head[p].epoch < nextEpoch
      BY <1>1, EpochTypes, Zenon DEF DbInv, StagedInOrder
    <3> HIDE DEF r
    <3>3. r.epoch < nextEpoch' /\ \A e \in Nat : e < nextEpoch =>
                                    e >= e /\ r.epoch >= e /\ e < nextEpoch'
      BY <3>1
    <3> QED  BY <2>4, <3>2, <3>3, Zenon
  <2>6. /\ UNCHANGED <<pending, owner, expected, active, acked, Staged, ActiveObjects>>
        /\ \A p : ActiveReceipt(p)' = ActiveReceipt(p)
    BY Zenon DEF dbvars, idvars, Staged, ActiveObjects, ActiveReceipt
  <2>7. StagedInOrder'
    <3>1. \A w \in Staged \ pending : head'[owner[w]].epoch > expected[w]
      <4> SUFFICES ASSUME NEW w \in Staged \ pending
                   PROVE  head'[owner[w]].epoch > expected[w]
        OBVIOUS
      <4>1. w \in Version /\ owner[w] \in Object
        BY <1>1, Zenon DEF Staged, TypeOK
      <4>2. head[owner[w]].epoch > expected[w]
        BY <1>1, Zenon DEF DbInv, StagedInOrder
      <4>3. head[owner[w]].epoch \in Nat /\ nextEpoch \in Nat /\ expected[w] \in Nat
        BY <1>1, <4>1, EpochTypes, Zenon
      <4>4. head'[owner[w]].epoch \in Nat
        <5>1. r.epoch = nextEpoch
          OBVIOUS
        <5> QED  BY <4>1, <4>3, <5>1, <2>4, Zenon
      <4> QED
        BY <2>5, <4>1, <4>2, <4>3, <4>4, Later, Zenon
    <3>2. /\ \A x, w \in pending : x = w
          /\ \A w \in pending : expected[w] = ActiveReceipt(owner[w]).epoch
          /\ \A p \in ActiveObjects : owner[active[p]] = p
      BY <1>1, Zenon DEF DbInv, StagedInOrder
    <3> QED
      BY <2>5, <2>6, <3>1, <3>2, ZenonT(60) DEF StagedInOrder
  <2>8. HeadHeldLocally'
    <3>1. nextEpoch > ActiveReceipt(o).epoch
      <4>1. head[o].epoch < nextEpoch /\ expected[v] = ActiveReceipt(o).epoch
        BY <1>1, <2>3, Zenon DEF DbInv, StagedInOrder
      <4>2. head[o].epoch \in Nat /\ nextEpoch \in Nat
        BY <1>1, EpochTypes, Zenon
      <4>3. nextEpoch > head[o].epoch
        BY <4>1, <4>2, Later, Zenon
      <4> QED  BY <2>2, <4>1, <4>3, Zenon
    <3>2. ASSUME NEW p \in Object \ {o}
          PROVE  \/ head'[p] = ActiveReceipt(p)
                 \/ \E w \in pending : /\ owner[w] = p
                                       /\ head'[p].version = w
                                       /\ head'[p].epoch > ActiveReceipt(p).epoch
      BY <1>1, <2>4, ZenonT(60) DEF DbInv, HeadHeldLocally
    <3> QED
      <4> SUFFICES ASSUME NEW p \in Object
                   PROVE  \/ head'[p] = ActiveReceipt(p)
                          \/ \E w \in pending : /\ owner[w] = p
                                                /\ head'[p].version = w
                                                /\ head'[p].epoch > ActiveReceipt(p).epoch
        BY <2>6, Zenon DEF HeadHeldLocally
      <4>1. CASE p = o
        <5>1. r.version = v /\ r.epoch = nextEpoch
          BY Zenon
        <5> HIDE DEF r
        <5> QED  BY <2>3, <2>4, <3>1, <4>1, <5>1, Zenon
      <4> QED  BY <3>2, <4>1, Zenon
  <2>9. AckedNotLost'
    BY <1>1, <2>6, Zenon DEF DbInv, AckedNotLost
  <2> QED
    BY <2>2, <2>3, <2>7, <2>8, <2>9, Zenon DEF DbInv
<1> QED
  BY <1>2, <1>3 DEF IssueWire

(* The witness acts on a request whose answer is lost (issue_wire). *)
LEMMA HandleUnansweredStrict ==
    ASSUME StrictInv, NEW v \in Version, HandleUnanswered(v)
    PROVE  DbInv' /\ OpTracksPending'
<1>1. v \in net /\ DbInv' /\ (head' = head \/ (v \in pending /\ ~ Replays(owner[v], v, expected[v])))
  BY IssueKeepsDb, ZenonT(60) DEF HandleUnanswered, Consume
<1>2. UNCHANGED <<pending, owner, expected, profile, unlocked, op>>
  BY DEF HandleUnanswered, dbvars, idvars
<1>3. OpTracksPending
  BY Zenon DEF StrictInv
<1>4. CASE head' = head
  BY <1>1, <1>2, <1>3, <1>4, ZenonT(60) DEF OpTracksPending
<1>5. CASE v \in pending /\ ~ Replays(owner[v], v, expected[v])
  <2>1. op.phase # "finalize"
    BY <1>3, <1>5 DEF OpTracksPending, Replays
  <2> QED
    BY <1>1, <1>2, <1>3, <2>1, ZenonT(60) DEF OpTracksPending
<1> QED
  BY <1>1, <1>4, <1>5, Zenon

(* The witness answers and the daemon checks the receipt (witness_pending). *)
LEMMA AnswerIssueStrict ==
    ASSUME StrictInv, NEW v \in Version, AnswerIssue(v)
    PROVE  DbInv' /\ OpTracksPending'
<1>1. v \in net /\ DbInv'
  BY IssueKeepsDb DEF AnswerIssue, Consume
<1>2. UNCHANGED <<pending, owner, expected, profile>>
  BY DEF AnswerIssue, dbvars, idvars
<1>3. OpTracksPending /\ op.phase = "issue" /\ op.version = v /\ TypeOK /\ owner[v] \in Object
  BY <1>1, IssueStep DEF AnswerIssue, StrictInv, TypeInv
<1>4. OpTracksPending'
  <2>1. CASE \E code \in {"WitnessUnavailable", "WitnessConflict"} : Fail(code)
    BY <2>1, FailTracks, Zenon DEF RequiresLock
  <2>2. CASE /\ IssueStatus(owner[v], v, expected[v]) = "ok"
             /\ head'[owner[v]].epoch > expected[v]
             /\ op' = [op EXCEPT !.phase = "finalize", !.receipt = head'[owner[v]]]
             /\ UNCHANGED <<unlocked, reply>>
    <3>1. /\ op'.phase = "finalize" /\ op'.receipt = head'[owner[v]] /\ op'.version = v
          /\ op'.recover = op.recover /\ op'.kind = op.kind /\ op'.object = op.object
      BY <2>2, <1>3, ZenonT(60) DEF TypeOK, Op
    <3>2. head'[owner[v]].version = v
      <4>1. Readable(owner[v]) /\ (Replays(owner[v], v, expected[v]) \/ Advances(owner[v], v, expected[v]))
        BY <2>2 DEF IssueStatus, Advances
      <4>2. CASE Replays(owner[v], v, expected[v])
        BY <4>2, Zenon DEF AnswerIssue, IssueWire, Advances, Replays
      <4>3. CASE Advances(owner[v], v, expected[v])
        BY <4>3, <1>3 DEF AnswerIssue, IssueWire, TypeOK, WTypeOK
      <4> QED
        BY <4>1, <4>2, <4>3
    <3>3. unlocked /\ profile # "down"
      BY <1>3, PhaseOfIdle, Zenon DEF OpTracksPending
    <3> QED
      BY <1>2, <1>3, <2>2, <3>1, <3>2, <3>3, ZenonT(60) DEF OpTracksPending
  <2> QED
    BY <2>1, <2>2 DEF AnswerIssue
<1> QED
  BY <1>1, <1>4

(* Recovery takes up the next pending publication at unlock. *)
LEMMA RecoverNextStrict ==
    ASSUME StrictInv, NEW v \in Version, RecoverNext(v)
    PROVE  DbInv' /\ OpTracksPending'
<1>1. UNCHANGED <<dbstate, unlocked, profile>>
  BY DEF RecoverNext, dbstate, wvars
<1>2. DbInv'
  BY <1>1, DbStutter DEF StrictInv
<1>3. /\ op'.phase = "issue" /\ op'.version = v /\ op'.recover = op.recover \ {v}
      /\ op'.kind = op.kind /\ op'.object = op.object
  BY DEF RecoverNext, StrictInv, TypeOK, Op
<1>4. pending = {v} /\ unlocked
  <2>1. op.phase = "recover" /\ v \in op.recover
    BY Zenon DEF RecoverNext
  <2>2. v \in pending /\ unlocked
    BY <2>1, PhaseOfIdle, Zenon DEF StrictInv, OpTracksPending
  <2>3. \A w \in pending : w = v
    BY <2>2, Zenon DEF StrictInv, DbInv, StagedInOrder
  <2> QED  BY <2>2, <2>3, Zenon
<1>5. op.kind # "put"
  BY DEF RecoverNext, StrictInv, OpTracksPending
<1> QED
  BY <1>1, <1>2, <1>3, <1>4, <1>5 DEF StrictInv, OpTracksPending, dbstate, dbvars, idvars, RecoverNext

(* A strict put stages its version before the witness hears of it. *)
LEMMA PutStrictStrict ==
    ASSUME StrictDeployment, StrictInv, NEW o \in Object, NEW v \in Version, PutStrict(o, v)
    PROVE  DbInv' /\ OpTracksPending'
<1>1. pending = {} /\ v \in Fresh /\ profile # "down" /\ unlocked /\ TypeOK /\ DbInv
  BY PhaseOfIdle DEF PutStrict, Ready, StrictInv, OpTracksPending
<1>2. /\ owner' = [owner EXCEPT ![v] = o]
      /\ expected' = [expected EXCEPT ![v] = ExpectedEpoch(o)]
      /\ pending' = {v}
      /\ UNCHANGED <<head, nextEpoch, active, receipts, acked, profile>>
  BY <1>1, Zenon DEF PutStrict, Stage, wvars
<1>3. /\ owner'[v] = o /\ expected'[v] = ExpectedEpoch(o)
      /\ \A w \in Version \ {v} : owner'[w] = owner[w] /\ expected'[w] = expected[w]
  BY <1>1, <1>2, Zenon DEF TypeOK
<1>4. UNCHANGED ActiveObjects /\ \A p : ActiveReceipt(p)' = ActiveReceipt(p)
  BY <1>2, Zenon DEF ActiveObjects, ActiveReceipt
<1>5. v \notin Staged /\ Staged' \ pending' = Staged
  BY <1>1, <1>2, <1>3, VaultAssumption, SMTT(40) DEF Staged, Fresh
<1>6. \A p \in ActiveObjects : active[p] \in Version \ {v} /\ owner[active[p]] = p
  <2> SUFFICES ASSUME NEW p \in ActiveObjects
               PROVE  active[p] \in Version \ {v} /\ owner[active[p]] = p
    OBVIOUS
  <2>1. p \in Object /\ active[p] # NoVersion
    BY Zenon DEF ActiveObjects
  <2>2. active[p] \in Version
    BY <1>1, <2>1, Zenon DEF TypeOK
  <2>3. owner[active[p]] = p /\ owner[v] = NoObject
    BY <1>1, Zenon DEF DbInv, StagedInOrder, Fresh
  <2> QED  BY <2>1, <2>2, <2>3, VaultAssumption, Zenon
<1>7. StagedInOrder'
  <2>1. \A w \in pending' : expected'[w] = ActiveReceipt(owner'[w]).epoch
    BY <1>2, <1>3, Zenon DEF ExpectedEpoch
  <2>2. \A w \in Staged : head[owner'[w]].epoch > expected'[w]
    BY <1>1, <1>3, <1>5, Zenon DEF Staged, DbInv, StagedInOrder
  <2>3. \A p \in ActiveObjects : owner'[active[p]] = p
    BY <1>3, <1>6, Zenon
  <2> QED
    BY <1>1, <1>2, <1>4, <1>5, <2>1, <2>2, <2>3, Zenon DEF DbInv, StagedInOrder
<1>8. HeadHeldLocally'
  BY <1>1, <1>2, <1>4, ZenonT(60) DEF DbInv, HeadHeldLocally
<1>9. AckedNotLost'
  BY <1>1, <1>2, <1>4 DEF DbInv, AckedNotLost
<1>10. OpTracksPending'
  <2>1. CASE op' = [Idle EXCEPT !.kind = "put", !.object = o, !.phase = "issue", !.version = v]
             /\ UNCHANGED unlocked
    <3>1. /\ op'.phase = "issue" /\ op'.version = v /\ op'.recover = {}
          /\ op'.kind = "put" /\ op'.object = o
      BY <2>1 DEF Idle
    <3> QED
      BY <1>1, <1>2, <1>3, <2>1, <3>1 DEF OpTracksPending
  <2>2. CASE Finish("put", "Storage")
    BY <2>2, FinishTracks DEF RequiresLock
  <2> QED
    BY <2>1, <2>2, StrictEnforced, ZenonT(60) DEF PutStrict
<1> QED
  BY <1>7, <1>8, <1>9, <1>10 DEF DbInv

(* The receipt and the new active version are committed together. *)
LEMMA FinalizeStrict ==
    ASSUME StrictDeployment, StrictInv, NEW v \in Version, Finalize(v)
    PROVE  DbInv' /\ OpTracksPending'
<1> DEFINE o == owner[v]
           r == op.receipt
<1>1. /\ pending = {v} /\ op.phase = "finalize" /\ op.version = v /\ op.recover = {}
      /\ r = head[o] /\ r.version = v /\ r.epoch > expected[v]
      /\ (op.kind = "put" => o = op.object)
      /\ unlocked /\ profile # "down" /\ TypeOK /\ DbInv
  <2>1. op.phase = "finalize" /\ op.version = v
    BY Zenon DEF Finalize
  <2>2. OpTracksPending /\ TypeOK /\ DbInv
    BY Zenon DEF StrictInv
  <2>3. op # Idle
    BY <2>1, PhaseOfIdle, Zenon
  <2> QED  BY <2>1, <2>2, <2>3, Zenon DEF OpTracksPending
<1>2. o \in Object /\ UNCHANGED <<head, nextEpoch, owner, expected, profile>>
  <2>1. v \in Staged
    BY <1>1, Zenon DEF StrictInv, IdsStaged
  <2>2. o \in Object
    BY <1>1, <2>1, Zenon DEF Staged, TypeOK
  <2> QED  BY <2>2, Zenon DEF Finalize, wvars, idvars
<1>3. CASE ~ (v \in pending /\ ReceiptInsertable(v, r))
  <2>1. Fail("Storage") /\ UNCHANGED <<dbvars, acked>>
    BY <1>1, <1>3, Zenon DEF Finalize
  <2>2. UNCHANGED dbstate
    BY <1>2, <2>1 DEF dbstate, idvars
  <2> QED
    BY <1>1, <2>1, <2>2, DbStutter, FailTracks, Zenon DEF RequiresLock
<1>4. CASE v \in pending /\ ReceiptInsertable(v, r)
  <2>1. /\ receipts' = [receipts EXCEPT ![v] = r]
        /\ active' = [active EXCEPT ![o] = v]
        /\ pending' = {}
    BY <1>1, <1>4, Zenon DEF Finalize, FinalizeCommit
  <2>2. \/ FinalizeContinue(v)
        \/ Fail("Storage") /\ UNCHANGED acked
    BY <1>4, StrictEnforced, Zenon DEF Finalize
  <2>3. ActiveReceipt(o)' = r
    BY <1>1, <1>2, <2>1, WitnessAssumption, Zenon DEF ActiveReceipt, TypeOK
  <2>4. ASSUME NEW p \in Object \ {o}
        PROVE  ActiveReceipt(p)' = ActiveReceipt(p)
    <3>1. active'[p] = active[p]
      BY <1>1, <2>1, Zenon DEF TypeOK
    <3>2. active[p] # v
      <4> SUFFICES ASSUME active[p] = v PROVE FALSE
        OBVIOUS
      <4>1. p \in ActiveObjects
        BY WitnessAssumption, Zenon DEF ActiveObjects
      <4> QED  BY <1>1, <4>1, Zenon DEF DbInv, StagedInOrder
    <3> QED
      BY <1>1, <2>1, <3>1, <3>2, Zenon DEF ActiveReceipt, TypeOK
  <2>5. r.epoch > ActiveReceipt(o).epoch
    <3>1. expected[v] = ActiveReceipt(o).epoch
      BY <1>1, Zenon DEF DbInv, StagedInOrder
    <3> QED  BY <1>1, <3>1, Zenon
  <2>6. StagedInOrder'
    <3>1. Staged' \ pending' = (Staged \ pending) \cup {v}
      BY <1>1, <1>2, <2>1, Zenon DEF Staged, StrictInv, IdsStaged
    <3>2. \A p \in Object : active'[p] # NoVersion => owner[active'[p]] = p
      <4> SUFFICES ASSUME NEW p \in Object, active'[p] # NoVersion
                   PROVE  owner[active'[p]] = p
        OBVIOUS
      <4>1. CASE p = o
        BY <1>1, <1>2, <2>1, <4>1, Zenon DEF TypeOK
      <4>2. CASE p # o
        <5>1. active'[p] = active[p]
          BY <1>1, <2>1, <4>2, Zenon DEF TypeOK
        <5> QED  BY <1>1, <5>1, Zenon DEF DbInv, StagedInOrder, ActiveObjects
      <4> QED  BY <4>1, <4>2, Zenon
    <3>3. \A w \in Staged \ pending : head[owner[w]].epoch > expected[w]
      BY <1>1, Zenon DEF DbInv, StagedInOrder
    <3>4. \A p \in Object : head[p].epoch < nextEpoch
      BY <1>1, Zenon DEF DbInv, StagedInOrder
    <3>5. \A w \in Staged' \ pending' : head'[owner'[w]].epoch > expected'[w]
      BY <1>1, <1>2, <3>1, <3>3, Zenon
    <3> QED
      BY <1>2, <2>1, <3>2, <3>4, <3>5, Zenon DEF StagedInOrder, ActiveObjects
  <2>7. HeadHeldLocally'
    <3> SUFFICES ASSUME NEW p \in Object
                 PROVE  head'[p] = ActiveReceipt(p)'
      BY Zenon DEF HeadHeldLocally
    <3>1. CASE p = o
      BY <1>1, <1>2, <2>3, <3>1, Zenon DEF ActiveReceipt
    <3>2. CASE p # o
      <4>1. \A w \in pending : owner[w] # p
        BY <1>1, <3>2, Zenon
      <4>2. head[p] = ActiveReceipt(p)
        BY <1>1, <4>1, Zenon DEF DbInv, HeadHeldLocally
      <4> QED  BY <1>2, <2>4, <3>2, <4>2, Zenon
    <3> QED  BY <3>1, <3>2, Zenon
  <2>8. /\ acked' \in [Object -> Nat]
        /\ \A p \in Object \ {o} : acked'[p] = acked[p]
        /\ acked'[o] = acked[o] \/ acked'[o] = r.epoch
    <3>1. acked \in [Object -> Nat] /\ r.epoch \in Nat
      BY <1>1, <1>2, EpochTypes, Zenon DEF TypeOK
    <3>2. CASE UNCHANGED acked
      BY <3>1, <3>2, Zenon
    <3>3. CASE op.kind = "put" /\ acked' = [acked EXCEPT ![op.object] = r.epoch]
      BY <1>1, <3>1, <3>3, Zenon
    <3> QED
      BY <2>2, <3>2, <3>3, Zenon DEF FinalizeContinue
  <2>9. AckedNotLost'
    <3>1. acked'[o] <= r.epoch
      <4>1. acked[o] <= ActiveReceipt(o).epoch
        BY <1>1, <1>2, Zenon DEF DbInv, AckedNotLost
      <4>2. /\ acked[o] \in Nat /\ r.epoch \in Nat /\ ActiveReceipt(o).epoch \in Nat
        BY <1>1, <1>2, EpochTypes, Zenon
      <4>3. acked[o] <= r.epoch /\ r.epoch <= r.epoch
        BY <2>5, <4>1, <4>2, Later, Zenon
      <4> QED  BY <2>8, <4>3, Zenon
    <3> QED
      <4> SUFFICES ASSUME NEW p \in Object
                   PROVE  acked'[p] <= ActiveReceipt(p)'.epoch
        BY Zenon DEF AckedNotLost
      <4>1. CASE p = o
        BY <1>2, <2>3, <3>1, <4>1, Zenon DEF ActiveReceipt
      <4>2. CASE p # o
        <5>1. acked[p] <= ActiveReceipt(p).epoch
          BY <1>1, Zenon DEF DbInv, AckedNotLost
        <5> QED  BY <2>4, <2>8, <4>2, <5>1, Zenon
      <4> QED  BY <4>1, <4>2, Zenon
  <2>10. OpTracksPending'
    <3>1. CASE Fail("Storage")
      BY <3>1, FailTracks, Zenon DEF RequiresLock
    <3>2. CASE FinalizeContinue(v) /\ op.kind = "put"
      BY <1>1, <1>2, <2>1, <3>2, FinishTracks, SMTT(40) DEF FinalizeContinue
    <3>3. CASE FinalizeContinue(v) /\ op.kind # "put"
      <4>1. op'.phase = "recover" /\ op'.recover = {} /\ op'.kind # "put" /\ unlocked'
        BY <1>1, <3>3, ZenonT(60) DEF FinalizeContinue, TypeOK, Op
      <4> QED
        BY <1>1, <1>2, <2>1, <4>1, Zenon DEF OpTracksPending
    <3> QED
      BY <2>2, <3>1, <3>2, <3>3, Zenon
  <2> QED
    BY <2>6, <2>7, <2>9, <2>10, SMTT(40) DEF DbInv
<1> QED
  BY <1>3, <1>4, SMTT(40)

(* In a strict deployment these steps cannot happen. *)
LEMMA StrictExcludes ==
    ASSUME StrictDeployment, TypeOK
    PROVE  /\ ~ Restore
           /\ \A kind \in RequestKind, o \in Object, v \in Version : ~ PublishPlain(kind, o, v)
BY Zenon DEF StrictDeployment, Restore, PublishPlain, TypeOK

(* A backup copies the database and changes nothing else. *)
LEMMA BackupStrict ==
    ASSUME StrictInv, Backup
    PROVE  DbInv' /\ OpTracksPending'
<1>1. UNCHANGED <<dbstate, profile, unlocked, op>>
  BY DEF Backup, dbstate, wvars
<1>2. DbInv'
  BY <1>1, DbStutter DEF StrictInv
<1> QED
  BY <1>1, <1>2, Zenon DEF StrictInv, OpTracksPending, dbstate, dbvars, idvars

-----------------------------------------------------------------------------
(* A new vault and a new witness satisfy the invariant. *)
LEMMA InitStrict == Init => StrictInv
<1> SUFFICES ASSUME Init
             PROVE  StrictInv
  OBVIOUS
<1>1. TypeOK /\ IdsStaged
  BY InitType, Zenon DEF TypeInv
<1>2. /\ pending = {} /\ Staged = {} /\ ActiveObjects = {}
      /\ \A o \in Object : /\ head[o] = NoReceipt /\ ActiveReceipt(o) = NoReceipt
                           /\ acked[o] = 0
      /\ nextEpoch = 1
  BY Zenon DEF Init, WInit, Staged, ActiveObjects, ActiveReceipt
<1>3. DbInv
  <2>1. NoReceipt.epoch = 0 /\ 0 < 1 /\ 0 <= 0
    BY DEF NoReceipt
  <2>2. StagedInOrder
    BY <1>2, <2>1, ZenonT(60) DEF StagedInOrder
  <2> QED  BY <1>2, <2>1, <2>2, Zenon DEF DbInv, HeadHeldLocally, AckedNotLost
<1>4. OpTracksPending
  BY PhaseOfIdle DEF Init, OpTracksPending
<1> QED
  BY <1>1, <1>3, <1>4 DEF StrictInv

(* Every step of a strict deployment keeps StrictInv. *)
LEMMA NextStrict ==
    ASSUME StrictDeployment, StrictInv, [Next]_vars
    PROVE  StrictInv'
<1>1. TypeInv /\ TypeInv'
  BY NextType DEF StrictInv, TypeInv
<1> SUFFICES DbInv' /\ OpTracksPending'
  BY <1>1, Zenon DEF StrictInv, TypeInv
<1>2. ASSUME \/ Lock \/ UnlockWrongPassphrase \/ UnlockLocal \/ UnlockStrict \/ StartVerify
             \/ RecoverDone \/ CheckDone \/ Read \/ StorageError \/ WitnessTimeout
             \/ Crash \/ ChangeSigner
             \/ \E p \in Profiles : Start(p)
             \/ \E o \in Object : CheckObject(o)
             \/ \E kind \in RequestKind, o \in Object :
                   RefuseLocked(kind, o) \/ PutRolledBack(kind, o) \/ StartRead(kind, o)
      PROVE  DbInv' /\ OpTracksPending'
  <2>1. UNCHANGED durable
    BY <1>1, <1>2, ProcessSteps, Zenon
  <2>2. UNCHANGED dbstate
    BY <2>1 DEF durable, dbstate
  <2> QED
    BY <1>2, <2>1, <2>2, ProcessTracks, DbStutter, Zenon DEF StrictInv
<1>3. CASE UNCHANGED vars
  <2>1. UNCHANGED <<dbstate, op, unlocked, profile>>
    BY <1>3, Zenon DEF vars, dbstate, wvars
  <2>2. OpTracksPending'
    BY <2>1, Zenon DEF StrictInv, OpTracksPending, dbstate, dbvars, idvars
  <2> QED
    BY <2>1, <2>2, DbStutter, Zenon DEF StrictInv
<1>4. CASE ClientStep
  BY <1>1, <1>2, <1>4, PutStrictStrict, StrictExcludes, Zenon DEF ClientStep, TypeInv
<1>5. CASE DaemonStep
  BY <1>2, <1>5, RecoverNextStrict, AnswerIssueStrict, FinalizeStrict, Zenon DEF DaemonStep
<1>6. CASE OperatorStep
  BY <1>1, <1>2, <1>6, BackupStrict, StrictExcludes, Zenon DEF OperatorStep, TypeInv
<1>7. CASE \E v \in Version : HandleUnanswered(v)
  BY <1>7, HandleUnansweredStrict
<1> QED
  BY <1>3, <1>4, <1>5, <1>6, <1>7, ZenonT(60) DEF Next

(* The inductive invariant of a strict deployment. *)
THEOREM StrictInvariant == ASSUME StrictDeployment PROVE Spec => []StrictInv
<1>1. StrictInv /\ [Next]_vars => StrictInv'
  BY NextStrict
<1> QED
  BY <1>1, InitStrict, PTL DEF Spec

(***************************************************************************)
(* The witness never refuses a version that is still pending, so recovery   *)
(* at the next unlock can finalize it (recover_pending_witness_publications,*)
(* issue_wire).                                                             *)
(***************************************************************************)
THEOREM AlwaysReconcilable == ASSUME StrictDeployment PROVE Spec => []Reconcilable
<1>1. StrictInv => Reconcilable
  <2> SUFFICES ASSUME StrictInv, NEW v \in pending
               PROVE  IssueStatus(owner[v], v, expected[v]) # "conflict"
    BY Zenon DEF Reconcilable
  <2>1. v \in Version /\ owner[v] \in Object
    BY Zenon DEF StrictInv, TypeOK, IdsStaged, Staged
  <2>2. expected[v] = ActiveReceipt(owner[v]).epoch
    BY Zenon DEF StrictInv, DbInv, StagedInOrder
  <2>3. CASE head[owner[v]] = ActiveReceipt(owner[v])
    BY <2>2, <2>3, ZenonT(60) DEF IssueStatus
  <2>4. CASE head[owner[v]].version = v /\ head[owner[v]].epoch > expected[v]
    BY <2>4 DEF IssueStatus, Replays
  <2> QED
    <3>1. \A w \in pending : w = v
      BY Zenon DEF StrictInv, DbInv, StagedInOrder
    <3>2. \/ head[owner[v]] = ActiveReceipt(owner[v])
          \/ \E w \in pending : /\ head[owner[v]].version = w
                                /\ head[owner[v]].epoch > ActiveReceipt(owner[v]).epoch
      BY <2>1, Zenon DEF StrictInv, DbInv, HeadHeldLocally
    <3> QED  BY <2>2, <2>3, <2>4, <3>1, <3>2, Zenon
<1> QED
  BY <1>1, StrictInvariant, PTL

(***************************************************************************)
(* The witness is never ahead of the vault by a version the vault does not  *)
(* hold (put_with_witness_inner stages before it asks).                     *)
(***************************************************************************)
THEOREM HeadsHeldLocally == ASSUME StrictDeployment PROVE Spec => []HeadHeldLocally
<1>1. StrictInv => HeadHeldLocally
  BY ZenonT(60) DEF StrictInv, DbInv
<1> QED
  BY <1>1, StrictInvariant, PTL

(***************************************************************************)
(* An unlocked strict daemon between two requests has nothing pending and   *)
(* agrees with the witness on every object (Daemon::unlock,                 *)
(* lock_after_failure).                                                     *)
(***************************************************************************)
THEOREM AlwaysServesReconciled == ASSUME StrictDeployment PROVE Spec => []ServesReconciled
<1>1. StrictInv => ServesReconciled
  BY PhaseOfIdle DEF StrictInv, DbInv, ServesReconciled, Ready, OpTracksPending, HeadHeldLocally
<1> QED
  BY <1>1, StrictInvariant, PTL

(***************************************************************************)
(* An acknowledged put is never undone (finalize_witness_publication).      *)
(***************************************************************************)
THEOREM AckedNeverLost == ASSUME StrictDeployment PROVE Spec => []AckedNotLost
<1>1. StrictInv => AckedNotLost
  BY DEF StrictInv, DbInv
<1> QED
  BY <1>1, StrictInvariant, PTL

-----------------------------------------------------------------------------
(***************************************************************************)
(* The receipt table follows the witness's history.  ReceiptsInOrder and    *)
(* ReceiptsComplete are inductive relative to StrictInv: an issue that      *)
(* moves a head takes an epoch above every stored receipt, and nothing else *)
(* is issued or committed before that version is, because only one version  *)
(* is pending.                                                              *)
(***************************************************************************)

(* Epochs of stored receipts are natural numbers. *)
LEMMA ReceiptEpochs ==
    ASSUME TypeOK
    PROVE  \A w \in Version : receipts[w].epoch \in Nat
<1>1. \A r \in Receipt \cup {NoReceipt} : r.epoch \in Nat
  BY WitnessAssumption DEF Receipt, NoReceipt
<1>2. \A w \in Version : receipts[w] \in Receipt \cup {NoReceipt}
  BY Zenon DEF TypeOK
<1> QED
  BY <1>1, <1>2, Zenon

(* A step that leaves the tables and the witness alone keeps the order. *)
LEMMA OrderStutter ==
    ASSUME ReceiptsInOrder, ReceiptsComplete, UNCHANGED <<head, nextEpoch, dbvars, idvars>>
    PROVE  ReceiptsInOrder' /\ ReceiptsComplete' /\ receipts' = receipts
<1>1. UNCHANGED <<head, nextEpoch, receipts, pending, owner, expected, Staged>>
  BY Zenon DEF dbvars, idvars, Staged
<1> QED
  BY <1>1, Zenon DEF ReceiptsInOrder, ReceiptsComplete

(* The witness handles an issue request: a new epoch is above every receipt. *)
LEMMA IssueOrder ==
    ASSUME CommitInv, NEW v \in net, IssueWire(owner[v], v, expected[v]),
           UNCHANGED <<signer, dbvars, idvars, acked>>
    PROVE  ReceiptsInOrder' /\ ReceiptsComplete' /\ receipts' = receipts
<1>1. /\ TypeOK /\ DbInv /\ ReceiptsInOrder /\ ReceiptsComplete
      /\ owner[v] \in Object /\ v \in Version
  BY IssueStep, Zenon DEF CommitInv, StrictInv, TypeInv
<1>2. CASE UNCHANGED <<head, nextEpoch>>
  BY <1>1, <1>2, OrderStutter, Zenon
<1>3. CASE Advances(owner[v], v, expected[v])
  <2> DEFINE r == [version |-> v, epoch |-> nextEpoch, key |-> signer]
  <2>1. head' = [head EXCEPT ![owner[v]] = r] /\ nextEpoch' = nextEpoch + 1
    BY <1>3, Zenon DEF IssueWire, NextEpoch
  <2>2. r.epoch = nextEpoch
    OBVIOUS
  <2> HIDE DEF r
  <2>3. /\ head'[owner[v]].epoch = nextEpoch
        /\ \A p \in Object \ {owner[v]} : head'[p] = head[p]
    BY <1>1, <2>1, <2>2, Zenon DEF TypeOK, WTypeOK
  <2>4. UNCHANGED <<receipts, pending, owner, expected, Staged>>
    BY Zenon DEF dbvars, idvars, Staged
  <2>5. \A w \in Version : receipts[w].epoch < nextEpoch
    BY <1>1, Zenon DEF ReceiptsInOrder
  <2>6. \A w \in Version : receipts[w].epoch < nextEpoch'
    <3>1. nextEpoch \in Nat /\ \A w \in Version : receipts[w].epoch \in Nat
      BY <1>1, EpochTypes, ReceiptEpochs, Zenon
    <3>2. \A e \in Nat : e < nextEpoch => e < nextEpoch'
      BY <2>1, <3>1
    <3> QED  BY <2>5, <3>1, <3>2, Zenon
  <2>7. ASSUME NEW u \in pending, head'[owner[u]].epoch > expected[u]
        PROVE  \A w \in Version : receipts[w].epoch < head'[owner[u]].epoch
    <3>1. CASE owner[u] = owner[v]
      BY <2>3, <2>5, <3>1, Zenon
    <3>2. CASE owner[u] # owner[v]
      <4>1. owner[u] \in Object
        BY Zenon DEF CommitInv, StrictInv, IdsStaged, TypeOK, Staged
      <4> QED  BY <1>1, <2>3, <2>7, <3>2, <4>1, Zenon DEF ReceiptsInOrder
    <3> QED  BY <3>1, <3>2, Zenon
  <2>8. \A w \in Version : w \in pending \/ w \notin Staged => receipts[w] = NoReceipt
    BY <1>1, Zenon DEF ReceiptsInOrder
  <2>9. ReceiptsInOrder'
    BY <2>4, <2>6, <2>7, <2>8, Zenon DEF ReceiptsInOrder
  <2>10. nextEpoch \in Nat /\ expected[v] \in Nat /\ expected[v] < nextEpoch
    <3>1. head[owner[v]].epoch = expected[v] /\ head[owner[v]].epoch < nextEpoch
      BY <1>1, <1>3, Zenon DEF Advances, DbInv, StagedInOrder
    <3> QED  BY <1>1, <3>1, EpochTypes, Zenon
  <2>11. v \in pending
    <3>1. head' # head
      <4> SUFFICES ASSUME head' = head PROVE FALSE
        OBVIOUS
      <4>1. head[owner[v]].epoch = nextEpoch /\ head[owner[v]].epoch < nextEpoch
        BY <1>1, <2>3, Zenon DEF DbInv, StagedInOrder
      <4>2. ~ (nextEpoch < nextEpoch)
        BY <2>10
      <4> QED  BY <4>1, <4>2, Zenon
    <3> QED  BY <3>1, IssueKeepsDb, Zenon DEF CommitInv
  <2>12. ReceiptsComplete'
    <3> SUFFICES ASSUME NEW e \in 1 .. nextEpoch' - 1
                 PROVE  \/ \E w \in Version : receipts[w].epoch = e
                        \/ \E u \in pending : head'[owner[u]].epoch = e /\ e > expected[u]
      BY <2>4, Zenon DEF ReceiptsComplete
    <3>1. e = nextEpoch \/ e \in 1 .. nextEpoch - 1
      BY <2>1, <2>10
    <3>2. CASE e = nextEpoch
      <4>1. nextEpoch > expected[v]
        BY <2>10
      <4> QED  BY <2>3, <2>11, <3>2, <4>1, Zenon
    <3>3. CASE e \in 1 .. nextEpoch - 1
      <4>1. ASSUME NEW u \in pending, head[owner[u]].epoch = e, e > expected[u]
            PROVE  FALSE
        <5>1. u = v
          BY <1>1, <2>11, Zenon DEF DbInv, StagedInOrder
        <5>2. expected[v] > expected[v]
          BY <1>3, <4>1, <5>1, Zenon DEF Advances
        <5> QED  BY <2>10, <5>2
      <4> QED  BY <1>1, <3>3, <4>1, Zenon DEF ReceiptsComplete
    <3> QED  BY <3>1, <3>2, <3>3, Zenon
  <2> QED
    BY <2>4, <2>9, <2>12, Zenon
<1> QED
  BY <1>2, <1>3, Zenon DEF IssueWire

(* A put stages a fresh version against the epoch the witness is at. *)
LEMMA PutOrder ==
    ASSUME CommitInv, NEW o \in Object, NEW v \in Version, PutStrict(o, v)
    PROVE  ReceiptsInOrder' /\ ReceiptsComplete' /\ receipts' = receipts
<1>1. /\ TypeOK /\ ReceiptsInOrder /\ ReceiptsComplete /\ DbInv /\ OpTracksPending
      /\ op = Idle /\ unlocked /\ v \in Fresh /\ Stage(o, v)
      /\ UNCHANGED <<head, nextEpoch, receipts>>
  BY Zenon DEF CommitInv, StrictInv, PutStrict, Ready, wvars
<1>2. pending = {}
  BY <1>1, PhaseOfIdle, Zenon DEF OpTracksPending
<1>3. head[o] = ActiveReceipt(o)
  BY <1>1, <1>2, Zenon DEF DbInv, HeadHeldLocally
<1>4. pending' = {v} /\ owner'[v] = o /\ expected'[v] = head[o].epoch
  BY <1>1, <1>2, <1>3, Zenon DEF Stage, ExpectedEpoch, TypeOK
<1>5. ~ (head'[owner'[v]].epoch > expected'[v])
  <2>1. head[o].epoch \in Nat
    BY <1>1, EpochTypes, Zenon
  <2>2. \A e \in Nat : ~ (e > e)
    OBVIOUS
  <2> QED  BY <1>1, <1>4, <2>1, <2>2, Zenon
<1>6. \A w \in Version : w \in pending' \/ w \notin Staged' => w = v \/ w \notin Staged
  <2>1. \A w \in Version \ {v} : owner'[w] = owner[w]
    BY <1>1, Zenon DEF Stage, TypeOK
  <2> QED  BY <1>4, <2>1, Zenon DEF Staged
<1>7. v \notin Staged
  BY <1>1, Zenon DEF Fresh, Staged
<1>8. ReceiptsComplete'
  BY <1>1, <1>2, Zenon DEF ReceiptsComplete
<1> QED
  BY <1>1, <1>4, <1>5, <1>6, <1>7, <1>8, Zenon DEF ReceiptsInOrder

(* What the daemon is about to commit is later than every stored receipt. *)
LEMMA AcceptedIsLatest ==
    ASSUME CommitInv, op.phase = "finalize"
    PROVE  /\ pending = {op.version} /\ op.version \in Version
           /\ owner[op.version] \in Object
           /\ op.receipt = head[owner[op.version]]
           /\ receipts[op.version] = NoReceipt
           /\ \A w \in Version : receipts[w].epoch < op.receipt.epoch
<1>1. TypeOK /\ IdsStaged /\ ReceiptsInOrder /\ OpTracksPending
  BY Zenon DEF CommitInv, StrictInv
<1>2. /\ pending = {op.version} /\ op.receipt = head[owner[op.version]]
      /\ op.receipt.epoch > expected[op.version]
  BY <1>1, Zenon DEF OpTracksPending
<1>3. op.version \in Version /\ owner[op.version] \in Object
  BY <1>1, <1>2, Zenon DEF IdsStaged, TypeOK, Staged
<1> QED
  BY <1>1, <1>2, <1>3, Zenon DEF ReceiptsInOrder

(* The commit stores the latest receipt (finalize_witness_publication). *)
LEMMA FinalizeOrder ==
    ASSUME CommitInv, NEW v \in Version, Finalize(v)
    PROVE  /\ ReceiptsInOrder' /\ ReceiptsComplete'
           /\ \A u \in Version : receipts'[u] # receipts[u] =>
                 /\ receipts[u] = NoReceipt
                 /\ \A w \in Version : receipts[w].epoch < receipts'[u].epoch
<1>1. /\ op.phase = "finalize" /\ op.version = v
      /\ UNCHANGED <<head, nextEpoch, idvars>>
  BY Zenon DEF Finalize, wvars
<1>2. TypeOK /\ ReceiptsInOrder /\ ReceiptsComplete /\ DbInv /\ v \in Staged
  BY <1>1, AcceptedIsLatest, Zenon DEF CommitInv, StrictInv, IdsStaged
<1>3. CASE UNCHANGED dbvars
  BY <1>1, <1>2, <1>3, OrderStutter, Zenon
<1>4. CASE FinalizeCommit(v, op.receipt)
  <2>1. pending' = {} /\ receipts' = [receipts EXCEPT ![v] = op.receipt]
    BY <1>1, <1>4, AcceptedIsLatest, Zenon DEF FinalizeCommit
  <2>2. receipts'[v] = op.receipt /\ \A w \in Version \ {v} : receipts'[w] = receipts[w]
    BY <1>2, <2>1, Zenon DEF TypeOK
  <2>3. op.receipt.epoch < nextEpoch
    BY <1>1, <1>2, AcceptedIsLatest, Zenon DEF DbInv, StagedInOrder
  <2>4. \A w \in Version : receipts'[w].epoch < nextEpoch'
    BY <1>1, <1>2, <2>2, <2>3, Zenon DEF ReceiptsInOrder
  <2>5. UNCHANGED Staged
    BY <1>1, Zenon DEF Staged, idvars
  <2>6. \A w \in Version : w \in pending' \/ w \notin Staged' => receipts'[w] = NoReceipt
    BY <1>2, <2>1, <2>2, <2>5, Zenon DEF ReceiptsInOrder
  <2>7. ReceiptsInOrder'
    BY <2>1, <2>4, <2>6, Zenon DEF ReceiptsInOrder
  <2>8. ReceiptsComplete'
    <3> SUFFICES ASSUME NEW e \in 1 .. nextEpoch - 1
                 PROVE  \E w \in Version : receipts'[w].epoch = e
      BY <1>1, Zenon DEF ReceiptsComplete
    <3>1. CASE \E w \in Version : receipts[w].epoch = e
      <4>1. PICK w \in Version : receipts[w].epoch = e
        BY <3>1, Zenon
      <4>2. w # v
        <5>1. receipts[v] = NoReceipt /\ NoReceipt.epoch = 0 /\ e # 0
          BY <1>1, AcceptedIsLatest DEF NoReceipt
        <5> QED  BY <4>1, <5>1, Zenon
      <4> QED  BY <2>2, <4>1, <4>2, Zenon
    <3>2. CASE \E u \in pending : head[owner[u]].epoch = e /\ e > expected[u]
      <4>1. pending = {v} /\ op.receipt = head[owner[v]]
        BY <1>1, AcceptedIsLatest, Zenon
      <4>2. head[owner[v]].epoch = e
        BY <3>2, <4>1, Zenon
      <4> QED  BY <2>2, <4>1, <4>2, Zenon
    <3> QED  BY <1>2, <3>1, <3>2, Zenon DEF ReceiptsComplete
  <2> QED
    BY <1>1, <2>2, <2>7, <2>8, AcceptedIsLatest, Zenon
<1> QED
  BY <1>3, <1>4, Zenon DEF Finalize

(* Every step of a strict deployment keeps the order, and only a commit     *)
(* changes the receipt table.                                               *)
LEMMA NextOrder ==
    ASSUME StrictDeployment, CommitInv, [Next]_vars
    PROVE  /\ ReceiptsInOrder' /\ ReceiptsComplete'
           /\ \A u \in Version : receipts'[u] # receipts[u] =>
                 /\ receipts[u] = NoReceipt
                 /\ \A w \in Version : receipts[w].epoch < receipts'[u].epoch
<1>1. TypeInv /\ TypeOK /\ ReceiptsInOrder /\ ReceiptsComplete
  BY Zenon DEF CommitInv, StrictInv, TypeInv
<1> SUFFICES ASSUME ~ \E v \in Version : Finalize(v)
             PROVE  ReceiptsInOrder' /\ ReceiptsComplete' /\ receipts' = receipts
  BY FinalizeOrder, Zenon
<1>2. ASSUME \/ Lock \/ UnlockWrongPassphrase \/ UnlockLocal \/ UnlockStrict \/ StartVerify
             \/ RecoverDone \/ CheckDone \/ Read \/ StorageError \/ WitnessTimeout
             \/ Crash \/ ChangeSigner
             \/ \E p \in Profiles : Start(p)
             \/ \E o \in Object : CheckObject(o)
             \/ \E kind \in RequestKind, o \in Object :
                   RefuseLocked(kind, o) \/ PutRolledBack(kind, o) \/ StartRead(kind, o)
      PROVE  ReceiptsInOrder' /\ ReceiptsComplete' /\ receipts' = receipts
  <2>1. UNCHANGED durable
    BY <1>1, <1>2, ProcessSteps, Zenon
  <2>2. UNCHANGED <<head, nextEpoch, dbvars, idvars>>
    BY <2>1, Zenon DEF durable
  <2> QED
    BY <1>1, <2>2, OrderStutter, Zenon
<1>3. CASE UNCHANGED vars
  BY <1>1, <1>3, OrderStutter, Zenon DEF vars, wvars
<1>4. ASSUME NEW v \in Version, RecoverNext(v)
      PROVE  ReceiptsInOrder' /\ ReceiptsComplete' /\ receipts' = receipts
  BY <1>1, <1>4, OrderStutter, Zenon DEF RecoverNext, wvars
<1>5. CASE Backup
  BY <1>1, <1>5, OrderStutter, Zenon DEF Backup, wvars
<1>6. ASSUME NEW v \in Version, AnswerIssue(v) \/ HandleUnanswered(v)
      PROVE  ReceiptsInOrder' /\ ReceiptsComplete' /\ receipts' = receipts
  BY <1>6, IssueOrder, Zenon DEF AnswerIssue, HandleUnanswered, Consume
<1>7. CASE ClientStep
  BY <1>1, <1>2, <1>7, PutOrder, StrictExcludes, Zenon DEF ClientStep
<1>8. CASE DaemonStep
  BY <1>2, <1>4, <1>6, <1>8, Zenon DEF DaemonStep
<1>9. CASE OperatorStep
  BY <1>1, <1>2, <1>5, <1>9, StrictExcludes, Zenon DEF OperatorStep
<1> QED
  BY <1>3, <1>6, <1>7, <1>8, <1>9, ZenonT(60) DEF Next

(***************************************************************************)
(* The strengthened invariant of a strict deployment: the receipts of the   *)
(* vault stay below what the witness hands out next (issue_wire,            *)
(* finalize_witness_publication).                                           *)
(***************************************************************************)
THEOREM CommitInvariant == ASSUME StrictDeployment PROVE Spec => []CommitInv
<1>1. Init => CommitInv
  <2> SUFFICES ASSUME Init
               PROVE  ReceiptsInOrder /\ ReceiptsComplete
    BY InitStrict, Zenon DEF CommitInv
  <2>1. nextEpoch = 1 /\ pending = {} /\ \A w \in Version : receipts[w] = NoReceipt
    BY Zenon DEF Init, WInit
  <2>2. NoReceipt.epoch < 1
    BY DEF NoReceipt
  <2>3. 1 .. 1 - 1 = {}
    OBVIOUS
  <2> QED
    BY <2>1, <2>2, <2>3, Zenon DEF ReceiptsInOrder, ReceiptsComplete
<1>2. CommitInv /\ [Next]_vars => CommitInv'
  BY NextStrict, NextOrder, Zenon DEF CommitInv
<1> QED
  BY <1>1, <1>2, PTL DEF Spec

(***************************************************************************)
(* A receipt the daemon has accepted can always be committed: no constraint *)
(* of the receipt table refuses it (insert_receipt).                        *)
(***************************************************************************)
THEOREM FinalizeAlwaysCommits == ASSUME StrictDeployment PROVE Spec => []FinalizeCommits
<1>1. CommitInv => FinalizeCommits
  <2> SUFFICES ASSUME CommitInv, op.phase = "finalize"
               PROVE  op.version \in pending /\ ReceiptInsertable(op.version, op.receipt)
    BY Zenon DEF FinalizeCommits
  <2>1. /\ pending = {op.version} /\ receipts[op.version] = NoReceipt
        /\ \A w \in Version : receipts[w].epoch < op.receipt.epoch
    BY AcceptedIsLatest, Zenon
  <2>2. \A w \in Version : receipts[w].epoch \in Nat
    BY ReceiptEpochs, Zenon DEF CommitInv, StrictInv
  <2>3. \A e \in Nat : ~ (e < e)
    OBVIOUS
  <2> QED
    BY <2>1, <2>2, <2>3, Zenon DEF ReceiptInsertable
<1> QED
  BY <1>1, CommitInvariant, PTL

(***************************************************************************)
(* No epoch the witness has handed out is missing from the vault, except    *)
(* that of the version it will ask for again: with CommitsInOrder, the      *)
(* receipt table is a beginning of the witness's history, at most one entry *)
(* short (recover_pending_witness_publications).                            *)
(***************************************************************************)
THEOREM ReceiptsStayComplete == ASSUME StrictDeployment PROVE Spec => []ReceiptsComplete
<1>1. CommitInv => ReceiptsComplete
  BY Zenon DEF CommitInv
<1> QED
  BY <1>1, CommitInvariant, PTL

(***************************************************************************)
(* Receipts are stored once and in the order of the witness's epochs        *)
(* (finalize_witness_publication).                                          *)
(***************************************************************************)
THEOREM CommitsStayInOrder == ASSUME StrictDeployment PROVE Spec => CommitsInOrder
<1>1. CommitInv /\ [Next]_vars =>
         [\A v \in Version : receipts'[v] # receipts[v] =>
             /\ receipts[v] = NoReceipt
             /\ \A w \in Version : receipts[w].epoch < receipts'[v].epoch]_vars
  BY NextOrder, Zenon
<1> QED
  BY <1>1, CommitInvariant, PTL DEF Spec, CommitsInOrder
=============================================================================
