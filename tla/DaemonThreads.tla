---------------------------- MODULE DaemonThreads ----------------------------
(***************************************************************************)
(* The threads of vlt1d (vlt1-daemon/src/lib.rs): the accept loop, one      *)
(* handler thread per admitted connection, the connection permits, the      *)
(* long-operation flag, the three mutexes and the shutdown flag.  What a    *)
(* handler does to the vault while it holds the mutex is one step here      *)
(* (WitnessedVault and StreamTransfer model it); a connection is used once. *)
(***************************************************************************)
EXTENDS Integers, FiniteSets

CONSTANTS
    Conn,            \* client connections
    NoConn,          \* no connection: a free mutex, an idle acceptor
    MaxConnections,  \* DaemonConfig::max_connections
    Strict,          \* DaemonConfig::witness is set
    AllowShutdown,   \* DaemonConfig::allow_shutdown
    Kinds            \* the requests clients send

RequestKind == {"status", "unlock", "lock", "put", "get", "put_stream", "get_stream",
                "rotate", "verify", "checkpoint", "backup", "shutdown"}

ASSUME ConnFinite == IsFiniteSet(Conn) /\ NoConn \notin Conn
ASSUME PermitsPositive == MaxConnections \in Nat \ {0}
ASSUME FlagsBoolean == Strict \in BOOLEAN /\ AllowShutdown \in BOOLEAN
ASSUME KindsKnown == Kinds \subseteq RequestKind

VARIABLES
    acceptor,  \* where the accept loop is, its connection and the count it read
    active,    \* active_connections
    pc,        \* where each connection's handler is
    kind,      \* the request each handler read
    longFlag,  \* long_operation_active
    permits,   \* the handlers that own a LongOperationPermit
    owner,     \* the handler that holds each mutex
    poisoned,  \* the mutexes whose holder panicked and was unwound
    shutdown,  \* the shutdown flag
    recovery,  \* verified_active_objects, as the number of the scan it came from
    scan,      \* the scan a verify handler has completed
    scans,     \* history: how many scans have completed
    early      \* history: handlers past the flag check when the flag was set

connvars == <<acceptor, active>>
longvars == <<longFlag, permits, early>>
mutexvars == <<owner, poisoned>>
scanvars == <<recovery, scan, scans>>
vars == <<connvars, pc, kind, longvars, mutexvars, shutdown, scanvars>>

Mutex == {"witness", "vault", "recovery"}
StreamKind == {"put_stream", "get_stream"}
LongKind == StreamKind \cup {"verify", "backup"}

(* Handlers that hold a connection permit, and those inside dispatch's body. *)
Waiting == {"witness", "vault"}
Inside == Waiting \cup {"status", "permit", "run", "recovery", "record"}
Handling == Inside \cup {"started", "dispatch", "ready", "unpermit", "respond", "exit"}
Place == Handling \cup {"absent", "backlog", "accepted", "rejected", "gone"}

Handlers == {c \in Conn : pc[c] \in Handling}
Alive == acceptor.at # "exited"
UsesWitness(c) == Strict /\ kind[c] \in {"unlock", "put", "get", "verify"}

(* Daemon::open, and the socket bound by serve. *)
Init ==
    /\ acceptor = [at |-> "accept", conn |-> NoConn, observed |-> 0]
    /\ active = 0
    /\ pc = [c \in Conn |-> "absent"]
    /\ kind = [c \in Conn |-> "none"]
    /\ longFlag = FALSE
    /\ permits = {}
    /\ owner = [m \in Mutex |-> NoConn]
    /\ poisoned = {}
    /\ shutdown = FALSE
    /\ recovery = 0
    /\ scan = [c \in Conn |-> 0]
    /\ scans = 0
    /\ early = {}

Goto(c, place) == pc' = [pc EXCEPT ![c] = place]

-----------------------------------------------------------------------------
(* Clients and the accept loop *)

Connect(c) ==
    /\ Alive /\ pc[c] = "absent"
    /\ Goto(c, "backlog")
    /\ UNCHANGED <<connvars, kind, longvars, mutexvars, shutdown, scanvars>>

Accept(c) ==
    /\ acceptor.at = "accept" /\ ~ shutdown
    /\ pc[c] = "backlog"
    /\ Goto(c, "accepted")
    /\ acceptor' = [acceptor EXCEPT !.at = "load", !.conn = c]
    /\ UNCHANGED <<active, kind, longvars, mutexvars, shutdown, scanvars>>

(* A bug: one connection more than the limit is admitted. *)
MutantLoadActive ==
    /\ acceptor.at = "load"
    /\ IF active > MaxConnections
       THEN /\ Goto(acceptor.conn, "rejected")
            /\ acceptor' = [acceptor EXCEPT !.at = "accept", !.conn = NoConn]
       ELSE /\ acceptor' = [acceptor EXCEPT !.at = "exchange", !.observed = active]
            /\ UNCHANGED pc
    /\ UNCHANGED <<active, kind, longvars, mutexvars, shutdown, scanvars>>

(* try_acquire_connection reads the count; at the limit reject_overloaded answers. *)
LoadActive ==
    /\ acceptor.at = "load"
    /\ IF active >= MaxConnections
       THEN /\ Goto(acceptor.conn, "rejected")
            /\ acceptor' = [acceptor EXCEPT !.at = "accept", !.conn = NoConn]
       ELSE /\ acceptor' = [acceptor EXCEPT !.at = "exchange", !.observed = active]
            /\ UNCHANGED pc
    /\ UNCHANGED <<active, kind, longvars, mutexvars, shutdown, scanvars>>

Spawn(count) ==
    /\ active' = count
    /\ Goto(acceptor.conn, "started")
    /\ acceptor' = [at |-> "accept", conn |-> NoConn, observed |-> 0]
    /\ UNCHANGED <<kind, longvars, mutexvars, shutdown, scanvars>>

(* A bug: the count is stored, whatever it has become since it was read. *)
MutantExchange == acceptor.at = "exchange" /\ Spawn(acceptor.observed + 1)

Exchange ==
    /\ acceptor.at = "exchange"
    /\ active = acceptor.observed
    /\ Spawn(acceptor.observed + 1)

(* The count has changed, or the weak exchange fails for no reason. *)
ExchangeFails ==
    /\ acceptor.at = "exchange"
    /\ acceptor' = [acceptor EXCEPT !.at = "load", !.observed = 0]
    /\ UNCHANGED <<active, pc, kind, longvars, mutexvars, shutdown, scanvars>>

(* The process ends, and with it its threads. *)
EndProcess ==
    /\ acceptor' = [acceptor EXCEPT !.at = "exited"]
    /\ UNCHANGED <<active, pc, kind, longvars, mutexvars, shutdown, scanvars>>

(* serve removes the socket and returns. *)
Exit == acceptor.at = "accept" /\ shutdown /\ EndProcess

(* accept fails, and serve returns the error. *)
AcceptFails == acceptor.at = "accept" /\ EndProcess

-----------------------------------------------------------------------------
(* Handler threads *)

(* serve_stream: a request, or an unauthorized peer, a bad frame or a timeout. *)
ReadRequest(c) ==
    /\ Alive /\ pc[c] = "started"
    /\ \/ \E k \in Kinds :
             /\ kind' = [kind EXCEPT ![c] = k]
             /\ Goto(c, IF k \in StreamKind THEN "permit" ELSE "dispatch")
       \/ Goto(c, "respond") /\ UNCHANGED kind
    /\ UNCHANGED <<connvars, longvars, mutexvars, shutdown, scanvars>>

FirstMutex(c) == IF UsesWitness(c) THEN "witness" ELSE "vault"

(* Where a request goes from dispatch; a put or a get may be malformed. *)
Routes(c) ==
    CASE kind[c] = "status" -> {"status"}
      [] kind[c] \in LongKind -> {"permit"}
      [] kind[c] = "shutdown" -> {"respond"}
      [] kind[c] \in {"put", "get"} -> {FirstMutex(c), "respond"}
      [] OTHER -> {FirstMutex(c)}

(* A bug: the flag is not read. *)
MutantDispatch(c) ==
    /\ Alive /\ pc[c] = "dispatch"
    /\ \E place \in Routes(c) : Goto(c, place)
    /\ shutdown' = (shutdown \/ (kind[c] = "shutdown" /\ AllowShutdown))
    /\ UNCHANGED <<connvars, kind, longvars, mutexvars, scanvars>>

Dispatch(c) ==
    /\ Alive /\ pc[c] = "dispatch"
    /\ \E place \in (IF longFlag /\ kind[c] # "shutdown" THEN {"respond"} ELSE Routes(c)) :
          Goto(c, place)
    /\ shutdown' = (shutdown \/ (kind[c] = "shutdown" /\ AllowShutdown))
    /\ UNCHANGED <<connvars, kind, longvars, mutexvars, scanvars>>

(* status reads the flag again before it locks the vault. *)
StatusCheck(c) ==
    /\ Alive /\ pc[c] = "status"
    /\ Goto(c, IF longFlag THEN "respond" ELSE "vault")
    /\ UNCHANGED <<connvars, kind, longvars, mutexvars, shutdown, scanvars>>

AcquireLong(c) ==
    /\ longFlag' = TRUE
    /\ permits' = permits \cup {c}
    /\ early' = {d \in Conn \ {c} : pc[d] \in Inside}
    /\ Goto(c, IF kind[c] \in StreamKind THEN "ready" ELSE FirstMutex(c))
    /\ UNCHANGED <<connvars, kind, mutexvars, shutdown, scanvars>>

(* A bug: the flag is set without comparing it. *)
MutantTryAcquireLong(c) == Alive /\ pc[c] = "permit" /\ AcquireLong(c)

TryAcquireLong(c) ==
    /\ Alive /\ pc[c] = "permit"
    /\ IF longFlag
       THEN /\ Goto(c, "respond")
            /\ UNCHANGED <<connvars, kind, longvars, mutexvars, shutdown, scanvars>>
       ELSE AcquireLong(c)

(* StreamReady, a malformed object id, or a write that fails. *)
AnswerReady(c) ==
    /\ Alive /\ pc[c] = "ready"
    /\ \E place \in {"vault", "respond", "unpermit"} : Goto(c, place)
    /\ UNCHANGED <<connvars, kind, longvars, mutexvars, shutdown, scanvars>>

(* Where a handler that is done with its mutexes goes. *)
Done(c) == IF kind[c] \in LongKind \ StreamKind THEN "unpermit" ELSE "respond"

(* Waiting for a mutex ends with the guard, or with an error once it is poisoned. *)
LockMutex(c, m, next) ==
    /\ owner[m] = NoConn
    /\ IF m \in poisoned
       THEN /\ owner' = [n \in Mutex |-> IF owner[n] = c THEN NoConn ELSE owner[n]]
            /\ Goto(c, Done(c))
       ELSE /\ owner' = [owner EXCEPT ![m] = c]
            /\ Goto(c, next)
    /\ UNCHANGED <<connvars, kind, longvars, poisoned, shutdown, scanvars>>

LockWitness(c) == Alive /\ pc[c] = "witness" /\ LockMutex(c, "witness", "vault")
LockVault(c) == Alive /\ pc[c] = "vault" /\ LockMutex(c, "vault", "run")
LockRecovery(c) == Alive /\ pc[c] = "recovery" /\ LockMutex(c, "recovery", "record")

(* A bug: the guards are leaked. *)
MutantRelease(c) == UNCHANGED owner

Release(c) == owner' = [m \in Mutex |-> IF owner[m] = c THEN NoConn ELSE owner[m]]

(* A bug: status keeps the vault while it waits for the recovery state. *)
MutantRunVault(c) ==
    /\ Alive /\ pc[c] = "run"
    /\ IF kind[c] = "status"
       THEN Goto(c, "recovery") /\ UNCHANGED owner
       ELSE Goto(c, Done(c)) /\ Release(c)
    /\ UNCHANGED <<connvars, kind, longvars, poisoned, shutdown, scanvars>>

(* The vault operation returns and the guards are dropped. *)
RunVault(c) ==
    /\ Alive /\ pc[c] = "run"
    /\ Release(c)
    /\ \/ /\ kind[c] = "verify"
          /\ scans' = scans + 1
          /\ scan' = [scan EXCEPT ![c] = scans']
          /\ Goto(c, "recovery")
       \/ /\ Goto(c, IF kind[c] = "status" THEN "recovery" ELSE Done(c))
          /\ UNCHANGED <<scan, scans>>
    /\ UNCHANGED <<connvars, kind, longvars, poisoned, shutdown, recovery>>

(***************************************************************************)
(* A panic inside the vault operation.  A build of the dev or test profile  *)
(* unwinds the thread through its guards; the release profile sets          *)
(* panic = "abort" (Cargo.toml:41) and the process ends where it stands.    *)
(***************************************************************************)
Panic(c) ==
    /\ Alive /\ pc[c] = "run"
    /\ Release(c)
    /\ poisoned' = poisoned \cup {m \in Mutex : owner[m] = c}
    /\ kind' = [kind EXCEPT ![c] = "none"]
    /\ Goto(c, IF c \in permits THEN "unpermit" ELSE "exit")
    /\ UNCHANGED <<connvars, longvars, shutdown, scanvars>>

PanicAborts(c) == Alive /\ pc[c] = "run" /\ EndProcess

(* status reads the recovery state, verify stores the scan it completed. *)
Record(c) ==
    /\ Alive /\ pc[c] = "record"
    /\ recovery' = IF kind[c] = "verify" THEN scan[c] ELSE recovery
    /\ Release(c)
    /\ Goto(c, Done(c))
    /\ UNCHANGED <<connvars, kind, longvars, poisoned, shutdown, scan, scans>>

(* The answer is written, or its write fails; a stream still owns its permit. *)
Respond(c) ==
    /\ Alive /\ pc[c] = "respond"
    /\ Goto(c, IF c \in permits THEN "unpermit" ELSE "exit")
    /\ UNCHANGED <<connvars, kind, longvars, mutexvars, shutdown, scanvars>>

(* Drop for LongOperationPermit. *)
DropLong(c) ==
    /\ Alive /\ pc[c] = "unpermit"
    /\ longFlag' = FALSE
    /\ permits' = permits \ {c}
    /\ Goto(c, IF kind[c] \in LongKind \ StreamKind THEN "respond" ELSE "exit")
    /\ early' = {}
    /\ UNCHANGED <<connvars, kind, mutexvars, shutdown, scanvars>>

(* Drop for ConnectionPermit, and the thread ends. *)
DropConnection(c) ==
    /\ Alive /\ pc[c] = "exit"
    /\ active' = active - 1
    /\ Goto(c, "gone")
    /\ kind' = [kind EXCEPT ![c] = "none"] /\ scan' = [scan EXCEPT ![c] = 0]
    /\ UNCHANGED <<acceptor, longvars, mutexvars, shutdown, recovery, scans>>

Acceptor ==
    \/ LoadActive \/ Exchange \/ ExchangeFails \/ Exit
    \/ \E c \in Conn : Accept(c)

Handler(c) ==
    \/ ReadRequest(c) \/ Dispatch(c) \/ StatusCheck(c) \/ TryAcquireLong(c)
    \/ AnswerReady(c) \/ LockWitness(c) \/ LockVault(c) \/ RunVault(c) \/ Panic(c)
    \/ PanicAborts(c) \/ LockRecovery(c) \/ Record(c) \/ Respond(c) \/ DropLong(c)
    \/ DropConnection(c)

Next == Acceptor \/ AcceptFails \/ \E c \in Conn : Connect(c) \/ Handler(c)

Spec == Init /\ [][Next]_vars

(***************************************************************************)
(* Every thread runs on.  A read or a write of a socket ends by io_timeout, *)
(* a witness call by its own timeout, a stream by its chunk limit, so every *)
(* step of a handler ends.  The weak exchange does not fail forever.        *)
(***************************************************************************)
Fairness ==
    /\ WF_vars(Acceptor) /\ SF_vars(Exchange)
    /\ \A c \in Conn : WF_vars(Handler(c))

FairSpec == Spec /\ Fairness

-----------------------------------------------------------------------------
(* Properties *)

(* Type invariant; the permit count neither wraps below zero nor exceeds its limit. *)
DTypeOK ==
    /\ acceptor \in [at : {"accept", "load", "exchange", "exited"},
                     conn : Conn \cup {NoConn}, observed : 0 .. MaxConnections]
    /\ active \in 0 .. MaxConnections
    /\ pc \in [Conn -> Place]
    /\ kind \in [Conn -> Kinds \cup {"none"}]
    /\ longFlag \in BOOLEAN
    /\ permits \in SUBSET Conn
    /\ owner \in [Mutex -> Conn \cup {NoConn}]
    /\ poisoned \in SUBSET Mutex
    /\ shutdown \in BOOLEAN
    /\ recovery \in Nat /\ scans \in Nat
    /\ scan \in [Conn -> Nat]
    /\ early \in SUBSET Conn

(***************************************************************************)
(* The count of connections is exactly the number of handlers that will     *)
(* still return a permit, although they return them while the acceptor is   *)
(* between its load and its exchange, and although handlers are unwound     *)
(* (try_acquire_connection, Drop for ConnectionPermit).                     *)
(***************************************************************************)
PermitsExact == active = Cardinality(Handlers)

(***************************************************************************)
(* At most one long operation owns a permit, and the flag is up exactly     *)
(* while one does (try_acquire_long_operation, Drop for                     *)
(* LongOperationPermit).                                                    *)
(***************************************************************************)
LongExclusive ==
    /\ longFlag <=> permits # {}
    /\ \A c, d \in permits : c = d

(***************************************************************************)
(* Mutexes are taken in one order: who holds the vault or the recovery      *)
(* state waits for nothing, and who holds the witness waits for the vault   *)
(* only (with_witness, status, verify).                                     *)
(***************************************************************************)
LockOrder ==
    \A c \in Conn :
       /\ owner["vault"] = c => pc[c] = "run"
       /\ owner["recovery"] = c => pc[c] = "record"
       /\ owner["witness"] = c => pc[c] \in {"vault", "run"} /\ UsesWitness(c)

(***************************************************************************)
(* While a long operation is in progress no request that came later waits   *)
(* for its mutexes: releases/v0.2.0.md says that "later requests receive a  *)
(* safe Overloaded response instead of waiting indefinitely on the vault    *)
(* mutex".  A request that had passed the check of dispatch before the flag *)
(* went up may wait (dispatch, status).                                     *)
(***************************************************************************)
NoLateWait ==
    permits # {} =>
        \A c \in Conn \ permits : pc[c] \in Waiting \cup {"run"} => c \in early

(***************************************************************************)
(* The number of verified objects that status reports never goes back to    *)
(* that of an earlier scan: verify keeps its permit until it has stored its *)
(* result (Daemon::verify).                                                 *)
(***************************************************************************)
RecoveryMonotone == [][recovery' >= recovery]_vars

(***************************************************************************)
(* Every connection that reaches the socket ends: it is rejected, or its    *)
(* handler returns everything it took, or the process exits; no handler     *)
(* waits for a mutex forever (serve_stream).                                *)
(***************************************************************************)
EveryConnectionEnds ==
    \A c \in Conn :
       pc[c] = "backlog" ~> (pc[c] \in {"rejected", "gone"} \/ ~ Alive)

-----------------------------------------------------------------------------
MayHoldLong == Waiting \cup {"ready", "run", "recovery", "record", "unpermit"}

(* What a handler's place says about its permit, its scan and its connection. *)
Places ==
    /\ acceptor.at \in {"load", "exchange"} =>
          acceptor.conn \in Conn /\ pc[acceptor.conn] = "accepted"
    /\ acceptor.at = "exchange" => acceptor.observed < MaxConnections
    /\ \A c \in permits : pc[c] \in MayHoldLong \cup {"respond"}
    /\ \A c \in Conn :
          /\ pc[c] = "status" => kind[c] = "status"
          /\ pc[c] = "witness" => UsesWitness(c)
          /\ pc[c] \in {"ready", "unpermit"} => c \in permits
          /\ kind[c] \in LongKind /\ pc[c] \in MayHoldLong => c \in permits
          /\ pc[c] \in {"recovery", "record"} => kind[c] \in {"status", "verify"}
          /\ scan[c] <= scans
          /\ kind[c] = "verify" /\ pc[c] \in {"recovery", "record"} => scan[c] = scans
    /\ recovery <= scans

(***************************************************************************)
(* The inductive invariant behind PermitsExact, LongExclusive, LockOrder,   *)
(* NoLateWait and RecoveryMonotone.                                         *)
(***************************************************************************)
ThreadInv ==
    DTypeOK /\ PermitsExact /\ LongExclusive /\ LockOrder /\ NoLateWait /\ Places
=============================================================================
