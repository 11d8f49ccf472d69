------------------------- MODULE DaemonThreadsProofs -------------------------
(***************************************************************************)
(* The permits, the long-operation flag and the lock order of vlt1d, for    *)
(* any number of connections and permits.                                   *)
(***************************************************************************)
EXTENDS DaemonThreads, FiniteSetTheorems, TLAPS

(* A handler that moves on keeps the number of handlers. *)
LEMMA SameHandlers ==
    ASSUME pc \in [Conn -> Place], NEW c \in Conn, NEW place,
           Goto(c, place), pc[c] \in Handling <=> place \in Handling
    PROVE  Handlers' = Handlers
BY DEF Goto, Handlers

(* A connection that is given a handler adds one. *)
LEMMA OneHandlerMore ==
    ASSUME pc \in [Conn -> Place], NEW c \in Conn, pc[c] \notin Handling, Goto(c, "started")
    PROVE  Cardinality(Handlers') = Cardinality(Handlers) + 1
<1>1. Handlers' = Handlers \cup {c} /\ c \notin Handlers
  BY DEF Goto, Handlers, Handling
<1>2. IsFiniteSet(Handlers)
  BY ConnFinite, FS_Subset DEF Handlers
<1> QED  BY <1>1, <1>2, FS_AddElement, Zenon

(* A handler that ends is one fewer; there was one. *)
LEMMA OneHandlerFewer ==
    ASSUME pc \in [Conn -> Place], NEW c \in Conn, pc[c] \in Handling, Goto(c, "gone")
    PROVE  /\ Cardinality(Handlers') = Cardinality(Handlers) - 1
           /\ Cardinality(Handlers) > 0
<1>1. Handlers' = Handlers \ {c} /\ c \in Handlers
  BY DEF Goto, Handlers, Handling, Inside, Waiting
<1>2. IsFiniteSet(Handlers)
  BY ConnFinite, FS_Subset DEF Handlers
<1>3. Cardinality(Handlers) \in Nat /\ Handlers # {}
  BY <1>1, <1>2, FS_CardinalityType
<1>4. Cardinality(Handlers) # 0
  BY <1>2, <1>3, FS_EmptySet
<1>5. Cardinality(Handlers \ {c}) = Cardinality(Handlers) - 1
  BY <1>1, <1>2, FS_RemoveElement, Zenon
<1> QED  BY <1>1, <1>3, <1>4, <1>5

(* Init *)
LEMMA InitInv == Init => ThreadInv
<1> SUFFICES ASSUME Init PROVE ThreadInv
  OBVIOUS
<1>1. Handlers = {}
  BY DEF Init, Handlers, Handling, Inside, Waiting
<1>2. PermitsExact
  BY <1>1, FS_EmptySet DEF Init, PermitsExact
<1>3. DTypeOK
  <2>1. acceptor \in [at : {"accept", "load", "exchange", "exited"},
                      conn : Conn \cup {NoConn}, observed : 0 .. MaxConnections]
    BY PermitsPositive DEF Init
  <2>2. longFlag \in BOOLEAN /\ shutdown \in BOOLEAN
    BY Zenon DEF Init
  <2>3. pc \in [Conn -> Place] /\ kind \in [Conn -> Kinds \cup {"none"}]
    BY DEF Init, Place
  <2>4. owner \in [Mutex -> Conn \cup {NoConn}] /\ scan \in [Conn -> Nat]
    BY DEF Init
  <2>5. active \in 0 .. MaxConnections /\ recovery \in Nat /\ scans \in Nat
    BY PermitsPositive DEF Init
  <2>6. permits \in SUBSET Conn /\ poisoned \in SUBSET Mutex /\ early \in SUBSET Conn
    BY DEF Init
  <2> QED  BY <2>1, <2>2, <2>3, <2>4, <2>5, <2>6, ZenonT(60) DEF DTypeOK
<1>4. LongExclusive /\ LockOrder /\ NoLateWait
  BY ConnFinite DEF Init, LongExclusive, LockOrder, NoLateWait, Mutex
<1> QED
  BY <1>2, <1>3, <1>4 DEF Init, ThreadInv, Places, MayHoldLong, Waiting

(* Connect keeps the invariant. *)
LEMMA ConnectInv ==
    ASSUME ThreadInv, NEW c \in Conn, Connect(c)
    PROVE  ThreadInv'
<1> USE DEF Goto, connvars, longvars, mutexvars, scanvars, Place, Handling, Inside, Waiting
<1>1. DTypeOK'
  BY PermitsPositive, KindsKnown DEF ThreadInv, DTypeOK, Connect
<1>2. PermitsExact'
  BY SameHandlers, Zenon DEF ThreadInv, DTypeOK, PermitsExact, Connect
<1>3. LongExclusive' /\ LockOrder'
  BY ConnFinite
    DEF ThreadInv, DTypeOK, LongExclusive, LockOrder, Places, UsesWitness, MayHoldLong, Mutex,
        Connect
<1>4. NoLateWait'
  BY DEF ThreadInv, DTypeOK, LongExclusive, NoLateWait, Places, MayHoldLong, Connect
<1>5. Places'
  BY DEF ThreadInv, DTypeOK, LongExclusive, LockOrder, Places, UsesWitness, MayHoldLong, Connect
<1> QED  BY <1>1, <1>2, <1>3, <1>4, <1>5, ZenonT(60) DEF ThreadInv

(* Accept keeps the invariant. *)
LEMMA AcceptInv ==
    ASSUME ThreadInv, NEW c \in Conn, Accept(c)
    PROVE  ThreadInv'
<1> USE DEF Goto, connvars, longvars, mutexvars, scanvars, Place, Handling, Inside, Waiting
<1>1. DTypeOK'
  BY PermitsPositive, KindsKnown, Zenon DEF ThreadInv, DTypeOK, Accept
<1>2. PermitsExact'
  BY SameHandlers, Zenon DEF ThreadInv, DTypeOK, PermitsExact, Accept
<1>3. LongExclusive' /\ LockOrder'
  BY ConnFinite
    DEF ThreadInv, DTypeOK, LongExclusive, LockOrder, Places, UsesWitness, MayHoldLong, Mutex,
        Accept
<1>4. NoLateWait'
  BY DEF ThreadInv, DTypeOK, LongExclusive, NoLateWait, Places, MayHoldLong, Accept
<1>5. Places'
  BY DEF ThreadInv, DTypeOK, LongExclusive, LockOrder, Places, UsesWitness, MayHoldLong, Accept
<1> QED  BY <1>1, <1>2, <1>3, <1>4, <1>5 DEF ThreadInv

(* LoadActive keeps the invariant. *)
LEMMA LoadActiveInv ==
    ASSUME ThreadInv, LoadActive
    PROVE  ThreadInv'
<1> USE DEF Goto, connvars, longvars, mutexvars, scanvars, Place, Handling, Inside, Waiting
<1>0. /\ acceptor.conn \in Conn /\ pc[acceptor.conn] = "accepted" /\ pc \in [Conn -> Place]
      /\ acceptor.at = "exchange" => acceptor.observed < MaxConnections
  BY DEF ThreadInv, DTypeOK, Places, LoadActive
<1>1. DTypeOK'
  <2>1. CASE active >= MaxConnections
    BY <1>0, <2>1, ZenonT(60) DEF ThreadInv, DTypeOK, LoadActive
  <2>2. CASE ~ (active >= MaxConnections)
    <3>1. acceptor' \in [at : {"accept", "load", "exchange", "exited"},
                          conn : Conn \cup {NoConn}, observed : 0 .. MaxConnections]
      BY <2>2, ZenonT(60) DEF ThreadInv, DTypeOK, LoadActive
    <3> QED  BY <2>2, <3>1 DEF ThreadInv, DTypeOK, LoadActive
  <2> QED  BY <2>1, <2>2
<1>2. PermitsExact'
  <2>1. Handlers' = Handlers
    BY <1>0 DEF LoadActive, Handlers
  <2> QED  BY <2>1 DEF ThreadInv, PermitsExact, LoadActive
<1>3. LongExclusive' /\ LockOrder'
  BY ConnFinite
    DEF ThreadInv, DTypeOK, LongExclusive, LockOrder, Places, UsesWitness, MayHoldLong, Mutex,
        LoadActive
<1>4. NoLateWait'
  BY DEF ThreadInv, DTypeOK, LongExclusive, NoLateWait, Places, MayHoldLong, LoadActive
<1>5. Places'
  <2>1. CASE active >= MaxConnections
    <3>1. acceptor'.at = "accept"
      BY <2>1, Zenon DEF ThreadInv, DTypeOK, LoadActive
    <3> QED  BY <1>0, <2>1, <3>1
        DEF ThreadInv, DTypeOK, Places, UsesWitness, MayHoldLong, LoadActive
  <2>2. CASE ~ (active >= MaxConnections)
    <3>1. acceptor'.at = "exchange" /\ acceptor'.conn = acceptor.conn /\ acceptor'.observed = active
      BY <2>2, ZenonT(60) DEF ThreadInv, DTypeOK, LoadActive
    <3>2. active < MaxConnections
      BY <2>2, PermitsPositive DEF ThreadInv, DTypeOK
    <3> QED  BY <1>0, <2>2, <3>1, <3>2 DEF ThreadInv, Places, UsesWitness, LoadActive
  <2> QED  BY <2>1, <2>2
<1> QED  BY <1>1, <1>2, <1>3, <1>4, <1>5, Zenon DEF ThreadInv

(* Exchange keeps the invariant. *)
LEMMA ExchangeInv ==
    ASSUME ThreadInv, Exchange
    PROVE  ThreadInv'
<1> USE DEF Goto, connvars, longvars, mutexvars, scanvars, Place, Handling, Inside, Waiting
<1>0. /\ acceptor.conn \in Conn /\ pc[acceptor.conn] = "accepted" /\ pc \in [Conn -> Place]
      /\ acceptor.at = "exchange" => acceptor.observed < MaxConnections
  BY DEF ThreadInv, DTypeOK, Places, Exchange
<1>1. DTypeOK'
  <2>1. acceptor' \in [at : {"accept", "load", "exchange", "exited"},
                        conn : Conn \cup {NoConn}, observed : 0 .. MaxConnections]
    <3>1. 0 \in 0 .. MaxConnections
      BY PermitsPositive
    <3> QED  BY <3>1 DEF Exchange, Spawn
  <2>2. active' \in 0 .. MaxConnections
    BY <1>0, PermitsPositive DEF ThreadInv, DTypeOK, Exchange, Spawn
  <2>3. pc' \in [Conn -> Place]
    BY <1>0 DEF Exchange, Spawn
  <2> QED  BY <2>1, <2>2, <2>3 DEF ThreadInv, DTypeOK, Exchange, Spawn
<1>2. PermitsExact'
  <2>1. pc[acceptor.conn] \notin Handling /\ Goto(acceptor.conn, "started")
    BY <1>0 DEF Exchange, Spawn
  <2>2. Cardinality(Handlers') = Cardinality(Handlers) + 1
    BY <1>0, <2>1, OneHandlerMore, ZenonT(60)
  <2> QED  BY <2>2, Zenon DEF ThreadInv, PermitsExact, Exchange, Spawn
<1>3. LongExclusive' /\ LockOrder'
  BY ConnFinite, SMTT(30)
    DEF ThreadInv, DTypeOK, LongExclusive, LockOrder, Places, UsesWitness, MayHoldLong, Mutex,
        Exchange, Spawn
<1>4. NoLateWait'
  BY DEF ThreadInv, DTypeOK, LongExclusive, NoLateWait, Places, MayHoldLong, Exchange, Spawn
<1>5. Places'
  BY DEF ThreadInv, DTypeOK, LongExclusive, LockOrder, Places, UsesWitness, MayHoldLong,
         Exchange, Spawn
<1> QED  BY <1>1, <1>2, <1>3, <1>4, <1>5 DEF ThreadInv

(* ExchangeFails keeps the invariant. *)
LEMMA ExchangeFailsInv ==
    ASSUME ThreadInv, ExchangeFails
    PROVE  ThreadInv'
<1> USE DEF Goto, connvars, longvars, mutexvars, scanvars, Place, Handling, Inside, Waiting
<1>1. DTypeOK'
  <2>1. 0 \in 0 .. MaxConnections
    BY PermitsPositive
  <2>2. acceptor' \in [at : {"accept", "load", "exchange", "exited"},
                       conn : Conn \cup {NoConn}, observed : 0 .. MaxConnections]
    BY <2>1, Zenon DEF ThreadInv, DTypeOK, ExchangeFails
  <2> QED  BY <2>2 DEF ThreadInv, DTypeOK, ExchangeFails
<1>2. PermitsExact'
  BY DEF ThreadInv, PermitsExact, Handlers, ExchangeFails
<1>3. LongExclusive' /\ LockOrder'
  BY ConnFinite
    DEF ThreadInv, DTypeOK, LongExclusive, LockOrder, Places, UsesWitness, MayHoldLong, Mutex,
        ExchangeFails
<1>4. NoLateWait'
  BY DEF ThreadInv, DTypeOK, LongExclusive, NoLateWait, Places, MayHoldLong, ExchangeFails
<1>5. Places'
  BY ZenonT(60) DEF ThreadInv, DTypeOK, LongExclusive, LockOrder, Places, UsesWitness, MayHoldLong,
         ExchangeFails
<1> QED  BY <1>1, <1>2, <1>3, <1>4, <1>5 DEF ThreadInv

(* EndProcess keeps the invariant. *)
LEMMA EndProcessInv ==
    ASSUME ThreadInv, EndProcess
    PROVE  ThreadInv'
<1> USE DEF Goto, connvars, longvars, mutexvars, scanvars, Place, Handling, Inside, Waiting
<1>1. DTypeOK'
  BY PermitsPositive, KindsKnown DEF ThreadInv, DTypeOK, EndProcess
<1>2. PermitsExact'
  BY DEF ThreadInv, PermitsExact, Handlers, EndProcess
<1>3. LongExclusive' /\ LockOrder'
  BY ConnFinite
    DEF ThreadInv, DTypeOK, LongExclusive, LockOrder, Places, UsesWitness, MayHoldLong, Mutex,
        EndProcess
<1>4. NoLateWait'
  BY DEF ThreadInv, DTypeOK, LongExclusive, NoLateWait, Places, MayHoldLong, EndProcess
<1>5. Places'
  BY ZenonT(60) DEF ThreadInv, DTypeOK, LongExclusive, LockOrder, Places, UsesWitness, MayHoldLong,
         EndProcess
<1> QED  BY <1>1, <1>2, <1>3, <1>4, <1>5 DEF ThreadInv

(* ReadRequest keeps the invariant. *)
LEMMA ReadRequestInv ==
    ASSUME ThreadInv, NEW c \in Conn, ReadRequest(c)
    PROVE  ThreadInv'
<1> USE DEF Goto, connvars, longvars, mutexvars, scanvars, Place, Handling, Inside, Waiting
<1>1. DTypeOK'
  BY PermitsPositive, KindsKnown DEF ThreadInv, DTypeOK, ReadRequest, StreamKind
<1>2. PermitsExact'
  BY SameHandlers, ZenonT(60) DEF ThreadInv, DTypeOK, PermitsExact, ReadRequest, StreamKind
<1>3. LongExclusive' /\ LockOrder'
  BY ConnFinite
    DEF ThreadInv, DTypeOK, LongExclusive, LockOrder, Places, UsesWitness, MayHoldLong, Mutex,
        ReadRequest, StreamKind
<1>4. NoLateWait'
  BY DEF ThreadInv, DTypeOK, LongExclusive, NoLateWait, Places, MayHoldLong, ReadRequest,
         StreamKind
<1>5. Places'
  BY DEF ThreadInv, DTypeOK, LongExclusive, LockOrder, Places, UsesWitness, MayHoldLong,
         ReadRequest, StreamKind
<1> QED  BY <1>1, <1>2, <1>3, <1>4, <1>5 DEF ThreadInv

(* Dispatch keeps the invariant. *)
LEMMA DispatchInv ==
    ASSUME ThreadInv, NEW c \in Conn, Dispatch(c)
    PROVE  ThreadInv'
<1> USE DEF Goto, connvars, longvars, mutexvars, scanvars, Place, Handling, Inside, Waiting
<1>1. DTypeOK'
  BY PermitsPositive, KindsKnown
    DEF ThreadInv, DTypeOK, Dispatch, Routes, FirstMutex, LongKind, StreamKind
<1>2. PermitsExact'
  BY SameHandlers, ZenonT(60)
    DEF ThreadInv, DTypeOK, PermitsExact, Dispatch, Routes, FirstMutex, LongKind, StreamKind
<1>3. LongExclusive' /\ LockOrder'
  BY ConnFinite
    DEF ThreadInv, DTypeOK, LongExclusive, LockOrder, Places, UsesWitness, MayHoldLong, Mutex,
        Dispatch, Routes, FirstMutex, LongKind, StreamKind
<1>4. NoLateWait'
  BY DEF ThreadInv, DTypeOK, LongExclusive, NoLateWait, Places, MayHoldLong, Dispatch, Routes,
         FirstMutex, LongKind, StreamKind
<1>5. Places'
  BY DEF ThreadInv, DTypeOK, LongExclusive, LockOrder, Places, UsesWitness, MayHoldLong,
         Dispatch, Routes, FirstMutex, LongKind, StreamKind
<1> QED  BY <1>1, <1>2, <1>3, <1>4, <1>5 DEF ThreadInv

(* StatusCheck keeps the invariant. *)
LEMMA StatusCheckInv ==
    ASSUME ThreadInv, NEW c \in Conn, StatusCheck(c)
    PROVE  ThreadInv'
<1> USE DEF Goto, connvars, longvars, mutexvars, scanvars, Place, Handling, Inside, Waiting
<1>1. DTypeOK'
  BY PermitsPositive, KindsKnown DEF ThreadInv, DTypeOK, StatusCheck
<1>2. PermitsExact'
  BY SameHandlers, Zenon DEF ThreadInv, DTypeOK, PermitsExact, StatusCheck
<1>3. LongExclusive' /\ LockOrder'
  BY ConnFinite
    DEF ThreadInv, DTypeOK, LongExclusive, LockOrder, Places, UsesWitness, MayHoldLong, Mutex,
        StatusCheck
<1>4. NoLateWait'
  BY DEF ThreadInv, DTypeOK, LongExclusive, NoLateWait, Places, MayHoldLong, StatusCheck
<1>5. Places'
  BY DEF ThreadInv, DTypeOK, LongExclusive, LockOrder, Places, LongKind, StreamKind,
         UsesWitness, MayHoldLong, StatusCheck
<1> QED  BY <1>1, <1>2, <1>3, <1>4, <1>5 DEF ThreadInv

(* TryAcquireLong keeps the invariant. *)
LEMMA TryAcquireLongInv ==
    ASSUME ThreadInv, NEW c \in Conn, TryAcquireLong(c)
    PROVE  ThreadInv'
<1> USE DEF Goto, connvars, longvars, mutexvars, scanvars, Place, Handling, Inside, Waiting
<1>1. DTypeOK'
  BY PermitsPositive, KindsKnown, ZenonT(60)
    DEF ThreadInv, DTypeOK, TryAcquireLong, AcquireLong, FirstMutex, LongKind, StreamKind
<1>2. PermitsExact'
  BY SameHandlers
    DEF ThreadInv, DTypeOK, PermitsExact, TryAcquireLong, AcquireLong, FirstMutex, LongKind,
        StreamKind
<1>3. LongExclusive' /\ LockOrder'
  BY ConnFinite
    DEF ThreadInv, DTypeOK, LongExclusive, LockOrder, Places, UsesWitness, MayHoldLong, Mutex,
        TryAcquireLong, AcquireLong, FirstMutex, LongKind, StreamKind
<1>4. NoLateWait'
  BY DEF ThreadInv, DTypeOK, LongExclusive, NoLateWait, Places, MayHoldLong, TryAcquireLong,
         AcquireLong, FirstMutex, LongKind, StreamKind
<1>5. Places'
  BY DEF ThreadInv, DTypeOK, LongExclusive, LockOrder, Places, UsesWitness, MayHoldLong,
         TryAcquireLong, AcquireLong, FirstMutex, LongKind, StreamKind
<1> QED  BY <1>1, <1>2, <1>3, <1>4, <1>5 DEF ThreadInv

(* AnswerReady keeps the invariant. *)
LEMMA AnswerReadyInv ==
    ASSUME ThreadInv, NEW c \in Conn, AnswerReady(c)
    PROVE  ThreadInv'
<1> USE DEF Goto, connvars, longvars, mutexvars, scanvars, Place, Handling, Inside, Waiting
<1>1. DTypeOK'
  BY PermitsPositive, KindsKnown DEF ThreadInv, DTypeOK, AnswerReady
<1>2. PermitsExact'
  BY SameHandlers, ZenonT(60) DEF ThreadInv, DTypeOK, PermitsExact, AnswerReady
<1>3. LongExclusive' /\ LockOrder'
  BY ConnFinite, SMTT(30)
    DEF ThreadInv, DTypeOK, LongExclusive, LockOrder, Places, UsesWitness, MayHoldLong, Mutex,
        AnswerReady
<1>4. NoLateWait'
  BY DEF ThreadInv, DTypeOK, LongExclusive, NoLateWait, Places, MayHoldLong, AnswerReady
<1>5. Places'
  BY DEF ThreadInv, DTypeOK, LongExclusive, LockOrder, Places, UsesWitness, MayHoldLong,
         AnswerReady
<1> QED  BY <1>1, <1>2, <1>3, <1>4, <1>5 DEF ThreadInv

(* LockWitness keeps the invariant. *)
LEMMA LockWitnessInv ==
    ASSUME ThreadInv, NEW c \in Conn, LockWitness(c)
    PROVE  ThreadInv'
<1> USE DEF Goto, connvars, longvars, mutexvars, scanvars, Place, Handling, Inside, Waiting
<1>1. DTypeOK'
  BY PermitsPositive, KindsKnown DEF ThreadInv, DTypeOK, LockWitness, LockMutex, Done
<1>2. PermitsExact'
  BY SameHandlers, ZenonT(60) DEF ThreadInv, DTypeOK, PermitsExact, LockWitness, LockMutex, Done
<1>3. LongExclusive' /\ LockOrder'
  BY ConnFinite, SMTT(30)
    DEF ThreadInv, DTypeOK, LongExclusive, LockOrder, Places, UsesWitness, MayHoldLong, Mutex,
        LockWitness, LockMutex, Done
<1>4. NoLateWait'
  BY SMTT(30) DEF ThreadInv, DTypeOK, LongExclusive, NoLateWait, Places, MayHoldLong, LockWitness,
         LockMutex, Done
<1>5. Places'
  BY SMTT(30) DEF ThreadInv, DTypeOK, LongExclusive, LockOrder, Places, UsesWitness, MayHoldLong,
         LockWitness, LockMutex, Done
<1> QED  BY <1>1, <1>2, <1>3, <1>4, <1>5 DEF ThreadInv

(* LockVault keeps the invariant. *)
LEMMA LockVaultInv ==
    ASSUME ThreadInv, NEW c \in Conn, LockVault(c)
    PROVE  ThreadInv'
<1> USE DEF Goto, connvars, longvars, mutexvars, scanvars, Place, Handling, Inside, Waiting
<1>1. DTypeOK'
  BY PermitsPositive, KindsKnown, SMTT(30) DEF ThreadInv, DTypeOK, LockVault, LockMutex, Done
<1>2. PermitsExact'
  BY SameHandlers, SMTT(30) DEF ThreadInv, DTypeOK, PermitsExact, LockVault, LockMutex, Done
<1>3. LongExclusive' /\ LockOrder'
  BY ConnFinite, SMTT(30)
    DEF ThreadInv, DTypeOK, LongExclusive, LockOrder, Places, UsesWitness, MayHoldLong, Mutex,
        LockVault, LockMutex, Done
<1>4. NoLateWait'
  BY SMTT(30) DEF ThreadInv, DTypeOK, LongExclusive, NoLateWait, Places, MayHoldLong, LockVault,
         LockMutex, Done
<1>5. Places'
  BY SMTT(30) DEF ThreadInv, DTypeOK, LongExclusive, LockOrder, Places, UsesWitness, MayHoldLong,
         LockVault, LockMutex, Done
<1> QED  BY <1>1, <1>2, <1>3, <1>4, <1>5 DEF ThreadInv

(* LockRecovery keeps the invariant. *)
LEMMA LockRecoveryInv ==
    ASSUME ThreadInv, NEW c \in Conn, LockRecovery(c)
    PROVE  ThreadInv'
<1> USE DEF Goto, connvars, longvars, mutexvars, scanvars, Place, Handling, Inside, Waiting
<1>1. DTypeOK'
  BY PermitsPositive, KindsKnown DEF ThreadInv, DTypeOK, LockRecovery, LockMutex, Done
<1>2. PermitsExact'
  BY SameHandlers, SMTT(30) DEF ThreadInv, DTypeOK, PermitsExact, LockRecovery, LockMutex, Done
<1>3. LongExclusive' /\ LockOrder'
  BY ConnFinite, SMTT(30)
    DEF ThreadInv, DTypeOK, LongExclusive, LockOrder, Places, UsesWitness, MayHoldLong, Mutex,
        LockRecovery, LockMutex, Done
<1>4. NoLateWait'
  BY SMTT(30) DEF ThreadInv, DTypeOK, LongExclusive, NoLateWait, Places, MayHoldLong, LockRecovery,
         LockMutex, Done
<1>5. Places'
  BY DEF ThreadInv, DTypeOK, LongExclusive, LockOrder, Places, UsesWitness, MayHoldLong,
         LockRecovery, LockMutex, Done
<1> QED  BY <1>1, <1>2, <1>3, <1>4, <1>5 DEF ThreadInv

(* RunVault keeps the invariant. *)
LEMMA RunVaultInv ==
    ASSUME ThreadInv, NEW c \in Conn, RunVault(c)
    PROVE  ThreadInv'
<1> USE DEF Goto, connvars, longvars, mutexvars, scanvars, Place, Handling, Inside, Waiting
<1>1. DTypeOK'
  BY PermitsPositive, KindsKnown DEF ThreadInv, DTypeOK, RunVault, Release, Done
<1>2. PermitsExact'
  BY SameHandlers, ZenonT(60) DEF ThreadInv, DTypeOK, PermitsExact, RunVault, Release, Done
<1>3. LongExclusive' /\ LockOrder'
  BY ConnFinite, SMTT(30)
    DEF ThreadInv, DTypeOK, LongExclusive, LockOrder, Places, UsesWitness, MayHoldLong, Mutex,
        RunVault, Release, Done
<1>4. NoLateWait'
  BY SMTT(30) DEF ThreadInv, DTypeOK, LongExclusive, NoLateWait, Places, MayHoldLong, RunVault, Release,
         Done
<1>5. Places'
  BY DEF ThreadInv, DTypeOK, LongExclusive, LockOrder, Places, LongKind, StreamKind,
         UsesWitness, MayHoldLong, RunVault, Release, Done
<1> QED  BY <1>1, <1>2, <1>3, <1>4, <1>5 DEF ThreadInv

(* Panic keeps the invariant. *)
LEMMA PanicInv ==
    ASSUME ThreadInv, NEW c \in Conn, Panic(c)
    PROVE  ThreadInv'
<1> USE DEF Goto, connvars, longvars, mutexvars, scanvars, Place, Handling, Inside, Waiting
<1>1. DTypeOK'
  BY PermitsPositive, KindsKnown, Zenon DEF ThreadInv, DTypeOK, Panic, Release
<1>2. PermitsExact'
  BY SameHandlers, ZenonT(60) DEF ThreadInv, DTypeOK, PermitsExact, Panic, Release
<1>3. LongExclusive' /\ LockOrder'
  BY ConnFinite, SMTT(30)
    DEF ThreadInv, DTypeOK, LongExclusive, LockOrder, Places, UsesWitness, MayHoldLong, Mutex,
        Panic, Release
<1>4. NoLateWait'
  BY SMTT(30) DEF ThreadInv, DTypeOK, LongExclusive, NoLateWait, Places, MayHoldLong, Panic, Release
<1>5. Places'
  BY DEF ThreadInv, DTypeOK, LongExclusive, LockOrder, Places, UsesWitness, MayHoldLong, Panic,
         Release
<1> QED  BY <1>1, <1>2, <1>3, <1>4, <1>5 DEF ThreadInv

(* Record keeps the invariant. *)
LEMMA RecordInv ==
    ASSUME ThreadInv, NEW c \in Conn, Record(c)
    PROVE  ThreadInv'
<1> USE DEF Goto, connvars, longvars, mutexvars, scanvars, Place, Handling, Inside, Waiting
<1>1. DTypeOK'
  BY PermitsPositive, KindsKnown, Zenon DEF ThreadInv, DTypeOK, Record, Release, Done
<1>2. PermitsExact'
  BY SameHandlers, ZenonT(60) DEF ThreadInv, DTypeOK, PermitsExact, Record, Release, Done
<1>3. LongExclusive' /\ LockOrder'
  BY ConnFinite, SMTT(40)
    DEF ThreadInv, DTypeOK, LongExclusive, LockOrder, Places, UsesWitness, MayHoldLong, Mutex,
        Record, Release, Done
<1>4. NoLateWait'
  BY SMTT(40) DEF ThreadInv, DTypeOK, LongExclusive, NoLateWait, Places, MayHoldLong, Record, Release,
         Done
<1>5. Places'
  BY DEF ThreadInv, DTypeOK, LongExclusive, LockOrder, Places, UsesWitness, MayHoldLong, Record,
         Release, Done
<1> QED  BY <1>1, <1>2, <1>3, <1>4, <1>5 DEF ThreadInv

(* Respond keeps the invariant. *)
LEMMA RespondInv ==
    ASSUME ThreadInv, NEW c \in Conn, Respond(c)
    PROVE  ThreadInv'
<1> USE DEF Goto, connvars, longvars, mutexvars, scanvars, Place, Handling, Inside, Waiting
<1>1. DTypeOK'
  BY PermitsPositive, KindsKnown, Zenon DEF ThreadInv, DTypeOK, Respond
<1>2. PermitsExact'
  BY SameHandlers, ZenonT(60) DEF ThreadInv, DTypeOK, PermitsExact, Respond
<1>3. LongExclusive' /\ LockOrder'
  BY ConnFinite, SMTT(40)
    DEF ThreadInv, DTypeOK, LongExclusive, LockOrder, Places, UsesWitness, MayHoldLong, Mutex,
        Respond
<1>4. NoLateWait'
  BY SMTT(40) DEF ThreadInv, DTypeOK, LongExclusive, NoLateWait, Places, MayHoldLong, Respond
<1>5. Places'
  BY DEF ThreadInv, DTypeOK, LongExclusive, LockOrder, Places, UsesWitness, MayHoldLong, Respond
<1> QED  BY <1>1, <1>2, <1>3, <1>4, <1>5 DEF ThreadInv

(* DropLong keeps the invariant. *)
LEMMA DropLongInv ==
    ASSUME ThreadInv, NEW c \in Conn, DropLong(c)
    PROVE  ThreadInv'
<1> USE DEF Goto, connvars, longvars, mutexvars, scanvars, Place, Handling, Inside, Waiting
<1>1. DTypeOK'
  BY PermitsPositive, KindsKnown, Zenon DEF ThreadInv, DTypeOK, DropLong
<1>2. PermitsExact'
  BY SameHandlers, ZenonT(60) DEF ThreadInv, DTypeOK, PermitsExact, DropLong
<1>3. LongExclusive' /\ LockOrder'
  BY ConnFinite, SMTT(40)
    DEF ThreadInv, DTypeOK, LongExclusive, LockOrder, Places, UsesWitness, MayHoldLong, Mutex,
        DropLong
<1>4. NoLateWait'
  BY SMTT(40) DEF ThreadInv, DTypeOK, LongExclusive, NoLateWait, Places, MayHoldLong, DropLong
<1>5. Places'
  BY DEF ThreadInv, DTypeOK, LongExclusive, LockOrder, Places, UsesWitness, MayHoldLong,
         DropLong
<1> QED  BY <1>1, <1>2, <1>3, <1>4, <1>5 DEF ThreadInv

(* DropConnection keeps the invariant. *)
LEMMA DropConnectionInv ==
    ASSUME ThreadInv, NEW c \in Conn, DropConnection(c)
    PROVE  ThreadInv'
<1> USE DEF Goto, connvars, longvars, mutexvars, scanvars, Place, Handling, Inside, Waiting
<1>0. /\ Cardinality(Handlers') = Cardinality(Handlers) - 1 /\ Cardinality(Handlers) > 0
      /\ active = Cardinality(Handlers) /\ active \in 0 .. MaxConnections
  BY OneHandlerFewer, ZenonT(60) DEF ThreadInv, DTypeOK, PermitsExact, DropConnection
<1>1. DTypeOK'
  <2>1. active' \in 0 .. MaxConnections
    BY <1>0, PermitsPositive DEF DropConnection
  <2> QED  BY <2>1, ZenonT(60) DEF ThreadInv, DTypeOK, DropConnection
<1>2. PermitsExact'
  BY <1>0, ZenonT(60) DEF PermitsExact, DropConnection
<1>3. LongExclusive' /\ LockOrder'
  BY ConnFinite, SMTT(40)
    DEF ThreadInv, DTypeOK, LongExclusive, LockOrder, Places, UsesWitness, MayHoldLong, Mutex,
        DropConnection
<1>4. NoLateWait'
  BY SMTT(40) DEF ThreadInv, DTypeOK, LongExclusive, NoLateWait, Places, MayHoldLong, DropConnection
<1>5. Places'
  BY SMTT(40) DEF ThreadInv, DTypeOK, LongExclusive, LockOrder, Places, UsesWitness, MayHoldLong,
         DropConnection
<1> QED  BY <1>1, <1>2, <1>3, <1>4, <1>5 DEF ThreadInv

(* No step changes the invariant when nothing changes. *)
LEMMA StutterInv == ThreadInv /\ UNCHANGED vars => ThreadInv'
BY DEF ThreadInv, DTypeOK, PermitsExact, Handlers, LongExclusive, LockOrder, NoLateWait, Places,
       UsesWitness, vars, connvars, longvars, mutexvars, scanvars

(* Every step of a handler thread keeps the invariant. *)
LEMMA HandlerInv == ASSUME ThreadInv, NEW c \in Conn, Handler(c) PROVE ThreadInv'
BY ReadRequestInv, DispatchInv, StatusCheckInv, TryAcquireLongInv, AnswerReadyInv,
  LockWitnessInv, LockVaultInv, RunVaultInv, PanicInv, EndProcessInv, LockRecoveryInv,
  RecordInv, RespondInv, DropLongInv, DropConnectionInv, Zenon DEF Handler, PanicAborts

(* Every step of the accept loop keeps the invariant. *)
LEMMA AcceptorInv == ASSUME ThreadInv, Acceptor PROVE ThreadInv'
BY LoadActiveInv, ExchangeInv, ExchangeFailsInv, EndProcessInv, AcceptInv, Zenon
  DEF Acceptor, Exit

(* Every step of the daemon keeps the invariant. *)
LEMMA NextInv == ThreadInv /\ [Next]_vars => ThreadInv'
BY AcceptorInv, EndProcessInv, ConnectInv, HandlerInv, StutterInv, Zenon DEF Next, AcceptFails

(* ThreadInv holds of vlt1d for any set of connections, any max_connections,   *)
(* with and without a witness.                                                 *)
THEOREM ThreadInvariant == Spec => []ThreadInv
BY InitInv, NextInv, PTL DEF Spec

(* active_connections stays between zero and max_connections. *)
THEOREM DaemonTypeCorrect == Spec => []DTypeOK
<1>1. ThreadInv => DTypeOK
  BY DEF ThreadInv
<1> QED  BY <1>1, ThreadInvariant, PTL

(* active_connections is the number of handlers that still return a permit. *)
THEOREM PermitsStayExact == Spec => []PermitsExact
<1>1. ThreadInv => PermitsExact
  BY DEF ThreadInv
<1> QED  BY <1>1, ThreadInvariant, PTL

(* At most one long operation runs, and long_operation_active says so. *)
THEOREM LongStaysExclusive == Spec => []LongExclusive
<1>1. ThreadInv => LongExclusive
  BY DEF ThreadInv
<1> QED  BY <1>1, ThreadInvariant, PTL

(* The witness, vault and recovery mutexes are taken in one order. *)
THEOREM LockOrderKept == Spec => []LockOrder
<1>1. ThreadInv => LockOrder
  BY DEF ThreadInv
<1> QED  BY <1>1, ThreadInvariant, PTL

(* A request that reaches dispatch during a long operation never waits for it. *)
THEOREM LateNeverWaits == Spec => []NoLateWait
<1>1. ThreadInv => NoLateWait
  BY DEF ThreadInv
<1> QED  BY <1>1, ThreadInvariant, PTL

(* The recovery state that status reports never goes back to an earlier scan. *)
THEOREM RecoveryNeverBack == Spec => RecoveryMonotone
<1>1. ASSUME ThreadInv, Next PROVE recovery' >= recovery
  <2>1. recovery \in Nat /\ (UNCHANGED recovery => recovery' >= recovery)
    BY <1>1, SMTT(30) DEF ThreadInv, DTypeOK
  <2>2. ASSUME NEW c \in Conn, Record(c) PROVE recovery' >= recovery
    BY <1>1, <2>1, <2>2, SMTT(40) DEF ThreadInv, DTypeOK, Places, Record
  <2>3. UNCHANGED recovery \/ \E c \in Conn : Record(c)
    BY <1>1, Zenon
      DEF Next, Acceptor, Handler, AcceptFails, Exit, scanvars, AcquireLong, Spawn, LockMutex,
          LoadActive, Exchange, ExchangeFails, EndProcess, Connect, Accept, ReadRequest,
          Dispatch, StatusCheck, TryAcquireLong, AnswerReady, LockWitness, LockVault, RunVault,
          Panic, PanicAborts, LockRecovery, Respond, DropLong, DropConnection
  <2> QED  BY <2>1, <2>2, <2>3, Zenon
<1>2. ThreadInv /\ [Next]_vars => (recovery' >= recovery \/ UNCHANGED vars)
  BY <1>1
<1> QED  BY <1>2, ThreadInvariant, PTL DEF Spec, RecoveryMonotone
=============================================================================
