------------------------- MODULE StreamUploadProofs -------------------------
(***************************************************************************)
(* Uploads: the two ends of a connection stay paired, the chunks, buffers   *)
(* and items of an upload are adjacent pieces of the input, and what the    *)
(* client of a put is told is true.                                         *)
(***************************************************************************)
EXTENDS StreamStoreProofs

-----------------------------------------------------------------------------
(* The two ends of a connection, and the numbers of versions *)

(* Every step keeps the types. *)
LEMMA TypesStep ==
    ASSUME TransferInv, Next
    PROVE  TypesInv'
BY StoreStep, SrvStep, ClientStep, Zenon DEF TypesInv

(* The handler keeps in step with its client. *)
LEMMA PairedHandler ==
    ASSUME TransferInv, Handler \/ StorageFails \/ Crash
    PROVE  Paired'
<1>1. Paired /\ SrvShape
  BY TypesFacts, Zenon DEF TypesInv, TransferInv
<1>2. HandlerMoves /\ cli' = cli
  BY HandlerMove, Zenon
<1>3. CASE srv' = Closed
  <2>1. srv'.at = "closed"
    BY <1>3, SMTT(30) DEF Closed
  <2> QED  BY <1>1, <1>2, <2>1, SMTT(30) DEF Paired, Serving, Connected
<1>4. ASSUME Serving, NEW code, Returns(code)
      PROVE  Paired'
  <2>1. srv'.at = "answer" /\ srv'.op = srv.op
    BY <1>4, ReturnsFacts, SMTT(30) DEF Answering
  <2> QED  BY <1>1, <1>2, <1>4, <2>1 DEF Paired, Serving, Connected
<1>5. CASE Ready /\ srv' = [srv EXCEPT !.at = "begin"]
  <2>1. srv.at = "request"
    BY <1>5, Zenon DEF Ready
  <2>2. srv'.at = "begin" /\ srv'.op = srv.op /\ srv'.object = srv.object /\ srv'.input = srv.input
        /\ srv'.chunks = srv.chunks /\ srv'.cur = srv.cur /\ srv'.buf = srv.buf /\ srv'.length = srv.length
        /\ srv'.next = srv.next /\ srv'.written = srv.written /\ srv'.finished = srv.finished
    BY <1>1, <1>5, SMTT(30) DEF SrvShape
  <2> QED  BY <1>1, <1>2, <2>1, <2>2 DEF Paired, Serving, Connected
<1>6. CASE /\ srv.at \notin {"closed", "request", "answer"}
           /\ srv'.op = srv.op /\ srv'.object = srv.object /\ srv'.input = srv.input
           /\ \/ srv'.at \in {"read", "append"} /\ srv.op = "put"
              \/ srv'.at = "serve" /\ srv.op = "get"
  BY <1>1, <1>2, <1>6, SMTT(30) DEF Paired, Serving, Connected
<1> QED  BY <1>2, <1>3, <1>4, <1>5, <1>6, Zenon DEF HandlerMoves

(* The client keeps in step with its handler. *)
LEMMA PairedElsewhere ==
    ASSUME TransferInv, Elsewhere
    PROVE  Paired'
<1>1. Paired /\ CliShape /\ Downloads /\ Reports
  BY TypesFacts, Zenon DEF TypesInv, ClientShape, TransferInv
<1>2. ClientMoves /\ srv' = srv
  BY ClientMove, Zenon
<1>3. CASE cli' = cli
  BY <1>1, <1>2, <1>3, ZenonT(30) DEF Paired, Serving, Connected
<1>4. CASE ~ Connected' /\ cli'.at = "done"
  BY <1>1, <1>2, <1>4 DEF Paired, Serving, Connected
<1>5. ASSUME cli.at = "ready", cli' = [cli EXCEPT !.at = IF cli.op = "put" THEN "send" ELSE "receive"],
             down # <<>>
      PROVE  Paired'
  <2>1. cli.op = "get" => srv.at # "request"
    BY <1>1, <1>5, SMTT(30) DEF Downloads, Connected
  <2> DEFINE at == IF cli.op = "put" THEN "send" ELSE "receive"
  <2>2. cli'.at = at /\ cli'.op = cli.op /\ cli'.object = cli.object /\ cli'.input = cli.input
        /\ cli'.result = cli.result /\ cli.op \in Ops
    BY <1>1, <1>5, SMTT(30) DEF CliShape
  <2> QED  BY <1>1, <1>2, <1>5, <2>1, <2>2, SMTT(20) DEF Paired, Serving, Connected, Ops
<1>6. ASSUME cli.at = "send", NEW n, cli' = [cli EXCEPT !.sent = n] PROVE Paired'
  BY <1>1, <1>2, <1>6, SMTT(30) DEF Paired, Serving, Connected, CliShape
<1>7. ASSUME cli.at = "send", cli' = [cli EXCEPT !.at = "answer"] PROVE Paired'
  BY <1>1, <1>2, <1>7, SMTT(30) DEF Paired, Serving, Connected, CliShape
<1>8. ASSUME cli.at = "receive", NEW t, cli' = [cli EXCEPT !.temp = t] PROVE Paired'
  BY <1>1, <1>2, <1>8, SMTT(30) DEF Paired, Serving, Connected, CliShape
<1>9. ASSUME cli.at = "receive", cli' = [cli EXCEPT !.at = "publish"] PROVE Paired'
  BY <1>1, <1>2, <1>9 DEF Paired, Serving, Connected, CliShape
<1> QED  BY <1>2, <1>3, <1>4, <1>5, <1>6, <1>7, <1>8, <1>9, Zenon DEF ClientMoves

(* Every step keeps the two ends of a connection paired. *)
LEMMA PairedStep ==
    ASSUME TransferInv, Next
    PROVE  Paired'
<1>1. CASE Requested
  <2>1. PICK op \in {"put", "get"}, o \in Object, x \in Bytes : Request(op, o, x)
    BY <1>1, Zenon DEF Requested
  <2>2. /\ srv' = [at |-> "request", op |-> op, object |-> o, input |-> x,
                   version |-> NoVersion, cur |-> <<>>, finished |-> FALSE, buf |-> <<>>,
                   chunks |-> <<>>, length |-> 0, next |-> 0, manifest |-> NoManifest,
                   written |-> <<>>, code |-> "none"]
        /\ cli' = [at |-> "ready", op |-> op, object |-> o, input |-> x, sent |-> 0,
                   temp |-> <<>>, result |-> "none"]
    BY <2>1, RequestSrv, Zenon
  <2> QED  BY <2>2 DEF Paired, Serving, Connected
<1> QED  BY <1>1, Kinds, PairedHandler, PairedElsewhere, Zenon

(* A transaction keeps the least free number: nothing else commits meanwhile. *)
NextFree ==
    /\ srv.op = "put" /\ srv.at \in {"request", "begin"} => NewVersions # {}
    /\ srv.at \in {"read", "append"} =>
          srv.version \in NewVersions /\ \A u \in NewVersions : srv.version <= u

(* A step elsewhere leaves the next number to the transaction that is open. *)
LEMMA NextFreeElsewhere ==
    ASSUME TransferInv, Elsewhere
    PROVE  NextFree'
<1>1. srv' = srv /\ NextFree /\ StoreShape
  BY ClientMove, TypesFacts, Zenon DEF TransferInv, Numbered, NextFree, TypesInv, StoreInv
<1>2. ASSUME DOMAIN rows' = DOMAIN rows PROVE NextFree'
  BY <1>1, <1>2, Zenon DEF NextFree, NewVersions
<1>3. ASSUME NEW o \in Object, NEW x \in Plain, BufferedPut(o, x) PROVE NextFree'
  <2>1. /\ srv.at \notin {"read", "append"} /\ NewVersions # {}
        /\ srv.op = "put" => NewVersions # {NewVersion}
        /\ rows' = With(rows, NewVersion, PrepareVersion(o, NewVersion, x))
    BY <1>3 DEF BufferedPut, Free, Committed
  <2>2. DOMAIN rows' = DOMAIN rows \cup {NewVersion}
    BY <2>1, Zenon DEF With
  <2>3. srv.op = "put" => NewVersions' # {}
    BY <2>1, <2>2, SMTT(30) DEF NewVersions
  <2> QED  BY <1>1, <2>1, <2>3, Zenon DEF NextFree
<1>4. ASSUME NEW v \in DOMAIN rows, DamageRow(v) PROVE NextFree'
  BY <1>2, <1>4, TypesFacts, DamageStore, Zenon DEF TypesInv
<1>5. ASSUME NEW o \in Object, NEW v \in DOMAIN rows, DamagePointer(o, v) PROVE NextFree'
  BY <1>2, <1>5, Zenon DEF DamagePointer
<1>6. AwaitReady \/ (\E n \in 1 .. ItemSize : SendChunk(n)) \/ SendEnd \/ AwaitPublished
      \/ ReceiveItem \/ PublishOutput \/ LoseDaemon \/ Abort \/ TakeOutput \/ Unlock \/ Lock
      => rows' = rows
  BY Zenon DEF AwaitReady, SendChunk, SendEnd, AwaitPublished, ReceiveItem, PublishOutput,
     LoseDaemon, Abort, TakeOutput, Unlock, Lock, store
<1> QED  BY <1>2, <1>3, <1>4, <1>5, <1>6, Zenon DEF Elsewhere

(* Every step keeps the versions numbered in the order of their commits. *)
LEMMA NumberedStep ==
    ASSUME TransferInv, Next
    PROVE  Numbered'
<1>1. InOrder' /\ NextFree
  BY StoreStep, Zenon DEF StoreInv, TransferInv, Numbered, NextFree
<1> SUFFICES NextFree'
  BY <1>1, Zenon DEF Numbered, NextFree, InOrder
<1>2. CASE Requested
  <2>1. PICK op \in {"put", "get"}, o \in Object, x \in Bytes :
           Request(op, o, x) /\ (op = "put" => NewVersions # {}) /\ UNCHANGED store
    BY <1>2, Zenon DEF Requested
  <2>2. srv'.at = "request" /\ srv'.op = op
    BY <2>1, RequestSrv
  <2>3. NewVersions' = NewVersions
    BY <2>1, Zenon DEF NewVersions, store
  <2> QED  BY <2>1, <2>2, <2>3 DEF NextFree
<1>3. CASE Handler \/ StorageFails \/ Crash
  <2>1. HandlerMoves /\ SrvShape
    BY <1>3, HandlerMove, TypesFacts, Zenon DEF TypesInv
  <2>2. CASE srv' = Closed
    BY <2>2 DEF NextFree, Closed
  <2>3. CASE \E code : Returns(code)
    <3>1. srv'.at = "answer"
      BY <2>3, ReturnsFacts DEF Answering
    <3> QED  BY <3>1 DEF NextFree
  <2>4. CASE Ready /\ srv' = [srv EXCEPT !.at = "begin"]
    <3>1. srv'.at = "begin" /\ srv'.op = srv.op /\ srv.at = "request"
      BY <2>1, <2>4 DEF SrvShape, Ready
    <3>2. NewVersions' = NewVersions
      BY <2>4, Zenon DEF NewVersions, Ready, store
    <3> QED  BY <1>1, <3>1, <3>2, SMTT(30) DEF NextFree
  <2>5. ASSUME UNCHANGED store, srv'.op = srv.op,
               \/ /\ srv'.at \in {"read", "append"} /\ srv.op = "put"
                  /\ \/ srv.at = "begin" /\ srv'.version = NewVersion
                     \/ srv.at \in {"read", "append"} /\ srv'.version = srv.version
               \/ srv'.at = "serve" /\ srv.op = "get"
        PROVE  NextFree'
    <3>1. NewVersions' = NewVersions
      BY <2>5, Zenon DEF NewVersions, store
    <3>2. NewVersions # {} => NewVersion \in NewVersions /\ \A u \in NewVersions : NewVersion <= u
      BY NewVersionIsLeast, Zenon
    <3> HIDE DEF NewVersion
    <3> QED  BY <1>1, <2>5, <3>1, <3>2 DEF NextFree
  <2> QED  BY <2>1, <2>2, <2>3, <2>4, <2>5, Zenon DEF HandlerMoves
<1>4. CASE Elsewhere
  BY <1>4, NextFreeElsewhere, Zenon
<1> QED  BY <1>2, <1>3, <1>4, Kinds, Zenon

-----------------------------------------------------------------------------
(* Uploads: the pieces of the input in the handler and on the socket *)

(* The product of natural numbers is one. *)
LEMMA Product ==
    ASSUME NEW a \in Nat, NEW b \in Nat
    PROVE  a * b \in Nat
OBVIOUS

(* Sums of natural numbers grow. *)
LEMMA Sums ==
    ASSUME NEW a \in Nat, NEW b \in Nat, NEW c \in Nat
    PROVE  /\ a + b \in Nat /\ a + b + c \in Nat
           /\ a <= a + b /\ a + b <= a + b + c
OBVIOUS

(* Where the chunks, the buffer and the current item of an upload end. *)
LEMMA UploadFacts ==
    ASSUME SrvShape, Chunked, Uploading
    PROVE  /\ srv.input \in Bytes /\ srv.buf \in Bytes /\ srv.cur \in Bytes
           /\ Len(srv.input) \in Nat /\ Len(srv.buf) \in Nat /\ Len(srv.cur) \in Nat
           /\ srv.length \in Nat /\ Count \in Nat /\ ChunkSize \in Nat \ {0}
           /\ ChunkSize * Count \in Nat /\ Copied \in Nat /\ Taken \in Nat
           /\ Copied <= Taken /\ Taken <= Len(srv.input) /\ srv.length <= Copied
           /\ Len(srv.buf) <= ChunkSize
           /\ srv.length <= ChunkSize * Count
           /\ srv.length = ChunkSize * Count \/ srv.length = Len(srv.input)
           /\ srv.length < ChunkSize * Count => srv.finished
<1>1. /\ srv.input \in Bytes /\ srv.buf \in Bytes /\ srv.cur \in Bytes
      /\ srv.length \in Nat /\ Count \in Nat /\ ChunkSize \in Nat \ {0} /\ Len(srv.buf) <= ChunkSize
  BY ChunkPolicy, SMTT(30) DEF SrvShape
<1>2. Len(srv.input) \in Nat /\ Len(srv.buf) \in Nat /\ Len(srv.cur) \in Nat
  BY <1>1 DEF Bytes
<1>3. ChunkSize * Count \in Nat
  BY <1>1, Product, Zenon
<1>4. /\ srv.length = Min({ChunkSize * Count, Len(srv.input)}) /\ Taken <= Len(srv.input)
      /\ srv.length < ChunkSize * Count => srv.finished
  BY Zenon DEF Chunked
<1>5. ChunkSize * Count \in Int /\ Len(srv.input) \in Int
  BY <1>2, <1>3, SMTT(30)
<1>6. srv.length = IF ChunkSize * Count <= Len(srv.input) THEN ChunkSize * Count ELSE Len(srv.input)
  BY <1>4, <1>5, MinOfTwo, Zenon
<1>7. Copied \in Nat /\ Taken \in Nat /\ Copied <= Taken /\ srv.length <= Copied
  BY <1>1, <1>2, Sums, Zenon DEF Copied, Taken
<1>8. srv.length <= ChunkSize * Count /\ (srv.length = ChunkSize * Count \/ srv.length = Len(srv.input))
  BY <1>2, <1>3, <1>6, SMTT(30)
<1> QED  BY <1>1, <1>2, <1>3, <1>4, <1>7, <1>8, Zenon

(* The first byte has yet to come. *)
LEMMA FreshUpload ==
    ASSUME srv'.input \in Bytes, srv'.at \in {"request", "begin", "read"},
           srv'.chunks = <<>>, srv'.cur = <<>>, srv'.buf = <<>>, srv'.length = 0, ~ srv'.finished
    PROVE  Chunked' /\ Taken' = 0
<1>1. Len(srv'.input) \in Nat /\ ChunkSize \in Nat \ {0}
  BY ChunkPolicy DEF Bytes
<1>2. Count' = 0
  BY NoChunks, Zenon DEF Count
<1>3. Copied' = 0 /\ Taken' = 0 /\ Len(srv'.buf) = 0
  BY EmptyBytes DEF Copied, Taken
<1>4. Min({ChunkSize * 0, Len(srv'.input)}) = 0
  <2>1. ChunkSize * 0 = 0 /\ 0 \in Int /\ Len(srv'.input) \in Int /\ 0 <= Len(srv'.input)
    BY <1>1, SMTT(30)
  <2>2. Min({0, Len(srv'.input)}) = 0
    BY <2>1, MinOfTwo, Zenon
  <2> QED  BY <2>1, <2>2, Zenon
<1>5. SubSeq(srv'.input, 0 + 1, 0) = <<>>
  BY <1>1
<1>6. <<>> = [i \in 0 .. 0 - 1 |-> SealChunk(srv'.object, srv'.version, i, Slice(srv'.input, i))]
  OBVIOUS
<1>7. 0 <= Len(srv'.input) /\ ~ (0 > 0) /\ ~ (0 < ChunkSize * 0) /\ 0 < ChunkSize
      /\ "append" \notin {"request", "begin", "read"}
  BY <1>1
<1> QED  BY <1>1, <1>2, <1>3, <1>4, <1>5, <1>6, <1>7, Zenon DEF Chunked

(* An upload with nothing sent and nothing taken. *)
LEMMA NothingInFlight ==
    ASSUME Uploading', up' = <<>>, Taken' = 0, srv'.input \in Bytes,
           cli'.at \in {"ready", "send"} => cli'.sent = 0
    PROVE  InFlight'
<1>1. Len(srv'.input) \in Nat /\ Len(up') = 0
  BY DEF Bytes
<1>2. 1 .. Len(up') = {} /\ [k \in 0 .. Len(up') |-> 0] \in [0 .. Len(up') -> 0 .. Len(srv'.input)]
      /\ [k \in 0 .. Len(up') |-> 0][0] = 0
  BY <1>1, SMTT(30)
<1>3. PICK c \in [0 .. Len(up') -> 0 .. Len(srv'.input)] : c[0] = 0
  BY <1>2, Zenon
<1>4. InputCut(c)'
  BY <1>1, <1>2, <1>3, Zenon DEF InputCut
<1> QED  BY <1>3, <1>4, Zenon DEF InFlight

(* A new connection has uploaded nothing. *)
LEMMA RequestUpload ==
    ASSUME TransferInv, Requested
    PROVE  Chunked' /\ InFlight'
<1>1. PICK op \in {"put", "get"}, o \in Object, x \in Bytes : Request(op, o, x)
  BY Zenon DEF Requested
<1>2. /\ SrvShape'
      /\ srv' = [at |-> "request", op |-> op, object |-> o, input |-> x,
                   version |-> NoVersion, cur |-> <<>>, finished |-> FALSE, buf |-> <<>>,
                   chunks |-> <<>>, length |-> 0, next |-> 0, manifest |-> NoManifest,
                   written |-> <<>>, code |-> "none"]
      /\ cli' = [at |-> "ready", op |-> op, object |-> o, input |-> x, sent |-> 0,
                   temp |-> <<>>, result |-> "none"]
      /\ up' = <<>>
  BY <1>1, RequestSrv, Zenon
<1>3. CASE ~ Uploading'
  BY <1>3, Zenon DEF Chunked, InFlight
<1>4. CASE Uploading'
  <2>1. Chunked' /\ Taken' = 0
    BY <1>2, <1>4, FreshUpload, SMTT(20)
  <2>2. srv'.input \in Bytes /\ cli'.sent = 0
    BY <1>2
  <2> QED  BY <1>2, <1>4, <2>1, <2>2, NothingInFlight, Zenon
<1> QED  BY <1>3, <1>4, SMTT(30)

(* An upload that its handler leaves alone. *)
LEMMA SameUpload ==
    ASSUME Chunked, srv' = srv
    PROVE  Chunked' /\ Uploading' = Uploading /\ Taken' = Taken
<1>1. Uploading' = Uploading
  BY DEF Uploading
<1>2. Count' = Count /\ Copied' = Copied
  BY Zenon DEF Count, Copied
<1>3. Taken' = Taken
  BY <1>2, Zenon DEF Taken
<1>4. ASSUME Uploading PROVE Chunked'
  BY <1>2, <1>3, <1>4, SMTT(30) DEF Chunked
<1> QED  BY <1>1, <1>3, <1>4, Zenon DEF Chunked

(* A piece of the input, or the end after its last byte, joins the queue. *)
LEMMA JoinsInFlight ==
    ASSUME Sockets, Uploading, srv.input \in Bytes, Uploading' = Uploading, Taken' = Taken, srv' = srv,
           NEW c \in [0 .. Len(up) -> 0 .. Len(srv.input)], InputCut(c),
           NEW e \in 0 .. Len(srv.input), c[Len(up)] <= e,
           NEW item, up' = Append(up, item),
           \/ item = StreamData(SubSeq(srv.input, c[Len(up)] + 1, e))
           \/ item = StreamEnd /\ c[Len(up)] = Len(srv.input),
           cli'.at \in {"ready", "send"} => e = cli'.sent
    PROVE  InFlight'
<1>1. Len(up) \in Nat /\ Len(srv.input) \in Nat /\ Len(up') = Len(up) + 1 /\ up'[Len(up) + 1] = item
      /\ \A k \in 1 .. Len(up) : up'[k] = up[k]
  BY Appended DEF Sockets, Bytes
<1>2. PICK d \in [0 .. Len(up) + 1 -> 0 .. Len(srv.input)] :
         d[Len(up) + 1] = e /\ \A k \in 0 .. Len(up) : d[k] = c[k]
  BY <1>1, CutExtended, ZenonT(30)
<1>3. d[0] = c[0] /\ \A k \in 1 .. Len(up) : k - 1 \in 0 .. Len(up) /\ k \in 0 .. Len(up)
  BY <1>1, <1>2
<1>4. ASSUME NEW k \in 1 .. Len(up)
      PROVE  /\ d[k - 1] <= d[k]
             /\ \/ up'[k] = StreamData(SubSeq(srv.input, d[k - 1] + 1, d[k]))
                \/ up'[k] = StreamEnd /\ d[k - 1] = Len(srv.input)
  <2>1. d[k - 1] = c[k - 1] /\ d[k] = c[k] /\ up'[k] = up[k]
    BY <1>1, <1>2, <1>3, Zenon
  <2> QED  BY <2>1, Zenon DEF InputCut
<1>5. \A k \in 1 .. Len(up) + 1 : k \in 1 .. Len(up) \/ k = Len(up) + 1
  BY <1>1, SMTT(30)
<1>6. d[Len(up) + 1 - 1] = c[Len(up)]
  BY <1>1, <1>2, SMTT(30)
<1>7. d[0] = Taken'
  BY <1>3, Zenon DEF InputCut
<1>8. ASSUME NEW k \in 1 .. Len(up')
      PROVE  /\ d[k - 1] <= d[k]
             /\ \/ up'[k] = StreamData(SubSeq(srv'.input, d[k - 1] + 1, d[k]))
                \/ up'[k] = StreamEnd /\ d[k - 1] = Len(srv'.input)
  <2>1. CASE k \in 1 .. Len(up)
    BY <1>4, <2>1, Zenon
  <2>2. CASE k = Len(up) + 1
    <3>1. d[k] = e /\ d[k - 1] = c[Len(up)] /\ up'[k] = item
      BY <1>1, <1>2, <1>6, <2>2, SMTT(30)
    <3> QED  BY <3>1, Zenon
  <2> QED  BY <1>1, <1>5, <2>1, <2>2, Zenon
<1>9. cli'.at \in {"ready", "send"} => d[Len(up')] = cli'.sent
  BY <1>1, <1>2, Zenon
<1>10. InputCut(d)'
  BY <1>7, <1>8, <1>9, Zenon DEF InputCut
<1> QED  BY <1>1, <1>2, <1>10, Zenon DEF InFlight

(* The steps outside the handler keep the upload whole. *)
LEMMA UploadElsewhere ==
    ASSUME TransferInv, Elsewhere
    PROVE  Chunked' /\ InFlight'
<1>1. ClientMoves /\ srv' = srv
  BY ClientMove, Zenon
<1>2. Chunked /\ InFlight /\ Paired /\ Sockets /\ SrvShape /\ CliShape
  BY TypesFacts, Zenon DEF TypesInv, ClientShape, TransferInv
<1>3. Chunked' /\ Uploading' = Uploading /\ Taken' = Taken
  BY <1>1, <1>2, SameUpload, Zenon
<1> SUFFICES ASSUME Uploading PROVE InFlight'
  BY <1>3, Zenon DEF InFlight
<1>4. PICK c \in [0 .. Len(up) -> 0 .. Len(srv.input)] : InputCut(c)
  BY <1>2, Zenon DEF InFlight
<1>5. srv.input \in Bytes /\ Len(srv.input) \in Nat
  BY <1>2, UploadFacts, Zenon
<1>6. cli.at = "send" => c[Len(up)] = cli.sent /\ cli.sent \in Nat /\ cli.input = srv.input
  <2>1. cli.at = "send" => Connected /\ srv.at \notin {"closed", "answer"}
    BY DEF Connected, Uploading
  <2>2. cli.sent \in Nat
    BY <1>2 DEF CliShape
  <2> QED  BY <1>2, <1>4, <2>1, <2>2, Zenon DEF Paired, InputCut
<1>7. ASSUME NEW n \in 1 .. ItemSize, SendChunk(n) PROVE InFlight'
  <2>1. /\ cli.at = "send" /\ n <= Len(cli.input) - cli.sent
        /\ up' = Append(up, StreamData(SubSeq(cli.input, cli.sent + 1, cli.sent + n)))
        /\ cli' = [cli EXCEPT !.sent = cli.sent + n]
    BY <1>7, Zenon DEF SendChunk
  <2>2. n \in Nat
    BY StreamBounds
  <2>3. cli.sent + n \in 0 .. Len(srv.input) /\ cli.sent <= cli.sent + n
    BY <1>5, <1>6, <2>1, <2>2, SMTT(20)
  <2>4. cli'.sent = cli.sent + n
    BY <1>2, <2>1 DEF CliShape
  <2> QED  BY <1>1, <1>2, <1>3, <1>4, <1>5, <1>6, <2>1, <2>3, <2>4, JoinsInFlight, Zenon
<1>8. CASE SendEnd
  <2>1. /\ cli.at = "send" /\ cli.sent = Len(cli.input)
        /\ up' = Append(up, StreamEnd)
        /\ cli' = [cli EXCEPT !.at = "answer"]
    BY <1>8, Zenon DEF SendEnd
  <2>2. Len(srv.input) \in 0 .. Len(srv.input) /\ Len(srv.input) <= Len(srv.input)
    BY <1>5
  <2>3. cli'.at \notin {"ready", "send"}
    BY <1>2, <2>1 DEF CliShape
  <2> QED  BY <1>1, <1>2, <1>3, <1>4, <1>5, <1>6, <2>1, <2>2, <2>3, JoinsInFlight, Zenon
<1>9. ASSUME up' = up, cli'.at \in {"ready", "send"} => cli.at \in {"ready", "send"} /\ cli'.sent = cli.sent
      PROVE  InFlight'
  <2>1. InputCut(c)'
    BY <1>1, <1>3, <1>4, <1>9, Zenon DEF InputCut
  <2> QED  BY <1>1, <1>4, <1>9, <2>1, Zenon DEF InFlight
<1>10. (\E n \in 1 .. ItemSize : SendChunk(n)) \/ SendEnd \/ up' = up
  BY Zenon DEF Elsewhere, AwaitReady, AwaitPublished, ReceiveItem, PublishOutput, LoseDaemon, Abort,
       TakeOutput, Unlock, Lock, BufferedPut, DamageRow, DamagePointer
<1>11. CASE /\ ~ (\E n \in 1 .. ItemSize : SendChunk(n)) /\ ~ SendEnd
  <2>1. cli'.at \in {"ready", "send"} => cli.at \in {"ready", "send"} /\ cli'.sent = cli.sent
    <3>1. CASE cli' = cli
      BY <3>1, Zenon
    <3>2. CASE cli'.at = "done"
      BY <3>2
    <3>3. ASSUME cli.at = "ready", cli' = [cli EXCEPT !.at = IF cli.op = "put" THEN "send" ELSE "receive"]
          PROVE  cli.at \in {"ready", "send"} /\ cli'.sent = cli.sent
      BY <1>2, <3>3 DEF CliShape
    <3>4. ASSUME cli.at = "receive", NEW t, cli' = [cli EXCEPT !.temp = t]
          PROVE  cli'.at \notin {"ready", "send"}
      BY <1>2, <3>4 DEF CliShape
    <3>5. ASSUME cli.at = "receive", cli' = [cli EXCEPT !.at = "publish"]
          PROVE  cli'.at \notin {"ready", "send"}
      BY <1>2, <3>5 DEF CliShape
    <3> QED  BY <1>1, <1>11, <3>1, <3>2, <3>3, <3>4, <3>5, Zenon DEF ClientMoves
  <2> QED  BY <1>9, <1>10, <1>11, <2>1, Zenon
<1> QED  BY <1>7, <1>8, <1>11, Zenon

(* The handler's own steps leave the queue alone, or take its first item. *)
LEMMA KeepsInFlight ==
    ASSUME InFlight, Uploading, Taken' = Taken, srv'.input = srv.input, up' = up, cli' = cli
    PROVE  InFlight'
<1>1. PICK c \in [0 .. Len(up) -> 0 .. Len(srv.input)] : InputCut(c)
  BY Zenon DEF InFlight
<1>2. InputCut(c)'
  BY <1>1, Zenon DEF InputCut
<1> QED  BY <1>1, <1>2, Zenon DEF InFlight

(* Taking the first item leaves the pieces that follow it. *)
LEMMA LeavesInFlight ==
    ASSUME Sockets, srv.input \in Bytes, srv'.input = srv.input, cli' = cli, up # <<>>, up' = Tail(up),
           NEW c \in [0 .. Len(up) -> 0 .. Len(srv.input)], InputCut(c), Taken' = c[1]
    PROVE  InFlight'
<1>1. /\ Len(up) \in Nat \ {0} /\ Len(srv.input) \in Nat /\ Len(up') = Len(up) - 1
      /\ \A k \in 1 .. Len(up) - 1 : up'[k] = up[k + 1] /\ k + 1 \in 1 .. Len(up)
  BY Tails DEF Sockets, Bytes
<1>2. PICK d \in [0 .. Len(up) - 1 -> 0 .. Len(srv.input)] : \A k \in 0 .. Len(up) - 1 : d[k] = c[k + 1]
  BY <1>1, CutShifted, Zenon
<1>3. d[0] = c[1] /\ d[Len(up) - 1] = c[Len(up)]
  BY <1>1, <1>2
<1>4. ASSUME NEW k \in 1 .. Len(up')
      PROVE  /\ d[k - 1] <= d[k]
             /\ \/ up'[k] = StreamData(SubSeq(srv'.input, d[k - 1] + 1, d[k]))
                \/ up'[k] = StreamEnd /\ d[k - 1] = Len(srv'.input)
  <2>1. k \in 1 .. Len(up) - 1
    BY <1>1, Zenon
  <2>2. PICK j \in 1 .. Len(up) : j = k + 1
    BY <1>1, <2>1, Zenon
  <2>3. d[k - 1] = c[j - 1] /\ d[k] = c[j] /\ up'[k] = up[j]
    BY <1>1, <1>2, <2>1, <2>2
  <2> QED  BY <2>3, Zenon DEF InputCut
<1>5. cli'.at \in {"ready", "send"} => d[Len(up')] = cli'.sent
  BY <1>1, <1>3, Zenon DEF InputCut
<1>6. InputCut(d)'
  BY <1>3, <1>4, <1>5, Zenon DEF InputCut
<1> QED  BY <1>1, <1>2, <1>6, Zenon DEF InFlight

(* An upload of which nothing was read yet. *)
LEMMA NothingTaken ==
    ASSUME srv.length = 0, srv.cur = <<>>, srv.buf = <<>>
    PROVE  Taken = 0
<1>1. Taken = 0 + Len(<<>>) + Len(<<>>)
  BY Zenon DEF Taken, Copied
<1>2. 0 + 0 + 0 = 0
  OBVIOUS
<1> QED  BY <1>1, <1>2, EmptyBytes, Zenon

(* Before its first read the handler has nothing of the input. *)
LEMMA FreshUploads ==
    ASSUME TransferInv, Uploading, SrvShape', cli' = cli, up' = up,
           srv.at \in {"request", "begin"},
           \/ srv' = [srv EXCEPT !.at = "begin"]
           \/ \E v : srv' = [srv EXCEPT !.at = "read", !.version = v]
    PROVE  Chunked' /\ InFlight'
<1>1. Paired /\ SrvShape /\ InFlight
  BY TypesFacts, Zenon DEF TypesInv, TransferInv
<1>2. /\ srv.chunks = <<>> /\ srv.cur = <<>> /\ srv.buf = <<>> /\ srv.length = 0 /\ ~ srv.finished
  BY <1>1, ZenonT(30) DEF Paired
<1>3. /\ srv'.chunks = <<>> /\ srv'.cur = <<>> /\ srv'.buf = <<>> /\ srv'.length = 0 /\ ~ srv'.finished
      /\ srv'.at \in {"request", "begin", "read"} /\ srv'.input = srv.input
  BY <1>1, <1>2, ZenonT(30) DEF SrvShape
<1>4. srv'.input \in Bytes
  BY Zenon DEF SrvShape
<1>5. Chunked' /\ Taken' = 0
  BY <1>3, <1>4, FreshUpload, Zenon
<1>6. Taken = 0
  BY <1>2, NothingTaken, Zenon
<1> QED  BY <1>1, <1>3, <1>5, <1>6, KeepsInFlight, Zenon

(* ReadItem keeps the upload whole. *)
LEMMA ReadItemUpload ==
    ASSUME TransferInv, ReadItem
    PROVE  Chunked' /\ InFlight'
<1>1. Chunked /\ InFlight /\ Paired /\ Sockets /\ SrvShape
  BY TypesFacts, Zenon DEF TypesInv, ClientShape, TransferInv
<1>2. /\ srv.at = "read" /\ srv.cur = <<>> /\ ~ srv.finished /\ up # <<>> /\ up' = Tail(up) /\ cli' = cli
  BY Zenon DEF ReadItem
<1>3. srv.op = "put" /\ Uploading
  BY <1>1, <1>2 DEF Paired, Uploading
<1>4. PICK c \in [0 .. Len(up) -> 0 .. Len(srv.input)] : InputCut(c)
  BY <1>1, <1>3, Zenon DEF InFlight
<1>5. /\ srv.input \in Bytes /\ Len(srv.input) \in Nat /\ Copied \in Nat /\ Taken \in Nat /\ Len(srv.cur) = 0
  BY <1>1, <1>2, <1>3, UploadFacts, EmptyBytes, Zenon
<1>6. Taken = Copied
  BY <1>5 DEF Taken
<1>7. Len(up) \in Nat \ {0} /\ Head(up) = up[1] /\ 1 \in 1 .. Len(up)
  BY <1>1, <1>2, Tails, Zenon DEF Sockets
<1>8. /\ c[0] = Taken /\ c[0] <= c[1]
      /\ \/ up[1] = StreamData(SubSeq(srv.input, c[0] + 1, c[1]))
         \/ up[1] = StreamEnd /\ c[0] = Len(srv.input)
  <2>1. 1 - 1 = 0
    OBVIOUS
  <2> QED  BY <1>4, <1>7, <2>1, Zenon DEF InputCut
<1>9. c[1] \in 0 .. Len(srv.input) /\ c[0] \in 0 .. Len(srv.input)
  BY <1>7
<1> DEFINE next == SubSeq(srv.input, Copied + 1, c[1])
<1>10. next \in Bytes /\ Len(next) = c[1] - Copied
  <2>1. c[1] \in Copied .. Len(srv.input)
    BY <1>5, <1>6, <1>8, <1>9
  <2> QED  BY <1>5, <2>1, Piece, SMTT(30)
<1>11. CASE Head(up).type = "data"
  <2>1. srv' = [srv EXCEPT !.cur = Head(up).data]
    BY <1>11, Zenon DEF ReadItem
  <2>2. Head(up).data = next
    BY <1>6, <1>7, <1>8, <1>11, SMTT(20) DEF StreamData, StreamEnd
  <2> HIDE DEF next
  <2>3. /\ srv'.at = srv.at /\ srv'.op = srv.op /\ srv'.object = srv.object /\ srv'.input = srv.input
        /\ srv'.version = srv.version /\ srv'.cur = next /\ srv'.finished = srv.finished
        /\ srv'.buf = srv.buf /\ srv'.chunks = srv.chunks /\ srv'.length = srv.length
    BY <1>1, <2>1, <2>2, SMTT(30) DEF SrvShape
  <2>4. Count' = Count /\ Copied' = Copied
    BY <2>3, Zenon DEF Count, Copied
  <2>5. Taken' = c[1] /\ c[1] <= Len(srv.input)
    BY <1>5, <1>9, <1>10, <2>3, <2>4, SMTT(20) DEF Taken
  <2>6. Chunked'
    BY <1>1, <1>2, <1>3, <2>3, <2>4, <2>5, Zenon DEF Chunked, next
  <2>7. InFlight'
    BY <1>1, <1>2, <1>4, <1>5, <2>3, <2>5, LeavesInFlight, Zenon
  <2> QED  BY <2>6, <2>7
<1>12. CASE Head(up).type # "data"
  <2>1. srv' = [srv EXCEPT !.finished = TRUE, !.at = "append"]
    BY <1>12, Zenon DEF ReadItem
  <2>2. c[0] = Len(srv.input)
    BY <1>7, <1>8, <1>12 DEF StreamData
  <2>3. /\ srv'.at = "append" /\ srv'.op = srv.op /\ srv'.object = srv.object /\ srv'.input = srv.input
        /\ srv'.version = srv.version /\ srv'.cur = srv.cur /\ srv'.finished
        /\ srv'.buf = srv.buf /\ srv'.chunks = srv.chunks /\ srv'.length = srv.length
    BY <1>1, <2>1 DEF SrvShape
  <2>4. Count' = Count /\ Copied' = Copied
    BY <2>3, Zenon DEF Count, Copied
  <2>5. Taken' = Taken
    BY <2>3, <2>4, Zenon DEF Taken
  <2>6. c[1] = Len(srv.input) /\ Copied = Len(srv.input)
    BY <1>5, <1>6, <1>8, <1>9, <2>2, SMTT(20)
  <2>7. Chunked'
    <3>1. "append" # "read"
      OBVIOUS
    <3> QED  BY <1>1, <1>2, <1>3, <2>3, <2>4, <2>5, <2>6, <3>1, ZenonT(30) DEF Chunked
  <2>8. InFlight'
    BY <1>1, <1>2, <1>4, <1>5, <1>6, <2>3, <2>5, <2>6, LeavesInFlight, Zenon
  <2> QED  BY <2>7, <2>8
<1> QED  BY <1>11, <1>12, SMTT(30)

(* Bytes move from the front of the current item to the back of the buffer. *)
Moved(x, p, q, r, n) ==
    LET buf == SubSeq(x, p + 1, q)
        cur == SubSeq(x, q + 1, r)
    IN  /\ q + n \in Nat
        /\ buf \o SubSeq(cur, 1, n) = SubSeq(x, p + 1, q + n)
        /\ SubSeq(cur, n + 1, Len(cur)) = SubSeq(x, q + n + 1, r)
        /\ Len(SubSeq(x, p + 1, q + n)) = Len(buf) + n
        /\ Len(SubSeq(x, q + n + 1, r)) = Len(cur) - n

(* Bytes moved from the current item to the buffer stay in their order. *)
LEMMA MovedBytes ==
    ASSUME NEW x \in Bytes, NEW p \in Nat, NEW q \in Nat, NEW r \in Nat, p <= q, q <= r, r <= Len(x),
           NEW n \in 0 .. Len(SubSeq(x, q + 1, r))
    PROVE  Moved(x, p, q, r, n)
<1> DEFINE buf == SubSeq(x, p + 1, q)
           cur == SubSeq(x, q + 1, r)
<1>1. Len(x) \in Nat
  BY DEF Bytes
<1>2. q \in p .. Len(x) /\ r \in q .. Len(x)
  BY <1>1, SMTT(30)
<1>3. Len(buf) = q - p /\ Len(cur) = r - q
  BY <1>2, Piece, SMTT(30)
<1>4. /\ q + n \in q .. r /\ q + n \in q .. Len(x) /\ q + n \in p .. Len(x) /\ q + n \in Nat
      /\ r \in q + n .. Len(x) /\ (q + n) - q = n /\ q + n <= r
  BY <1>1, <1>3
<1>5. /\ SubSeq(cur, 1, n) = SubSeq(x, q + 1, q + n)
      /\ SubSeq(cur, n + 1, Len(cur)) = SubSeq(x, q + n + 1, r)
  <2> DEFINE s == q + n
  <2>1. s \in q .. r /\ s - q = n
    BY <1>4
  <2> HIDE DEF s
  <2>2. /\ SubSeq(SubSeq(x, q + 1, r), 1, s - q) = SubSeq(x, q + 1, s)
        /\ SubSeq(SubSeq(x, q + 1, r), s - q + 1, r - q) = SubSeq(x, s + 1, r)
    BY <1>2, <2>1, PieceOfPiece, Zenon
  <2> QED  BY <1>3, <2>1, <2>2, Zenon DEF s
<1>6. SubSeq(x, p + 1, q) \o SubSeq(x, q + 1, q + n) = SubSeq(x, p + 1, q + n)
  BY <1>2, <1>4, PiecesJoin, Zenon
<1>7. /\ Len(SubSeq(x, p + 1, q + n)) = q + n - p
      /\ Len(SubSeq(x, q + n + 1, r)) = r - (q + n)
  <2> DEFINE s == q + n
  <2>1. s \in p .. Len(x) /\ s \in Nat /\ r \in s .. Len(x)
    BY <1>4
  <2> HIDE DEF s
  <2>2. Len(SubSeq(x, p + 1, s)) = s - p /\ Len(SubSeq(x, s + 1, r)) = r - s
    BY <2>1, Piece, Zenon
  <2> QED  BY <2>2 DEF s
<1>8. q + n - p = (q - p) + n /\ r - (q + n) = (r - q) - n
  BY <1>4
<1> QED  BY <1>3, <1>4, <1>5, <1>6, <1>7, <1>8, Zenon DEF Moved

(* Bytes moved are neither lost nor doubled. *)
LEMMA Regroup ==
    ASSUME NEW a \in Nat, NEW b \in Nat, NEW n \in 0 .. b
    PROVE  a + n + (b - n) = a + b
OBVIOUS

(* A buffer that is not full is below its size. *)
LEMMA Below ==
    ASSUME NEW a \in Nat, NEW b \in Nat, a <= b, a # b
    PROVE  a < b
OBVIOUS

(* CopyBytes keeps the upload whole. *)
LEMMA CopyUpload ==
    ASSUME TransferInv, CopyBytes
    PROVE  Chunked' /\ InFlight'
<1>1. Chunked /\ InFlight /\ Paired /\ SrvShape
  BY TypesFacts, Zenon DEF TypesInv, TransferInv
<1>2. srv.at = "read" /\ srv.cur # <<>> /\ up' = up /\ cli' = cli
  BY Zenon DEF CopyBytes
<1>3. srv.op = "put" /\ Uploading
  BY <1>1, <1>2 DEF Paired, Uploading
<1>4. /\ srv.input \in Bytes /\ Len(srv.input) \in Nat /\ Copied \in Nat /\ Taken \in Nat /\ srv.length \in Nat
      /\ Len(srv.buf) \in Nat /\ Len(srv.cur) \in Nat
      /\ srv.length <= Copied /\ Copied <= Taken /\ Taken <= Len(srv.input) /\ ChunkSize \in Nat \ {0}
  BY <1>1, <1>3, UploadFacts, Zenon
<1>5. PICK n \in 0 .. Len(srv.cur) :
        /\ Len(srv.buf) + n <= ChunkSize
        /\ srv' = [srv EXCEPT !.buf = srv.buf \o SubSeq(srv.cur, 1, n),
                              !.cur = SubSeq(srv.cur, n + 1, Len(srv.cur)),
                              !.at = IF Len(srv.buf) + n = ChunkSize THEN "append" ELSE "read"]
  BY <1>1, CopyFacts, Zenon
<1> DEFINE b == SubSeq(srv.input, srv.length + 1, Copied + n)
           d == SubSeq(srv.input, Copied + n + 1, Taken)
           at == IF Len(srv.buf) + n = ChunkSize THEN "append" ELSE "read"
<1>6. srv.buf = SubSeq(srv.input, srv.length + 1, Copied) /\ srv.cur = SubSeq(srv.input, Copied + 1, Taken)
      /\ ~ srv.finished
  BY <1>1, <1>2, <1>3, Zenon DEF Chunked
<1>7. /\ srv.buf \o SubSeq(srv.cur, 1, n) = b /\ SubSeq(srv.cur, n + 1, Len(srv.cur)) = d
      /\ Len(b) = Len(srv.buf) + n /\ Len(d) = Len(srv.cur) - n /\ Copied + n \in Nat
  <2>1. n \in 0 .. Len(SubSeq(srv.input, Copied + 1, Taken))
    BY <1>6, Zenon
  <2> DEFINE u == SubSeq(srv.input, srv.length + 1, Copied)
             w == SubSeq(srv.input, Copied + 1, Taken)
  <2>2. /\ u \o SubSeq(w, 1, n) = b /\ SubSeq(w, n + 1, Len(w)) = d
        /\ Len(b) = Len(u) + n /\ Len(d) = Len(w) - n /\ Copied + n \in Nat
    <3>1. Moved(srv.input, srv.length, Copied, Taken, n)
      BY <1>4, <2>1, MovedBytes, Zenon
    <3> QED  BY <3>1, Zenon DEF Moved
  <2> HIDE DEF b, d
  <2> QED  BY <1>6, <2>2, Zenon
<1>8. srv' = [srv EXCEPT !.buf = b, !.cur = d, !.at = at]
  BY <1>5, <1>7, Zenon
<1>9. at \in {"read", "append"} /\ (at = "append" <=> Len(b) = ChunkSize)
  BY <1>7, Zenon
<1> HIDE DEF b, d, at
<1>10. /\ srv'.at = at /\ srv'.op = srv.op /\ srv'.object = srv.object /\ srv'.input = srv.input
       /\ srv'.version = srv.version /\ srv'.cur = d /\ srv'.finished = srv.finished
       /\ srv'.buf = b /\ srv'.chunks = srv.chunks /\ srv'.length = srv.length
  BY <1>1, <1>8, SMTT(30) DEF SrvShape
<1>11. Count' = Count
  BY <1>10, Zenon DEF Count
<1>12. Copied' = Copied + n
  <2>1. srv.length + (Len(srv.buf) + n) = srv.length + Len(srv.buf) + n
    BY <1>4
  <2> QED  BY <1>7, <1>10, <2>1, Zenon DEF Copied
<1>13. Taken' = Taken
  <2>1. Copied + n + (Len(srv.cur) - n) = Copied + Len(srv.cur)
    BY <1>4, Regroup, Zenon
  <2> QED  BY <1>7, <1>10, <1>12, <2>1, Zenon DEF Taken
<1>14. at = "read" => Len(b) < ChunkSize
  <2>1. Len(srv.buf) + n \in Nat
    BY <1>4
  <2>2. at = "read" => at # "append"
    OBVIOUS
  <2> QED  BY <1>4, <1>5, <1>7, <1>9, <2>1, <2>2, Below, Zenon
<1>15. Chunked'
  <2>1. Chunked => Chunked'
    BY <1>3, <1>6, <1>9, <1>10, <1>11, <1>12, <1>13, <1>14, Zenon DEF Chunked, b, d
  <2> QED  BY <1>1, <2>1, SMTT(30)
<1>16. InFlight'
  BY <1>1, <1>2, <1>3, <1>10, <1>13, KeepsInFlight, Zenon
<1> QED  BY <1>15, <1>16

(* A read after the end of the stream keeps the upload whole. *)
LEMMA ReadAfterEndUpload ==
    ASSUME TransferInv, ReadAfterEnd
    PROVE  Chunked' /\ InFlight'
<1>1. Chunked /\ InFlight /\ Paired /\ SrvShape
  BY TypesFacts, Zenon DEF TypesInv, TransferInv
<1>2. srv.at = "read" /\ srv.finished /\ up' = up /\ cli' = cli /\ srv' = [srv EXCEPT !.at = "append"]
  BY Zenon DEF ReadAfterEnd
<1>3. srv.op = "put" /\ Uploading
  BY <1>1, <1>2, SMTT(30) DEF Paired, Uploading
<1>4. /\ srv'.at = "append" /\ srv'.op = srv.op /\ srv'.object = srv.object /\ srv'.input = srv.input
      /\ srv'.version = srv.version /\ srv'.cur = srv.cur /\ srv'.finished = srv.finished
      /\ srv'.buf = srv.buf /\ srv'.chunks = srv.chunks /\ srv'.length = srv.length
  BY <1>1, <1>2, Zenon DEF SrvShape
<1>5. Count' = Count /\ Copied' = Copied
  BY <1>4, Zenon DEF Count, Copied
<1>6. Taken' = Taken
  BY <1>4, <1>5, Zenon DEF Taken
<1>7. "append" # "read"
  OBVIOUS
<1>8. Chunked'
  BY <1>1, <1>2, <1>3, <1>4, <1>5, <1>6, <1>7, ZenonT(30) DEF Chunked
<1> QED  BY <1>1, <1>2, <1>3, <1>4, <1>6, <1>8, KeepsInFlight, Zenon

(* Where the chunk that is sealed ends, in units of the chunk size. *)
FullOrLast(c, m, l, top) ==
    /\ l = IF c * (m + 1) <= top THEN c * (m + 1) ELSE top
    /\ c * m < l
    /\ c * (m + 1) \in Int

(* A chunk ends at the next multiple of the size or at the end of the input. *)
LEMMA ChunkEnds ==
    ASSUME NEW c \in Nat \ {0}, NEW m \in Nat, NEW top \in Nat, NEW b \in Nat, b # 0, b <= c,
           c * m + b <= top, b = c \/ c * m + b = top
    PROVE  FullOrLast(c, m, c * m + b, top)
BY DEF FullOrLast

(* AppendChunk keeps the upload whole: the new chunk is the next slice of the input. *)
LEMMA AppendUpload ==
    ASSUME TransferInv, AppendChunk, ~ Returns("InvalidInput")
    PROVE  Chunked' /\ InFlight'
<1>1. Chunked /\ InFlight /\ Paired /\ SrvShape
  BY TypesFacts, Zenon DEF TypesInv, TransferInv
<1>2. srv.at = "append" /\ srv.buf # <<>>
  BY Zenon DEF AppendChunk
<1>3. srv.op = "put" /\ Uploading
  BY <1>1, <1>2, SMTT(30) DEF Paired, Uploading
<1>4. /\ srv.input \in Bytes /\ srv.buf \in Bytes /\ Len(srv.input) \in Nat /\ Copied \in Nat /\ Taken \in Nat
      /\ srv.length \in Nat /\ Len(srv.buf) \in Nat /\ Len(srv.cur) \in Nat /\ Count \in Nat
      /\ Copied <= Taken /\ Taken <= Len(srv.input) /\ ChunkSize \in Nat \ {0}
      /\ ChunkSize * Count \in Nat /\ Len(srv.buf) <= ChunkSize
      /\ srv.length = ChunkSize * Count \/ srv.length = Len(srv.input)
  BY <1>1, <1>3, UploadFacts, Zenon
<1>5. Len(srv.buf) # 0
  BY <1>2, <1>4 DEF Bytes
<1> DEFINE m == Count
           b == Len(srv.buf)
           top == Len(srv.input)
           cs == With(srv.chunks, m, SealChunk(srv.object, srv.version, m, srv.buf))
<1>6. up' = up /\ cli' = cli
  BY Zenon DEF AppendChunk
<1>7. /\ Count' = m + 1 /\ DOMAIN srv.chunks = 0 .. m - 1
      /\ srv' = [srv EXCEPT !.chunks = cs, !.length = srv.length + b, !.buf = <<>>, !.at = "read"]
  BY <1>1, <1>3, AppendFacts, Zenon
<1>8. Copied = srv.length + b
  BY Zenon DEF Copied
<1> HIDE DEF cs
<1>9. /\ srv'.at = "read" /\ srv'.op = srv.op /\ srv'.object = srv.object /\ srv'.input = srv.input
      /\ srv'.version = srv.version /\ srv'.cur = srv.cur /\ srv'.finished = srv.finished
      /\ srv'.buf = <<>> /\ srv'.chunks = cs /\ srv'.length = Copied
  <2> DEFINE l == srv.length + b
  <2>1. srv' = [srv EXCEPT !.chunks = cs, !.length = l, !.buf = <<>>, !.at = "read"] /\ l = Copied
    BY <1>7, <1>8, Zenon
  <2> HIDE DEF l
  <2> QED  BY <1>1, <2>1 DEF SrvShape
<1> HIDE DEF m, b, top
<1>10. /\ m \in Nat /\ b \in Nat /\ top \in Nat /\ b # 0 /\ b <= ChunkSize /\ ChunkSize \in Nat \ {0}
       /\ ChunkSize * m \in Nat /\ srv.length \in Nat /\ Copied = srv.length + b /\ Copied <= top
       /\ srv.length = ChunkSize * m \/ srv.length = top
  <2>1. /\ m \in Nat /\ b \in Nat /\ top \in Nat /\ b # 0 /\ b <= ChunkSize /\ ChunkSize \in Nat \ {0}
        /\ ChunkSize * m \in Nat /\ srv.length \in Nat /\ Copied = srv.length + b
        /\ srv.length = ChunkSize * m \/ srv.length = top
        /\ Copied \in Nat /\ Taken \in Nat /\ Copied <= Taken /\ Taken <= top
    BY <1>4, <1>5, <1>8, Zenon DEF m, b, top
  <2>2. Copied <= top
    BY <2>1
  <2> QED  BY <2>1, <2>2, Zenon
<1>11. srv.length = ChunkSize * m
  BY <1>10
<1>12. b = ChunkSize \/ Copied = top
  BY <1>1, <1>2, <1>3, Zenon DEF Chunked, b, top
<1>13. FullOrLast(ChunkSize, m, Copied, top)
  BY <1>10, <1>11, <1>12, ChunkEnds, Zenon
<1>14. /\ Copied = Min({ChunkSize * (m + 1), top}) /\ ChunkSize * m < Copied
       /\ (m + 1) - 1 = m
  <2>1. top \in Int /\ (m + 1) - 1 = m
    BY <1>10
  <2> QED  BY <1>13, <2>1, MinOfTwo, Zenon DEF FullOrLast
<1>15. Copied < ChunkSize * (m + 1) => srv.finished
  <2>1. b = ChunkSize => Copied = ChunkSize * (m + 1)
    BY <1>10, <1>11, SMTT(30)
  <2>2. ~ (Copied < Copied)
    BY <1>10
  <2> QED  BY <1>1, <1>2, <1>3, <2>1, <2>2, Zenon DEF Chunked, b
<1>16. Copied' = Copied
  <2>1. Copied + 0 = Copied
    BY <1>10
  <2> QED  BY <1>9, <2>1, EmptyBytes, Zenon DEF Copied
<1>17. Taken' = Taken
  BY <1>9, <1>16, Zenon DEF Taken
<1>18. <<>> = SubSeq(srv.input, Copied + 1, Copied)
  <2>1. Copied \in Nat /\ Copied \in Copied .. Len(srv.input)
    BY <1>10 DEF top
  <2>2. LET s == SubSeq(srv.input, Copied + 1, Copied) IN s \in Bytes /\ Len(s) = Copied - Copied
    BY <1>4, <2>1, Piece, Zenon
  <2> QED  BY <2>1, <2>2 DEF Bytes
<1>19. cs = [i \in 0 .. (m + 1) - 1 |-> SealChunk(srv.object, srv.version, i, Slice(srv.input, i))]
  <2>1. Slice(srv.input, m) = srv.buf
    BY <1>1, <1>3, <1>11, <1>14, Zenon DEF Chunked, Slice, top
  <2>2. /\ srv.chunks = [i \in 0 .. m - 1 |-> SealChunk(srv.object, srv.version, i, Slice(srv.input, i))]
    BY <1>1, <1>3, Zenon DEF Chunked, m
  <2>3. (0 .. m - 1) \cup {m} = 0 .. m
    BY <1>10, Indices, Zenon
  <2>4. DOMAIN cs = 0 .. m /\ cs = [i \in 0 .. m |-> IF i = m THEN SealChunk(srv.object, srv.version, m, srv.buf) ELSE srv.chunks[i]]
    BY <1>7, <2>3, Zenon DEF cs, With
  <2>5. \A i \in 0 .. m : i # m => i \in 0 .. m - 1
    BY <1>10
  <2>6. \A i \in 0 .. m : (IF i = m THEN SealChunk(srv.object, srv.version, m, srv.buf) ELSE srv.chunks[i])
                          = SealChunk(srv.object, srv.version, i, Slice(srv.input, i))
    BY <2>1, <2>2, <2>5, Zenon
  <2> QED  BY <1>14, <2>4, <2>6, Zenon
<1>20. Len(<<>>) < ChunkSize
  BY <1>10, EmptyBytes, SMTT(30)
<1>21. Chunked'
  <2>1. "read" # "append" /\ Copied <= Len(srv.input) /\ Taken <= Len(srv.input)
    BY <1>4, <1>10, Zenon DEF top
  <2>2. /\ srv'.chunks = [i \in 0 .. Count' - 1 |->
                            SealChunk(srv'.object, srv'.version, i, Slice(srv'.input, i))]
        /\ srv'.length = Min({ChunkSize * Count', Len(srv'.input)})
        /\ Count' > 0 => ChunkSize * (Count' - 1) < srv'.length
    BY <1>7, <1>9, <1>14, <1>19, Zenon DEF top
  <2>3. srv'.length < ChunkSize * Count' => srv'.finished
    BY <1>7, <1>9, <1>15, Zenon
  <2>4. /\ srv.cur = SubSeq(srv.input, Copied + 1, Taken)
        /\ srv.finished => Copied = Len(srv.input) /\ srv.cur = <<>>
    BY <1>1, <1>3, Zenon DEF Chunked
  <2>5. /\ Taken' <= Len(srv'.input)
        /\ srv'.buf = SubSeq(srv'.input, srv'.length + 1, Copied')
        /\ srv'.cur = SubSeq(srv'.input, Copied' + 1, Taken')
        /\ srv'.finished => Copied' = Len(srv'.input) /\ srv'.cur = <<>>
        /\ srv'.at = "read" => Len(srv'.buf) < ChunkSize
        /\ srv'.at = "append" => srv'.finished \/ Len(srv'.buf) = ChunkSize
    BY <1>9, <1>16, <1>17, <1>18, <1>20, <2>1, <2>4, Zenon
  <2> QED  BY <2>2, <2>3, <2>5, Zenon DEF Chunked
<1> QED  BY <1>1, <1>3, <1>6, <1>9, <1>17, <1>21, KeepsInFlight, Zenon

(* The handler keeps the upload whole. *)
LEMMA UploadHandler ==
    ASSUME TransferInv, Handler \/ StorageFails \/ Crash, SrvShape'
    PROVE  Chunked' /\ InFlight'
<1>1. ASSUME srv'.at \in {"closed", "answer", "serve"} PROVE Chunked' /\ InFlight'
  <2>1. ~ Uploading'
    BY <1>1 DEF Uploading
  <2> QED  BY <2>1, Zenon DEF Chunked, InFlight
<1>2. Paired /\ SrvShape
  BY TypesFacts, Zenon DEF TypesInv, TransferInv
<1>3. ASSUME NEW code, Returns(code) PROVE srv'.at = "answer"
  BY <1>3, ReturnsFacts DEF Answering
<1>4. Closed.at = "closed"
  BY DEF Closed
<1>5. CASE Refuse \/ Answer \/ Crash
  BY <1>1, <1>4, <1>5, Zenon DEF Refuse, Answer, Crash, Respond
<1>6. CASE ReadFails \/ Finish \/ ServeEnd \/ StorageFails
  <2>1. \E code : Returns(code)
    BY <1>6, Zenon DEF ReadFails, Finish, ServeEnd, StorageFails
  <2> QED  BY <1>1, <1>3, <2>1, Zenon
<1>7. CASE BeginGet \/ ServeChunk
  <2>1. HandlerMoves /\ srv.op = "get"
    BY <1>2, <1>7, HandlerMove, Zenon DEF Handler, BeginGet, ServeChunk, Paired
  <2>2. srv'.at \in {"closed", "answer", "serve"} \/ Ready
    BY <1>3, <1>4, <2>1, SMTT(20) DEF HandlerMoves
  <2>3. ~ Ready
    BY <1>7 DEF BeginGet, ServeChunk, Ready
  <2> QED  BY <1>1, <2>2, <2>3, Zenon
<1>8. CASE Ready
  <2>1. srv.at = "request" /\ up' = up /\ cli' = cli /\ srv.op \in Ops
    BY <1>2, <1>8 DEF Ready, SrvShape
  <2>2. CASE srv' = Closed
    BY <1>1, <1>4, <2>2, Zenon
  <2>3. CASE srv' = [srv EXCEPT !.at = "begin"]
    <3>1. CASE srv.op = "put"
      <4>1. Uploading
        BY <2>1, <3>1 DEF Uploading
      <4> QED  BY <2>1, <2>3, <4>1, FreshUploads, Zenon
    <3>2. CASE srv.op # "put"
      <4>1. srv'.op # "put"
        BY <1>2, <2>3, <3>2, SMTT(20) DEF SrvShape
      <4> QED  BY <4>1, Zenon DEF Chunked, InFlight, Uploading
    <3> QED  BY <3>1, <3>2
  <2> QED  BY <1>8, <2>2, <2>3, Zenon DEF Ready
<1>9. CASE BeginPut
  <2>1. CASE Returns("Locked")
    BY <1>1, <1>3, <2>1, Zenon
  <2>2. CASE ~ Returns("Locked")
    <3>1. srv.at = "begin" /\ srv.op = "put" /\ up' = up /\ cli' = cli
          /\ srv' = [srv EXCEPT !.at = "read", !.version = NewVersion]
      BY <1>9, <2>2, Zenon DEF BeginPut
    <3>2. Uploading
      BY <3>1 DEF Uploading
    <3> HIDE DEF NewVersion
    <3> QED  BY <3>1, <3>2, FreshUploads, Zenon
  <2> QED  BY <2>1, <2>2
<1>10. CASE AppendChunk
  BY <1>1, <1>3, <1>10, AppendUpload, Zenon
<1> QED
  BY <1>5, <1>6, <1>7, <1>8, <1>9, <1>10, ReadItemUpload, CopyUpload, ReadAfterEndUpload, Zenon DEF Handler

(* Every step keeps the upload whole, in the handler and on the socket. *)
LEMMA UploadStep ==
    ASSUME TransferInv, Next
    PROVE  Chunked' /\ InFlight'
BY Kinds, RequestUpload, UploadHandler, UploadElsewhere, SrvStep, Zenon

-----------------------------------------------------------------------------
(* What a put reports *)

(* A version not yet committed is not below a committed one. *)
LEMMA Least ==
    ASSUME StoreInv, NEW v \in DOMAIN rows, NEW w \in Version, w \notin DOMAIN rows
    PROVE  v \in Nat /\ w \in Nat /\ w >= v
<1>1. v \in Version /\ v \in Nat /\ w \in Nat
  BY VersionsNumbered, Zenon DEF StoreInv, StoreShape
<1>2. ~ (w < v)
  BY Zenon DEF StoreInv, InOrder
<1> QED  BY <1>1, <1>2

(* A report stays true: a later version has a greater number. *)
LEMMA AcknowledgesKept ==
    ASSUME TransferInv, Next, Connected, cli'.object = cli.object, cli'.input = cli.input,
           NEW v, Acknowledges(v)
    PROVE  Acknowledges(v)'
<1>1. StoreInv /\ StoreShape /\ cli.object \in Object
  BY StoreFacts, Zenon DEF StoreInv, TransferInv, Paired
<1>2. /\ v \in DOMAIN rows /\ content[v] = [object |-> cli.object, data |-> cli.input]
      /\ damaged.faults = 0 => active[cli.object] # NoVersion /\ active[cli.object] >= v
  BY Zenon DEF Acknowledges
<1>3. v \in DOMAIN rows' /\ content'[v] = [object |-> cli'.object, data |-> cli'.input]
  <2>1. ContentKept
    BY StoreStep, Zenon
  <2> QED  BY <1>2, <2>1, Zenon DEF ContentKept
<1> SUFFICES ASSUME damaged'.faults = 0
             PROVE  active'[cli.object] # NoVersion /\ active'[cli.object] >= v
  BY <1>3, Zenon DEF Acknowledges
<1>4. CASE UNCHANGED store
  BY <1>2, <1>4, Zenon DEF store
<1>5. CASE CommitStep
  <2>1. PICK o \in Object, x \in Bytes, w \in Version : Commits(o, x, w)
    BY <1>1, <1>5, CommitFacts, Zenon
  <2>2. w \notin DOMAIN rows /\ active' = [active EXCEPT ![o] = w] /\ damaged' = damaged
    BY <2>1, Zenon DEF Commits
  <2>3. active \in [Object -> DOMAIN rows \cup {NoVersion}]
    BY <1>1, Zenon DEF StoreShape
  <2>4. active'[cli.object] = IF cli.object = o THEN w ELSE active[cli.object]
    BY <1>1, <2>2, <2>3, Zenon
  <2>5. w # NoVersion /\ w >= v
    BY <1>1, <1>2, <2>2, Least, VersionsNumbered, Zenon
  <2> QED  BY <1>2, <2>2, <2>4, <2>5, Zenon
<1>6. CASE (\E u \in DOMAIN rows : DamageRow(u)) \/ (\E o \in Object, u \in DOMAIN rows : DamagePointer(o, u))
  <2>1. damaged'.faults = damaged.faults + 1
    BY <1>1, <1>6 DEF DamageRow, DamagePointer, StoreShape
  <2>2. damaged.faults \in Nat
    BY <1>1 DEF StoreShape
  <2> QED  BY <2>1, <2>2
<1> QED  BY <1>4, <1>5, <1>6, StoreSteps, Zenon

(* finish_put commits what the client was given, and makes it active. *)
LEMMA FinishAcknowledges ==
    ASSUME TransferInv, Finish, Connected, cli' = cli, srv'.version = srv.version
    PROVE  Acknowledges(srv.version)'
<1>1. StoreInv /\ StoreShape /\ Paired /\ Numbered
  BY StoreFacts, Zenon DEF StoreInv, TransferInv
<1> DEFINE v == srv.version
           o == srv.object
<1>2. srv.at = "append" /\ Committed(o, v, FinishRow, srv.input)
  BY Zenon DEF Finish
<1>3. o \in Object /\ cli.object = o /\ cli.input = srv.input /\ v \in Version /\ v \in Nat /\ v # NoVersion
  BY <1>1, <1>2, VersionsNumbered, Zenon DEF Paired, Numbered, NewVersions
<1>4. v \in DOMAIN rows'
  BY <1>2, Zenon DEF Committed, With
<1>5. content'[v] = [object |-> o, data |-> srv.input]
  BY <1>2, Zenon DEF Committed, With
<1>6. active'[o] = v
  BY <1>1, <1>2, <1>3, Zenon DEF Committed, StoreShape
<1>7. v >= v
  BY <1>3
<1> QED  BY <1>3, <1>4, <1>5, <1>6, <1>7, Zenon DEF Acknowledges

(* What may be on the socket of a put. *)
Reported(item) ==
    /\ item.type \in {"frame", "error"}
    /\ item.type = "frame" /\ item.code = "Ok" => Acknowledges(item.version)

(* A report on the socket stays true while other versions are committed. *)
LEMMA ReportedKept ==
    ASSUME TransferInv, Next, Connected, cli'.object = cli.object, cli'.input = cli.input,
           NEW item, Reported(item)
    PROVE  Reported(item)'
BY AcknowledgesKept, Zenon DEF Reported

(* A step that sends at most one true report keeps Reports. *)
LEMMA ReportsNow ==
    ASSUME TransferInv, Next, Connected, cli.op = "put", cli'.object = cli.object, cli'.input = cli.input,
           \/ down' = down
           \/ down # <<>> /\ down' = Tail(down)
           \/ \E item : down' = Append(down, item) /\ Reported(item),
           srv'.at = "answer" /\ srv'.code = "Ok" => Acknowledges(srv.version)'
    PROVE  Reports'
<1>1. down \in Seq(SocketItem) /\ Reports
  BY TypesFacts, Zenon DEF TypesInv, ClientShape, Sockets, TransferInv
<1>2. \A k \in 1 .. Len(down) : Reported(down[k])
  BY <1>1, Zenon DEF Reports, Reported
<1>3. \A k \in 1 .. Len(down') : Reported(down'[k])
  <2>1. CASE down' = down
    BY <1>2, <2>1, Zenon
  <2>2. CASE down # <<>> /\ down' = Tail(down)
    <3>1. /\ Len(down') = Len(down) - 1
          /\ \A k \in 1 .. Len(down) - 1 : down'[k] = down[k + 1] /\ k + 1 \in 1 .. Len(down)
      BY <1>1, <2>2, Tails, Zenon
    <3> QED  BY <1>2, <3>1, Zenon
  <2>3. ASSUME NEW item, down' = Append(down, item), Reported(item)
        PROVE  \A k \in 1 .. Len(down') : Reported(down'[k])
    <3>1. /\ Len(down) \in Nat /\ Len(down') = Len(down) + 1 /\ down'[Len(down) + 1] = item
          /\ \A k \in 1 .. Len(down) : down'[k] = down[k]
      BY <1>1, <2>3, Appended, ZenonT(30)
    <3>2. \A k \in 1 .. Len(down) + 1 : k \in 1 .. Len(down) \/ k = Len(down) + 1
      BY <3>1
    <3> QED  BY <1>2, <2>3, <3>1, <3>2, Zenon
  <2> QED  BY <2>1, <2>2, <2>3, Zenon
<1>4. ASSUME NEW k \in 1 .. Len(down')
      PROVE  /\ down'[k].type \in {"frame", "error"}
             /\ down'[k].type = "frame" /\ down'[k].code = "Ok" => Acknowledges(down[k].version)'
  <2>1. Reported(down'[k])
    BY <1>3, Zenon
  <2>2. ASSUME down'[k].type = "frame", down'[k].code = "Ok"
        PROVE  Acknowledges(down[k].version)'
    <3>1. PICK v : v = down'[k].version /\ Acknowledges(v)
      BY <2>1, <2>2, Zenon DEF Reported
    <3>2. Acknowledges(v)'
      BY <3>1, AcknowledgesKept, Zenon
    <3> QED  BY <3>1, <3>2, Zenon DEF Acknowledges
  <2> QED  BY <2>1, <2>2, Zenon DEF Reported
<1> QED  BY <1>4, Zenon DEF Reports

(* The handler of a put reports only what it has committed. *)
LEMMA ReportsHandler ==
    ASSUME TransferInv, Next, Handler \/ StorageFails \/ Crash
    PROVE  Reports'
<1>1. Paired /\ Reports /\ SrvShape
  BY TypesFacts, Zenon DEF TypesInv, TransferInv
<1>2. cli' = cli /\ Connected' = Connected
  <2>1. cli' = cli
    BY HandlerMove, Zenon
  <2> QED  BY <2>1 DEF Connected
<1> SUFFICES ASSUME Connected, cli.op = "put"
             PROVE  Reports'
  BY <1>2, Zenon DEF Reports
<1>3. Serving
  BY DEF Handler, StorageFails, Crash, Refuse, Ready, Answer, BeginPut, ReadItem, CopyBytes, ReadAfterEnd,
       ReadFails, Waiting, AppendChunk, Finish, BeginGet, ServeChunk, ServeEnd, Serving
<1>4. srv.op = "put"
  BY <1>1, <1>3, Zenon DEF Paired
<1>5. ASSUME down' = down, srv'.at # "answer" PROVE Reports'
  BY <1>2, <1>5, ReportsNow, Zenon
<1>6. ASSUME NEW code, Returns(code), code = "Ok" => Finish PROVE Reports'
  <2>1. /\ srv' = Answering(srv.op, IF code = "Ok" THEN srv.version ELSE NoVersion, code)
        /\ down' = down
    BY <1>6, ReturnsFacts, Zenon
  <2>2. srv'.code = code /\ (code = "Ok" => srv'.version = srv.version)
    BY <2>1 DEF Answering
  <2>3. srv'.code = "Ok" => Acknowledges(srv.version)'
    BY <1>2, <1>6, <2>2, FinishAcknowledges, Zenon
  <2> QED  BY <1>2, <2>1, <2>3, ReportsNow, Zenon
<1>7. ASSUME NEW item, Reported(item), down' = Append(down, item), srv'.at # "answer"
      PROVE  Reports'
  BY <1>2, <1>7, ReportsNow, Zenon
<1>8. Closed.at # "answer"
  BY DEF Closed
<1>9. CASE Refuse
  <2>1. Reported(Frame("Overloaded", NoVersion))
    BY DEF Reported, Frame
  <2> QED  BY <1>7, <1>8, <1>9, <2>1, Zenon DEF Refuse, Respond
<1>10. CASE Ready
  <2>1. Reported(Frame("StreamReady", NoVersion))
    BY DEF Reported, Frame
  <2>2. srv'.at # "answer"
    BY <1>1, <1>8, <1>10 DEF Ready, SrvShape
  <2> QED  BY <1>7, <1>10, <2>1, <2>2, Zenon DEF Ready
<1>11. CASE Answer
  <2>1. srv.at = "answer"
    BY <1>11, Zenon DEF Answer
  <2>2. CASE srv.code # "Ok"
    <3>1. Respond(StreamError(srv.code))
      BY <1>11, <2>2 DEF Answer
    <3>2. Reported(StreamError(srv.code))
      BY DEF Reported, StreamError
    <3> QED  BY <1>7, <1>8, <3>1, <3>2, Zenon DEF Respond
  <2>3. CASE srv.code = "Ok"
    <3>1. Respond(Frame("Ok", srv.version))
      BY <1>4, <1>11, <2>3 DEF Answer
    <3>2. Acknowledges(srv.version)
      BY <1>1, <2>1, <2>3, Zenon DEF Reports
    <3>3. Reported(Frame("Ok", srv.version))
      <4>1. Frame("Ok", srv.version).type = "frame" /\ Frame("Ok", srv.version).version = srv.version
        BY DEF Frame
      <4> QED  BY <3>2, <4>1, Zenon DEF Reported
    <3> QED  BY <1>7, <1>8, <3>1, <3>3, Zenon DEF Respond
  <2> QED  BY <2>2, <2>3
<1>12. CASE Crash
  BY <1>5, <1>8, <1>12, Zenon DEF Crash
<1>13. CASE ReadFails \/ StorageFails
  <2>1. Returns("Storage") /\ "Storage" # "Ok"
    BY <1>13, Zenon DEF ReadFails, StorageFails
  <2> QED  BY <1>6, <2>1, Zenon
<1>14. CASE Finish
  <2>1. \E code : Returns(code)
    BY <1>14, Zenon DEF Finish
  <2> QED  BY <1>6, <1>14, <2>1, Zenon
<1>15. CASE BeginPut
  <2>1. CASE Returns("Locked")
    <3>1. "Locked" # "Ok"
      OBVIOUS
    <3> QED  BY <1>6, <2>1, <3>1, Zenon
  <2>2. CASE ~ Returns("Locked")
    <3>1. down' = down /\ srv' = [srv EXCEPT !.at = "read", !.version = NewVersion]
      BY <1>15, <2>2, Zenon DEF BeginPut
    <3> HIDE DEF NewVersion
    <3>2. srv'.at # "answer"
      BY <1>1, <3>1 DEF SrvShape
    <3> QED  BY <1>5, <3>1, <3>2, Zenon
  <2> QED  BY <2>1, <2>2
<1>16. CASE ReadItem \/ CopyBytes \/ ReadAfterEnd
  <2>1. down' = down
    BY <1>16, Zenon DEF ReadItem, CopyBytes, ReadAfterEnd
  <2>2. srv'.at # "answer"
    BY <1>1, <1>16, Zenon DEF ReadItem, CopyBytes, ReadAfterEnd, SrvShape
  <2> QED  BY <1>5, <2>1, <2>2, Zenon
<1>17. CASE AppendChunk
  <2>1. CASE Returns("InvalidInput")
    <3>1. "InvalidInput" # "Ok"
      OBVIOUS
    <3> QED  BY <1>6, <2>1, <3>1, Zenon
  <2>2. CASE ~ Returns("InvalidInput")
    <3>1. Chunked
      BY Zenon DEF TransferInv
    <3> DEFINE cs == With(srv.chunks, Count, SealChunk(srv.object, srv.version, Count, srv.buf))
               l == srv.length + Len(srv.buf)
    <3>2. srv' = [srv EXCEPT !.chunks = cs, !.length = l, !.buf = <<>>, !.at = "read"] /\ down' = down
      BY <1>17, <2>2, Zenon DEF AppendChunk
    <3> HIDE DEF cs, l
    <3>3. srv'.at # "answer"
      BY <1>1, <3>2 DEF SrvShape
    <3> QED  BY <1>5, <3>2, <3>3, Zenon
  <2> QED  BY <2>1, <2>2
<1>18. CASE BeginGet \/ ServeChunk \/ ServeEnd
  <2>1. srv.op = "get"
    BY <1>1, <1>18 DEF BeginGet, ServeChunk, ServeEnd, Paired
  <2> QED  BY <1>4, <2>1, SMTT(30)
<1> QED
  BY <1>9, <1>10, <1>11, <1>12, <1>13, <1>14, <1>15, <1>16, <1>17, <1>18, Zenon DEF Handler

(* Every step keeps what is reported to the client of a put true. *)
LEMMA ReportsStep ==
    ASSUME TransferInv, Next
    PROVE  Reports'
<1>1. CASE Requested
  <2>1. PICK op \in {"put", "get"}, o \in Object, x \in Bytes : Request(op, o, x)
    BY <1>1, Zenon DEF Requested
  <2>2. srv'.at = "request" /\ down' = <<>>
    BY <2>1, RequestSrv
  <2>3. 1 .. Len(down') = {} /\ srv'.at # "answer"
    BY <2>2
  <2> QED  BY <2>3, Zenon DEF Reports
<1>2. CASE Elsewhere
  <2> SUFFICES ASSUME Connected', cli'.op = "put" PROVE Reports'
    BY Zenon DEF Reports
  <2>1. srv' = srv
    BY <1>2, ClientMove, Zenon
  <2>2. /\ Connected /\ cli'.op = cli.op /\ cli'.object = cli.object /\ cli'.input = cli.input
        /\ down' = down \/ (down # <<>> /\ down' = Tail(down))
    BY <1>2, StaysConnected, Zenon
  <2>3. srv.at = "answer" /\ srv.code = "Ok" => Acknowledges(srv.version)
    BY <2>2, Zenon DEF TransferInv, Reports
  <2>4. srv'.at = "answer" /\ srv'.code = "Ok" => Acknowledges(srv.version)'
    <3> SUFFICES ASSUME srv.at = "answer", srv.code = "Ok" PROVE Acknowledges(srv.version)'
      BY <2>1, Zenon
    <3>1. PICK v : v = srv.version /\ Acknowledges(v)
      BY <2>3, Zenon
    <3>2. Acknowledges(v)'
      BY <2>2, <3>1, AcknowledgesKept, Zenon
    <3> QED  BY <2>1, <3>1, <3>2, Zenon DEF Acknowledges
  <2> QED  BY <2>2, <2>4, ReportsNow, Zenon
<1> QED  BY <1>1, <1>2, Kinds, ReportsHandler, Zenon
=============================================================================
