----------------------- MODULE StreamTransferProofs -----------------------
(***************************************************************************)
(* TransferInv is inductive, for any plaintexts, chunk and item sizes,      *)
(* number of versions, faults and socket buffer, and the safety properties  *)
(* of streamed transfers follow from it.                                    *)
(***************************************************************************)
EXTENDS StreamUploadProofs, StreamDownloadProofs

-----------------------------------------------------------------------------
(* The output file *)

(* The output changes when the client publishes it or the user takes it. *)
LEMMA FileSteps ==
    ASSUME TransferInv, Next
    PROVE  file' = file \/ PublishOutput \/ TakeOutput
<1>1. CASE Requested
  BY <1>1, Zenon DEF Requested, Request
<1>2. CASE Handler \/ StorageFails \/ Crash
  BY <1>2, HandlerMove, Zenon
<1>3. CASE Elsewhere
  <2>1. ASSUME NEW n, SendChunk(n) PROVE file' = file
    BY <2>1, Zenon DEF SendChunk
  <2>2. CASE AwaitReady \/ SendEnd \/ AwaitPublished \/ ReceiveItem \/ LoseDaemon \/ Abort
    BY <2>2, Zenon DEF AwaitReady, SendEnd, AwaitPublished, ReceiveItem, LoseDaemon, Abort
  <2>3. ASSUME NEW o, NEW x, BufferedPut(o, x) PROVE file' = file
    BY <2>3, Zenon DEF BufferedPut
  <2>4. ASSUME NEW o, NEW v, DamagePointer(o, v) \/ DamageRow(v) PROVE file' = file
    BY <2>4, Zenon DEF DamagePointer, DamageRow
  <2>5. CASE Unlock \/ Lock
    BY <2>5, Zenon DEF Unlock, Lock
  <2> QED  BY <1>3, <2>1, <2>2, <2>3, <2>4, <2>5, Zenon DEF Elsewhere
<1> QED  BY <1>1, <1>2, <1>3, Kinds, Zenon

(* Every step keeps the output whole. *)
LEMMA OutputStep ==
    ASSUME TransferInv, Next
    PROVE  OutputWhole'
<1>1. StoreShape /\ StoreShape' /\ ContentKept /\ OutputWhole
  BY StoreFacts, StoreStep, Zenon DEF StoreInv, TransferInv
<1>2. CASE file' = file
  <2> SUFFICES ASSUME file.there PROVE file'.data \in Published(file.object)'
    BY <1>2, Zenon DEF OutputWhole
  <2>1. PICK o : o = file.object
    BY Zenon
  <2>2. file.data \in Published(o)
    BY <1>1, <2>1, Zenon DEF OutputWhole
  <2>3. file.data \in Published(o)'
    BY <1>1, <2>2, PublishedKept, Zenon
  <2> QED  BY <1>2, <2>1, <2>3, Zenon DEF Published
<1>3. CASE PublishOutput
  <2>1. cli.at = "publish" /\ file' = [there |-> TRUE, object |-> cli.object, data |-> cli.temp]
    BY <1>3, Zenon DEF PublishOutput
  <2>2. PICK o : o = cli.object
    BY Zenon
  <2>3. Connected /\ cli.op = "get"
    BY <2>1, SMTT(20) DEF TransferInv, Paired, Connected
  <2>4. cli.temp \in Published(o)
    BY <2>1, <2>2, <2>3, DownloadsParts, Zenon DEF TransferInv, ReadyToPublish
  <2>5. cli.temp \in Published(o)'
    BY <1>1, <2>4, PublishedKept, Zenon
  <2>6. file'.data = cli.temp /\ file'.object = o
    BY <2>1, <2>2
  <2> QED  BY <2>5, <2>6, Zenon DEF OutputWhole, Published
<1>4. CASE TakeOutput
  <2>1. ~ file'.there
    BY <1>4, SMTT(30) DEF TakeOutput, NoFile
  <2> QED  BY <2>1, Zenon DEF OutputWhole
<1> QED  BY <1>2, <1>3, <1>4, FileSteps, Zenon

-----------------------------------------------------------------------------
(* The invariant *)

(* The invariant holds initially. *)
LEMMA InitInv == Init => TransferInv
<1> SUFFICES ASSUME Init PROVE TransferInv
  OBVIOUS
<1>1. /\ rows = <<>> /\ content = <<>> /\ active = [o \in Object |-> NoVersion]
      /\ damaged = [versions |-> {}, faults |-> 0]
      /\ unlocked = FALSE /\ up = <<>> /\ down = <<>>
  BY Zenon DEF Init
<1>2. /\ srv.at = "closed" /\ srv.op = "none" /\ srv.buf = <<>> /\ srv.chunks = <<>>
      /\ cli.at = "gone" /\ cli.result = "none" /\ ~ file.there
  BY DEF Init, Closed, Gone, NoFile
<1>3. DOMAIN rows = {} /\ DOMAIN content = {}
  BY <1>1, NoChunks, Zenon
<1>4. SrvShape
  <2>1. srv = Closed
    BY Zenon DEF Init
  <2>2. Count = 0
    BY <2>1, NoChunks, SMTT(20) DEF Count, Closed
  <2> QED  BY <2>1, <2>2, EmptyBytes, ChunkPolicy, SMTT(20) DEF Closed, SrvShape, Ops, Objects, Versions, Codes
<1>5. CliShape
  BY EmptyBytes, SMTT(30) DEF Init, Gone, CliShape, Ops, Objects, Codes
<1>6. FileShape
  BY EmptyBytes, SMTT(30) DEF Init, NoFile, FileShape, Objects
<1>7. Sockets
  BY <1>1, SMTT(30) DEF Sockets
<1>8. Shapes
  <2>1. content \in [DOMAIN rows -> [object : Object, data : Bytes]]
    BY <1>1
  <2>2. damaged \in [versions : SUBSET Version, faults : Nat]
    BY <1>1, SMTT(30)
  <2>3. active \in [Object -> DOMAIN rows \cup {NoVersion}]
    BY <1>1, <1>3, SMTT(30)
  <2>4. unlocked \in BOOLEAN /\ file.there \in BOOLEAN
    BY <1>1, <1>6, Zenon DEF FileShape
  <2>5. TTypeOK
    BY <1>2, <1>3, <1>4, <2>3, <2>4, SMTT(30) DEF TTypeOK, SrvShape
  <2> QED  BY <1>4, <1>5, <1>6, <1>7, <2>1, <2>2, <2>5, Zenon DEF Shapes, SrvShape, CliShape, FileShape, Sockets
<1>9. Paired /\ Reports /\ Downloads /\ Written /\ OutputWhole /\ Chunked /\ InFlight
  <2>1. ~ Connected /\ ~ Serving /\ srv.at # "serve" /\ srv.at # "answer" /\ ~ Uploading
    BY <1>2 DEF Connected, Serving, Uploading
  <2>2. Paired
    BY <1>2, <2>1, SMTT(20) DEF Paired
  <2> QED  BY <1>2, <2>1, <2>2, Zenon DEF Reports, Downloads, Written, OutputWhole, Chunked, InFlight
<1>10. Numbered /\ Sealed /\ StoredWhole
  BY <1>2, <1>3, SMTT(20) DEF Numbered, Sealed, StoredWhole
<1> QED  BY <1>8, <1>9, <1>10, Zenon DEF TransferInv

(* The invariant is preserved by every step. *)
LEMMA InvStep ==
    ASSUME TransferInv, Next
    PROVE  TransferInv'
BY ShapesStep, PairedStep, NumberedStep, StoreStep, UploadStep, ReportsStep, WrittenStep, DownloadsStep, OutputStep,
   Zenon DEF TransferInv, StoreInv

(* The invariant is preserved by a stuttering step. *)
LEMMA Stutters ==
    ASSUME TransferInv, UNCHANGED vars
    PROVE  TransferInv'
<1>1. /\ rows' = rows /\ active' = active /\ content' = content /\ damaged' = damaged
      /\ unlocked' = unlocked /\ srv' = srv /\ cli' = cli /\ up' = up /\ down' = down /\ file' = file
  BY Zenon DEF vars, store
<1>2. /\ Shapes /\ Paired /\ Numbered /\ Sealed /\ StoredWhole
      /\ Chunked /\ InFlight /\ Reports /\ Written /\ Downloads /\ OutputWhole
  BY Zenon DEF TransferInv
<1>3. Shapes'
  BY <1>1, <1>2, Zenon DEF Shapes, TTypeOK, Count
<1>4. Paired'
  BY <1>1, <1>2, ZenonT(30) DEF Paired, Serving, Connected
<1>5. Numbered'
  BY <1>1, <1>2, Zenon DEF Numbered, NewVersions
<1>6. Sealed' /\ StoredWhole'
  <2>1. Manifests' = Manifests /\ ChunkRecords' = ChunkRecords
    BY <1>1 DEF Manifests, ChunkRecords, Original
  <2>2. Sealed'
    BY <1>1, <1>2, <2>1, Zenon DEF Sealed
  <2>3. StoredWhole'
    BY <1>1, <1>2, Zenon DEF StoredWhole
  <2> QED  BY <2>2, <2>3, Zenon
<1>7. Uploading' = Uploading /\ Copied' = Copied /\ Taken' = Taken /\ Count' = Count
  BY <1>1, Zenon DEF Uploading, Copied, Taken, Count
<1>8. Chunked' /\ InFlight'
  <2>1. Chunked'
    BY <1>1, <1>2, <1>7, SMTT(20) DEF Chunked
  <2>2. ASSUME NEW c, InputCut(c) PROVE InputCut(c)'
    BY <1>1, <1>7, <2>2, Zenon DEF InputCut
  <2>3. InFlight'
    BY <1>1, <1>2, <1>7, <2>2, Zenon DEF InFlight
  <2> QED  BY <2>1, <2>3, Zenon
<1>9. Reports'
  BY <1>1, <1>2, Zenon DEF Reports, Acknowledges, Connected
<1>10. Written'
  BY <1>1, <1>2, Zenon DEF Written, Original
<1>11. Downloads'
  <2>1. Connected' = Connected /\ Serving' = Serving /\ Ended' = Ended
    BY <1>1, Zenon DEF Connected, Serving, Ended
  <2>2. ASSUME NEW x, Delivers(x) PROVE Delivers(x)'
    BY <1>1, <2>2, Zenon DEF Delivers, OutputCut
  <2>3. Delivers(srv.written) => Delivers(srv.written)'
    <3>1. PICK w : w = srv.written
      BY Zenon
    <3>2. Delivers(w)' => Delivers(srv.written)'
      BY <1>1, <3>1, DeliversWritten, Zenon
    <3> QED  BY <2>2, <3>1, <3>2, Zenon
  <2>4. Published(cli.object)' = Published(cli.object)
    BY <1>1, Zenon DEF Published
  <2> SUFFICES ASSUME Connected, cli.op = "get" PROVE Downloads'
    BY <1>1, <2>1, Zenon DEF Downloads
  <2>5. ItemOrder /\ FirstItem /\ Delivery /\ ReadyToPublish
    BY <1>2, DownloadsParts, Zenon
  <2>6. ItemOrder' /\ FirstItem' /\ ReadyToPublish'
    BY <1>1, <2>1, <2>4, <2>5, Zenon DEF ItemOrder, FirstItem, ReadyToPublish
  <2>7. PublishedOnce => PublishedOnce'
    BY <2>2, <2>4, Zenon DEF PublishedOnce
  <2>8. Delivery'
    BY <1>1, <2>1, <2>2, <2>3, <2>5, <2>7, Zenon DEF Delivery
  <2> QED  BY <2>6, <2>8, DownloadsWhole, Zenon
<1>12. OutputWhole'
  BY <1>1, <1>2, Zenon DEF OutputWhole, Published
<1> QED
  BY <1>3, <1>4, <1>5, <1>6, <1>7, <1>8, <1>9, <1>10, <1>11, <1>12, Zenon DEF TransferInv

(* The inductive invariant of the streamed transfers: what is stored, what is *)
(* on the socket in either direction and what the client has received fit     *)
(* together after any interleaving of the handler, the client, the vault's    *)
(* other callers and the faults.                                              *)
THEOREM TransferInvariant == Spec => []TransferInv
<1>1. TransferInv /\ [Next]_vars => TransferInv'
  BY InvStep, Stutters, Zenon
<1> QED  BY <1>1, InitInv, PTL DEF Spec

(* serve_stream, put_from_reader and get_to_writer keep every variable in its *)
(* type: read_next_chunk never fills its buffer beyond a chunk, and a         *)
(* transaction never holds more chunks than a version may have.               *)
THEOREM TransferTypeCorrect == Spec => []TTypeOK
<1>1. TransferInv => TTypeOK
  BY Zenon DEF TransferInv, Shapes
<1> QED  BY <1>1, TransferInvariant, PTL

(* What put_from_reader commits is the client's input in the layout of        *)
(* prepare_version, however the socket cut it up.                             *)
THEOREM TransferStoresWhole == Spec => []StoredWhole
<1>1. TransferInv => StoredWhole
  BY Zenon DEF TransferInv
<1> QED  BY <1>1, TransferInvariant, PTL

(* The output of the CLI's get is a plaintext published for the object that   *)
(* was asked for, or absent.                                                  *)
THEOREM TransferOutputWhole == Spec => []OutputWhole
<1>1. TransferInv => OutputWhole
  BY Zenon DEF TransferInv
<1> QED  BY <1>1, TransferInvariant, PTL

(* What get_to_writer has handed out are whole chunks of one plaintext that   *)
(* was published for the object, in their order, and none is missing unless a *)
(* fault has touched the rows of the version.                                 *)
THEOREM TransferSendsVerified == Spec => []SentVerified
<1>1. ASSUME TransferInv PROVE SentVerified
  <2> SUFFICES ASSUME srv.at = "serve"
               PROVE  \E x \in Published(srv.object) :
                         /\ ChunksOf(srv.written, x, srv.next)
                         /\ srv.version \notin damaged.versions =>
                               srv.written = SubSeq(x, 1, Len(srv.written))
    BY Zenon DEF SentVerified
  <2> DEFINE x == content[srv.version].data
  <2>1. /\ srv.version \in DOMAIN rows /\ content[srv.version].object = srv.object
        /\ Passes(x, srv.written, srv.next)
        /\ srv.version \notin damaged.versions => Len(srv.written) = Passed(x, srv.next)
    BY <1>1, ZenonT(30) DEF TransferInv, Written
  <2>2. srv.version \in DOMAIN content
    BY <1>1, <2>1, Zenon DEF TransferInv, Shapes, TTypeOK
  <2>3. x \in Published(srv.object)
    BY <2>1, <2>2, Zenon DEF Published
  <2>4. ChunksOf(srv.written, x, srv.next)
    BY <2>1, Zenon DEF Passes
  <2>5. srv.version \notin damaged.versions => srv.written = SubSeq(x, 1, Len(srv.written))
    BY <2>1, Zenon DEF Passes
  <2> QED  BY <2>3, <2>4, <2>5, Zenon
<1> QED  BY <1>1, TransferInvariant, PTL

(* A put that the CLI reports as published has become a version of the vault  *)
(* that holds its input, and the pointer does not name an older one.          *)
THEOREM TransferAcknowledges == Spec => PutAcknowledged
<1> DEFINE Kept == cli.at = "answer" /\ cli'.result = "Ok" /\ damaged.faults = 0 =>
                     LET v == Head(down).version IN
                     /\ v \in DOMAIN content
                     /\ content[v] = [object |-> cli.object, data |-> cli.input]
                     /\ active[cli.object] # NoVersion /\ active[cli.object] >= v
<1>1. ASSUME TransferInv, Next PROVE Kept
  <2> SUFFICES ASSUME cli.at = "answer", cli'.result = "Ok", damaged.faults = 0
               PROVE  LET v == Head(down).version IN
                      /\ v \in DOMAIN content
                      /\ content[v] = [object |-> cli.object, data |-> cli.input]
                      /\ active[cli.object] # NoVersion /\ active[cli.object] >= v
    BY Zenon
  <2>1. /\ Connected /\ cli.op = "put" /\ cli.result # "Ok"
    BY <1>1, SMTT(20) DEF TransferInv, Paired, Connected
  <2>2. AwaitPublished
    <3>1. ASSUME cli' = cli PROVE FALSE
      BY <2>1, <3>1, Zenon
    <3>2. ASSUME Ends("failed") PROVE FALSE
      BY <3>2, SMTT(30) DEF Ends, Gone
    <3>3. CASE Requested
      BY <2>1, <3>3, Zenon DEF Requested, Request
    <3>4. CASE Handler \/ StorageFails \/ Crash
      BY <1>1, <3>1, <3>4, HandlerMove, Zenon
    <3>5. CASE AwaitReady \/ (\E n \in 1 .. ItemSize : SendChunk(n)) \/ SendEnd \/ ReceiveItem \/ PublishOutput
      BY <3>5, SMTT(30) DEF AwaitReady, SendChunk, SendEnd, ReceiveItem, PublishOutput
    <3>6. CASE LoseDaemon \/ Abort
      BY <3>2, <3>6, Zenon DEF LoseDaemon, Abort
    <3>7. CASE Elsewhere
      BY <3>1, <3>5, <3>6, <3>7, Zenon
         DEF Elsewhere, TakeOutput, Unlock, Lock, BufferedPut, DamageRow, DamagePointer
    <3> QED  BY <1>1, <3>3, <3>4, <3>7, Kinds, Zenon
  <2>3. Sockets
    BY <1>1, TypesFacts, Zenon DEF TypesInv, ClientShape
  <2> DEFINE item == Head(down)
  <2>4. down # <<>> /\ cli'.result = ReadFrame(item)
    BY <2>2, SMTT(20) DEF AwaitPublished, Ends, Gone
  <2>5. /\ item = down[1] /\ 1 \in 1 .. Len(down)
        /\ item.type \in {"frame", "error"} /\ item.code \in Codes
    BY <1>1, <2>3, <2>4, HeadItem, SMTT(20)
  <2>6. item.type = "frame" /\ item.code = "Ok"
    BY <2>4, <2>5, ReadFrameCode, SMTT(20)
  <2>7. Acknowledges(item.version)
    BY <1>1, <2>1, <2>5, <2>6, Zenon DEF TransferInv, Reports
  <2>8. DOMAIN content = DOMAIN rows
    BY <1>1, Zenon DEF TransferInv, Shapes, TTypeOK
  <2> QED  BY <2>7, <2>8, Zenon DEF Acknowledges
<1>2. ASSUME TransferInv, UNCHANGED vars PROVE Kept
  <2>1. cli' = cli
    BY <1>2, ZenonT(30) DEF vars
  <2>2. cli.at = "answer" => cli.result # "Ok"
    BY <1>2, SMTT(20) DEF TransferInv, Paired, Connected
  <2> QED  BY <2>1, <2>2, Zenon
<1>3. TransferInv /\ [Next]_vars => [Kept]_vars
  BY <1>1, <1>2, Zenon
<1> QED  BY <1>3, TransferInvariant, PTL DEF Spec, PutAcknowledged
=============================================================================
