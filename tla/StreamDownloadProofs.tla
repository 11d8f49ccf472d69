------------------------ MODULE StreamDownloadProofs ------------------------
(***************************************************************************)
(* Downloads: what the handler hands out, what is on the socket and what    *)
(* the client has are pieces of one published plaintext.                    *)
(***************************************************************************)
EXTENDS StreamStoreProofs

-----------------------------------------------------------------------------
(* Downloads: what the handler has written *)

(* What a version was committed with never changes. *)
LEMMA OriginalKept ==
    ASSUME ContentKept, NEW v \in DOMAIN rows
    PROVE  Original(v)' = Original(v)
<1>1. content'[v] = content[v]
  BY Zenon DEF ContentKept
<1> QED  BY <1>1, Zenon DEF Original

(* A version that was damaged stays marked. *)
LEMMA DamageKept ==
    ASSUME TransferInv, Next
    PROVE  damaged.versions \subseteq damaged'.versions
<1>1. damaged \in [versions : SUBSET Version, faults : Nat]
  BY StoreFacts, Zenon DEF StoreInv, StoreShape
<1>2. ASSUME damaged' = damaged PROVE damaged.versions \subseteq damaged'.versions
  BY <1>2, Zenon
<1>3. UNCHANGED store \/ CommitStep => damaged' = damaged
  BY Zenon DEF store, CommitStep, Committed
<1>4. ASSUME NEW v \in DOMAIN rows, DamageRow(v)
      PROVE  damaged.versions \subseteq damaged'.versions
  BY <1>4 DEF DamageRow
<1>5. ASSUME NEW o \in Object, NEW v \in DOMAIN rows, DamagePointer(o, v)
      PROVE  damaged.versions \subseteq damaged'.versions
  BY <1>1, <1>5 DEF DamagePointer
<1> QED  BY <1>2, <1>3, <1>4, <1>5, StoreSteps, Zenon

(* In rows that no fault has touched the next chunk row is the next chunk. *)
LEMMA NextChunk ==
    ASSUME StoreShape, Sealed, StoredWhole, NEW v \in DOMAIN rows \ damaged.versions,
           v = srv.version, srv.next \in Nat, Ahead # {}
    PROVE  Min(Ahead) = srv.next
<1> DEFINE o == content[v].object
           x == content[v].data
           n == ChunkCount(x)
<1>1. x \in Bytes
  BY DEF StoreShape
<1>2. rows[v] = PrepareVersion(o, v, x)
  BY Zenon DEF StoredWhole
<1> HIDE DEF o, x
<1>3. DOMAIN Stored = 0 .. n - 1 /\ n \in Nat
  <2>1. DOMAIN rows[v].chunks = 0 .. n - 1 /\ n \in Nat
    BY <1>1, <1>2, PreparedRow
  <2> QED  BY <2>1, Zenon DEF Stored
<1> HIDE DEF n
<1>4. Ahead \in SUBSET Nat /\ \A k \in Ahead : k \in 0 .. n - 1 /\ srv.next <= k
  BY <1>3, SMTT(20) DEF Ahead
<1>5. srv.next \in Ahead
  BY <1>3, <1>4, SMTT(20) DEF Ahead
<1>6. Min(Ahead) \in Ahead /\ Min(Ahead) <= srv.next
  BY <1>4, <1>5, MinOfSet, Zenon
<1> DEFINE i == Min(Ahead)
<1>7. i \in Nat /\ i <= srv.next /\ srv.next <= i
  BY <1>4, <1>6, Zenon
<1> HIDE DEF i
<1>8. i = srv.next
  BY <1>7, SMTT(20)
<1> QED  BY <1>8, Zenon DEF i

(* Chunk i carries on from where the chunks before it end. *)
LEMMA PassedOne ==
    ASSUME NEW x \in Bytes, NEW w \in Bytes, NEW i \in Nat, i < ChunkCount(x), Len(w) = Passed(x, i)
    PROVE  Len(w \o Slice(x, i)) = Passed(x, i + 1)
<1> DEFINE from == ChunkSize * i
           to == Min({ChunkSize * (i + 1), Len(x)})
           part == Slice(x, i)
<1>1. /\ from \in Nat /\ from < Len(x) /\ to \in Nat
      /\ part \in Bytes /\ Len(part) = to - from
  BY SliceFacts, Zenon
<1>2. Len(x) \in Nat
  BY DEF Bytes
<1> HIDE DEF from, to, part
<1>3. Min({from, Len(x)}) = from
  <2>1. from \in Int /\ Len(x) \in Int /\ from <= Len(x)
    BY <1>1, <1>2, SMTT(20)
  <2> QED  BY <2>1, MinOfTwo, Zenon
<1>4. Len(w) = from
  BY <1>3, Zenon DEF Passed, from
<1>5. Len(w \o part) = to
  BY <1>1, <1>4, SMTT(30) DEF Bytes
<1> QED  BY <1>5, Zenon DEF Passed, to, part

(* A download that its handler leaves alone. *)
LEMMA WrittenKept ==
    ASSUME Written, ContentKept, damaged.versions \subseteq damaged'.versions, srv' = srv
    PROVE  Written'
<1> SUFFICES ASSUME srv.at = "serve" PROVE Written'
  BY Zenon DEF Written
<1>1. PICK v : v = srv.version
  BY Zenon
<1>2. /\ v \in DOMAIN rows /\ content[v].object = srv.object /\ srv.manifest = Original(v).manifest.data
      /\ Passes(content[v].data, srv.written, srv.next)
      /\ v \notin damaged.versions => Len(srv.written) = Passed(content[v].data, srv.next)
  BY <1>1, Zenon DEF Written
<1>3. v \in DOMAIN rows' /\ content'[v] = content[v]
  BY <1>2, Zenon DEF ContentKept
<1>4. Original(v)' = Original(v)
  BY <1>2, OriginalKept, Zenon
<1>5. Original(srv.version)' = Original(v)'
  BY <1>1, Zenon DEF Original
<1> QED  BY <1>1, <1>2, <1>3, <1>4, <1>5, Zenon DEF Written

(* A manifest that opens for an object and a version is the one sealed for it. *)
LEMMA OpenedManifest ==
    ASSUME StoreShape, Sealed, NEW o, NEW v \in DOMAIN rows, Readable(o, v, rows[v])
    PROVE  content[v].object = o /\ rows[v].manifest = Original(v).manifest
<1>1. rows[v].manifest.aad = ManifestAad(o, v)
  BY Zenon DEF Readable, Opens
<1>2. PICK u \in DOMAIN rows : rows[v].manifest = Original(u).manifest
  BY Zenon DEF Sealed, Manifests
<1>3. content[u].data \in Bytes
  BY DEF StoreShape
<1>4. Original(u).manifest.aad = ManifestAad(content[u].object, u)
  <2> DEFINE row == PrepareVersion(content[u].object, u, content[u].data)
             key == ManifestKey(Dek(u), u)
             aad == ManifestAad(content[u].object, u)
             data == Manifest(content[u].object, u, Len(content[u].data), row.chunks)
  <2>1. row.manifest = Seal(key, aad, data)
    BY <1>3, PreparedRow, ZenonT(30)
  <2> HIDE DEF row, key, aad, data
  <2>2. Seal(key, aad, data).aad = aad
    BY DEF Seal
  <2>3. row.manifest.aad = aad
    BY <2>1, <2>2, Zenon
  <2> QED  BY <2>3, Zenon DEF Original, row, aad
<1>5. u = v /\ content[u].object = o
  BY <1>1, <1>2, <1>4 DEF ManifestAad
<1> QED  BY <1>2, <1>5, Zenon

(* The first pass opens the manifest of a committed version of the object. *)
LEMMA BeginGetWritten ==
    ASSUME TransferInv, BeginGet, srv'.at = "serve"
    PROVE  Written'
<1>1. Paired /\ SrvShape /\ StoreShape /\ Sealed
  BY TypesFacts, Zenon DEF TypesInv, StoreInv, TransferInv
<1> DEFINE v == active[srv.object]
           m == rows[v].manifest.data
<1>2. srv.at = "begin" /\ content' = content /\ rows' = rows
  BY Zenon DEF BeginGet, store
<1>3. ASSUME NEW code, Returns(code) PROVE FALSE
  BY <1>3, ReturnsFacts DEF Answering
<1>4. v # NoVersion /\ Readable(srv.object, v, rows[v])
      /\ srv' = [srv EXCEPT !.at = "serve", !.version = v, !.manifest = m]
  BY <1>3, Zenon DEF BeginGet
<1>5. srv.next = 0 /\ srv.written = <<>> /\ srv.object \in Object
  BY <1>1, <1>2 DEF Paired
<1>6. v \in DOMAIN rows
  BY <1>1, <1>4, <1>5 DEF StoreShape
<1>7. content[v].object = srv.object /\ m = Original(v).manifest.data
  BY <1>1, <1>4, <1>6, OpenedManifest, Zenon
<1>8. content[v].data \in Bytes
  BY <1>1, <1>6 DEF StoreShape
<1>9. Passes(content[v].data, <<>>, 0) /\ Len(<<>>) = Passed(content[v].data, 0)
  <2>1. Passes(content[v].data, <<>>, 0)
    BY <1>8, PassesNone, Zenon
  <2>2. ChunkSize * 0 = 0 /\ 0 \in Int /\ Len(content[v].data) \in Int /\ 0 <= Len(content[v].data)
        /\ Len(<<>>) = 0
    BY <1>8, ChunkPolicy, SMTT(20) DEF Bytes
  <2>3. Min({ChunkSize * 0, Len(content[v].data)}) = 0
    BY <2>2, MinOfTwo, Zenon
  <2> QED  BY <2>1, <2>2, <2>3, Zenon DEF Passed
<1> HIDE DEF v, m
<1>10. /\ srv'.version = v /\ srv'.manifest = m /\ srv'.next = 0 /\ srv'.written = <<>>
       /\ srv'.object = srv.object
  BY <1>1, <1>4, <1>5, SMTT(30) DEF SrvShape
<1>11. Original(srv.version)' = Original(v)
  BY <1>2, <1>10, Zenon DEF Original
<1> QED  BY <1>2, <1>6, <1>7, <1>9, <1>10, <1>11, Zenon DEF Written

(* ServeChunk hands out a later chunk of the same plaintext. *)
LEMMA ServeWritten ==
    ASSUME TransferInv, ServeChunk, srv'.at = "serve"
    PROVE  Written'
<1>1. SrvShape /\ StoreShape /\ Sealed /\ StoredWhole /\ Written
  BY TypesFacts, Zenon DEF TypesInv, StoreInv, TransferInv
<1> DEFINE v == srv.version
           x == content[v].data
<1>2. /\ srv.at = "serve" /\ Ahead # {}
      /\ content' = content /\ rows' = rows /\ damaged' = damaged
  BY Zenon DEF ServeChunk, store
<1>3. ASSUME NEW code, Returns(code) PROVE FALSE
  BY <1>3, ReturnsFacts DEF Answering
<1>4. PICK i \in Nat : /\ srv.next <= i /\ i < ChunkCount(x) /\ x \in Bytes
                      /\ Serves(i, Slice(x, i)) /\ i = Min(Ahead)
  BY <1>1, <1>3, ServeFacts, Zenon
<1>5. /\ v \in DOMAIN rows /\ content[v].object = srv.object /\ srv.manifest = Original(v).manifest.data
      /\ Passes(x, srv.written, srv.next)
      /\ v \notin damaged.versions => Len(srv.written) = Passed(x, srv.next)
  BY <1>1, <1>2, Zenon DEF Written
<1> DEFINE w == srv.written \o Slice(x, i)
<1>6. /\ Passes(x, w, i + 1)
      /\ v \notin damaged.versions => Len(w) = Passed(x, i + 1)
  <2>1. srv.written \in Bytes /\ srv.next \in Nat
    BY <1>1 DEF SrvShape
  <2>2. Passes(x, w, i + 1)
    BY <1>4, <1>5, <2>1, PassesOne, Zenon
  <2>3. ASSUME v \notin damaged.versions PROVE Len(w) = Passed(x, i + 1)
    <3>1. i = srv.next
      BY <1>1, <1>2, <1>4, <1>5, <2>1, <2>3, NextChunk, Zenon
    <3> QED  BY <1>4, <1>5, <2>1, <2>3, <3>1, PassedOne, Zenon
  <2> QED  BY <2>2, <2>3, Zenon
<1>7. srv' = [srv EXCEPT !.next = i + 1, !.written = w]
  BY <1>4, Zenon DEF Serves
<1> HIDE DEF w
<1>8. /\ srv'.version = v /\ srv'.manifest = srv.manifest /\ srv'.next = i + 1 /\ srv'.written = w
      /\ srv'.object = srv.object
  BY <1>1, <1>7 DEF SrvShape
<1>9. Original(srv.version)' = Original(v)
  BY <1>2, <1>8, Zenon DEF Original
<1> QED  BY <1>2, <1>5, <1>6, <1>8, <1>9, Zenon DEF Written

(* Every step keeps what a download has handed out chunks of one plaintext. *)
LEMMA WrittenStep ==
    ASSUME TransferInv, Next
    PROVE  Written'
<1> SUFFICES ASSUME srv'.at = "serve" PROVE Written'
  BY Zenon DEF Written
<1>1. CASE Requested
  <2>1. srv'.at = "request"
    BY <1>1, RequestSrv DEF Requested
  <2> QED  BY <2>1
<1>2. CASE Elsewhere
  BY <1>2, ClientMove, StoreStep, DamageKept, WrittenKept, Zenon DEF TransferInv
<1>3. CASE Handler \/ StorageFails \/ Crash
  <2>1. SrvShape
    BY TypesFacts, Zenon DEF TypesInv
  <2>2. ASSUME NEW code, Returns(code) PROVE FALSE
    BY <2>2, ReturnsFacts DEF Answering
  <2>3. srv' # Closed
    BY DEF Closed
  <2>4. BeginGet \/ ServeChunk
    <3>1. ~ (Refuse \/ Answer \/ Crash)
      BY <2>3, Zenon DEF Refuse, Answer, Crash, Respond
    <3>2. ~ (ReadFails \/ Finish \/ ServeEnd \/ StorageFails)
      BY <2>2, Zenon DEF ReadFails, Finish, ServeEnd, StorageFails
    <3>3. ~ (Ready \/ BeginPut \/ ReadItem \/ CopyBytes \/ ReadAfterEnd \/ AppendChunk)
      <4>1. HandlerMoves /\ Paired
        BY <1>3, HandlerMove, Zenon DEF TransferInv
      <4>2. srv' # [srv EXCEPT !.at = "begin"]
        BY <2>1 DEF SrvShape
      <4>3. srv.op = "get" /\ srv.at # "request"
        BY <2>2, <2>3, <4>1, <4>2, SMTT(20) DEF HandlerMoves
      <4> QED  BY <4>1, <4>3 DEF Ready, BeginPut, ReadItem, CopyBytes, ReadAfterEnd, AppendChunk, Paired
    <3> QED  BY <1>3, <3>1, <3>2, <3>3, Zenon DEF Handler
  <2> QED  BY <2>4, BeginGetWritten, ServeWritten, Zenon
<1> QED  BY <1>1, <1>2, <1>3, Kinds, Zenon

-----------------------------------------------------------------------------
(* Downloads: what is on the socket and in the temporary file *)

(* What is delivered stays so when the client and the socket do not change. *)
LEMMA DeliversSame ==
    ASSUME NEW x, Delivers(x), cli'.temp = cli.temp, down' = down
    PROVE  Delivers(x)'
<1>1. PICK c \in [0 .. Len(down) -> 0 .. Len(x)] : OutputCut(x, c)
  BY Zenon DEF Delivers
<1>2. OutputCut(x, c)'
  BY <1>1, Zenon DEF OutputCut
<1> QED  BY <1>1, <1>2, Zenon DEF Delivers

(* A frame, an error or the end of the stream adds nothing. *)
LEMMA DeliversMore ==
    ASSUME NEW x \in Bytes, Delivers(x), Sockets, NEW item, item.type # "data",
           down' = Append(down, item), cli'.temp = cli.temp
    PROVE  Delivers(x)'
<1>1. PICK c \in [0 .. Len(down) -> 0 .. Len(x)] : OutputCut(x, c)
  BY Zenon DEF Delivers
<1>2. /\ Len(down) \in Nat /\ Len(x) \in Nat /\ Len(down') = Len(down) + 1 /\ down'[Len(down) + 1] = item
      /\ \A k \in 1 .. Len(down) : down'[k] = down[k]
  BY Appended DEF Sockets, Bytes
<1>3. Len(x) \in 0 .. Len(x) /\ Len(x) <= Len(x)
  BY <1>2
<1>4. PICK d \in [0 .. Len(down) + 1 -> 0 .. Len(x)] :
         d[Len(down) + 1] = Len(x) /\ \A k \in 0 .. Len(down) : d[k] = c[k]
  BY <1>2, <1>3, CutExtended, Zenon
<1>5. /\ 0 \in 0 .. Len(down) /\ Len(down) \in 0 .. Len(down) /\ Len(down) + 1 - 1 = Len(down)
      /\ \A k \in 1 .. Len(down) : k - 1 \in 0 .. Len(down) /\ k \in 0 .. Len(down)
      /\ \A k \in 1 .. Len(down) + 1 : k \in 1 .. Len(down) \/ k = Len(down) + 1
  BY <1>2
<1>6. d[0] = c[0] /\ d[Len(down)] = Len(x)
  BY <1>1, <1>4, <1>5, Zenon DEF OutputCut
<1>7. ASSUME NEW k \in 1 .. Len(down')
      PROVE  /\ d[k - 1] <= d[k]
             /\ IF down'[k].type = "data" THEN down'[k].data = SubSeq(x, d[k - 1] + 1, d[k])
                                          ELSE d[k - 1] = d[k]
  <2>1. CASE k \in 1 .. Len(down)
    <3>1. d[k - 1] = c[k - 1] /\ d[k] = c[k] /\ down'[k] = down[k]
      BY <1>2, <1>4, <1>5, <2>1, Zenon
    <3> QED  BY <1>1, <2>1, <3>1, Zenon DEF OutputCut
  <2>2. CASE k = Len(down) + 1
    <3>1. k - 1 = Len(down)
      BY <1>2, <2>2
    <3>2. d[k - 1] = Len(x) /\ d[k] = Len(x) /\ down'[k] = item
      BY <1>2, <1>4, <1>6, <2>2, <3>1, Zenon
    <3> QED  BY <1>3, <3>2, Zenon
  <2> QED  BY <1>2, <1>5, <2>1, <2>2, Zenon
<1>8. OutputCut(x, d)'
  BY <1>1, <1>2, <1>4, <1>6, <1>7, Zenon DEF OutputCut
<1> QED  BY <1>2, <1>4, <1>8, Zenon DEF Delivers

(* The client takes the first item. *)
LEMMA DeliversNext ==
    ASSUME NEW x \in Bytes, Delivers(x), Sockets, down # <<>>, down' = Tail(down),
           \/ Head(down).type = "data" /\ cli'.temp = cli.temp \o Head(down).data
           \/ Head(down).type # "data" /\ cli'.temp = cli.temp
    PROVE  Delivers(x)'
<1>1. PICK c \in [0 .. Len(down) -> 0 .. Len(x)] : OutputCut(x, c)
  BY Zenon DEF Delivers
<1>2. /\ Len(down) \in Nat \ {0} /\ Len(x) \in Nat /\ Len(down') = Len(down) - 1 /\ Head(down) = down[1]
      /\ \A k \in 1 .. Len(down) - 1 : down'[k] = down[k + 1] /\ k + 1 \in 1 .. Len(down)
      /\ 1 \in 1 .. Len(down)
  BY Tails DEF Sockets, Bytes
<1>3. PICK d \in [0 .. Len(down) - 1 -> 0 .. Len(x)] : \A k \in 0 .. Len(down) - 1 : d[k] = c[k + 1]
  BY <1>2, CutShifted, Zenon
<1>4. d[0] = c[1] /\ d[Len(down) - 1] = c[Len(down)] /\ 1 - 1 = 0
  BY <1>2, <1>3
<1>5. /\ c[0] <= c[1] /\ c[0] = Len(cli.temp) /\ cli.temp = SubSeq(x, 1, c[0]) /\ c[Len(down)] = Len(x)
      /\ IF down[1].type = "data" THEN down[1].data = SubSeq(x, c[0] + 1, c[1]) ELSE c[0] = c[1]
  BY <1>1, <1>2, <1>4, Zenon DEF OutputCut
<1>6. c[0] \in 0 .. Len(x) /\ c[1] \in 0 .. Len(x)
  BY <1>2
<1>7. cli'.temp = SubSeq(x, 1, c[1]) /\ Len(cli'.temp) = c[1]
  <2>1. CASE Head(down).type = "data" /\ cli'.temp = cli.temp \o Head(down).data
    <3>1. c[0] \in 0 .. Len(x) /\ c[1] \in c[0] .. Len(x) /\ c[1] \in 0 .. Len(x) /\ 0 \in Nat /\ 0 + 1 = 1
          /\ c[1] - 0 = c[1]
      BY <1>2, <1>5, <1>6
    <3>2. SubSeq(x, 0 + 1, c[0]) \o SubSeq(x, c[0] + 1, c[1]) = SubSeq(x, 0 + 1, c[1])
      BY <3>1, PiecesJoin, Zenon
    <3>3. Len(SubSeq(x, 0 + 1, c[1])) = c[1] - 0
      BY <3>1, Piece, Zenon
    <3> QED  BY <1>2, <1>5, <2>1, <3>1, <3>2, <3>3, Zenon
  <2>2. CASE Head(down).type # "data" /\ cli'.temp = cli.temp
    BY <1>2, <1>5, <2>2, Zenon
  <2> QED  BY <2>1, <2>2, Zenon
<1>8. ASSUME NEW k \in 1 .. Len(down')
      PROVE  /\ d[k - 1] <= d[k]
             /\ IF down'[k].type = "data" THEN down'[k].data = SubSeq(x, d[k - 1] + 1, d[k])
                                          ELSE d[k - 1] = d[k]
  <2>1. k \in 1 .. Len(down) - 1
    BY <1>2, Zenon
  <2>2. PICK j \in 1 .. Len(down) : j = k + 1
    BY <1>2, <2>1, Zenon
  <2>3. d[k - 1] = c[j - 1] /\ d[k] = c[j] /\ down'[k] = down[j]
    BY <1>2, <1>3, <2>1, <2>2, SMTT(20)
  <2> QED  BY <1>1, <2>3, Zenon DEF OutputCut
<1>9. OutputCut(x, d)'
  BY <1>2, <1>4, <1>5, <1>7, <1>8, Zenon DEF OutputCut
<1> QED  BY <1>2, <1>3, <1>9, Zenon DEF Delivers

(* A piece of the second of two byte strings joined. *)
LEMMA PieceAfter ==
    ASSUME NEW w \in Bytes, NEW part \in Bytes, NEW p \in Nat, NEW q \in p .. Len(part)
    PROVE  SubSeq(w \o part, Len(w) + p + 1, Len(w) + q) = SubSeq(part, p + 1, q)
BY DEF Bytes

JoinedCut(n, m, a, b, c, e) ==
    \E d \in [0 .. n + m -> 0 .. a + b] :
        /\ \A k \in 0 .. n : d[k] = c[k]
        /\ \A k \in 0 .. m : d[n + k] = a + e[k]

(* Two cuts joined into one. *)
LEMMA CutsJoined ==
    ASSUME NEW n \in Nat, NEW m \in Nat, NEW a \in Nat, NEW b \in Nat,
           NEW c \in [0 .. n -> 0 .. a], NEW e \in [0 .. m -> 0 .. b], c[n] = a, e[0] = 0
    PROVE  JoinedCut(n, m, a, b, c, e)
<1> DEFINE d == [k \in 0 .. n + m |-> IF k <= n THEN c[k] ELSE a + e[k - n]]
<1>1. d \in [0 .. n + m -> 0 .. a + b]
  BY SMTT(30)
<1>2. \A k \in 0 .. n : d[k] = c[k]
  OBVIOUS
<1>3. \A k \in 0 .. m : d[n + k] = a + e[k]
  <2> SUFFICES ASSUME NEW k \in 0 .. m PROVE d[n + k] = a + e[k]
    BY Zenon
  <2>1. CASE k = 0
    BY <2>1
  <2>2. CASE k # 0
    <3>1. n + k \in 0 .. n + m /\ ~ (n + k <= n) /\ (n + k) - n = k
      BY <2>2
    <3> QED  BY <3>1, Zenon
  <2> QED  BY <2>1, <2>2
<1> QED  BY <1>1, <1>2, <1>3, Zenon DEF JoinedCut

(* Pieces of the second string lie behind the first. *)
LEMMA Between ==
    ASSUME NEW l \in Nat, NEW t \in Nat, NEW p \in 0 .. t, NEW q \in 0 .. t, p <= q
    PROVE  p \in Nat /\ q \in p .. t /\ l + p <= l + q
OBVIOUS

ConcatenationOf(q, r) ==
    /\ Len(q \o r) = Len(q) + Len(r)
    /\ \A k \in 1 .. Len(q) : (q \o r)[k] = q[k]
    /\ \A k \in 1 .. Len(r) : (q \o r)[Len(q) + k] = r[k]

(* Two sequences joined. *)
LEMMA Joined ==
    ASSUME NEW S, NEW q \in Seq(S), NEW r \in Seq(S)
    PROVE  ConcatenationOf(q, r)
BY DEF ConcatenationOf

(* The bytes of a data item. *)
LEMMA DataItem ==
    ASSUME NEW x
    PROVE  StreamData(x).type = "data" /\ StreamData(x).data = x
BY DEF StreamData

(* A chunk on the socket makes up the next piece. *)
LEMMA DeliversItems ==
    ASSUME NEW x \in Bytes, NEW part \in Bytes, Delivers(x), Sockets,
           down' = down \o Items(part), cli'.temp = cli.temp,
           NEW y, y = x \o part
    PROVE  Delivers(y)'
<1>1. PICK c \in [0 .. Len(down) -> 0 .. Len(x)] : OutputCut(x, c)
  BY Zenon DEF Delivers
<1> DEFINE n == Len(down)
           its == Items(part)
<1>2. PICK m \in Nat : \E e \in [0 .. m -> 0 .. Len(part)] :
        /\ e[0] = 0 /\ e[m] = Len(part)
        /\ \A k \in 1 .. m : e[k - 1] <= e[k]
        /\ its \in Seq(SocketItem) /\ Len(its) = m
        /\ \A k \in 1 .. m : its[k] = StreamData(SubSeq(part, e[k - 1] + 1, e[k]))
  BY ItemsFacts, Zenon
<1>3. PICK e \in [0 .. m -> 0 .. Len(part)] :
        /\ e[0] = 0 /\ e[m] = Len(part)
        /\ \A k \in 1 .. m : e[k - 1] <= e[k]
        /\ its \in Seq(SocketItem) /\ Len(its) = m
        /\ \A k \in 1 .. m : its[k] = StreamData(SubSeq(part, e[k - 1] + 1, e[k]))
  BY <1>2, Zenon
<1> HIDE DEF its
<1>4. /\ n \in Nat /\ Len(x) \in Nat /\ Len(part) \in Nat /\ y \in Bytes /\ Len(y) = Len(x) + Len(part)
  BY Concatenated DEF Sockets
<1>5. /\ Len(down') = n + m
      /\ \A k \in 1 .. n : down'[k] = down[k]
      /\ \A k \in 1 .. m : down'[n + k] = its[k]
  <2>1. down \in Seq(SocketItem) /\ down' = down \o its
    BY Zenon DEF Sockets, its
  <2>2. ConcatenationOf(down, its)
    BY <1>3, <2>1, Joined, Zenon
  <2> QED  BY <1>3, <2>1, <2>2, Zenon DEF ConcatenationOf
<1>6. /\ c[0] = Len(cli.temp) /\ c[n] = Len(x) /\ cli.temp = SubSeq(x, 1, c[0])
      /\ \A k \in 1 .. n :
           /\ c[k - 1] <= c[k]
           /\ IF down[k].type = "data" THEN down[k].data = SubSeq(x, c[k - 1] + 1, c[k])
                                       ELSE c[k - 1] = c[k]
  BY <1>1, Zenon DEF OutputCut
<1> HIDE DEF n
<1>7. PICK d \in [0 .. n + m -> 0 .. Len(x) + Len(part)] :
        /\ \A k \in 0 .. n : d[k] = c[k]
        /\ \A k \in 0 .. m : d[n + k] = Len(x) + e[k]
  <2>1. JoinedCut(n, m, Len(x), Len(part), c, e)
    BY <1>3, <1>4, <1>6, CutsJoined, Zenon DEF n
  <2> QED  BY <2>1, Zenon DEF JoinedCut
<1>8. ASSUME NEW p \in 0 .. Len(x), NEW q \in 0 .. Len(x), p <= q
      PROVE  SubSeq(x, p + 1, q) = SubSeq(y, p + 1, q)
  <2>1. p \in Nat /\ q \in p .. Len(x)
    BY <1>4, <1>8, SMTT(30)
  <2> QED  BY <2>1, PieceBefore, Zenon
<1>9. d[0] = c[0] /\ cli.temp = SubSeq(y, 1, d[0])
  <2>1. 0 \in 0 .. n /\ 0 \in 0 .. Len(x) /\ c[0] \in 0 .. Len(x) /\ 0 <= c[0] /\ 0 + 1 = 1
    BY <1>4, SMTT(20) DEF n
  <2>2. SubSeq(x, 0 + 1, c[0]) = SubSeq(y, 0 + 1, c[0])
    BY <1>8, <2>1, Zenon
  <2> QED  BY <1>6, <1>7, <2>1, <2>2, Zenon
<1>10. d[n + m] = Len(y)
  <2>1. m \in 0 .. m
    BY SMTT(20)
  <2> QED  BY <1>3, <1>4, <1>7, <2>1, Zenon
<1>11. ASSUME NEW k \in 1 .. n + m
       PROVE  /\ d[k - 1] <= d[k]
              /\ IF down'[k].type = "data" THEN down'[k].data = SubSeq(y, d[k - 1] + 1, d[k])
                                           ELSE d[k - 1] = d[k]
  <2>1. CASE k \in 1 .. n
    <3>1. k - 1 \in 0 .. n /\ k \in 0 .. n
      BY <1>4, <2>1, SMTT(20)
    <3>2. d[k - 1] = c[k - 1] /\ d[k] = c[k] /\ down'[k] = down[k]
      BY <1>5, <1>7, <2>1, <3>1, Zenon
    <3>3. c[k - 1] \in 0 .. Len(x) /\ c[k] \in 0 .. Len(x)
      BY <3>1, Zenon DEF n
    <3>4. c[k - 1] <= c[k]
      BY <1>6, <2>1, Zenon
    <3>5. SubSeq(x, c[k - 1] + 1, c[k]) = SubSeq(y, c[k - 1] + 1, c[k])
      BY <1>8, <3>3, <3>4, Zenon
    <3> QED  BY <1>6, <2>1, <3>2, <3>5, Zenon
  <2>2. CASE k \notin 1 .. n
    <3>1. PICK j \in 1 .. m : k = n + j /\ k - 1 = n + (j - 1) /\ j - 1 \in 0 .. m /\ j \in 0 .. m
      <4>1. LET j == k - n IN j \in 1 .. m /\ k = n + j /\ k - 1 = n + (j - 1) /\ j - 1 \in 0 .. m /\ j \in 0 .. m
        BY <1>4, <2>2, SMTT(30)
      <4> QED  BY <4>1, Zenon
    <3>2. d[k - 1] = Len(x) + e[j - 1] /\ d[k] = Len(x) + e[j] /\ down'[k] = its[j]
      BY <1>5, <1>7, <3>1, Zenon
    <3>3. e[j - 1] \in 0 .. Len(part) /\ e[j] \in 0 .. Len(part) /\ e[j - 1] <= e[j]
          /\ its[j] = StreamData(SubSeq(part, e[j - 1] + 1, e[j]))
      BY <1>3, <3>1, Zenon
    <3>4. e[j - 1] \in Nat /\ e[j] \in e[j - 1] .. Len(part) /\ Len(x) + e[j - 1] <= Len(x) + e[j]
      BY <1>4, <3>3, Between, ZenonT(30)
    <3>5. SubSeq(y, Len(x) + e[j - 1] + 1, Len(x) + e[j]) = SubSeq(part, e[j - 1] + 1, e[j])
      BY <3>4, PieceAfter, Zenon
    <3>6. its[j].type = "data" /\ its[j].data = SubSeq(part, e[j - 1] + 1, e[j])
      BY <3>3, DataItem, Zenon
    <3> QED  BY <3>2, <3>4, <3>5, <3>6, Zenon
  <2> QED  BY <2>1, <2>2, Zenon
<1>12. OutputCut(y, d)'
  BY <1>5, <1>6, <1>9, <1>10, <1>11, Zenon DEF OutputCut
<1> QED  BY <1>4, <1>5, <1>7, <1>12, Zenon DEF Delivers

(* The parts of Downloads. *)
ItemOrder ==
    \A k \in 1 .. Len(down) :
        /\ down[k].type = "frame" => k = 1 /\ cli.at = "ready"
        /\ down[k].type = "end" => k = Len(down) /\ ~ Serving
FirstItem ==
    cli.at = "ready" =>
        /\ srv.at = "request" => down = <<>>
        /\ srv.at \notin {"closed", "request"} => down # <<>>
        /\ down # <<>> => Head(down).type \in {"frame", "error"}
PublishedOnce == \E x \in Published(cli.object) : Delivers(x)
Delivery ==
    /\ srv.at \in {"request", "begin"} => Delivers(<<>>)
    /\ srv.at = "serve" => Delivers(srv.written)
    /\ (srv.at = "answer" /\ srv.code = "Ok") \/ Ended => PublishedOnce
ReadyToPublish == cli.at = "publish" => cli.temp \in Published(cli.object)

(* Downloads, part by part. *)
LEMMA DownloadsParts ==
    ASSUME Downloads, Connected, cli.op = "get"
    PROVE  ItemOrder /\ FirstItem /\ Delivery /\ ReadyToPublish
BY Zenon DEF Downloads, ItemOrder, FirstItem, Delivery, ReadyToPublish, PublishedOnce

(* Downloads from its parts. *)
LEMMA DownloadsWhole ==
    ASSUME ItemOrder', FirstItem', Delivery', ReadyToPublish'
    PROVE  Downloads'
BY Zenon DEF Downloads, ItemOrder, FirstItem, Delivery, ReadyToPublish, PublishedOnce

(* A published plaintext is a byte string. *)
LEMMA PublishedBytes ==
    ASSUME StoreShape, NEW o, NEW x \in Published(o)
    PROVE  x \in Bytes
<1>1. PICK v \in DOMAIN content : x = content[v].data
  BY Zenon DEF Published
<1>2. DOMAIN content = DOMAIN rows /\ content \in [DOMAIN rows -> [object : Object, data : Bytes]]
  BY Zenon DEF StoreShape
<1>3. content[v] \in [object : Object, data : Bytes]
  BY <1>1, <1>2, Zenon
<1> QED  BY <1>1, <1>3

(* A published plaintext stays published. *)
LEMMA SamePublished ==
    ASSUME TransferInv, Next, cli'.object = cli.object, NEW x \in Published(cli.object)
    PROVE  x \in Published(cli.object)'
<1>1. StoreShape /\ StoreShape' /\ ContentKept
  BY StoreFacts, StoreStep, Zenon DEF StoreInv
<1>2. PICK o : o = cli.object
  BY Zenon
<1>3. x \in Published(o)'
  BY <1>1, <1>2, PublishedKept, Zenon
<1> QED  BY <1>2, <1>3, Zenon DEF Published

(* A published plaintext that is delivered stays delivered. *)
LEMMA PublishedOnceKept ==
    ASSUME TransferInv, Next, cli'.object = cli.object, PublishedOnce,
           \A x \in Bytes : Delivers(x) => Delivers(x)'
    PROVE  PublishedOnce'
<1>1. PICK x \in Published(cli.object) : Delivers(x)
  BY Zenon DEF PublishedOnce
<1>2. x \in Bytes
  BY <1>1, StoreFacts, PublishedBytes, Zenon DEF StoreInv
<1>3. x \in Published(cli.object)'
  BY <1>1, SamePublished, Zenon
<1> QED  BY <1>1, <1>2, <1>3, Zenon DEF PublishedOnce

(* What the handler has written, by its value. *)
LEMMA DeliversWritten ==
    ASSUME NEW w, w = srv'.written, Delivers(w)'
    PROVE  Delivers(srv.written)'
BY Zenon DEF Delivers, OutputCut

(* A step of the client keeps what is delivered. *)
LEMMA DeliveryKept ==
    ASSUME TransferInv, Next, srv' = srv, cli'.object = cli.object, Delivery,
           \A x \in Bytes : Delivers(x) => Delivers(x)', Ended' => Ended
    PROVE  Delivery'
<1>1. srv.at \in {"request", "begin"} => Delivers(<<>>)'
  BY EmptyBytes, Zenon DEF Delivery
<1>2. srv.at = "serve" => Delivers(srv.written)'
  <2> SUFFICES ASSUME srv.at = "serve" PROVE Delivers(srv.written)'
    OBVIOUS
  <2>1. SrvShape
    BY TypesFacts, Zenon DEF TypesInv
  <2>2. PICK w : w = srv.written
    BY Zenon
  <2>3. w \in Bytes
    BY <2>1, <2>2 DEF SrvShape
  <2>4. Delivers(w)
    BY <2>2, Zenon DEF Delivery
  <2>5. Delivers(w)'
    BY <2>3, <2>4, Zenon
  <2> QED  BY <2>2, <2>5, DeliversWritten, Zenon
<1>3. (srv.at = "answer" /\ srv.code = "Ok") \/ Ended => PublishedOnce'
  BY PublishedOnceKept, Zenon DEF Delivery
<1> QED  BY <1>1, <1>2, <1>3, Zenon DEF Delivery

(* The end of the stream was on the socket before its first item was taken. *)
LEMMA EndedFirst ==
    ASSUME Sockets, down # <<>>, down' = Tail(down), Ended'
    PROVE  Ended
<1>1. PICK k \in 1 .. Len(down') : down'[k].type = "end"
  BY Zenon DEF Ended
<1>2. k + 1 \in 1 .. Len(down) /\ down'[k] = down[k + 1]
  BY <1>1, Tails, Zenon DEF Sockets
<1> QED  BY <1>1, <1>2, Zenon DEF Ended

(* Items behind the first one move up. *)
LEMMA NotFirst ==
    ASSUME NEW n \in Nat, NEW k \in 1 .. n - 1
    PROVE  k + 1 # 1 /\ (k + 1 = n => k = n - 1)
OBVIOUS

(* The client takes a frame or data, and goes on reading. *)
LEMMA DownloadsTake ==
    ASSUME TransferInv, Next, srv' = srv, Connected, cli.op = "get", cli'.at = "receive",
           cli'.object = cli.object, down # <<>>, down' = Tail(down),
           \/ Head(down).type = "data" /\ cli'.temp = cli.temp \o Head(down).data
           \/ Head(down).type # "data" /\ cli'.temp = cli.temp
    PROVE  Downloads'
<1>1. Sockets /\ ItemOrder /\ Delivery
  BY TypesFacts, DownloadsParts, Zenon DEF TypesInv, ClientShape, TransferInv
<1>2. \A x \in Bytes : Delivers(x) => Delivers(x)'
  BY <1>1, DeliversNext, Zenon
<1>3. Ended' => Ended
  BY <1>1, EndedFirst, Zenon
<1>4. Delivery'
  BY <1>1, <1>2, <1>3, DeliveryKept, Zenon
<1>5. ItemOrder'
  <2>1. /\ Len(down') = Len(down) - 1 /\ Len(down) \in Nat
        /\ \A k \in 1 .. Len(down) - 1 : down'[k] = down[k + 1] /\ k + 1 \in 1 .. Len(down)
    BY <1>1, Tails, Zenon DEF Sockets
  <2>2. ~ Serving => ~ Serving'
    BY Zenon DEF Serving
  <2> SUFFICES ASSUME NEW k \in 1 .. Len(down')
               PROVE  /\ down'[k].type # "frame"
                      /\ down'[k].type = "end" => k = Len(down') /\ ~ Serving
    BY <2>2, Zenon DEF ItemOrder
  <2>3. k \in 1 .. Len(down) - 1
    BY <2>1, Zenon
  <2>4. k + 1 # 1 /\ (k + 1 = Len(down) => k = Len(down) - 1)
    BY <2>1, <2>3, NotFirst, Zenon
  <2> QED  BY <1>1, <2>1, <2>3, <2>4, Zenon DEF ItemOrder
<1>6. FirstItem' /\ ReadyToPublish'
  BY DEF FirstItem, ReadyToPublish
<1> QED  BY <1>4, <1>5, <1>6, DownloadsWhole, Zenon

(* The client takes the end of the stream: its temporary file is complete. *)
LEMMA DownloadsEnd ==
    ASSUME TransferInv, Next, srv' = srv, Connected, cli.op = "get", cli'.at = "publish",
           cli'.object = cli.object, cli'.temp = cli.temp, down # <<>>, down' = Tail(down),
           Head(down).type = "end"
    PROVE  Downloads'
<1>1. Sockets /\ ItemOrder /\ Delivery
  BY TypesFacts, DownloadsParts, Zenon DEF TypesInv, ClientShape, TransferInv
<1>2. /\ Len(down) \in Nat \ {0} /\ Head(down) = down[1] /\ 1 \in 1 .. Len(down) /\ Len(down') = Len(down) - 1
  BY <1>1, Tails, Zenon DEF Sockets
<1>3. 1 = Len(down) /\ ~ Serving
  BY <1>1, <1>2, Zenon DEF ItemOrder
<1>4. Ended
  BY <1>2, Zenon DEF Ended
<1>5. PICK x \in Published(cli.object) : Delivers(x)
  BY <1>1, <1>4, Zenon DEF Delivery, PublishedOnce
<1>6. x \in Bytes
  BY <1>5, StoreFacts, PublishedBytes, Zenon DEF StoreInv
<1>7. PICK c \in [0 .. Len(down) -> 0 .. Len(x)] : OutputCut(x, c)
  BY <1>5, Zenon DEF Delivers
<1>8. cli.temp = x
  <2>1. 1 - 1 = 0 /\ "end" # "data"
    OBVIOUS
  <2>2. cli.temp = SubSeq(x, 1, c[0]) /\ c[0] = c[1] /\ c[Len(down)] = Len(x)
    BY <1>2, <1>7, <2>1, Zenon DEF OutputCut
  <2> QED  BY <1>3, <1>6, <2>2, WholePiece, Zenon
<1>9. ReadyToPublish'
  <2>1. x \in Published(cli.object)'
    BY <1>5, SamePublished, Zenon
  <2> QED  BY <1>8, <2>1, Zenon DEF ReadyToPublish
<1>10. 1 .. Len(down') = {} /\ srv'.at = "closed" /\ FirstItem'
  <2>1. 1 .. 1 - 1 = {} /\ "publish" # "ready"
    OBVIOUS
  <2> QED  BY <1>2, <1>3, <2>1, Zenon DEF Serving, FirstItem
<1>11. Delivery' /\ ItemOrder'
  <2>1. srv'.at \notin {"request", "begin"} /\ srv'.at # "serve" /\ srv'.at # "answer" /\ ~ Ended'
    BY <1>10, SMTT(20) DEF Ended
  <2> QED  BY <1>10, <2>1, Zenon DEF Delivery, ItemOrder
<1> QED  BY <1>9, <1>10, <1>11, DownloadsWhole, Zenon

(* The indices of a sequence with one more element. *)
LEMMA OneMore ==
    ASSUME NEW n \in Nat
    PROVE  \A k \in 1 .. n + 1 : k \in 1 .. n \/ k = n + 1
OBVIOUS

(* A step that leaves both ends and the socket alone. *)
LEMMA DownloadsSame ==
    ASSUME TransferInv, Next, srv' = srv, cli' = cli, down' = down, Connected, cli.op = "get"
    PROVE  Downloads'
<1>1. ItemOrder /\ FirstItem /\ Delivery /\ ReadyToPublish
  BY DownloadsParts, Zenon DEF TransferInv
<1>2. \A x \in Bytes : Delivers(x) => Delivers(x)'
  BY DeliversSame, Zenon
<1>3. Delivery'
  BY <1>1, <1>2, DeliveryKept, Zenon DEF Ended
<1>4. ItemOrder' /\ FirstItem'
  BY <1>1, Zenon DEF ItemOrder, FirstItem, Serving
<1>5. ReadyToPublish'
  BY <1>1, SamePublished, Zenon DEF ReadyToPublish
<1> QED  BY <1>3, <1>4, <1>5, DownloadsWhole, Zenon

(* The steps outside the handler keep the download whole. *)
LEMMA DownloadsElsewhere ==
    ASSUME TransferInv, Next, Elsewhere
    PROVE  Downloads'
<1> SUFFICES ASSUME Connected', cli'.op = "get" PROVE Downloads'
  BY Zenon DEF Downloads
<1>1. srv' = srv
  BY ClientMove, Zenon
<1>2. Connected /\ cli.op = "get" /\ cli'.object = cli.object
  BY StaysConnected, Zenon
<1>3. CliShape /\ Sockets /\ Paired
  BY TypesFacts, Zenon DEF TypesInv, ClientShape, TransferInv
<1>4. ASSUME NEW result, Ends(result) PROVE FALSE
  BY <1>4, EndsFacts DEF Connected
<1>5. CASE AwaitReady
  <2>1. cli.at = "ready" /\ down # <<>> /\ down' = Tail(down)
        /\ cli' = [cli EXCEPT !.at = IF cli.op = "put" THEN "send" ELSE "receive"]
    BY <1>4, <1>5, Zenon DEF AwaitReady
  <2>2. cli'.at = "receive" /\ cli'.temp = cli.temp
    BY <1>2, <1>3, <2>1, SMTT(20) DEF CliShape
  <2>3. Head(down).type \in {"frame", "error"}
    BY <1>3, <2>1, HeadItem, SMTT(20)
  <2>4. Head(down).type # "data"
    BY <2>3
  <2> QED  BY <1>1, <1>2, <2>1, <2>2, <2>4, DownloadsTake, Zenon
<1>6. CASE (\E n \in 1 .. ItemSize : SendChunk(n)) \/ SendEnd
  <2>1. cli.at = "send"
    BY <1>6, Zenon DEF SendChunk, SendEnd
  <2> QED  BY <1>2, <1>3, <2>1, SMTT(20) DEF Paired
<1>7. CASE ReceiveItem
  <2>1. cli.at = "receive" /\ down # <<>>
    BY <1>7, Zenon DEF ReceiveItem
  <2>2. Head(down).type \in {"data", "end", "error"}
    BY <1>3, <2>1, HeadItem, SMTT(20)
  <2>3. CASE Head(down).type = "data"
    <3> DEFINE t == cli.temp \o Head(down).data
    <3>1. cli' = [cli EXCEPT !.temp = t] /\ down' = Tail(down)
      BY <1>7, <2>3, Zenon DEF ReceiveItem
    <3> HIDE DEF t
    <3>2. cli'.at = "receive" /\ cli'.temp = t
      BY <1>3, <2>1, <3>1 DEF CliShape
    <3> QED  BY <1>1, <1>2, <2>1, <2>3, <3>1, <3>2, DownloadsTake, Zenon DEF t
  <2>4. CASE Head(down).type = "end"
    <3>1. cli' = [cli EXCEPT !.at = "publish"] /\ down' = Tail(down)
      BY <1>7, <2>4, Zenon DEF ReceiveItem
    <3>2. cli'.at = "publish" /\ cli'.temp = cli.temp
      BY <1>3, <3>1 DEF CliShape
    <3> QED  BY <1>1, <1>2, <2>1, <2>4, <3>1, <3>2, DownloadsEnd, Zenon
  <2>5. CASE Head(down).type = "error"
    <3>1. Ends(Head(down).code)
      BY <1>7, <2>5, Zenon DEF ReceiveItem
    <3> QED  BY <1>4, <3>1, Zenon
  <2> QED  BY <2>2, <2>3, <2>4, <2>5, SMTT(20)
<1>8. CASE AwaitPublished \/ PublishOutput \/ LoseDaemon \/ Abort
  BY <1>4, <1>8, Zenon DEF AwaitPublished, PublishOutput, LoseDaemon, Abort
<1>9. ASSUME cli' = cli, down' = down PROVE Downloads'
  BY <1>1, <1>2, <1>9, DownloadsSame, Zenon
<1> QED
  BY <1>5, <1>6, <1>7, <1>8, <1>9, Zenon
     DEF Elsewhere, TakeOutput, Unlock, Lock, BufferedPut, DamageRow, DamagePointer

(* A step of the handler that sends nothing. *)
LEMMA DownloadsQuiet ==
    ASSUME TransferInv, Next, Serving, Connected, cli.op = "get", cli' = cli, down' = down,
           srv'.at \in {"closed", "answer", "serve"},
           srv'.at # "closed" => srv.at \notin {"closed", "request"},
           srv'.at = "serve" => Delivers(srv.written)',
           srv'.at = "answer" /\ srv'.code = "Ok" => PublishedOnce
    PROVE  Downloads'
<1>1. ItemOrder /\ FirstItem /\ ReadyToPublish
  BY DownloadsParts, Zenon DEF TransferInv
<1>2. \A k \in 1 .. Len(down) : down[k].type # "end"
  BY <1>1, Zenon DEF ItemOrder
<1>3. ItemOrder'
  BY <1>1, <1>2, Zenon DEF ItemOrder
<1>4. FirstItem'
  <2>1. srv'.at # "request" /\ (srv'.at \notin {"closed", "request"} => srv'.at # "closed")
    OBVIOUS
  <2> QED  BY <1>1, <2>1, Zenon DEF FirstItem
<1>5. ~ Ended'
  BY <1>2, Zenon DEF Ended
<1>6. \A x \in Bytes : Delivers(x) => Delivers(x)'
  BY DeliversSame, Zenon
<1>7. PublishedOnce => PublishedOnce'
  BY <1>6, PublishedOnceKept, Zenon
<1>8. Delivery'
  <2>1. srv'.at \notin {"request", "begin"}
    OBVIOUS
  <2> QED  BY <1>5, <1>7, <2>1, Zenon DEF Delivery
<1>9. ReadyToPublish'
  BY <1>1, SamePublished, Zenon DEF ReadyToPublish
<1> QED  BY <1>3, <1>4, <1>8, <1>9, DownloadsWhole, Zenon

(* The handler sends a frame, an error or the end of the stream. *)
LEMMA DownloadsReply ==
    ASSUME TransferInv, Next, Serving, Connected, cli.op = "get", cli' = cli,
           NEW item, down' = Append(down, item), item.type # "data",
           item.type = "frame" => down = <<>> /\ cli.at = "ready",
           item.type = "end" => ~ Serving' /\ PublishedOnce /\ (cli.at = "ready" => down # <<>>),
           item.type \in {"frame", "error", "end"},
           srv'.at \in {"closed", "begin"}, srv'.at = "begin" => Delivers(<<>>)
    PROVE  Downloads'
<1>1. Sockets /\ ItemOrder /\ FirstItem /\ ReadyToPublish
  BY TypesFacts, DownloadsParts, Zenon DEF TypesInv, ClientShape, TransferInv
<1>2. /\ Len(down) \in Nat /\ Len(down') = Len(down) + 1 /\ down'[Len(down) + 1] = item
      /\ \A k \in 1 .. Len(down) : down'[k] = down[k]
  BY <1>1, Appended DEF Sockets
<1>3. \A k \in 1 .. Len(down) + 1 : k \in 1 .. Len(down) \/ k = Len(down) + 1
  BY <1>2, OneMore, Zenon
<1>4. \A k \in 1 .. Len(down) : down[k].type # "end"
  BY <1>1, Zenon DEF ItemOrder
<1>5. down = <<>> => Len(down) + 1 = 1
  OBVIOUS
<1>6. ItemOrder'
  BY <1>1, <1>2, <1>3, <1>4, <1>5, Zenon DEF ItemOrder
<1>7. FirstItem'
  <2>1. Head(down') = IF down = <<>> THEN item ELSE Head(down)
    BY <1>1 DEF Sockets
  <2>2. down' # <<>> /\ srv'.at # "request"
    BY <1>1 DEF Sockets
  <2>3. cli.at = "ready" => Head(down').type \in {"frame", "error"}
    <3>1. down = <<>> /\ cli.at = "ready" => item.type \in {"frame", "error"}
      OBVIOUS
    <3> QED  BY <1>1, <2>1, <3>1, Zenon DEF FirstItem
  <2> QED  BY <2>2, <2>3, Zenon DEF FirstItem
<1>8. \A x \in Bytes : Delivers(x) => Delivers(x)'
  BY <1>1, DeliversMore, Zenon
<1>9. Ended' => item.type = "end"
  BY <1>2, <1>3, <1>4, Zenon DEF Ended
<1>10. PublishedOnce => PublishedOnce'
  BY <1>8, PublishedOnceKept, Zenon
<1>11. Delivery'
  <2>1. srv'.at # "request" /\ srv'.at # "serve" /\ srv'.at # "answer"
    OBVIOUS
  <2>2. srv'.at \in {"request", "begin"} => Delivers(<<>>)'
    BY <1>8, <2>1, EmptyBytes, Zenon
  <2> QED  BY <1>9, <1>10, <2>1, <2>2, Zenon DEF Delivery
<1>12. ReadyToPublish'
  BY <1>1, SamePublished, Zenon DEF ReadyToPublish
<1> QED  BY <1>6, <1>7, <1>11, <1>12, DownloadsWhole, Zenon

(* The items of a chunk are data, behind what was on the socket. *)
LEMMA ItemsAppended ==
    ASSUME NEW s \in Seq(SocketItem), NEW part \in Bytes
    PROVE  LET t == s \o Items(part) IN
           /\ \A k \in 1 .. Len(t) : (k \in 1 .. Len(s) /\ t[k] = s[k]) \/ t[k].type = "data"
           /\ s # <<>> => t # <<>> /\ Head(t) = Head(s)
<1> DEFINE its == Items(part)
<1>0. PICK m \in Nat : \E e : /\ its \in Seq(SocketItem) /\ Len(its) = m
                             /\ \A k \in 1 .. m : its[k] = StreamData(SubSeq(part, e[k - 1] + 1, e[k]))
  <2>1. PICK m \in Nat : \E e \in [0 .. m -> 0 .. Len(part)] :
          /\ e[0] = 0 /\ e[m] = Len(part)
          /\ \A k \in 1 .. m : e[k - 1] <= e[k]
          /\ its \in Seq(SocketItem) /\ Len(its) = m
          /\ \A k \in 1 .. m : its[k] = StreamData(SubSeq(part, e[k - 1] + 1, e[k]))
    BY ItemsFacts, Zenon
  <2> QED  BY <2>1, Zenon
<1> HIDE DEF its
<1>1. its \in Seq(SocketItem) /\ Len(its) = m /\ \A k \in 1 .. m : its[k].type = "data"
  <2>1. PICK e : \A k \in 1 .. m : its[k] = StreamData(SubSeq(part, e[k - 1] + 1, e[k]))
    BY <1>0, Zenon
  <2>2. ASSUME NEW k \in 1 .. m PROVE its[k].type = "data"
    <3>1. its[k] = StreamData(SubSeq(part, e[k - 1] + 1, e[k]))
      BY <2>1, Zenon
    <3>2. StreamData(SubSeq(part, e[k - 1] + 1, e[k])).type = "data"
      BY DataItem, Zenon
    <3> QED  BY <3>1, <3>2, Zenon
  <2> QED  BY <1>0, <2>2, Zenon
<1>2. \A k \in 1 .. Len(s \o its) : \/ k \in 1 .. Len(s) /\ (s \o its)[k] = s[k]
                                    \/ k - Len(s) \in 1 .. m /\ (s \o its)[k] = its[k - Len(s)]
  BY <1>1
<1>3. s # <<>> => s \o its # <<>> /\ Head(s \o its) = Head(s)
  BY <1>1
<1> QED  BY <1>1, <1>2, <1>3, Zenon DEF its

(* The handler sends a chunk. *)
LEMMA DownloadsServes ==
    ASSUME TransferInv, Next, Serving, Connected, cli.op = "get", srv.at = "serve",
           NEW i \in Nat, NEW part \in Bytes, Serves(i, part)
    PROVE  Downloads'
<1>1. SrvShape /\ Sockets /\ ItemOrder /\ FirstItem /\ Delivery /\ ReadyToPublish
  BY TypesFacts, DownloadsParts, Zenon DEF TypesInv, ClientShape, TransferInv
<1>2. cli' = cli /\ down' = down \o Items(part)
  BY Zenon DEF Serves
<1>3. /\ \A k \in 1 .. Len(down') : (k \in 1 .. Len(down) /\ down'[k] = down[k]) \/ down'[k].type = "data"
      /\ down # <<>> => down' # <<>> /\ Head(down') = Head(down)
  BY <1>1, <1>2, ItemsAppended, Zenon DEF Sockets
<1>4. \A k \in 1 .. Len(down) : down[k].type # "end"
  BY <1>1, Zenon DEF ItemOrder
<1>5. ItemOrder'
  <2>1. "data" # "frame" /\ "data" # "end"
    OBVIOUS
  <2> QED  BY <1>1, <1>2, <1>3, <1>4, <2>1, Zenon DEF ItemOrder
<1>6. srv'.at = "serve" /\ srv'.written = srv.written \o part
  <2> DEFINE w == srv.written \o part
  <2>1. srv' = [srv EXCEPT !.next = i + 1, !.written = w]
    BY Zenon DEF Serves
  <2> HIDE DEF w
  <2>2. srv'.at = "serve" /\ srv'.written = w
    BY <1>1, <2>1, SMTT(20) DEF SrvShape
  <2> QED  BY <2>2, Zenon DEF w
<1>7. "serve" # "request" /\ "serve" # "closed" /\ "serve" # "answer" /\ "serve" # "begin"
  OBVIOUS
<1>8. FirstItem'
  BY <1>1, <1>2, <1>3, <1>6, <1>7, Zenon DEF FirstItem
<1>9. ~ Ended'
  <2>1. "data" # "end"
    OBVIOUS
  <2> QED  BY <1>3, <1>4, <2>1, Zenon DEF Ended
<1>10. Delivers(srv.written)'
  <2>1. srv.written \in Bytes /\ Delivers(srv.written)
    BY <1>1 DEF SrvShape, Delivery
  <2>2. PICK y : y = srv.written \o part
    BY Zenon
  <2>3. Delivers(y)'
    BY <1>1, <1>2, <2>1, <2>2, DeliversItems, Zenon
  <2>4. y = srv'.written
    BY <1>6, <2>2, Zenon
  <2> QED  BY <2>3, <2>4, DeliversWritten, Zenon
<1>11. Delivery'
  BY <1>6, <1>7, <1>9, <1>10, Zenon DEF Delivery
<1>12. ReadyToPublish'
  BY <1>1, <1>2, SamePublished, Zenon DEF ReadyToPublish
<1> QED  BY <1>5, <1>8, <1>11, <1>12, DownloadsWhole, Zenon

(* A download that has handed out as many bytes as the manifest counts has *)
(* handed out the plaintext.                                               *)
LEMMA PassedWhole ==
    ASSUME NEW x \in Bytes, NEW w, NEW next \in Nat, Passes(x, w, next), Len(w) = Len(x)
    PROVE  w = x
<1> DEFINE passed == Min({ChunkSize * next, Len(x)})
<1>1. Len(x) \in Nat
  BY DEF Bytes
<1>2. ChunkSize * next \in Nat
  BY ChunkPolicy
<1>3. passed \in Nat /\ passed <= Len(x)
  BY <1>1, <1>2, MinOfTwo, SMTT(20)
<1>4. Len(w) <= passed /\ (Len(w) = passed => w = SubSeq(x, 1, passed))
  BY Zenon DEF Passes, Passed
<1> HIDE DEF passed
<1>5. passed = Len(x)
  BY <1>1, <1>3, <1>4, SMTT(20)
<1> QED  BY <1>4, <1>5, WholePiece, SMTT(20)

(* The manifest counts the bytes of the plaintext. *)
LEMMA ManifestLength ==
    ASSUME NEW o, NEW v, NEW x \in Bytes
    PROVE  PrepareVersion(o, v, x).manifest.data.length = Len(x)
<1> DEFINE chunks == [i \in 0 .. ChunkCount(x) - 1 |-> SealChunk(o, v, i, Slice(x, i))]
<1>1. PrepareVersion(o, v, x) = StoredVersion(o, v, Len(x), chunks)
  BY Zenon DEF PrepareVersion
<1> HIDE DEF chunks
<1>2. StoredVersion(o, v, Len(x), chunks).manifest.data.length = Len(x)
  BY DEF StoredVersion, Seal, Manifest
<1> QED  BY <1>1, <1>2, Zenon

(* A second pass that ends with the right count has handed out a published plaintext. *)
LEMMA ServedWhole ==
    ASSUME TransferInv, srv.at = "serve", Len(srv.written) = srv.manifest.length
    PROVE  srv.written \in Published(srv.object)
<1>1. SrvShape /\ StoreShape /\ Written
  BY TypesFacts, StoreFacts, Zenon DEF TypesInv, StoreInv, TransferInv
<1> DEFINE v == srv.version
           x == content[v].data
           o == content[v].object
<1>2. /\ v \in DOMAIN rows /\ o = srv.object /\ srv.manifest = Original(v).manifest.data
      /\ Passes(x, srv.written, srv.next)
  BY <1>1, Zenon DEF Written
<1>3. v \in DOMAIN content /\ x \in Bytes /\ srv.next \in Nat
  BY <1>1, <1>2 DEF StoreShape, SrvShape
<1>4. Original(v).manifest.data.length = Len(x)
  BY <1>3, ManifestLength, Zenon DEF Original
<1>5. srv.written = x
  BY <1>2, <1>3, <1>4, PassedWhole, Zenon
<1> QED  BY <1>2, <1>3, <1>5, Zenon DEF Published

(* A new connection has delivered nothing. *)
LEMMA DownloadsRequested ==
    ASSUME Requested
    PROVE  Downloads'
<1> SUFFICES ASSUME cli'.op = "get" PROVE Downloads'
  BY Zenon DEF Downloads
<1>1. PICK op \in {"put", "get"}, o \in Object, x \in Bytes : Request(op, o, x)
  BY Zenon DEF Requested
<1>2. /\ cli'.at = "ready" /\ cli'.temp = <<>> /\ srv'.at = "request"
  BY <1>1 DEF Request, Gone, Closed
<1>3. down' = <<>>
  BY <1>1, Zenon DEF Request
<1>4. 1 .. Len(<<>>) = {} /\ 0 .. Len(<<>>) = {0} /\ Len(<<>>) = 0
  OBVIOUS
<1>5. Delivers(<<>>)'
  <2>1. PICK c : c = [k \in {0} |-> 0]
    BY Zenon
  <2>2. c \in [0 .. Len(<<>>) -> 0 .. Len(<<>>)] /\ c[0] = 0
    BY <1>4, <2>1
  <2>3. SubSeq(<<>>, 1, 0) = <<>>
    OBVIOUS
  <2>4. OutputCut(<<>>, c)'
    BY <1>2, <1>3, <1>4, <2>2, <2>3, Zenon DEF OutputCut
  <2> QED  BY <1>3, <2>2, <2>4, Zenon DEF Delivers
<1>6. ItemOrder' /\ ~ Ended'
  BY <1>3, <1>4, Zenon DEF ItemOrder, Ended
<1>7. FirstItem'
  BY <1>2, <1>3 DEF FirstItem
<1>8. Delivery'
  BY <1>2, <1>5, <1>6, SMTT(20) DEF Delivery
<1>9. ReadyToPublish'
  BY <1>2 DEF ReadyToPublish
<1> QED  BY <1>6, <1>7, <1>8, <1>9, DownloadsWhole, Zenon

(* The items other than data. *)
LEMMA ItemTypes ==
    /\ \A code, v : Frame(code, v).type = "frame"
    /\ \A code : StreamError(code).type = "error"
    /\ StreamEnd.type = "end"
BY DEF Frame, StreamError, StreamEnd

(* The handler keeps the download whole, and ends the stream only behind the last byte. *)
LEMMA DownloadsHandler ==
    ASSUME TransferInv, Next, Handler \/ StorageFails \/ Crash
    PROVE  Downloads'
<1>1. Paired /\ SrvShape /\ Sockets /\ StoreShape /\ Sealed /\ Written
  BY TypesFacts, Zenon DEF TypesInv, ClientShape, StoreInv, TransferInv
<1>2. cli' = cli /\ Connected' = Connected
  <2>1. cli' = cli
    BY HandlerMove, Zenon
  <2> QED  BY <2>1 DEF Connected
<1> SUFFICES ASSUME Connected, cli.op = "get"
             PROVE  Downloads'
  BY <1>2, Zenon DEF Downloads
<1>3. Serving
  BY DEF Handler, StorageFails, Crash, Refuse, Ready, Answer, BeginPut, ReadItem, CopyBytes, ReadAfterEnd,
       ReadFails, Waiting, AppendChunk, Finish, BeginGet, ServeChunk, ServeEnd, Serving
<1>4. srv.op = "get" /\ srv.at # "closed"
  BY <1>1, <1>3, Zenon DEF Paired, Serving
<1>5. ItemOrder /\ FirstItem /\ Delivery /\ ReadyToPublish
  BY DownloadsParts, Zenon DEF TransferInv
<1>6. Closed.at = "closed"
  BY DEF Closed
<1>7. ASSUME NEW code, Returns(code), srv.at # "request", code = "Ok" => PublishedOnce
      PROVE  Downloads'
  <2>1. /\ srv' = Answering(srv.op, IF code = "Ok" THEN srv.version ELSE NoVersion, code)
        /\ down' = down
    BY <1>7, ReturnsFacts, Zenon
  <2>2. srv'.at = "answer" /\ srv'.code = code
    BY <2>1 DEF Answering
  <2>3. /\ srv'.at \in {"closed", "answer", "serve"}
        /\ srv'.at # "closed" => srv.at \notin {"closed", "request"}
        /\ srv'.at # "serve"
    BY <1>4, <1>7, <2>2, SMTT(20)
  <2> QED  BY <1>2, <1>3, <1>7, <2>1, <2>2, <2>3, DownloadsQuiet, Zenon
<1>8. ASSUME srv.at = "request" PROVE down = <<>> /\ cli.at = "ready" /\ Delivers(<<>>)
  <2>1. cli.at = "ready"
    <3>1. cli.at \notin {"send", "answer", "receive", "publish"}
      BY <1>1, <1>8 DEF Paired
    <3>2. CliShape
      BY TypesFacts, Zenon DEF TypesInv, ClientShape
    <3> QED  BY <3>1, <3>2 DEF Connected, CliShape
  <2> QED  BY <1>5, <1>8, <2>1, SMTT(30) DEF FirstItem, Delivery
<1>9. CASE Refuse \/ Ready
  <2>1. PICK item : /\ item.type = "frame" /\ down' = Append(down, item)
                    /\ srv' = Closed \/ srv' = [srv EXCEPT !.at = "begin"]
    <3>1. CASE Refuse
      <4>1. down' = Append(down, Frame("Overloaded", NoVersion)) /\ srv' = Closed
        BY <3>1, Zenon DEF Refuse, Respond
      <4> QED  BY <4>1, ItemTypes, Zenon
    <3>2. CASE Ready
      <4>1. /\ down' = Append(down, Frame("StreamReady", NoVersion))
            /\ srv' = [srv EXCEPT !.at = "begin"]
        BY <3>2, Zenon DEF Ready
      <4> QED  BY <4>1, ItemTypes, Zenon
    <3> QED  BY <1>9, <3>1, <3>2
  <2>2. srv.at = "request"
    BY <1>9, Zenon DEF Refuse, Ready
  <2>3. srv'.at \in {"closed", "begin"}
    BY <1>1, <1>6, <2>1, SMTT(20) DEF SrvShape
  <2>4. /\ item.type # "data" /\ item.type # "end" /\ item.type \in {"frame", "error", "end"}
    BY <2>1
  <2> QED  BY <1>2, <1>3, <1>8, <2>1, <2>2, <2>3, <2>4, DownloadsReply, Zenon
<1>10. CASE Answer
  <2>1. srv.at = "answer" /\ srv' = Closed
    BY <1>10, Zenon DEF Answer, Respond
  <2>2. /\ ~ Serving' /\ srv'.at \in {"closed", "begin"} /\ srv'.at # "begin"
        /\ (cli.at = "ready" => down # <<>>)
    BY <1>5, <1>6, <2>1, SMTT(20) DEF Serving, FirstItem
  <2>3. PICK item : /\ down' = Append(down, item)
                    /\ \/ item.type = "error"
                       \/ item.type = "end" /\ srv.code = "Ok"
    <3>1. CASE srv.code # "Ok"
      <4>1. Respond(StreamError(srv.code))
        BY <1>10, <3>1, SMTT(20) DEF Answer
      <4> QED  BY <4>1, ItemTypes, Zenon DEF Respond
    <3>2. CASE srv.code = "Ok"
      <4>1. Respond(StreamEnd)
        BY <1>4, <1>10, <3>2, SMTT(20) DEF Answer
      <4> QED  BY <3>2, <4>1, ItemTypes, Zenon DEF Respond
    <3> QED  BY <3>1, <3>2
  <2>4. item.type = "end" => PublishedOnce
    <3>1. item.type = "end" => srv.code = "Ok"
      BY <2>3
    <3> QED  BY <1>5, <2>1, <3>1, Zenon DEF Delivery
  <2>5. item.type # "data" /\ item.type # "frame" /\ item.type \in {"frame", "error", "end"}
    BY <2>3
  <2> QED  BY <1>2, <1>3, <2>2, <2>3, <2>4, <2>5, DownloadsReply, Zenon
<1>11. CASE Crash
  <2>1. srv'.at = "closed" /\ down' = down
    BY <1>6, <1>11, Zenon DEF Crash
  <2>2. /\ srv'.at \in {"closed", "answer", "serve"} /\ srv'.at # "serve" /\ srv'.at # "answer"
    BY <2>1, SMTT(20)
  <2> QED  BY <1>2, <1>3, <2>1, <2>2, DownloadsQuiet, Zenon
<1>12. CASE BeginPut \/ ReadItem \/ CopyBytes \/ ReadAfterEnd \/ ReadFails \/ AppendChunk \/ Finish
  <2>1. (srv.at = "begin" /\ srv.op = "put") \/ srv.at \in {"read", "append"}
    BY <1>12 DEF BeginPut, ReadItem, CopyBytes, ReadAfterEnd, ReadFails, Waiting, AppendChunk, Finish
  <2> QED  BY <1>1, <1>4, <2>1, SMTT(20) DEF Paired
<1>13. CASE StorageFails
  <2>1. Returns("Storage") /\ srv.at # "request"
    BY <1>13 DEF StorageFails
  <2> QED  BY <1>7, <2>1, SMTT(20)
<1>14. CASE BeginGet
  <2>1. srv.at = "begin" /\ srv.at # "request"
    BY <1>14 DEF BeginGet
  <2>2. CASE Returns("Locked") \/ Returns("NotFound") \/ Returns("Authentication")
    BY <1>7, <2>1, <2>2
  <2>3. CASE ~ (Returns("Locked") \/ Returns("NotFound") \/ Returns("Authentication"))
    <3> DEFINE v == active[srv.object]
               m == rows[v].manifest.data
    <3>1. srv' = [srv EXCEPT !.at = "serve", !.version = v, !.manifest = m] /\ down' = down
      BY <2>3, <1>14, Zenon DEF BeginGet
    <3> HIDE DEF v, m
    <3>2. srv'.at = "serve" /\ srv'.written = srv.written
      BY <1>1, <3>1, SMTT(20) DEF SrvShape
    <3>3. <<>> = srv'.written
      BY <1>1, <2>1, <3>2, SMTT(20) DEF Paired
    <3>4. Delivers(<<>>)'
      <4>1. Delivers(<<>>)
        BY <1>5, <2>1 DEF Delivery
      <4> QED  BY <1>2, <3>1, <4>1, DeliversSame, EmptyBytes, Zenon
    <3>5. Delivers(srv.written)'
      BY <3>3, <3>4, DeliversWritten, Zenon
    <3>6. /\ srv'.at \in {"closed", "answer", "serve"} /\ srv'.at # "answer"
          /\ srv.at \notin {"closed", "request"}
      BY <2>1, <3>2
    <3> QED  BY <1>2, <1>3, <3>1, <3>5, <3>6, DownloadsQuiet, Zenon
  <2> QED  BY <2>2, <2>3, SMTT(20)
<1>15. CASE ServeChunk
  <2>1. srv.at = "serve" /\ srv.at # "request"
    BY <1>15 DEF ServeChunk
  <2>2. CASE Returns("Authentication") \/ Returns("Storage")
    BY <1>7, <2>1, <2>2, SMTT(20)
  <2>3. CASE ~ (Returns("Authentication") \/ Returns("Storage"))
    <3> DEFINE x == content[srv.version].data
    <3>1. PICK i \in Nat : i < ChunkCount(x) /\ x \in Bytes /\ Serves(i, Slice(x, i))
      BY <1>1, <1>15, <2>3, ServeFacts, Zenon
    <3> HIDE DEF x
    <3>2. Slice(x, i) \in Bytes
      BY <3>1, SliceFacts, Zenon
    <3> QED  BY <1>3, <2>1, <3>1, <3>2, DownloadsServes, Zenon
  <2> QED  BY <2>2, <2>3, SMTT(20)
<1>16. CASE ServeEnd
  <2> DEFINE code == IF Len(srv.written) = srv.manifest.length THEN "Ok" ELSE "Invariant"
  <2>1. srv.at = "serve" /\ Returns(code)
    BY <1>16, Zenon DEF ServeEnd
  <2>2. srv.at # "request"
    BY <2>1
  <2>3. ASSUME code = "Ok" PROVE PublishedOnce
    <3>1. Len(srv.written) = srv.manifest.length
      BY <2>3
    <3>2. srv.written \in Published(srv.object)
      BY <2>1, <3>1, ServedWhole, Zenon
    <3>3. cli.object = srv.object /\ Delivers(srv.written)
      BY <1>1, <1>5, <2>1, SMTT(20) DEF Paired, Delivery
    <3> QED  BY <3>2, <3>3, Zenon DEF PublishedOnce
  <2> HIDE DEF code
  <2> QED  BY <1>7, <2>1, <2>2, <2>3, Zenon
<1> QED
  BY <1>9, <1>10, <1>11, <1>12, <1>13, <1>14, <1>15, <1>16, Zenon DEF Handler

(* Every step keeps the download whole. *)
LEMMA DownloadsStep ==
    ASSUME TransferInv, Next
    PROVE  Downloads'
BY Kinds, DownloadsRequested, DownloadsHandler, DownloadsElsewhere, Zenon
=============================================================================
