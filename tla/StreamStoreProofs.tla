------------------------- MODULE StreamStoreProofs -------------------------
(***************************************************************************)
(* Streamed transfers: facts about the operators, the steps that change the *)
(* database, the types, and what the other proofs use of a step.            *)
(***************************************************************************)
EXTENDS StreamTransfer, FiniteSetTheorems, TLAPS

-----------------------------------------------------------------------------
(* The operators the model is built from *)

(* The least element of a set of natural numbers. *)
LEMMA MinOfSet ==
    ASSUME NEW S \in SUBSET Nat, S # {}
    PROVE  Min(S) \in S /\ \A y \in S : Min(S) <= y
<1> DEFINE R == {ss \in Nat \X Nat : ss[1] < ss[2]}
<1>1. IsWellFoundedOn(R, Nat)
  BY NatLessThanWellFounded, Zenon DEF OpToRel
<1> HIDE DEF R
<1>2. PICK x \in S : \A y \in S : ~ (<<y, x>> \in R)
  BY <1>1, WFMin, Zenon
<1>3. \A y \in S : x <= y
  <2> TAKE y \in S
  <2>1. <<y, x>>[1] = y /\ <<y, x>>[2] = x /\ <<y, x>> \in Nat \X Nat
    OBVIOUS
  <2>2. ~ (y < x)
    BY <2>1, <1>2, Zenon DEF R
  <2> QED  BY <2>2
<1> QED  BY <1>3, Zenon DEF Min

(* The lesser of two integers. *)
LEMMA MinOfTwo ==
    ASSUME NEW a \in Int, NEW b \in Int
    PROVE  Min({a, b}) = IF a <= b THEN a ELSE b
BY DEF Min

(* What is the lesser of two is at most the other. *)
LEMMA MinSecond ==
    ASSUME NEW a \in Int, NEW b \in Nat, NEW l, l = Min({a, b}), l = b
    PROVE  b <= a
<1>1. b \in Int
  OBVIOUS
<1>2. b = IF a <= b THEN a ELSE b
  BY <1>1, MinOfTwo, Zenon
<1> QED  BY <1>2

(* As much of a as there is room for beside b in c. *)
LEMMA MinRoom ==
    ASSUME NEW a \in Nat, NEW b \in Nat, NEW c \in Nat, b <= c
    PROVE  LET n == Min({a, c - b}) IN
           n \in 0 .. a /\ b + n <= c /\ (n = a \/ b + n = c)
<1>1. Min({a, c - b}) = IF a <= c - b THEN a ELSE c - b
  BY MinOfTwo
<1> QED  BY <1>1

(* The number of chunks: the last one is not empty, and all are filled. *)
LEMMA DivCeilUnique ==
    ASSUME NEW l \in Nat, NEW s \in Nat \ {0}, NEW n \in Nat,
           l <= s * n, n > 0 => s * (n - 1) < l
    PROVE  DivCeil(l, s) = n
<1>1. s * n <= l + s - 1 /\ l + s - 1 < s * n + s
  OBVIOUS
<1> QED  BY <1>1, Z3 DEF DivCeil

(* A length divided into pieces of size s, the last of which may be short. *)
LEMMA DivCeilBounds ==
    ASSUME NEW l \in Nat, NEW s \in Nat \ {0}
    PROVE  /\ DivCeil(l, s) \in Nat
           /\ l <= s * DivCeil(l, s)
           /\ DivCeil(l, s) > 0 => s * (DivCeil(l, s) - 1) < l
BY DEF DivCeil

(* A piece of a byte string, and two adjacent pieces. *)
LEMMA Piece ==
    ASSUME NEW x \in Bytes, NEW p \in Nat, NEW q \in p .. Len(x)
    PROVE  SubSeq(x, p + 1, q) \in Bytes /\ Len(SubSeq(x, p + 1, q)) = q - p
BY DEF Bytes

(* Adjacent pieces of a byte string join into one. *)
LEMMA PiecesJoin ==
    ASSUME NEW x \in Bytes, NEW p \in Nat, NEW q \in p .. Len(x), NEW r \in q .. Len(x)
    PROVE  SubSeq(x, p + 1, q) \o SubSeq(x, q + 1, r) = SubSeq(x, p + 1, r)
BY DEF Bytes

(* A piece cut in two. *)
LEMMA PieceOfPiece ==
    ASSUME NEW x \in Bytes, NEW p \in Nat, NEW q \in p .. Len(x), NEW r \in p .. q
    PROVE  /\ SubSeq(SubSeq(x, p + 1, q), 1, r - p) = SubSeq(x, p + 1, r)
           /\ SubSeq(SubSeq(x, p + 1, q), r - p + 1, q - p) = SubSeq(x, r + 1, q)
BY DEF Bytes

(* The piece from the first byte to the last is the whole. *)
LEMMA WholePiece ==
    ASSUME NEW x \in Bytes
    PROVE  Len(x) \in Nat /\ SubSeq(x, 1, Len(x)) = x
BY DEF Bytes

(* The number of chunks of a plaintext is a natural number. *)
LEMMA ChunkCountNat ==
    ASSUME NEW x \in Bytes
    PROVE  ChunkCount(x) \in Nat
<1>1. Len(x) \in Nat
  BY DEF Bytes
<1> QED  BY <1>1, DivCeilBounds, ChunkPolicy, Zenon DEF ChunkCount

(* The empty function, the indices of a version and one more. *)
LEMMA NoChunks == DOMAIN <<>> = {} /\ Cardinality(DOMAIN <<>>) = 0
<1>1. DOMAIN <<>> = {}
  OBVIOUS
<1> QED  BY <1>1, FS_EmptySet, Zenon

(* n chunks are numbered 0 to n - 1; the next one is number n. *)
LEMMA Indices ==
    ASSUME NEW n \in Nat
    PROVE  Cardinality(0 .. n - 1) = n /\ (0 .. n - 1) \cup {n} = 0 .. n
<1>1. Cardinality(0 .. n - 1) = IF 0 > n - 1 THEN 0 ELSE (n - 1) - 0 + 1
  BY FS_Interval
<1> QED  BY <1>1
-----------------------------------------------------------------------------
(* What a step may do to the committed versions *)

(* A complete upload is laid out as prepare_version lays out its input. *)
LEMMA FinishWhole ==
    ASSUME Shapes, Chunked, srv.at = "append", srv.op = "put", srv.buf = <<>>
    PROVE  FinishRow = PrepareVersion(srv.object, srv.version, srv.input)
<1>1. Count \in Nat /\ srv.input \in Bytes /\ Len(srv.input) \in Nat /\ srv.length \in Nat
      /\ ChunkSize \in Nat \ {0} /\ Len(srv.buf) = 0
  BY ChunkPolicy DEF Shapes, TTypeOK, Bytes
<1>2. /\ srv.chunks = [i \in 0 .. Count - 1 |-> SealChunk(srv.object, srv.version, i, Slice(srv.input, i))]
      /\ srv.length = Min({ChunkSize * Count, Len(srv.input)})
      /\ Count > 0 => ChunkSize * (Count - 1) < srv.length
      /\ srv.length = Len(srv.input)
  BY <1>1 DEF Chunked, Uploading, Copied
<1>3. ChunkSize * Count \in Int
  BY <1>1
<1>4. Len(srv.input) <= ChunkSize * Count
  BY <1>1, <1>2, <1>3, MinSecond, Zenon
<1>5. ChunkCount(srv.input) = Count
  BY <1>1, <1>2, <1>4, DivCeilUnique, Zenon DEF ChunkCount
<1> QED  BY <1>2, <1>5, Zenon DEF FinishRow, PrepareVersion

(* A version is committed under the least number that is free. *)
CommitStep ==
    \E o \in Object, x \in Bytes, v \in NewVersions :
        /\ \A u \in NewVersions : v <= u
        /\ Committed(o, v, PrepareVersion(o, v, x), x)

(* The plaintexts that clients upload are byte strings. *)
LEMMA PlainInBytes == Plain \subseteq Bytes
BY PlainBytes DEF Bytes

(* A new version has the least free number. *)
LEMMA NewVersionIsLeast ==
    ASSUME NewVersions # {}
    PROVE  NewVersion \in NewVersions /\ \A u \in NewVersions : NewVersion <= u
<1>1. NewVersions \in SUBSET Nat
  BY VersionsNumbered, Zenon DEF NewVersions
<1> QED  BY <1>1, MinOfSet, Zenon DEF NewVersion

(* The steps that change the database: a commit, or a fault. *)
LEMMA StoreSteps ==
    ASSUME TransferInv, Next
    PROVE  \/ UNCHANGED store
           \/ CommitStep
           \/ \E v \in DOMAIN rows : DamageRow(v)
           \/ \E o \in Object, v \in DOMAIN rows : DamagePointer(o, v)
<1>1. ASSUME NEW o \in Object, NEW x \in Plain, BufferedPut(o, x)
      PROVE  CommitStep
  <2>1. NewVersions # {} /\ Committed(o, NewVersion, PrepareVersion(o, NewVersion, x), x)
    BY <1>1, Zenon DEF BufferedPut
  <2> QED  BY <2>1, NewVersionIsLeast, PlainInBytes, Zenon DEF CommitStep
<1>2. ASSUME Finish
      PROVE  CommitStep
  <2>1. srv.at = "append" /\ srv.buf = <<>> /\ Committed(srv.object, srv.version, FinishRow, srv.input)
    BY <1>2, Zenon DEF Finish
  <2>2. Shapes /\ Chunked /\ Paired /\ Numbered
    BY Zenon DEF TransferInv
  <2>3. srv.op = "put" /\ srv.object \in Object /\ srv.version \in NewVersions
        /\ \A u \in NewVersions : srv.version <= u
    BY <2>1, <2>2 DEF Paired, Numbered
  <2>4. srv.input \in Bytes
    BY <2>2 DEF Shapes
  <2>5. FinishRow = PrepareVersion(srv.object, srv.version, srv.input)
    BY <2>1, <2>2, <2>3, FinishWhole, Zenon
  <2> QED  BY <2>1, <2>3, <2>4, <2>5, Zenon DEF CommitStep
<1>3. ASSUME Refuse \/ Ready \/ Answer \/ BeginPut \/ ReadItem \/ CopyBytes \/ ReadAfterEnd
      PROVE  UNCHANGED store
  BY <1>3, Zenon DEF Refuse, Ready, Answer, Respond, BeginPut, ReadItem, CopyBytes, ReadAfterEnd
<1>4. ASSUME ReadFails \/ AppendChunk \/ BeginGet \/ ServeChunk \/ ServeEnd \/ StorageFails \/ Crash
      PROVE  UNCHANGED store
  BY <1>4, Zenon DEF ReadFails, AppendChunk, BeginGet, ServeChunk, ServeEnd, StorageFails, Crash
<1>5. ASSUME Client
      PROVE  UNCHANGED store
  BY <1>5, Zenon DEF Client, Request, AwaitReady, SendChunk, SendEnd, AwaitPublished, ReceiveItem,
     PublishOutput, LoseDaemon, Abort, TakeOutput
<1>6. ASSUME Unlock \/ Lock
      PROVE  UNCHANGED store
  BY <1>6, Zenon DEF Unlock, Lock
<1> QED  BY <1>1, <1>2, <1>3, <1>4, <1>5, <1>6, Zenon DEF Next, Handler

StoreShape ==
    /\ DOMAIN rows \subseteq Version /\ DOMAIN content = DOMAIN rows
    /\ active \in [Object -> DOMAIN rows \cup {NoVersion}]
    /\ damaged \in [versions : SUBSET Version, faults : Nat]
    /\ content \in [DOMAIN rows -> [object : Object, data : Bytes]]
InOrder == \A v \in DOMAIN rows, u \in Version : u < v => u \in DOMAIN rows
StoreInv == StoreShape /\ InOrder /\ Sealed /\ StoredWhole

(* What TransferInv says of the database. *)
LEMMA StoreFacts == TransferInv => StoreInv
BY Zenon DEF TransferInv, Shapes, TTypeOK, Numbered, StoreInv, StoreShape, InOrder

(* What a commit leaves: the new version beside all the others. *)
Commits(o, x, v) ==
    /\ v \in Version /\ v \notin DOMAIN rows /\ \A u \in NewVersions : v <= u
    /\ DOMAIN rows' = DOMAIN rows \cup {v} /\ DOMAIN content' = DOMAIN rows'
    /\ rows'[v] = PrepareVersion(o, v, x) /\ content'[v] = [object |-> o, data |-> x]
    /\ \A u \in DOMAIN rows : rows'[u] = rows[u] /\ content'[u] = content[u]
    /\ content' = [u \in DOMAIN content' |-> content'[u]]
    /\ active' = [active EXCEPT ![o] = v] /\ damaged' = damaged

(* Both kinds of put commit one version and move the pointer to it. *)
LEMMA CommitFacts ==
    ASSUME StoreShape, CommitStep
    PROVE  \E o \in Object, x \in Bytes, v \in Version : Commits(o, x, v)
<1>1. PICK o \in Object, x \in Bytes, v \in NewVersions :
          (\A u \in NewVersions : v <= u) /\ Committed(o, v, PrepareVersion(o, v, x), x)
  BY Zenon DEF CommitStep
<1> DEFINE row == PrepareVersion(o, v, x)
           pub == [object |-> o, data |-> x]
<1>2. v \in Version /\ v \notin DOMAIN rows
  BY Zenon DEF NewVersions
<1>3. /\ rows' = With(rows, v, row) /\ content' = With(content, v, pub)
      /\ active' = [active EXCEPT ![o] = v] /\ damaged' = damaged
  BY <1>1, Zenon DEF Committed
<1>4. DOMAIN content = DOMAIN rows
  BY Zenon DEF StoreShape
<1> HIDE DEF row, pub
<1>5. \A u \in DOMAIN rows : rows'[u] = rows[u] /\ content'[u] = content[u]
  BY <1>2, <1>3, <1>4 DEF With
<1>6. /\ DOMAIN rows' = DOMAIN rows \cup {v} /\ DOMAIN content' = DOMAIN rows'
      /\ rows'[v] = row /\ content'[v] = pub
      /\ content' = [u \in DOMAIN content' |-> content'[u]]
  BY <1>3, <1>4 DEF With
<1>7. Commits(o, x, v)
  BY <1>1, <1>2, <1>3, <1>5, <1>6, Zenon DEF Commits, row, pub
<1> QED  BY <1>2, <1>7, Zenon

(* A commit keeps the tables in their types. *)
LEMMA CommitShape ==
    ASSUME StoreShape, CommitStep
    PROVE  StoreShape'
<1>1. PICK o \in Object, x \in Bytes, v \in Version : Commits(o, x, v)
  BY CommitFacts, Zenon
<1>2. /\ v \notin DOMAIN rows
      /\ DOMAIN rows' = DOMAIN rows \cup {v} /\ DOMAIN content' = DOMAIN rows'
      /\ content'[v] = [object |-> o, data |-> x]
      /\ \A u \in DOMAIN rows : content'[u] = content[u]
      /\ content' = [u \in DOMAIN content' |-> content'[u]]
      /\ active' = [active EXCEPT ![o] = v] /\ damaged' = damaged
  BY <1>1, Zenon DEF Commits
<1>3. content' \in [DOMAIN rows' -> [object : Object, data : Bytes]]
  <2>1. \A u \in DOMAIN rows' : content'[u] \in [object : Object, data : Bytes]
    BY <1>2 DEF StoreShape
  <2> QED  BY <1>2, <2>1, Zenon
<1>4. active' \in [Object -> DOMAIN rows' \cup {NoVersion}]
  BY <1>2 DEF StoreShape
<1> QED  BY <1>2, <1>3, <1>4 DEF StoreShape

(* A commit keeps the versions numbered without gaps. *)
LEMMA CommitOrder ==
    ASSUME StoreShape, InOrder, CommitStep
    PROVE  InOrder'
<1>1. PICK o \in Object, x \in Bytes, v \in Version : Commits(o, x, v)
  BY CommitFacts, Zenon
<1>2. DOMAIN rows' = DOMAIN rows \cup {v} /\ \A u \in NewVersions : v <= u
  BY <1>1, Zenon DEF Commits
<1>3. ASSUME NEW u \in Version, u < v
      PROVE  u \in DOMAIN rows
  BY <1>2, <1>3, VersionsNumbered DEF NewVersions
<1> QED  BY <1>2, <1>3, Zenon DEF InOrder

(* A commit keeps every undamaged version whole. *)
LEMMA CommitStored ==
    ASSUME StoreShape, StoredWhole, CommitStep
    PROVE  StoredWhole'
<1>1. PICK o \in Object, x \in Bytes, v \in Version : Commits(o, x, v)
  BY CommitFacts, Zenon
<1>2. ASSUME NEW u \in DOMAIN rows' \ damaged'.versions
      PROVE  rows'[u] = PrepareVersion(content'[u].object, u, content'[u].data)
  <2>1. CASE u \in DOMAIN rows
    BY <1>1, <1>2, <2>1, Zenon DEF Commits, StoredWhole
  <2>2. CASE u = v
    <3>1. rows'[u] = PrepareVersion(o, v, x) /\ content'[u] = [object |-> o, data |-> x]
      BY <1>1, <2>2, Zenon DEF Commits
    <3>2. content'[u].object = o /\ content'[u].data = x
      BY <3>1
    <3> QED  BY <3>1, <3>2, <2>2, Zenon
  <2> QED  BY <1>1, <1>2, <2>1, <2>2, Zenon DEF Commits
<1> QED  BY <1>2, Zenon DEF StoredWhole

(* The rows that prepare_version makes. *)
LEMMA PreparedRow ==
    ASSUME NEW o, NEW v, NEW x \in Bytes
    PROVE  LET row == PrepareVersion(o, v, x) IN
           /\ DOMAIN row = {"object", "dek", "manifest", "length", "size", "count", "chunks"}
           /\ DOMAIN row.chunks = 0 .. ChunkCount(x) - 1
           /\ \A j \in 0 .. ChunkCount(x) - 1 : row.chunks[j] = SealChunk(o, v, j, Slice(x, j))
           /\ row.manifest = Seal(ManifestKey(Dek(v), v), ManifestAad(o, v), Manifest(o, v, Len(x), row.chunks))
           /\ ChunkCount(x) \in Nat
<1>1. Len(x) \in Nat
  BY DEF Bytes
<1>2. ChunkCount(x) \in Nat
  BY ChunkCountNat, Zenon
<1> DEFINE chunks == [i \in 0 .. ChunkCount(x) - 1 |-> SealChunk(o, v, i, Slice(x, i))]
           row == PrepareVersion(o, v, x)
<1>3. row = StoredVersion(o, v, Len(x), chunks)
  BY Zenon DEF PrepareVersion
<1>4. DOMAIN chunks = 0 .. ChunkCount(x) - 1
      /\ \A j \in 0 .. ChunkCount(x) - 1 : chunks[j] = SealChunk(o, v, j, Slice(x, j))
  BY Zenon
<1> HIDE DEF chunks
<1>5. /\ DOMAIN row = {"object", "dek", "manifest", "length", "size", "count", "chunks"}
      /\ row.chunks = chunks
      /\ row.manifest = Seal(ManifestKey(Dek(v), v), ManifestAad(o, v), Manifest(o, v, Len(x), chunks))
  BY <1>3 DEF StoredVersion
<1> QED  BY <1>2, <1>4, <1>5, Zenon

(* Sealed records stay records of committed versions. *)
LEMMA RecordsKept ==
    ASSUME \A u \in DOMAIN rows : u \in DOMAIN rows' /\ content'[u] = content[u]
    PROVE  Manifests \subseteq Manifests' /\ ChunkRecords \subseteq ChunkRecords'
<1> DEFINE R(u) == PrepareVersion(content'[u].object, u, content'[u].data)
<1>1. \A u \in DOMAIN rows : u \in DOMAIN rows' /\ Original(u) = R(u)
  BY Zenon DEF Original
<1>2. /\ Manifests' = {R(u).manifest : u \in DOMAIN rows'}
      /\ ChunkRecords' = UNION {{R(u).chunks[j] : j \in DOMAIN R(u).chunks} : u \in DOMAIN rows'}
  BY Zenon DEF Manifests, ChunkRecords, Original
<1> HIDE DEF R
<1>3. Manifests \subseteq Manifests'
  BY <1>1, <1>2 DEF Manifests
<1>4. ASSUME NEW m \in ChunkRecords
      PROVE  m \in ChunkRecords'
  <2>1. PICK u \in DOMAIN rows : m \in {Original(u).chunks[j] : j \in DOMAIN Original(u).chunks}
    BY <1>4, Zenon DEF ChunkRecords
  <2>2. m \in {R(u).chunks[j] : j \in DOMAIN R(u).chunks}
    BY <2>1, <1>1, Zenon
  <2>3. u \in DOMAIN rows'
    BY <1>1, Zenon
  <2> QED  BY <2>2, <2>3, <1>2, ZenonT(30)
<1> QED  BY <1>3, <1>4, Zenon

(* A commit keeps every sealed record one that a put has made. *)
LEMMA CommitSealed ==
    ASSUME StoreShape, Sealed, CommitStep
    PROVE  Sealed'
<1>1. PICK o \in Object, x \in Bytes, v \in Version : Commits(o, x, v)
  BY CommitFacts, Zenon
<1>2. Manifests \subseteq Manifests' /\ ChunkRecords \subseteq ChunkRecords'
  BY <1>1, RecordsKept, Zenon DEF Commits
<1> DEFINE row == PrepareVersion(o, v, x)
<1>3. content'[v].object = o /\ content'[v].data = x /\ v \in DOMAIN rows'
  BY <1>1 DEF Commits
<1>4. row.manifest \in Manifests' /\ \A i \in DOMAIN row.chunks : row.chunks[i] \in ChunkRecords'
  <2> DEFINE R(u) == PrepareVersion(content'[u].object, u, content'[u].data)
  <2>1. row = R(v)
    BY <1>3, Zenon
  <2>2. /\ Manifests' = {R(u).manifest : u \in DOMAIN rows'}
        /\ ChunkRecords' = UNION {{R(u).chunks[j] : j \in DOMAIN R(u).chunks} : u \in DOMAIN rows'}
    BY Zenon DEF Manifests, ChunkRecords, Original
  <2> HIDE DEF R, row
  <2>3. row.manifest \in Manifests'
    BY <2>1, <2>2, <1>3, Zenon
  <2>4. ASSUME NEW i \in DOMAIN row.chunks
        PROVE  row.chunks[i] \in ChunkRecords'
    <3>1. row.chunks[i] \in {R(v).chunks[j] : j \in DOMAIN R(v).chunks}
      BY <2>1, <2>4, Zenon
    <3> QED  BY <3>1, <2>2, <1>3, Zenon
  <2> QED  BY <2>3, <2>4, Zenon
<1>5. /\ DOMAIN row = {"object", "dek", "manifest", "length", "size", "count", "chunks"}
      /\ DOMAIN row.chunks \subseteq Nat
  <2>1. DOMAIN row.chunks = 0 .. ChunkCount(x) - 1 /\ ChunkCount(x) \in Nat
    BY PreparedRow, Zenon
  <2>2. 0 .. ChunkCount(x) - 1 \subseteq Nat
    BY <2>1
  <2> QED  BY <2>1, <2>2, PreparedRow, Zenon
<1>6. rows'[v] = row
  BY <1>1, Zenon DEF Commits
<1> HIDE DEF row
<1>7. \A u \in DOMAIN rows' : u = v \/ (u \in DOMAIN rows /\ rows'[u] = rows[u])
  BY <1>1, Zenon DEF Commits
<1> QED  BY <1>2, <1>4, <1>5, <1>6, <1>7, Zenon DEF Sealed

(* A damaged row holds records that a put has made, in the wrong place or not at all. *)
LEMMA DamageStore ==
    ASSUME StoreInv, NEW v \in DOMAIN rows, DamageRow(v)
    PROVE  /\ StoreInv'
           /\ DOMAIN rows' = DOMAIN rows /\ content' = content /\ active' = active
<1>1. PICK r \in Damages(v) : rows' = With(rows, v, r)
  BY Zenon DEF DamageRow
<1>2. /\ content' = content /\ active' = active
      /\ damaged' = [versions |-> damaged.versions \cup {v}, faults |-> damaged.faults + 1]
  BY Zenon DEF DamageRow
<1>3. /\ DOMAIN rows' = DOMAIN rows /\ rows'[v] = r
      /\ \A u \in DOMAIN rows : u # v => rows'[u] = rows[u]
  BY <1>1 DEF With
<1>4. StoreShape'
  BY <1>2, <1>3 DEF StoreInv, StoreShape
<1>5. InOrder'
  BY <1>3, Zenon DEF StoreInv, InOrder
<1>6. StoredWhole'
  BY <1>2, <1>3 DEF StoreInv, StoredWhole
<1>7. Sealed'
  <2>1. Manifests \subseteq Manifests' /\ ChunkRecords \subseteq ChunkRecords'
    BY <1>2, <1>3, RecordsKept, Zenon
  <2>2. /\ DOMAIN r = {"object", "dek", "manifest", "length", "size", "count", "chunks"}
        /\ r.manifest \in Manifests
        /\ DOMAIN r.chunks \subseteq Nat
        /\ \A i \in DOMAIN r.chunks : r.chunks[i] \in ChunkRecords
    <3>1. \A t \in Slots : rows[t[1]].chunks[t[2]] \in ChunkRecords
      BY DEF Slots, StoreInv, Sealed
    <3> HIDE DEF Slots
    <3>2. /\ DOMAIN rows[v] = {"object", "dek", "manifest", "length", "size", "count", "chunks"}
          /\ DOMAIN rows[v].chunks \subseteq Nat
          /\ \A i \in DOMAIN rows[v].chunks : rows[v].chunks[i] \in ChunkRecords
          /\ \A u \in DOMAIN rows : rows[u].manifest \in Manifests
      BY Zenon DEF StoreInv, Sealed
    <3> DEFINE R == rows[v]
    <3>3. \/ \E i \in DOMAIN R.chunks :
                r = [R EXCEPT !.chunks = [j \in (DOMAIN R.chunks) \ {i} |-> R.chunks[j]]]
          \/ \E i \in DOMAIN R.chunks, t \in Slots :
                r = [R EXCEPT !.chunks[i] = rows[t[1]].chunks[t[2]]]
          \/ \E n \in {R.length + 1, 0} : r = [R EXCEPT !.length = n]
          \/ \E u \in DOMAIN rows : r = [R EXCEPT !.manifest = rows[u].manifest]
          \/ \E u \in DOMAIN rows : r = [R EXCEPT !.dek = rows[u].dek]
          \/ \E o \in Object : r = [R EXCEPT !.object = o]
      <4> DEFINE A1 == {[R EXCEPT !.chunks = [j \in (DOMAIN R.chunks) \ {i} |-> R.chunks[j]]] : i \in DOMAIN R.chunks}
                 A2 == {[R EXCEPT !.chunks[i] = rows[t[1]].chunks[t[2]]] : i \in DOMAIN R.chunks, t \in Slots}
                 A3 == {[R EXCEPT !.length = n] : n \in {R.length + 1, 0}}
                 A4 == {[R EXCEPT !.manifest = rows[u].manifest] : u \in DOMAIN rows}
                 A5 == {[R EXCEPT !.dek = rows[u].dek] : u \in DOMAIN rows}
                 A6 == {[R EXCEPT !.object = o] : o \in Object}
      <4>1. Damages(v) = A1 \cup A2 \cup A3 \cup A4 \cup A5 \cup A6
        BY DEF Damages
      <4> HIDE DEF A1, A2, A3, A4, A5, A6
      <4>2. r \in A1 \/ r \in A2 \/ r \in A3 \/ r \in A4 \/ r \in A5 \/ r \in A6
        BY <1>1, <4>1, Zenon
      <4> HIDE DEF R
      <4>3. CASE r \in A1
        BY <4>3, Zenon DEF A1
      <4>4. CASE r \in A2
        BY <4>4 DEF A2
      <4>5. CASE r \in A3
        BY <4>5, Zenon DEF A3
      <4>6. CASE r \in A4
        BY <4>6, Zenon DEF A4
      <4>7. CASE r \in A5
        BY <4>7, Zenon DEF A5
      <4>8. CASE r \in A6
        BY <4>8, Zenon DEF A6
      <4> QED  BY <4>2, <4>3, <4>4, <4>5, <4>6, <4>7, <4>8, Zenon
    <3>4. R.manifest \in Manifests
      BY <3>2, Zenon
    <3> HIDE DEF R
    <3>5. CASE \E i \in DOMAIN R.chunks :
                 r = [R EXCEPT !.chunks = [j \in (DOMAIN R.chunks) \ {i} |-> R.chunks[j]]]
      BY <3>2, <3>4, <3>5, SMTT(30) DEF R
    <3>6. CASE \E i \in DOMAIN R.chunks, t \in Slots :
                 r = [R EXCEPT !.chunks[i] = rows[t[1]].chunks[t[2]]]
      BY <3>1, <3>2, <3>4, <3>6, SMTT(30) DEF R
    <3>7. CASE \/ \E n \in {R.length + 1, 0} : r = [R EXCEPT !.length = n]
               \/ \E u \in DOMAIN rows : r = [R EXCEPT !.manifest = rows[u].manifest]
               \/ \E u \in DOMAIN rows : r = [R EXCEPT !.dek = rows[u].dek]
               \/ \E o \in Object : r = [R EXCEPT !.object = o]
      BY <3>2, <3>4, <3>7 DEF R
    <3> QED  BY <3>3, <3>5, <3>6, <3>7, Zenon
  <2> QED  BY <1>3, <2>1, <2>2, Zenon DEF StoreInv, Sealed
<1> QED  BY <1>2, <1>3, <1>4, <1>5, <1>6, <1>7, Zenon DEF StoreInv

ContentKept == \A u \in DOMAIN rows : u \in DOMAIN rows' /\ content'[u] = content[u]

(* Whatever a step does, it keeps the store's invariant and every version. *)
LEMMA StoreStep ==
    ASSUME TransferInv, Next
    PROVE  StoreInv' /\ ContentKept
<1>1. StoreInv
  BY StoreFacts, Zenon
<1>2. CASE UNCHANGED store
  <2>1. rows' = rows /\ active' = active /\ content' = content /\ damaged' = damaged
    BY <1>2, Zenon DEF store
  <2>2. StoreShape' /\ InOrder' /\ StoredWhole'
    BY <1>1, <2>1, Zenon DEF StoreInv, StoreShape, InOrder, StoredWhole
  <2>3. Manifests \subseteq Manifests' /\ ChunkRecords \subseteq ChunkRecords'
    BY <2>1, RecordsKept, Zenon
  <2>4. Sealed'
    BY <1>1, <2>1, <2>3, Zenon DEF StoreInv, Sealed
  <2> QED  BY <2>1, <2>2, <2>4, Zenon DEF StoreInv, ContentKept
<1>3. CASE CommitStep
  <2>1. PICK o \in Object, x \in Bytes, v \in Version : Commits(o, x, v)
    BY <1>1, <1>3, CommitFacts, Zenon DEF StoreInv
  <2>2. ContentKept
    BY <2>1, Zenon DEF Commits, ContentKept
  <2> QED  BY <1>1, <1>3, <2>2, CommitShape, CommitOrder, CommitStored, CommitSealed, Zenon DEF StoreInv
<1>4. ASSUME NEW v \in DOMAIN rows, DamageRow(v)
      PROVE  StoreInv' /\ ContentKept
  BY <1>1, <1>4, DamageStore, Zenon DEF ContentKept
<1>5. ASSUME NEW o \in Object, NEW v \in DOMAIN rows, DamagePointer(o, v)
      PROVE  StoreInv' /\ ContentKept
  <2>1. /\ rows' = rows /\ content' = content
        /\ active' = [active EXCEPT ![o] = v]
        /\ damaged' = [damaged EXCEPT !.faults = damaged.faults + 1]
    BY <1>5, Zenon DEF DamagePointer
  <2>2. StoreShape'
    BY <1>1, <2>1 DEF StoreInv, StoreShape
  <2>3. damaged'.versions = damaged.versions
    BY <1>1, <2>1 DEF StoreInv, StoreShape
  <2>4. InOrder' /\ StoredWhole'
    BY <1>1, <2>1, <2>3, Zenon DEF StoreInv, InOrder, StoredWhole
  <2>5. Manifests \subseteq Manifests' /\ ChunkRecords \subseteq ChunkRecords'
    BY <2>1, RecordsKept, Zenon
  <2>6. Sealed'
    BY <1>1, <2>1, <2>5, Zenon DEF StoreInv, Sealed
  <2> QED  BY <2>1, <2>2, <2>4, <2>6, Zenon DEF StoreInv, ContentKept
<1> QED  BY <1>2, <1>3, <1>4, <1>5, StoreSteps, Zenon

(* What was published for an object stays published for it. *)
LEMMA PublishedKept ==
    ASSUME StoreShape, StoreShape', ContentKept, NEW o, NEW x \in Published(o)
    PROVE  x \in Published(o)'
<1>1. PICK u \in DOMAIN content : content[u].object = o /\ x = content[u].data
  BY Zenon DEF Published
<1>2. u \in DOMAIN content' /\ content'[u] = content[u]
  BY <1>1, Zenon DEF StoreShape, ContentKept
<1> QED  BY <1>1, <1>2 DEF Published

-----------------------------------------------------------------------------
(* Every variable stays in its type *)

SrvShape ==
    /\ srv \in [at : {"closed", "request", "begin", "read", "append", "serve", "answer"},
                op : Ops, object : Objects, input : Bytes, version : Versions,
                cur : Bytes, finished : BOOLEAN, buf : Bytes, chunks : {srv.chunks},
                length : Nat, next : Nat, manifest : {srv.manifest}, written : Bytes, code : Codes]
    /\ Len(srv.buf) <= ChunkSize /\ Count \in 0 .. MaxChunks

(* The empty byte string. *)
LEMMA EmptyBytes == <<>> \in Bytes /\ Len(<<>>) = 0
BY DEF Bytes

(* A handler that returns leaves its state in its type. *)
LEMMA ClosedShape ==
    ASSUME srv' = Closed
    PROVE  SrvShape'
<1>1. Count' = 0
  BY NoChunks DEF Count, Closed
<1> QED  BY <1>1, EmptyBytes, ChunkPolicy DEF Closed, SrvShape, Ops, Objects, Versions, Codes

Answering(op, v, code) ==
    [at |-> "answer", op |-> op, object |-> "none", input |-> <<>>,
     version |-> v, cur |-> <<>>, finished |-> FALSE, buf |-> <<>>,
     chunks |-> <<>>, length |-> 0, next |-> 0, manifest |-> NoManifest,
     written |-> <<>>, code |-> code]

(* The codes a vault call returns. *)
LEMMA KnownCodes ==
    /\ "Ok" \in Codes /\ "Locked" \in Codes /\ "NotFound" \in Codes /\ "InvalidInput" \in Codes
    /\ "Authentication" \in Codes /\ "Invariant" \in Codes /\ "Storage" \in Codes
BY DEF Codes

(* A handler about to answer is in its type. *)
LEMMA AnswerShape ==
    ASSUME NEW op \in Ops, NEW v \in Versions, NEW code \in Codes, srv' = Answering(op, v, code)
    PROVE  SrvShape'
<1>1. Count' = 0
  BY NoChunks DEF Count, Answering
<1> QED  BY <1>1, EmptyBytes, ChunkPolicy, SMTT(30) DEF SrvShape, Objects, Answering

(* What the return of a vault call leaves. *)
LEMMA ReturnsFacts ==
    ASSUME NEW code, Returns(code)
    PROVE  /\ srv' = Answering(srv.op, IF code = "Ok" THEN srv.version ELSE NoVersion, code)
           /\ unlocked' \in BOOLEAN
           /\ UNCHANGED <<cli, up, down, file>>
BY Zenon DEF Returns, Closed, Answering

(* The return of a vault call keeps the handler in its type. *)
LEMMA ReturnsShape ==
    ASSUME SrvShape, NEW code \in Codes, Returns(code)
    PROVE  SrvShape' /\ unlocked' \in BOOLEAN
<1> DEFINE v == IF code = "Ok" THEN srv.version ELSE NoVersion
<1>1. srv' = Answering(srv.op, v, code) /\ unlocked' \in BOOLEAN
  BY ReturnsFacts
<1>2. srv.op \in Ops /\ v \in Versions
  BY DEF SrvShape, Versions
<1> HIDE DEF v
<1> QED  BY <1>1, <1>2, AnswerShape, Zenon

(* A step that leaves the handler alone keeps its type. *)
LEMMA SameSrvShape ==
    ASSUME SrvShape, srv' = srv
    PROVE  SrvShape'
BY Zenon DEF SrvShape, Count

(* A new connection starts a handler in its type. *)
LEMMA RequestSrv ==
    ASSUME NEW op \in {"put", "get"}, NEW o \in Object, NEW x \in Bytes, Request(op, o, x)
    PROVE  /\ SrvShape' /\ unlocked' = unlocked
           /\ srv' = [at |-> "request", op |-> op, object |-> o, input |-> x,
                      version |-> NoVersion, cur |-> <<>>, finished |-> FALSE, buf |-> <<>>,
                      chunks |-> <<>>, length |-> 0, next |-> 0, manifest |-> NoManifest,
                      written |-> <<>>, code |-> "none"]
           /\ cli' = [at |-> "ready", op |-> op, object |-> o, input |-> x, sent |-> 0,
                      temp |-> <<>>, result |-> "none"]
           /\ up' = <<>> /\ down' = <<>> /\ file' = file
<1>1. /\ srv' = [at |-> "request", op |-> op, object |-> o, input |-> x,
                 version |-> NoVersion, cur |-> <<>>, finished |-> FALSE, buf |-> <<>>,
                 chunks |-> <<>>, length |-> 0, next |-> 0, manifest |-> NoManifest,
                 written |-> <<>>, code |-> "none"]
      /\ cli' = [at |-> "ready", op |-> op, object |-> o, input |-> x, sent |-> 0,
                 temp |-> <<>>, result |-> "none"]
      /\ up' = <<>> /\ down' = <<>> /\ file' = file /\ unlocked' = unlocked
  BY Zenon DEF Request, Closed, Gone
<1>2. Count' = 0
  BY <1>1, NoChunks, SMTT(30) DEF Count
<1>3. SrvShape'
  BY <1>1, <1>2, EmptyBytes, ChunkPolicy, SMTT(30) DEF SrvShape, Objects, Ops, Versions, Codes
<1> QED  BY <1>1, <1>3, Zenon

(* The handler's own steps, from the places they leave. *)
LEMMA ReadySrv ==
    ASSUME SrvShape, Ready
    PROVE  SrvShape' /\ unlocked' = unlocked
<1>1. unlocked' = unlocked /\ srv' = IF Connected THEN [srv EXCEPT !.at = "begin"] ELSE Closed
  BY Zenon DEF Ready
<1>2. CASE ~ Connected
  BY <1>1, <1>2, ClosedShape, Zenon
<1>3. CASE Connected
  <2>1. srv' = [srv EXCEPT !.at = "begin"]
    BY <1>1, <1>3, Zenon
  <2> QED  BY <1>1, <2>1 DEF SrvShape, Count
<1> QED  BY <1>2, <1>3, Zenon

(* BeginPut keeps the handler in its type. *)
LEMMA BeginPutSrv ==
    ASSUME SrvShape, unlocked \in BOOLEAN, srv.op = "put" => NewVersions # {}, BeginPut
    PROVE  SrvShape' /\ unlocked' \in BOOLEAN
<1>1. CASE Returns("Locked")
  BY <1>1, ReturnsShape, KnownCodes, Zenon
<1>2. CASE srv' = [srv EXCEPT !.at = "read", !.version = NewVersion] /\ unlocked' = unlocked
  <2>1. NewVersion \in Versions
    BY NewVersionIsLeast, Zenon DEF BeginPut, NewVersions, Versions
  <2> HIDE DEF NewVersion
  <2>2. SrvShape'
    BY <1>2, <2>1, Zenon DEF SrvShape, Count
  <2> QED  BY <1>2, <2>2
<1> QED  BY <1>1, <1>2, Zenon DEF BeginPut

(* ReadItem keeps the handler in its type and takes the first item. *)
LEMMA ReadItemSrv ==
    ASSUME SrvShape, up \in Seq(SocketItem), ReadItem
    PROVE  SrvShape' /\ unlocked' = unlocked /\ up' = Tail(up) /\ up # <<>>
<1>1. Head(up) \in SocketItem
  BY DEF ReadItem
<1>2. Head(up).type = "data" => Head(up).data \in Bytes
  BY <1>1 DEF SocketItem
<1>3. unlocked' = unlocked /\ up' = Tail(up) /\ up # <<>>
  BY Zenon DEF ReadItem
<1>4. CASE Head(up).type = "data"
  <2>1. srv' = [srv EXCEPT !.cur = Head(up).data]
    BY <1>4, Zenon DEF ReadItem
  <2>2. SrvShape'
    BY <1>2, <1>4, <2>1, SMTT(30) DEF SrvShape, Count
  <2> QED  BY <1>3, <2>2
<1>5. CASE Head(up).type # "data"
  <2>1. srv' = [srv EXCEPT !.finished = TRUE, !.at = "append"]
    BY <1>5, Zenon DEF ReadItem
  <2>2. SrvShape'
    BY <2>1, Zenon DEF SrvShape, Count
  <2> QED  BY <1>3, <2>2
<1> QED  BY <1>4, <1>5

(* StreamReader::read hands over as much as fits or as there is. *)
LEMMA CopyFacts ==
    ASSUME SrvShape, CopyBytes
    PROVE  \E n \in 0 .. Len(srv.cur) :
             /\ Len(srv.buf) + n <= ChunkSize
             /\ n = Len(srv.cur) \/ Len(srv.buf) + n = ChunkSize
             /\ srv' = [srv EXCEPT !.buf = srv.buf \o SubSeq(srv.cur, 1, n),
                                   !.cur = SubSeq(srv.cur, n + 1, Len(srv.cur)),
                                   !.at = IF Len(srv.buf) + n = ChunkSize THEN "append" ELSE "read"]
<1> DEFINE n == Min({Len(srv.cur), ChunkSize - Len(srv.buf)})
<1>1. srv.cur \in Bytes /\ srv.buf \in Bytes /\ Len(srv.buf) <= ChunkSize
  BY DEF SrvShape
<1>2. Len(srv.cur) \in Nat /\ Len(srv.buf) \in Nat /\ ChunkSize \in Nat
  BY <1>1, ChunkPolicy DEF Bytes
<1>3. /\ n \in 0 .. Len(srv.cur) /\ Len(srv.buf) + n <= ChunkSize
      /\ n = Len(srv.cur) \/ Len(srv.buf) + n = ChunkSize
  BY <1>1, <1>2, MinRoom, Zenon
<1>4. srv' = [srv EXCEPT !.buf = srv.buf \o SubSeq(srv.cur, 1, n),
                         !.cur = SubSeq(srv.cur, n + 1, Len(srv.cur)),
                         !.at = IF Len(srv.buf) + n = ChunkSize THEN "append" ELSE "read"]
  BY Zenon DEF CopyBytes
<1> HIDE DEF n
<1> QED  BY <1>3, <1>4, Zenon

(* CopyBytes keeps the handler in its type. *)
LEMMA CopySrv ==
    ASSUME SrvShape, CopyBytes
    PROVE  SrvShape' /\ unlocked' = unlocked
<1>1. PICK n \in 0 .. Len(srv.cur) :
             /\ Len(srv.buf) + n <= ChunkSize
             /\ srv' = [srv EXCEPT !.buf = srv.buf \o SubSeq(srv.cur, 1, n),
                                   !.cur = SubSeq(srv.cur, n + 1, Len(srv.cur)),
                                   !.at = IF Len(srv.buf) + n = ChunkSize THEN "append" ELSE "read"]
  BY CopyFacts, Zenon
<1>2. srv.cur \in Bytes /\ srv.buf \in Bytes
  BY DEF SrvShape
<1> DEFINE b == srv.buf \o SubSeq(srv.cur, 1, n)
           c == SubSeq(srv.cur, n + 1, Len(srv.cur))
           at == IF Len(srv.buf) + n = ChunkSize THEN "append" ELSE "read"
<1>3. b \in Bytes /\ c \in Bytes /\ Len(b) <= ChunkSize
  BY <1>1, <1>2 DEF Bytes
<1>4. at \in {"append", "read"} /\ srv' = [srv EXCEPT !.buf = b, !.cur = c, !.at = at]
  BY <1>1
<1> HIDE DEF b, c, at
<1>5. SrvShape'
  BY <1>3, <1>4, Zenon DEF SrvShape, Count
<1> QED  BY <1>5, Zenon DEF CopyBytes

(* append_chunk refuses, or seals the buffer as the next chunk. *)
LEMMA AppendFacts ==
    ASSUME SrvShape, Chunked, srv.op = "put", AppendChunk
    PROVE  \/ Returns("InvalidInput")
           \/ /\ Count \in Nat /\ Count < MaxChunks /\ Count' = Count + 1
              /\ DOMAIN srv.chunks = 0 .. Count - 1
              /\ srv' = [srv EXCEPT !.chunks = With(srv.chunks, Count,
                                          SealChunk(srv.object, srv.version, Count, srv.buf)),
                            !.length = srv.length + Len(srv.buf), !.buf = <<>>, !.at = "read"]
              /\ unlocked' = unlocked
<1> DEFINE cs == With(srv.chunks, Count, SealChunk(srv.object, srv.version, Count, srv.buf))
<1>1. SUFFICES ASSUME ~ Returns("InvalidInput")
               PROVE  /\ Count \in Nat /\ Count < MaxChunks /\ Count' = Count + 1
                      /\ DOMAIN srv.chunks = 0 .. Count - 1
                      /\ srv' = [srv EXCEPT !.chunks = cs,
                            !.length = srv.length + Len(srv.buf), !.buf = <<>>, !.at = "read"]
                      /\ unlocked' = unlocked
  BY Zenon
<1>2. /\ Count < MaxChunks /\ unlocked' = unlocked
      /\ srv' = [srv EXCEPT !.chunks = cs,
                            !.length = srv.length + Len(srv.buf), !.buf = <<>>, !.at = "read"]
  BY <1>1, Zenon DEF AppendChunk
<1>3. Count \in Nat
  BY ChunkPolicy DEF SrvShape
<1>4. DOMAIN srv.chunks = 0 .. Count - 1
  BY Zenon DEF Chunked, Uploading, AppendChunk
<1>5. DOMAIN cs = 0 .. Count
  BY <1>3, <1>4, Indices, Zenon DEF With
<1>6. Cardinality(0 .. Count) = Count + 1
  BY <1>3, FS_Interval
<1> HIDE DEF cs
<1>7. srv'.chunks = cs
  BY <1>2 DEF SrvShape
<1> QED  BY <1>2, <1>3, <1>4, <1>5, <1>6, <1>7, Zenon DEF Count

(* AppendChunk keeps the handler in its type. *)
LEMMA AppendSrv ==
    ASSUME SrvShape, Chunked, srv.op = "put", unlocked \in BOOLEAN, AppendChunk
    PROVE  SrvShape' /\ unlocked' \in BOOLEAN
<1>1. CASE Returns("InvalidInput")
  BY <1>1, ReturnsShape, KnownCodes, Zenon
<1>2. CASE ~ Returns("InvalidInput")
  <2> DEFINE cs == With(srv.chunks, Count, SealChunk(srv.object, srv.version, Count, srv.buf))
  <2>1. /\ Count \in Nat /\ Count < MaxChunks /\ Count' = Count + 1
        /\ srv' = [srv EXCEPT !.chunks = cs,
                            !.length = srv.length + Len(srv.buf), !.buf = <<>>, !.at = "read"]
        /\ unlocked' = unlocked
    BY <1>2, AppendFacts, Zenon
  <2> DEFINE l == srv.length + Len(srv.buf)
             e == <<>>
  <2>2. l \in Nat /\ e \in Bytes /\ Len(e) <= ChunkSize
    BY EmptyBytes, ChunkPolicy DEF SrvShape, Bytes
  <2>3. Count' \in 0 .. MaxChunks
    BY <2>1, ChunkPolicy
  <2>4. srv' = [srv EXCEPT !.chunks = cs, !.length = l, !.buf = e, !.at = "read"]
    BY <2>1, Zenon
  <2> HIDE DEF cs, l, e
  <2>5. SrvShape'
    BY <2>2, <2>3, <2>4, Zenon DEF SrvShape
  <2> QED  BY <2>1, <2>5
<1> QED  BY <1>1, <1>2

(* Where a chunk lies in its plaintext, and how long it is. *)
LEMMA SliceFacts ==
    ASSUME NEW x \in Bytes, NEW i \in Nat, i < ChunkCount(x)
    PROVE  LET to == Min({ChunkSize * (i + 1), Len(x)}) IN
           /\ ChunkSize * i \in Nat /\ ChunkSize * i < Len(x)
           /\ to \in Nat /\ to <= Len(x) /\ ChunkSize * i < to
           /\ to = IF i + 1 < ChunkCount(x) THEN ChunkSize * (i + 1) ELSE Len(x)
           /\ Slice(x, i) = SubSeq(x, ChunkSize * i + 1, to)
           /\ Slice(x, i) \in Bytes /\ Len(Slice(x, i)) = to - ChunkSize * i
<1> DEFINE to == Min({ChunkSize * (i + 1), Len(x)})
           n == ChunkCount(x)
<1>1. Len(x) \in Nat /\ ChunkSize \in Nat \ {0}
  BY ChunkPolicy DEF Bytes
<1>2. n \in Nat /\ Len(x) <= ChunkSize * n /\ (n > 0 => ChunkSize * (n - 1) < Len(x))
  BY <1>1, DivCeilBounds DEF ChunkCount
<1> HIDE DEF n
<1>3. ChunkSize * (i + 1) \in Nat /\ ChunkSize * i \in Nat /\ ChunkSize * (i + 1) = ChunkSize * i + ChunkSize
  BY <1>1
<1>4. to = IF ChunkSize * (i + 1) <= Len(x) THEN ChunkSize * (i + 1) ELSE Len(x)
  BY <1>1, <1>3, MinOfTwo
<1> HIDE DEF to
<1>5. i + 1 <= n /\ (i + 1 < n => i + 1 <= n - 1)
  BY <1>2 DEF n
<1>6. ChunkSize * i <= ChunkSize * (n - 1)
  BY <1>1, <1>2, <1>5
<1>7. i + 1 < n => ChunkSize * (i + 1) <= ChunkSize * (n - 1)
  BY <1>1, <1>2, <1>5
<1>8. i + 1 = n => Len(x) <= ChunkSize * (i + 1)
  BY <1>2
<1>9. /\ ChunkSize * i < Len(x) /\ to \in Nat /\ to <= Len(x) /\ ChunkSize * i < to
      /\ to = IF i + 1 < n THEN ChunkSize * (i + 1) ELSE Len(x)
  BY <1>1, <1>2, <1>3, <1>4, <1>5, <1>6, <1>7, <1>8
<1>10. Slice(x, i) = SubSeq(x, ChunkSize * i + 1, to)
  BY DEF Slice, to
<1>11. Slice(x, i) \in Bytes /\ Len(Slice(x, i)) = to - ChunkSize * i
  <2>1. ChunkSize * i \in Nat /\ to \in ChunkSize * i .. Len(x)
    BY <1>3, <1>9, <1>1
  <2> QED  BY <2>1, <1>10, Piece, Zenon
<1> QED  BY <1>3, <1>9, <1>10, <1>11, Zenon DEF to, n

(* A chunk record is a chunk of a committed version. *)
LEMMA RecordFacts ==
    ASSUME StoreShape, NEW r \in ChunkRecords
    PROVE  \E u \in DOMAIN rows : \E j \in 0 .. ChunkCount(content[u].data) - 1 :
             r = SealChunk(content[u].object, u, j, Slice(content[u].data, j))
<1>1. PICK u \in DOMAIN rows : r \in {Original(u).chunks[j] : j \in DOMAIN Original(u).chunks}
  BY Zenon DEF ChunkRecords
<1>2. content[u].data \in Bytes
  BY <1>1 DEF StoreShape
<1>3. /\ DOMAIN Original(u).chunks = 0 .. ChunkCount(content[u].data) - 1
      /\ \A j \in 0 .. ChunkCount(content[u].data) - 1 :
            Original(u).chunks[j] = SealChunk(content[u].object, u, j, Slice(content[u].data, j))
  <2> DEFINE o == content[u].object
             x == content[u].data
  <2>1. Original(u) = PrepareVersion(o, u, x)
    BY Zenon DEF Original
  <2> HIDE DEF o, x
  <2>2. x \in Bytes
    BY <1>2 DEF x
  <2>3. /\ DOMAIN Original(u).chunks = 0 .. ChunkCount(x) - 1
        /\ \A j \in 0 .. ChunkCount(x) - 1 : Original(u).chunks[j] = SealChunk(o, u, j, Slice(x, j))
    BY <2>1, <2>2, PreparedRow
  <2> QED  BY <2>3, Zenon DEF o, x
<1> QED  BY <1>1, <1>3, Zenon

(* A chunk that opens in the second pass is the chunk of the plaintext at its  *)
(* index, wherever its record was found.                                       *)
LEMMA ServedChunk ==
    ASSUME StoreShape, Sealed, Written, srv.at = "serve", srv.next \in Nat, Ahead # {},
           ChunkOpens(Dek(srv.version), srv.object, srv.version, srv.manifest, Min(Ahead), Stored[Min(Ahead)])
    PROVE  LET i == Min(Ahead)
               x == content[srv.version].data
           IN  /\ i \in Nat /\ srv.next <= i /\ i < ChunkCount(x)
               /\ Stored[i].data = Slice(x, i) /\ x \in Bytes
<1> DEFINE i == Min(Ahead)
           v == srv.version
           x == content[v].data
<1>1. v \in DOMAIN rows /\ srv.manifest = Original(v).manifest.data
  BY Zenon DEF Written
<1>2. x \in Bytes
  BY <1>1 DEF StoreShape
<1>3. Ahead \in SUBSET Nat
  BY <1>1, Zenon DEF Ahead, Stored, Sealed
<1>4. i \in Ahead
  BY <1>3, MinOfSet, Zenon
<1>5. i \in Nat /\ i \in DOMAIN Stored /\ i >= srv.next
  BY <1>3, <1>4, Zenon DEF Ahead
<1>6. Stored[i] \in ChunkRecords
  BY <1>1, <1>5, Zenon DEF Stored, Sealed
<1>7. PICK u \in DOMAIN rows : \E j \in 0 .. ChunkCount(content[u].data) - 1 :
             Stored[i] = SealChunk(content[u].object, u, j, Slice(content[u].data, j))
  BY <1>6, RecordFacts, Zenon
<1>8. PICK j \in 0 .. ChunkCount(content[u].data) - 1 :
             Stored[i] = SealChunk(content[u].object, u, j, Slice(content[u].data, j))
  BY <1>7
<1> DEFINE rec == Stored[i]
<1>9. /\ rec.key = Dek(v) /\ i < srv.manifest.count
      /\ \E n : rec.aad = ChunkAad(srv.object, v, i, n)
  BY Zenon DEF ChunkOpens, Opens
<1>10. /\ rec.key = Dek(u) /\ rec.data = Slice(content[u].data, j)
       /\ \E n : rec.aad = ChunkAad(content[u].object, u, j, n)
  BY <1>8 DEF SealChunk, Seal
<1> HIDE DEF rec, i
<1>11. u = v
  BY <1>9, <1>10 DEF Dek
<1>12. j = i
  BY <1>9, <1>10 DEF ChunkAad
<1>13. srv.next <= i
  BY <1>5
<1>14. i < ChunkCount(x)
  <2>1. ChunkCount(x) \in Nat /\ i \in 0 .. ChunkCount(x) - 1
    BY <1>2, <1>8, <1>11, <1>12, ChunkCountNat, Zenon
  <2> QED  BY <2>1
<1> QED  BY <1>2, <1>5, <1>10, <1>11, <1>12, <1>13, <1>14, Zenon DEF rec, i

(* How a chunk is cut into items: cut[k] bytes are in the first k of them. *)
LEMMA ItemsFacts ==
    ASSUME NEW part \in Bytes
    PROVE  \E n \in Nat : \E cut \in [0 .. n -> 0 .. Len(part)] :
             /\ cut[0] = 0 /\ cut[n] = Len(part)
             /\ \A k \in 1 .. n : cut[k - 1] <= cut[k]
             /\ Items(part) \in Seq(SocketItem) /\ Len(Items(part)) = n
             /\ \A k \in 1 .. n : Items(part)[k] = StreamData(SubSeq(part, cut[k - 1] + 1, cut[k]))
<1> DEFINE l == Len(part)
           n == DivCeil(l, ItemSize)
           to(k) == Min({ItemSize * k, l})
           cut == [k \in 0 .. n |-> to(k)]
           item(k) == StreamData(SubSeq(part, ItemSize * (k - 1) + 1, to(k)))
<1>1. l \in Nat /\ ItemSize \in Nat \ {0}
  BY StreamBounds DEF Bytes
<1>2. n \in Nat /\ l <= ItemSize * n /\ (n > 0 => ItemSize * (n - 1) < l)
  BY <1>1, DivCeilBounds, Zenon
<1>3. Items(part) = [k \in 1 .. n |-> item(k)]
  BY Zenon DEF Items
<1> HIDE DEF n, l
<1>4. \A k \in 0 .. n : to(k) = IF ItemSize * k <= l THEN ItemSize * k ELSE l
  <2> TAKE k \in 0 .. n
  <2>1. ItemSize * k \in Int /\ l \in Int
    BY <1>1
  <2> QED  BY <2>1, MinOfTwo, Zenon
<1> HIDE DEF to
<1>5. \A k \in 0 .. n : to(k) \in 0 .. l
  BY <1>1, <1>4
<1>6. to(0) = 0 /\ to(n) = l
  BY <1>1, <1>2, <1>4
<1>7. ASSUME NEW k \in 1 .. n
      PROVE  /\ ItemSize * (k - 1) = to(k - 1) /\ to(k - 1) <= to(k)
             /\ to(k - 1) \in Nat /\ to(k) \in to(k - 1) .. l
  <2>1. ItemSize * (k - 1) <= ItemSize * (n - 1) /\ ItemSize * (k - 1) \in Nat
        /\ ItemSize * k = ItemSize * (k - 1) + ItemSize
    BY <1>1, <1>2
  <2>2. ItemSize * (k - 1) < l
    BY <2>1, <1>1, <1>2
  <2>3. to(k - 1) = ItemSize * (k - 1)
    BY <2>1, <2>2, <1>1, <1>2, <1>4
  <2>4. to(k) = IF ItemSize * k <= l THEN ItemSize * k ELSE l
    BY <1>4, <1>2
  <2> QED  BY <2>1, <2>2, <2>3, <2>4, <1>1
<1>8. \A k \in 1 .. n : item(k) = StreamData(SubSeq(part, cut[k - 1] + 1, cut[k]))
  <2> TAKE k \in 1 .. n
  <2>1. cut[k - 1] = to(k - 1) /\ cut[k] = to(k)
    BY <1>2
  <2> QED  BY <2>1, <1>7, Zenon
<1>9. \A k \in 1 .. n : item(k) \in SocketItem
  <2> TAKE k \in 1 .. n
  <2>1. SubSeq(part, to(k - 1) + 1, to(k)) \in Bytes
    BY <1>7, Piece, Zenon DEF l
  <2>2. item(k) = StreamData(SubSeq(part, to(k - 1) + 1, to(k)))
    BY <1>7, Zenon
  <2> HIDE DEF item
  <2> QED  BY <2>1, <2>2 DEF StreamData, SocketItem
<1> HIDE DEF item
<1>10. Items(part) \in Seq(SocketItem) /\ Len(Items(part)) = n
       /\ \A k \in 1 .. n : Items(part)[k] = item(k)
  BY <1>2, <1>3, <1>9
<1>11. /\ cut \in [0 .. n -> 0 .. l] /\ cut[0] = 0 /\ cut[n] = l
       /\ \A k \in 1 .. n : cut[k - 1] <= cut[k]
  BY <1>2, <1>5, <1>6, <1>7
<1> HIDE DEF cut
<1> QED  BY <1>2, <1>8, <1>10, <1>11, ZenonT(30) DEF l

(* What a step of the second pass does when it does not end the transfer. *)
Serves(i, part) ==
    /\ Connected
    /\ srv' = [srv EXCEPT !.next = i + 1, !.written = srv.written \o part]
    /\ down' = down \o Items(part)
    /\ UNCHANGED <<unlocked, cli, up, file>>

(* The second pass returns an error, or hands out a chunk of the version it opened. *)
LEMMA ServeFacts ==
    ASSUME SrvShape, StoreShape, Sealed, Written, ServeChunk
    PROVE  \/ Returns("Authentication") \/ Returns("Storage")
           \/ LET x == content[srv.version].data IN
              \E i \in Nat : /\ srv.next <= i /\ i < ChunkCount(x) /\ x \in Bytes
                             /\ Serves(i, Slice(x, i)) /\ i = Min(Ahead)
<1> DEFINE i == Min(Ahead)
           x == content[srv.version].data
<1>1. SUFFICES ASSUME ~ Returns("Authentication"), ~ Returns("Storage")
               PROVE  \E j \in Nat : /\ srv.next <= j /\ j < ChunkCount(x) /\ x \in Bytes
                                     /\ Serves(j, Slice(x, j)) /\ j = Min(Ahead)
  BY Zenon
<1>2. /\ ChunkOpens(Dek(srv.version), srv.object, srv.version, srv.manifest, i, Stored[i])
      /\ Serves(i, Stored[i].data)
  BY <1>1, Zenon DEF ServeChunk, Serves
<1>3. srv.next \in Nat /\ srv.at = "serve" /\ Ahead # {}
  BY DEF SrvShape, ServeChunk
<1>4. /\ i \in Nat /\ srv.next <= i /\ i < ChunkCount(x) /\ Stored[i].data = Slice(x, i) /\ x \in Bytes
      /\ i = Min(Ahead)
  BY <1>2, <1>3, ServedChunk, Zenon
<1> HIDE DEF i
<1> QED  BY <1>2, <1>4, Zenon

(* ServeChunk keeps the handler in its type. *)
LEMMA ServeSrv ==
    ASSUME SrvShape, unlocked \in BOOLEAN, StoreShape, Sealed, Written, ServeChunk
    PROVE  SrvShape' /\ unlocked' \in BOOLEAN
<1>1. CASE Returns("Authentication") \/ Returns("Storage")
  BY <1>1, ReturnsShape, KnownCodes, Zenon
<1>2. CASE ~ (Returns("Authentication") \/ Returns("Storage"))
  <2> DEFINE x == content[srv.version].data
  <2>1. PICK i \in Nat : i < ChunkCount(x) /\ x \in Bytes /\ Serves(i, Slice(x, i))
    BY <1>2, ServeFacts, Zenon
  <2> HIDE DEF x
  <2>2. Slice(x, i) \in Bytes
    BY <2>1, SliceFacts, Zenon
  <2> DEFINE w == srv.written \o Slice(x, i)
             m == i + 1
  <2>3. w \in Bytes /\ m \in Nat
    BY <2>2 DEF Bytes, SrvShape
  <2>4. srv' = [srv EXCEPT !.next = m, !.written = w] /\ unlocked' = unlocked
    BY <2>1, Zenon DEF Serves
  <2> HIDE DEF w, m
  <2>5. SrvShape'
    BY <2>3, <2>4, Zenon DEF SrvShape, Count
  <2> QED  BY <2>4, <2>5
<1> QED  BY <1>1, <1>2

(* BeginGet keeps the handler in its type. *)
LEMMA BeginGetSrv ==
    ASSUME SrvShape, unlocked \in BOOLEAN, StoreShape, srv.object \in Object, BeginGet
    PROVE  SrvShape' /\ unlocked' \in BOOLEAN
<1> DEFINE v == active[srv.object]
<1>1. CASE Returns("Locked") \/ Returns("NotFound") \/ Returns("Authentication")
  BY <1>1, ReturnsShape, KnownCodes, Zenon
<1>2. CASE ~ (Returns("Locked") \/ Returns("NotFound") \/ Returns("Authentication"))
  <2> DEFINE m == rows[v].manifest.data
  <2>1. srv' = [srv EXCEPT !.at = "serve", !.version = v, !.manifest = m] /\ unlocked' = unlocked
    BY <1>2, Zenon DEF BeginGet
  <2>2. v \in Versions
    BY DEF StoreShape, Versions
  <2> HIDE DEF v, m
  <2>3. SrvShape'
    BY <2>1, <2>2, Zenon DEF SrvShape, Count
  <2> QED  BY <2>1, <2>3
<1> QED  BY <1>1, <1>2

(* The steps that end a transfer in the handler. *)
LEMMA EndingSrv ==
    ASSUME SrvShape, unlocked \in BOOLEAN,
           ReadFails \/ Finish \/ ServeEnd \/ StorageFails \/ Refuse \/ Answer \/ Crash
    PROVE  SrvShape' /\ unlocked' \in BOOLEAN
<1>1. ASSUME NEW code \in {"Ok", "Storage", "InvalidInput", "Invariant"}, Returns(code)
      PROVE  SrvShape' /\ unlocked' \in BOOLEAN
  <2>1. code \in Codes
    BY KnownCodes, Zenon
  <2> QED  BY <1>1, <2>1, ReturnsShape, Zenon
<1>2. CASE ReadFails \/ StorageFails
  BY <1>1, <1>2, Zenon DEF ReadFails, StorageFails
<1>3. CASE Finish
  BY <1>1, <1>3, Zenon DEF Finish
<1>4. CASE ServeEnd
  BY <1>1, <1>4, Zenon DEF ServeEnd
<1>5. CASE Refuse \/ Answer
  <2>1. srv' = Closed /\ unlocked' = unlocked
    BY <1>5, Zenon DEF Refuse, Answer, Respond
  <2> QED  BY <2>1, ClosedShape, Zenon
<1>6. CASE Crash
  <2>1. srv' = Closed /\ unlocked' = FALSE
    BY <1>6, Zenon DEF Crash
  <2> QED  BY <2>1, ClosedShape, Zenon
<1> QED  BY <1>2, <1>3, <1>4, <1>5, <1>6, Zenon

(* The steps the handler has no part in. *)
Elsewhere ==
    \/ AwaitReady \/ (\E n \in 1 .. ItemSize : SendChunk(n)) \/ SendEnd \/ AwaitPublished
    \/ ReceiveItem \/ PublishOutput \/ LoseDaemon \/ Abort \/ TakeOutput
    \/ Unlock \/ Lock
    \/ (\E o \in Object, x \in Plain : BufferedPut(o, x))
    \/ (\E v \in DOMAIN rows : DamageRow(v))
    \/ (\E o \in Object, v \in DOMAIN rows : DamagePointer(o, v))

(* The steps outside the handler leave it alone. *)
LEMMA ElsewhereSrv ==
    ASSUME unlocked \in BOOLEAN, Elsewhere
    PROVE  srv' = srv /\ unlocked' \in BOOLEAN
BY Zenon DEF Elsewhere, AwaitReady, SendChunk, SendEnd, AwaitPublished, ReceiveItem, PublishOutput,
   LoseDaemon, Abort, TakeOutput, Unlock, Lock, BufferedPut, DamageRow, DamagePointer

(* Every step keeps the handler in its type. *)
LEMMA SrvStep ==
    ASSUME TransferInv, Next
    PROVE  SrvShape' /\ unlocked' \in BOOLEAN
<1>1. /\ Shapes /\ Paired /\ Numbered /\ Sealed /\ Chunked /\ Written /\ StoreShape
  BY StoreFacts, Zenon DEF TransferInv, StoreInv
<1>2. SrvShape /\ unlocked \in BOOLEAN /\ up \in Seq(SocketItem)
  BY <1>1, Zenon DEF Shapes, TTypeOK, SrvShape
<1>3. ASSUME NEW op \in {"put", "get"}, NEW o \in Object, NEW x \in Bytes, Request(op, o, x)
      PROVE  SrvShape' /\ unlocked' \in BOOLEAN
  BY <1>2, <1>3, RequestSrv, Zenon
<1>4. (\E o \in Object, x \in Plain : Request("put", o, x)) => SrvShape' /\ unlocked' \in BOOLEAN
  BY <1>3, PlainInBytes, Zenon
<1>5. (\E o \in Object : Request("get", o, <<>>)) => SrvShape' /\ unlocked' \in BOOLEAN
  BY <1>3, EmptyBytes, Zenon
<1>6. Elsewhere => SrvShape' /\ unlocked' \in BOOLEAN
  BY <1>2, ElsewhereSrv, SameSrvShape, Zenon
<1>7. BeginPut => (srv.op = "put" => NewVersions # {})
  BY <1>1 DEF BeginPut, Numbered
<1>8. AppendChunk \/ ReadAfterEnd => srv.op = "put"
  BY <1>1 DEF AppendChunk, ReadAfterEnd, Paired
<1>9. BeginGet => srv.object \in Object
  BY <1>1 DEF BeginGet, Paired
<1>10. ReadAfterEnd => SrvShape' /\ unlocked' = unlocked
  BY <1>2 DEF ReadAfterEnd, SrvShape, Count
<1>11. Ready \/ BeginPut \/ ReadItem \/ CopyBytes \/ ReadAfterEnd => SrvShape' /\ unlocked' \in BOOLEAN
  BY <1>2, <1>7, <1>10, ReadySrv, BeginPutSrv, ReadItemSrv, CopySrv, Zenon
<1>12. AppendChunk \/ BeginGet \/ ServeChunk => SrvShape' /\ unlocked' \in BOOLEAN
  BY <1>1, <1>2, <1>8, <1>9, AppendSrv, BeginGetSrv, ServeSrv, Zenon
<1> QED  BY <1>2, <1>4, <1>5, <1>6, <1>11, <1>12, EndingSrv, Zenon DEF Next, Handler, Client, Elsewhere

CliShape ==
    cli \in [at : {"gone", "ready", "send", "answer", "receive", "publish", "done"},
             op : Ops, object : Objects, input : Bytes, sent : Nat, temp : Bytes, result : Codes]
FileShape == file \in [there : BOOLEAN, object : Objects, data : Bytes]
Sockets == up \in Seq(SocketItem) /\ down \in Seq(SocketItem)
ClientShape == CliShape /\ FileShape /\ Sockets

(* What the exit of the client leaves. *)
LEMMA EndsFacts ==
    ASSUME NEW result, Ends(result)
    PROVE  /\ cli' = [at |-> "done", op |-> "none", object |-> "none", input |-> <<>>, sent |-> 0,
                      temp |-> <<>>, result |-> result]
           /\ down' = <<>>
BY Zenon DEF Ends, Gone

(* The exit of the client keeps it in its type. *)
LEMMA EndsShape ==
    ASSUME NEW result \in Codes, Ends(result)
    PROVE  CliShape' /\ down' \in Seq(SocketItem) /\ ~ Connected'
<1>1. /\ cli' = [at |-> "done", op |-> "none", object |-> "none", input |-> <<>>, sent |-> 0,
                 temp |-> <<>>, result |-> result]
      /\ down' = <<>>
  BY EndsFacts, Zenon
<1>2. CliShape' /\ ~ Connected'
  BY <1>1, EmptyBytes, SMTT(30) DEF CliShape, Ops, Objects, Connected
<1>3. down' \in Seq(SocketItem)
  BY <1>1
<1> QED  BY <1>2, <1>3, Zenon

(* What the client meets at the head of the socket. *)
LEMMA HeadItem ==
    ASSUME TransferInv, Sockets, down # <<>>
    PROVE  /\ Head(down) = down[1] /\ down[1] \in SocketItem /\ Len(down) \in Nat /\ 1 \in 1 .. Len(down)
           /\ cli.at \in {"ready", "answer"} => Head(down).type \in {"frame", "error"}
           /\ cli.at = "receive" => Head(down).type \in {"data", "end", "error"}
           /\ Head(down).type \in {"frame", "error"} => Head(down).code \in Codes
           /\ Head(down).type = "data" => Head(down).data \in Bytes
<1>1. Head(down) = down[1] /\ Len(down) \in Nat /\ 1 \in 1 .. Len(down) /\ down[1] \in SocketItem
  BY DEF Sockets
<1>2. Paired /\ Reports /\ Downloads
  BY Zenon DEF TransferInv
<1>3. cli.at \in {"ready", "answer"} /\ cli.op = "put" => down[1].type \in {"frame", "error"}
  BY <1>1, <1>2 DEF Reports, Connected
<1>4. cli.at = "ready" /\ cli.op = "get" => Head(down).type \in {"frame", "error"}
  BY <1>2 DEF Downloads, Connected
<1>5. cli.at = "receive" => down[1].type # "frame"
  BY <1>1, <1>2 DEF Downloads, Connected, Paired
<1>6. down[1].type \in {"frame", "data", "end", "error"}
      /\ (down[1].type \in {"frame", "error"} => down[1].code \in Codes)
      /\ (down[1].type = "data" => down[1].data \in Bytes)
  BY <1>1 DEF SocketItem
<1>7. cli.at = "ready" => cli.op \in {"put", "get"}
  BY <1>2 DEF Paired, TransferInv, Shapes, Ops
<1>8. cli.at = "answer" => cli.op = "put"
  BY <1>2 DEF Paired
<1> QED  BY <1>1, <1>3, <1>4, <1>5, <1>6, <1>7, <1>8

(* A frame read from the socket gives its code; a stream error is not a frame. *)
LEMMA ReadFrameCode ==
    ASSUME NEW item, item.type \in {"frame", "error"}, item.code \in Codes
    PROVE  ReadFrame(item) = (IF item.type = "frame" THEN item.code ELSE "InvalidLength")
           /\ ReadFrame(item) \in Codes
BY DEF ReadFrame, Codes

(* The client's steps. *)
LEMMA AwaitReadyCli ==
    ASSUME TransferInv, ClientShape, AwaitReady
    PROVE  ClientShape'
<1>1. cli.at = "ready" /\ down # <<>> /\ file' = file /\ up' = up
  BY Zenon DEF AwaitReady
<1>2. ReadFrame(Head(down)) \in Codes
  <2>1. Head(down).type \in {"frame", "error"} /\ Head(down).code \in Codes
    BY <1>1, HeadItem DEF ClientShape
  <2> QED  BY <2>1, ReadFrameCode
<1>3. CASE ReadFrame(Head(down)) = "StreamReady"
  <2> DEFINE at == IF cli.op = "put" THEN "send" ELSE "receive"
  <2>1. cli' = [cli EXCEPT !.at = at] /\ down' = Tail(down)
    BY <1>3, Zenon DEF AwaitReady
  <2>2. at \in {"send", "receive"}
    OBVIOUS
  <2> HIDE DEF at
  <2>3. CliShape'
    BY <2>1, <2>2 DEF ClientShape, CliShape
  <2>4. down' \in Seq(SocketItem)
    BY <1>1, <2>1 DEF ClientShape, Sockets
  <2> QED  BY <1>1, <2>3, <2>4, Zenon DEF ClientShape, Sockets, FileShape
<1>4. CASE Ends(ReadFrame(Head(down)))
  BY <1>1, <1>2, <1>4, EndsShape, Zenon DEF ClientShape, Sockets, FileShape
<1> QED  BY <1>3, <1>4, Zenon DEF AwaitReady

(* The upload keeps the client in its type. *)
LEMMA SendCli ==
    ASSUME ClientShape, (\E n \in 1 .. ItemSize : SendChunk(n)) \/ SendEnd
    PROVE  ClientShape'
<1>1. ASSUME NEW n \in 1 .. ItemSize, SendChunk(n)
      PROVE  ClientShape'
  <2> DEFINE d == SubSeq(cli.input, cli.sent + 1, cli.sent + n)
             s == cli.sent + n
  <2>1. /\ n <= Len(cli.input) - cli.sent /\ up' = Append(up, StreamData(d))
        /\ cli' = [cli EXCEPT !.sent = s] /\ file' = file /\ down' = down
    BY <1>1, Zenon DEF SendChunk
  <2>2. cli.input \in Bytes /\ cli.sent \in Nat /\ n \in Nat
    BY StreamBounds DEF ClientShape, CliShape
  <2>3. s \in Nat /\ s \in cli.sent .. Len(cli.input)
    BY <2>1, <2>2 DEF Bytes
  <2>4. d \in Bytes
    BY <2>2, <2>3, Piece, Zenon
  <2> HIDE DEF d, s
  <2>5. StreamData(d) \in SocketItem
    BY <2>4 DEF StreamData, SocketItem
  <2>6. CliShape'
    BY <2>1, <2>3 DEF ClientShape, CliShape
  <2>7. up' \in Seq(SocketItem)
    BY <2>1, <2>5 DEF ClientShape, Sockets
  <2> QED  BY <2>1, <2>6, <2>7, Zenon DEF ClientShape, Sockets, FileShape
<1>2. CASE SendEnd
  <2>1. /\ up' = Append(up, StreamEnd) /\ cli' = [cli EXCEPT !.at = "answer"]
        /\ file' = file /\ down' = down
    BY <1>2, Zenon DEF SendEnd
  <2>2. StreamEnd \in SocketItem
    BY EmptyBytes DEF StreamEnd, SocketItem
  <2>3. CliShape'
    BY <2>1 DEF ClientShape, CliShape
  <2>4. up' \in Seq(SocketItem)
    BY <2>1, <2>2 DEF ClientShape, Sockets
  <2> QED  BY <2>1, <2>3, <2>4, Zenon DEF ClientShape, Sockets, FileShape
<1> QED  BY <1>1, <1>2, Zenon

(* The download keeps the client in its type. *)
LEMMA ReceiveCli ==
    ASSUME TransferInv, ClientShape, ReceiveItem
    PROVE  ClientShape'
<1>1. cli.at = "receive" /\ down # <<>> /\ file' = file /\ up' = up
  BY Zenon DEF ReceiveItem
<1>2. /\ Head(down).type \in {"data", "end", "error"}
      /\ Head(down).type = "data" => Head(down).data \in Bytes
      /\ Head(down).type = "error" => Head(down).code \in Codes
  BY <1>1, HeadItem DEF ClientShape
<1>3. Tail(down) \in Seq(SocketItem)
  BY <1>1 DEF ClientShape, Sockets
<1>4. CASE Head(down).type = "data"
  <2> DEFINE t == cli.temp \o Head(down).data
  <2>1. cli' = [cli EXCEPT !.temp = t] /\ down' = Tail(down)
    BY <1>4, Zenon DEF ReceiveItem
  <2>2. t \in Bytes
    BY <1>2, <1>4, SMTT(30) DEF ClientShape, CliShape, Bytes
  <2> HIDE DEF t
  <2>3. CliShape'
    BY <2>1, <2>2 DEF ClientShape, CliShape
  <2> QED  BY <1>1, <1>3, <2>1, <2>3, Zenon DEF ClientShape, Sockets, FileShape
<1>5. CASE Head(down).type = "end"
  <2>1. cli' = [cli EXCEPT !.at = "publish"] /\ down' = Tail(down)
    BY <1>5, Zenon DEF ReceiveItem
  <2>2. CliShape'
    BY <2>1 DEF ClientShape, CliShape
  <2> QED  BY <1>1, <1>3, <2>1, <2>2, Zenon DEF ClientShape, Sockets, FileShape
<1>6. CASE Head(down).type = "error"
  <2>1. Ends(Head(down).code)
    BY <1>6, Zenon DEF ReceiveItem
  <2> QED  BY <1>1, <1>2, <1>6, <2>1, EndsShape, Zenon DEF ClientShape, Sockets, FileShape
<1> QED  BY <1>2, <1>4, <1>5, <1>6

(* The steps that end a command keep the client in its type. *)
LEMMA LeaveCli ==
    ASSUME TransferInv, ClientShape,
           AwaitPublished \/ PublishOutput \/ LoseDaemon \/ Abort \/ TakeOutput
    PROVE  ClientShape'
<1>1. CASE AwaitPublished
  <2>1. cli.at = "answer" /\ down # <<>> /\ file' = file /\ up' = up /\ Ends(ReadFrame(Head(down)))
    BY <1>1, Zenon DEF AwaitPublished
  <2>2. Head(down).type \in {"frame", "error"} /\ Head(down).code \in Codes
    BY <2>1, HeadItem, SMTT(30) DEF ClientShape
  <2>3. ReadFrame(Head(down)) \in Codes
    BY <2>2, ReadFrameCode, SMTT(30)
  <2> QED  BY <2>1, <2>3, EndsShape, Zenon DEF ClientShape, Sockets, FileShape
<1>2. CASE PublishOutput
  <2>1. /\ file' = [there |-> TRUE, object |-> cli.object, data |-> cli.temp]
        /\ Ends("Ok") /\ up' = up
    BY <1>2, Zenon DEF PublishOutput
  <2>2. FileShape'
    BY <2>1 DEF ClientShape, CliShape, FileShape
  <2> QED  BY <2>1, <2>2, EndsShape, KnownCodes, Zenon DEF ClientShape, Sockets
<1>3. CASE LoseDaemon \/ Abort
  <2>1. Ends("failed") /\ file' = file /\ up' = up
    BY <1>3, Zenon DEF LoseDaemon, Abort
  <2>2. "failed" \in Codes
    BY DEF Codes
  <2> QED  BY <2>1, <2>2, EndsShape, Zenon DEF ClientShape, Sockets, FileShape
<1>4. CASE TakeOutput
  <2>1. file' = NoFile /\ cli' = cli /\ up' = up /\ down' = down
    BY <1>4, Zenon DEF TakeOutput
  <2>2. FileShape'
    BY <2>1, EmptyBytes DEF FileShape, NoFile, Objects
  <2> QED  BY <2>1, <2>2, Zenon DEF ClientShape, Sockets, CliShape
<1> QED  BY <1>1, <1>2, <1>3, <1>4, Zenon

(* The handler's steps leave the client and its file alone. *)
LEMMA SocketSteps ==
    ASSUME TransferInv, SrvShape, Sockets,
           Handler \/ StorageFails \/ Crash
    PROVE  cli' = cli /\ file' = file /\ Sockets'
<1>1. Paired /\ StoreShape /\ Sealed /\ Written
  BY StoreFacts, Zenon DEF TransferInv, StoreInv
<1>2. ASSUME NEW code, Returns(code)
      PROVE  cli' = cli /\ file' = file /\ Sockets'
  BY <1>2, ReturnsFacts, Zenon DEF Sockets
<1>3. ASSUME NEW item \in SocketItem, Respond(item)
      PROVE  cli' = cli /\ file' = file /\ Sockets'
  BY <1>3 DEF Respond, Sockets
<1>4. CASE Refuse
  <2>1. Frame("Overloaded", NoVersion) \in SocketItem
    BY DEF Frame, SocketItem, Codes, Versions
  <2> QED  BY <1>3, <1>4, <2>1, Zenon DEF Refuse
<1>5. CASE Ready
  <2>1. Frame("StreamReady", NoVersion) \in SocketItem
    BY DEF Frame, SocketItem, Codes, Versions
  <2> QED  BY <1>5, <2>1 DEF Ready, Sockets
<1>6. CASE Answer
  <2>1. srv.op \in {"put", "get"} /\ srv.code \in Codes /\ srv.version \in Versions
    BY <1>1, <1>6, SMTT(20) DEF Answer, Paired, Serving, SrvShape, Ops
  <2>2. StreamError(srv.code) \in SocketItem /\ Frame("Ok", srv.version) \in SocketItem
        /\ StreamEnd \in SocketItem
    BY <2>1, KnownCodes, EmptyBytes DEF StreamError, Frame, StreamEnd, SocketItem
  <2>3. Respond(StreamError(srv.code)) \/ Respond(Frame("Ok", srv.version)) \/ Respond(StreamEnd)
    BY <1>6, <2>1 DEF Answer
  <2> QED  BY <1>3, <2>2, <2>3, Zenon
<1>7. CASE BeginPut \/ CopyBytes \/ ReadAfterEnd \/ ReadFails \/ AppendChunk \/ Finish
  BY <1>2, <1>7, Zenon DEF BeginPut, CopyBytes, ReadAfterEnd, ReadFails, AppendChunk, Finish, Sockets
<1>8. CASE ReadItem
  BY <1>8 DEF ReadItem, Sockets
<1>9. CASE BeginGet \/ ServeEnd \/ StorageFails
  BY <1>2, <1>9, Zenon DEF BeginGet, ServeEnd, StorageFails, Sockets
<1>10. CASE Crash
  BY <1>10 DEF Crash, Sockets
<1>11. CASE ServeChunk
  <2>1. CASE Returns("Authentication") \/ Returns("Storage")
    BY <1>2, <2>1, Zenon
  <2>2. CASE ~ (Returns("Authentication") \/ Returns("Storage"))
    <3> DEFINE x == content[srv.version].data
    <3>1. PICK i \in Nat : i < ChunkCount(x) /\ x \in Bytes /\ Serves(i, Slice(x, i))
      BY <1>1, <1>11, <2>2, ServeFacts, Zenon
    <3> HIDE DEF x
    <3>2. Slice(x, i) \in Bytes
      BY <3>1, SliceFacts, Zenon
    <3>3. Items(Slice(x, i)) \in Seq(SocketItem)
      BY <3>2, ItemsFacts, Zenon
    <3>4. down' = down \o Items(Slice(x, i)) /\ cli' = cli /\ up' = up /\ file' = file
      BY <3>1, Zenon DEF Serves
    <3>5. down' \in Seq(SocketItem)
      BY <3>3, <3>4 DEF Sockets
    <3> QED  BY <3>4, <3>5, Zenon DEF Sockets
  <2> QED  BY <2>1, <2>2, SMTT(30)
<1> QED  BY <1>4, <1>5, <1>6, <1>7, <1>8, <1>9, <1>10, <1>11, Zenon DEF Handler

(* Every step keeps the client, the socket and the output in their types. *)
LEMMA ClientStep ==
    ASSUME TransferInv, Next
    PROVE  ClientShape'
<1>1. Shapes
  BY Zenon DEF TransferInv
<1>2. SrvShape /\ ClientShape
  BY <1>1, Zenon DEF Shapes, TTypeOK, SrvShape, ClientShape, CliShape, FileShape, Sockets
<1>3. ASSUME NEW op \in {"put", "get"}, NEW o \in Object, NEW x \in Bytes, Request(op, o, x)
      PROVE  ClientShape'
  <2>1. /\ cli' = [at |-> "ready", op |-> op, object |-> o, input |-> x, sent |-> 0,
                   temp |-> <<>>, result |-> "none"]
        /\ up' = <<>> /\ down' = <<>> /\ file' = file
    BY <1>3, RequestSrv, Zenon
  <2>2. CliShape'
    BY <2>1, EmptyBytes DEF CliShape, Ops, Objects, Codes
  <2>3. Sockets'
    BY <2>1 DEF Sockets
  <2> QED  BY <1>2, <2>1, <2>2, <2>3, Zenon DEF ClientShape, FileShape
<1>4. (\E o \in Object, x \in Plain : Request("put", o, x)) => ClientShape'
  BY <1>3, PlainInBytes, Zenon
<1>5. (\E o \in Object : Request("get", o, <<>>)) => ClientShape'
  BY <1>3, EmptyBytes, Zenon
<1>6. Handler \/ StorageFails \/ Crash => ClientShape'
  BY <1>2, SocketSteps, Zenon DEF ClientShape, CliShape, FileShape
<1>7. ASSUME \/ Unlock \/ Lock
             \/ (\E o \in Object, x \in Plain : BufferedPut(o, x))
             \/ (\E v \in DOMAIN rows : DamageRow(v))
             \/ (\E o \in Object, v \in DOMAIN rows : DamagePointer(o, v))
      PROVE  ClientShape'
  <2>1. cli' = cli /\ file' = file /\ up' = up /\ down' = down
    BY <1>7, Zenon DEF Unlock, Lock, BufferedPut, DamageRow, DamagePointer
  <2> QED  BY <1>2, <2>1, Zenon DEF ClientShape, CliShape, FileShape, Sockets
<1> QED  BY <1>2, <1>4, <1>5, <1>6, <1>7, AwaitReadyCli, SendCli, ReceiveCli, LeaveCli, Zenon DEF Next, Client

(* Every step keeps every variable in its type. *)
LEMMA ShapesStep ==
    ASSUME TransferInv, Next
    PROVE  Shapes'
<1>1. StoreShape' /\ SrvShape' /\ unlocked' \in BOOLEAN /\ ClientShape'
  BY StoreStep, SrvStep, ClientStep, Zenon DEF StoreInv
<1>2. srv'.at \in {"closed", "request", "begin", "read", "append", "serve", "answer"}
  BY <1>1 DEF SrvShape
<1>3. /\ cli'.at \in {"gone", "ready", "send", "answer", "receive", "publish", "done"}
      /\ file'.there \in BOOLEAN
  BY <1>1 DEF ClientShape, CliShape, FileShape
<1>4. TTypeOK'
  BY <1>1, <1>2, <1>3, Zenon DEF TTypeOK, StoreShape, SrvShape
<1> QED  BY <1>1, <1>4, Zenon DEF Shapes, StoreShape, SrvShape, ClientShape, CliShape, FileShape, Sockets

-----------------------------------------------------------------------------
(* Where the handler and the client are *)

TypesInv == StoreInv /\ SrvShape /\ ClientShape /\ unlocked \in BOOLEAN

(* What TransferInv says of the types. *)
LEMMA TypesFacts == TransferInv => TypesInv
BY StoreFacts, Zenon DEF TransferInv, Shapes, TTypeOK, TypesInv, SrvShape, ClientShape, CliShape, FileShape, Sockets

(* The handler's steps, by what they do to where it is. *)
HandlerMoves ==
    \/ srv' = Closed
    \/ Serving /\ \E code : Returns(code)
    \/ Ready /\ srv' = [srv EXCEPT !.at = "begin"]
    \/ /\ UNCHANGED store
       /\ srv.at \notin {"closed", "request", "answer"}
       /\ srv'.op = srv.op /\ srv'.object = srv.object /\ srv'.input = srv.input
       /\ \/ /\ srv'.at \in {"read", "append"} /\ srv.op = "put"
             /\ \/ srv.at = "begin" /\ srv'.version = NewVersion
                \/ srv.at \in {"read", "append"} /\ srv'.version = srv.version
          \/ srv'.at = "serve" /\ srv.op = "get"

(* Each step of the handler, a failing statement or a crash is one of these moves. *)
LEMMA HandlerMove ==
    ASSUME TransferInv, Handler \/ StorageFails \/ Crash
    PROVE  HandlerMoves /\ cli' = cli /\ file' = file
<1>1. SrvShape /\ Sockets /\ StoreShape /\ Sealed /\ Written /\ Chunked /\ Paired
  BY TypesFacts, Zenon DEF TypesInv, ClientShape, StoreInv, TransferInv
<1>2. cli' = cli /\ file' = file
  BY <1>1, SocketSteps, Zenon
<1> SUFFICES HandlerMoves
  BY <1>2, Zenon
<1>3. CASE Refuse \/ Answer \/ Crash
  BY <1>3, Zenon DEF Refuse, Answer, Crash, Respond, HandlerMoves
<1>4. CASE Ready
  BY <1>4, Zenon DEF Ready, HandlerMoves
<1>5. CASE ReadFails \/ Finish \/ ServeEnd \/ StorageFails
  <2>1. \E code : Returns(code)
    BY <1>5, Zenon DEF ReadFails, Finish, ServeEnd, StorageFails
  <2>2. Serving
    BY <1>5 DEF ReadFails, Waiting, Finish, ServeEnd, StorageFails, Serving
  <2> QED  BY <2>1, <2>2, Zenon DEF HandlerMoves
<1>6. CASE BeginPut
  <2>0. UNCHANGED store
    BY <1>6, Zenon DEF BeginPut
  <2>1. Serving /\ srv.at = "begin" /\ srv.op = "put"
    BY <1>6 DEF BeginPut, Serving
  <2>2. CASE Returns("Locked")
    BY <2>1, <2>2, Zenon DEF HandlerMoves
  <2>3. CASE srv' = [srv EXCEPT !.at = "read", !.version = NewVersion]
    <3> HIDE DEF NewVersion
    <3> QED  BY <1>1, <2>0, <2>1, <2>3, SMTT(30) DEF HandlerMoves, SrvShape
  <2> QED  BY <1>6, <2>2, <2>3, Zenon DEF BeginPut
<1>7. CASE ReadItem
  <2>0. UNCHANGED store
    BY <1>7, Zenon DEF ReadItem
  <2>1. srv.at = "read" /\ srv.op = "put"
    BY <1>1, <1>7 DEF ReadItem, Paired
  <2>2. CASE srv' = [srv EXCEPT !.cur = Head(up).data]
    BY <1>1, <2>0, <2>1, <2>2 DEF HandlerMoves, SrvShape
  <2>3. CASE srv' = [srv EXCEPT !.finished = TRUE, !.at = "append"]
    BY <1>1, <2>0, <2>1, <2>3, SMTT(30) DEF HandlerMoves, SrvShape
  <2> QED  BY <1>7, <2>2, <2>3, Zenon DEF ReadItem
<1>8. CASE CopyBytes
  <2>0. UNCHANGED store
    BY <1>8, Zenon DEF CopyBytes
  <2>1. srv.at = "read" /\ srv.op = "put"
    BY <1>1, <1>8 DEF CopyBytes, Paired
  <2>2. PICK n \in 0 .. Len(srv.cur) :
             srv' = [srv EXCEPT !.buf = srv.buf \o SubSeq(srv.cur, 1, n),
                                !.cur = SubSeq(srv.cur, n + 1, Len(srv.cur)),
                                !.at = IF Len(srv.buf) + n = ChunkSize THEN "append" ELSE "read"]
    BY <1>1, <1>8, CopyFacts, Zenon
  <2> DEFINE b == srv.buf \o SubSeq(srv.cur, 1, n)
             c == SubSeq(srv.cur, n + 1, Len(srv.cur))
             at == IF Len(srv.buf) + n = ChunkSize THEN "append" ELSE "read"
  <2>3. srv' = [srv EXCEPT !.buf = b, !.cur = c, !.at = at] /\ at \in {"append", "read"}
    BY <2>2
  <2> HIDE DEF b, c, at
  <2> QED  BY <1>1, <2>0, <2>1, <2>3 DEF HandlerMoves, SrvShape
<1>9. CASE ReadAfterEnd
  BY <1>1, <1>9 DEF ReadAfterEnd, Paired, HandlerMoves, SrvShape
<1>10. CASE AppendChunk
  <2>0. UNCHANGED store
    BY <1>10, Zenon DEF AppendChunk
  <2>1. srv.at = "append" /\ srv.op = "put" /\ Serving
    BY <1>1, <1>10 DEF AppendChunk, Paired, Serving
  <2>2. CASE Returns("InvalidInput")
    BY <2>1, <2>2, Zenon DEF HandlerMoves
  <2>3. CASE ~ Returns("InvalidInput")
    <3> DEFINE cs == With(srv.chunks, Count, SealChunk(srv.object, srv.version, Count, srv.buf))
               l == srv.length + Len(srv.buf)
    <3>1. srv' = [srv EXCEPT !.chunks = cs, !.length = l, !.buf = <<>>, !.at = "read"]
      BY <1>10, <2>3, Zenon DEF AppendChunk
    <3> HIDE DEF cs, l
    <3> QED  BY <1>1, <2>0, <2>1, <3>1 DEF HandlerMoves, SrvShape
  <2> QED  BY <2>2, <2>3
<1>11. CASE BeginGet
  <2>0. UNCHANGED store
    BY <1>11, Zenon DEF BeginGet
  <2> DEFINE v == active[srv.object]
             m == rows[v].manifest.data
  <2>1. srv.at = "begin" /\ srv.op = "get" /\ Serving
    BY <1>11 DEF BeginGet, Serving
  <2>2. CASE Returns("Locked") \/ Returns("NotFound") \/ Returns("Authentication")
    BY <2>1, <2>2, Zenon DEF HandlerMoves
  <2>3. CASE srv' = [srv EXCEPT !.at = "serve", !.version = v, !.manifest = m]
    <3> HIDE DEF v, m
    <3> QED  BY <1>1, <2>0, <2>1, <2>3, SMTT(30) DEF HandlerMoves, SrvShape
  <2> QED  BY <1>11, <2>2, <2>3, Zenon DEF BeginGet
<1>12. CASE ServeChunk
  <2>0. UNCHANGED store
    BY <1>12, Zenon DEF ServeChunk
  <2>1. srv.at = "serve" /\ srv.op = "get" /\ Serving
    BY <1>1, <1>12 DEF ServeChunk, Paired, Serving
  <2>2. CASE Returns("Authentication") \/ Returns("Storage")
    BY <2>1, <2>2, Zenon DEF HandlerMoves
  <2>3. CASE ~ (Returns("Authentication") \/ Returns("Storage"))
    <3>1. PICK i \in Nat : Serves(i, Slice(content[srv.version].data, i))
      BY <1>1, <1>12, <2>3, ServeFacts, Zenon
    <3> DEFINE w == srv.written \o Slice(content[srv.version].data, i)
    <3>2. srv' = [srv EXCEPT !.next = i + 1, !.written = w]
      BY <3>1, Zenon DEF Serves
    <3> HIDE DEF w
    <3> QED  BY <1>1, <2>0, <2>1, <3>2 DEF HandlerMoves, SrvShape
  <2> QED  BY <2>2, <2>3
<1> QED
  BY <1>3, <1>4, <1>5, <1>6, <1>7, <1>8, <1>9, <1>10, <1>11, <1>12, Zenon DEF Handler

(* What the client's steps do to where it is. *)
ClientMoves ==
    \/ cli' = cli
    \/ ~ Connected' /\ cli'.at = "done"
    \/ cli.at = "ready" /\ cli' = [cli EXCEPT !.at = IF cli.op = "put" THEN "send" ELSE "receive"]
         /\ down # <<>> /\ ReadFrame(Head(down)) = "StreamReady" /\ down' = Tail(down)
    \/ cli.at = "send" /\ \E n \in 1 .. ItemSize : SendChunk(n) /\ cli' = [cli EXCEPT !.sent = cli.sent + n]
    \/ cli.at = "send" /\ SendEnd /\ cli' = [cli EXCEPT !.at = "answer"]
    \/ cli.at = "receive" /\ \E t : cli' = [cli EXCEPT !.temp = t]
    \/ cli.at = "receive" /\ cli' = [cli EXCEPT !.at = "publish"]

(* Each step outside the handler moves the client forward, ends it or leaves it alone. *)
LEMMA ClientMove ==
    ASSUME TransferInv, Elsewhere
    PROVE  ClientMoves /\ srv' = srv
<1>1. srv' = srv
  BY TypesFacts, ElsewhereSrv, Zenon DEF TypesInv
<1> SUFFICES ClientMoves
  BY <1>1, Zenon
<1>2. ASSUME NEW result, Ends(result)
      PROVE  ~ Connected' /\ cli'.at = "done"
  BY <1>2, EndsFacts DEF Connected
<1>3. CASE AwaitReady
  BY <1>2, <1>3, Zenon DEF AwaitReady, ClientMoves
<1>4. CASE \E n \in 1 .. ItemSize : SendChunk(n)
  BY <1>4, Zenon DEF SendChunk, ClientMoves
<1>5. CASE SendEnd
  BY <1>5, Zenon DEF SendEnd, ClientMoves
<1>6. CASE ReceiveItem
  <2>1. cli.at = "receive" /\ down # <<>> /\ Sockets
    BY <1>6, TypesFacts, Zenon DEF ReceiveItem, TypesInv, ClientShape
  <2>2. Head(down).type \in {"data", "end", "error"}
    BY <2>1, HeadItem
  <2>3. CASE Head(down).type = "data"
    <3>1. cli' = [cli EXCEPT !.temp = cli.temp \o Head(down).data]
      BY <1>6, <2>3, Zenon DEF ReceiveItem
    <3> QED  BY <2>1, <3>1, Zenon DEF ClientMoves
  <2>4. CASE Head(down).type = "end"
    <3>1. cli' = [cli EXCEPT !.at = "publish"]
      BY <1>6, <2>4, Zenon DEF ReceiveItem
    <3> QED  BY <2>1, <3>1, Zenon DEF ClientMoves
  <2>5. CASE Head(down).type = "error"
    <3>1. Ends(Head(down).code)
      BY <1>6, <2>5, Zenon DEF ReceiveItem
    <3> QED  BY <1>2, <3>1, Zenon DEF ClientMoves
  <2> QED  BY <2>2, <2>3, <2>4, <2>5
<1>7. CASE AwaitPublished \/ PublishOutput \/ LoseDaemon \/ Abort
  BY <1>2, <1>7, Zenon DEF AwaitPublished, PublishOutput, LoseDaemon, Abort, ClientMoves
<1>8. CASE TakeOutput \/ Unlock \/ Lock
  BY <1>8, Zenon DEF TakeOutput, Unlock, Lock, ClientMoves
<1>9. CASE \/ (\E o \in Object, x \in Plain : BufferedPut(o, x))
           \/ (\E v \in DOMAIN rows : DamageRow(v))
           \/ (\E o \in Object, v \in DOMAIN rows : DamagePointer(o, v))
  BY <1>9, Zenon DEF BufferedPut, DamageRow, DamagePointer, ClientMoves
<1> QED  BY <1>3, <1>4, <1>5, <1>6, <1>7, <1>8, <1>9, Zenon DEF Elsewhere

(* Three kinds of steps: a request, a step of the handler, and the others. *)
Requested ==
    \E op \in {"put", "get"}, o \in Object, x \in Bytes :
        Request(op, o, x) /\ (op = "put" => NewVersions # {}) /\ UNCHANGED store

(* A step is a new connection, one of the handler or one elsewhere. *)
LEMMA Kinds ==
    ASSUME Next
    PROVE  Requested \/ (Handler \/ StorageFails \/ Crash) \/ Elsewhere
<1>1. ASSUME NEW o \in Object, NEW x \in Plain, Request("put", o, x) PROVE Requested
  <2>1. NewVersions # {} /\ UNCHANGED store
    BY <1>1, Zenon DEF Request
  <2> QED  BY <1>1, <2>1, PlainInBytes, Zenon DEF Requested
<1>2. ASSUME NEW o \in Object, Request("get", o, <<>>) PROVE Requested
  <2>1. UNCHANGED store /\ "get" # "put"
    BY <1>2, Zenon DEF Request
  <2> QED  BY <1>2, <2>1, EmptyBytes, Zenon DEF Requested
<1> QED  BY <1>1, <1>2, Zenon DEF Next, Client, Elsewhere

(* A client that stays connected reads the socket from its front. *)
LEMMA StaysConnected ==
    ASSUME TransferInv, Elsewhere, Connected'
    PROVE  /\ Connected /\ cli'.op = cli.op /\ cli'.object = cli.object /\ cli'.input = cli.input
           /\ down' = down \/ (down # <<>> /\ down' = Tail(down))
<1>1. CliShape
  BY TypesFacts, Zenon DEF TypesInv, ClientShape
<1>2. ASSUME NEW result, Ends(result)
      PROVE  FALSE
  BY <1>2, EndsFacts DEF Connected
<1>3. CASE AwaitReady
  <2>1. cli.at = "ready" /\ down # <<>> /\ down' = Tail(down)
        /\ cli' = [cli EXCEPT !.at = IF cli.op = "put" THEN "send" ELSE "receive"]
    BY <1>2, <1>3, Zenon DEF AwaitReady
  <2>2. cli'.op = cli.op /\ cli'.object = cli.object /\ cli'.input = cli.input /\ Connected
    BY <1>1, <2>1 DEF CliShape, Connected
  <2> QED  BY <2>1, <2>2, Zenon
<1>4. CASE (\E n \in 1 .. ItemSize : SendChunk(n)) \/ SendEnd
  <2>1. cli.at = "send" /\ down' = down
    BY <1>4, Zenon DEF SendChunk, SendEnd
  <2>2. cli'.op = cli.op /\ cli'.object = cli.object /\ cli'.input = cli.input
    BY <1>1, <1>4 DEF CliShape, SendChunk, SendEnd
  <2>3. Connected
    BY <2>1 DEF Connected
  <2> QED  BY <2>1, <2>2, <2>3, Zenon
<1>5. CASE ReceiveItem
  <2>1. cli.at = "receive" /\ down # <<>> /\ Sockets
    BY <1>5, TypesFacts, Zenon DEF ReceiveItem, TypesInv, ClientShape
  <2>2. Head(down).type \in {"data", "end"}
    <3>1. Head(down).type \in {"data", "end", "error"}
      BY <2>1, HeadItem
    <3>2. Head(down).type = "error" => Ends(Head(down).code)
      BY <1>5, Zenon DEF ReceiveItem
    <3> QED  BY <1>2, <3>1, <3>2
  <2>3. down' = Tail(down)
    BY <1>5, <2>2, Zenon DEF ReceiveItem
  <2>4. cli'.op = cli.op /\ cli'.object = cli.object /\ cli'.input = cli.input
    BY <1>1, <1>5, <2>2, Zenon DEF ReceiveItem, CliShape
  <2>5. Connected
    BY <2>1 DEF Connected
  <2> QED  BY <2>1, <2>3, <2>4, <2>5, Zenon
<1>6. CASE AwaitPublished \/ PublishOutput \/ LoseDaemon \/ Abort
  BY <1>2, <1>6, Zenon DEF AwaitPublished, PublishOutput, LoseDaemon, Abort
<1>7. ASSUME cli' = cli, down' = down
      PROVE  /\ Connected /\ cli'.op = cli.op /\ cli'.object = cli.object /\ cli'.input = cli.input
             /\ down' = down
  BY <1>7, Zenon DEF Connected
<1> QED
  BY <1>3, <1>4, <1>5, <1>6, <1>7, Zenon
     DEF Elsewhere, TakeOutput, Unlock, Lock, BufferedPut, DamageRow, DamagePointer

-----------------------------------------------------------------------------
(* Sequences, and where their pieces end *)

(* A cut with one more end. *)
LEMMA CutExtended ==
    ASSUME NEW n \in Nat, NEW top \in Nat, NEW c \in [0 .. n -> 0 .. top], NEW e \in 0 .. top
    PROVE  \E d \in [0 .. n + 1 -> 0 .. top] : d[n + 1] = e /\ \A k \in 0 .. n : d[k] = c[k]
<1> DEFINE d == [k \in 0 .. n + 1 |-> IF k = n + 1 THEN e ELSE c[k]]
<1>1. d \in [0 .. n + 1 -> 0 .. top] /\ d[n + 1] = e /\ \A k \in 0 .. n : d[k] = c[k]
  OBVIOUS
<1> QED  BY <1>1, Zenon

(* A cut without its first end. *)
LEMMA CutShifted ==
    ASSUME NEW n \in Nat \ {0}, NEW top \in Nat, NEW c \in [0 .. n -> 0 .. top]
    PROVE  \E d \in [0 .. n - 1 -> 0 .. top] : \A k \in 0 .. n - 1 : d[k] = c[k + 1]
<1> DEFINE d == [k \in 0 .. n - 1 |-> c[k + 1]]
<1>1. d \in [0 .. n - 1 -> 0 .. top] /\ \A k \in 0 .. n - 1 : d[k] = c[k + 1]
  OBVIOUS
<1> QED  BY <1>1, Zenon

(* A sequence with one more element. *)
LEMMA Appended ==
    ASSUME NEW S, NEW q \in Seq(S), NEW e
    PROVE  /\ Len(q) \in Nat /\ Len(Append(q, e)) = Len(q) + 1
           /\ Append(q, e)[Len(q) + 1] = e
           /\ \A k \in 1 .. Len(q) : Append(q, e)[k] = q[k]
OBVIOUS

(* A sequence without its first element. *)
LEMMA Tails ==
    ASSUME NEW S, NEW q \in Seq(S), q # <<>>
    PROVE  /\ Len(q) \in Nat \ {0} /\ Head(q) = q[1] /\ 1 \in 1 .. Len(q) /\ q[1] \in S
           /\ Tail(q) \in Seq(S) /\ Len(Tail(q)) = Len(q) - 1
           /\ \A k \in 1 .. Len(q) - 1 : Tail(q)[k] = q[k + 1] /\ k + 1 \in 1 .. Len(q)
OBVIOUS

-----------------------------------------------------------------------------
(* The chunks of a plaintext, handed out in turn *)

(* Multiplication by a natural number is monotone. *)
LEMMA Multiples ==
    ASSUME NEW c \in Nat, NEW a \in Nat, NEW b \in Nat, a <= b
    PROVE  c * a \in Nat /\ c * b \in Nat /\ c * a <= c * b
<1>1. PICK d \in Nat : b = a + d
  <2>1. b - a \in Nat /\ b = a + (b - a)
    OBVIOUS
  <2> QED  BY <2>1, Zenon
<1>2. c * b = c * a + c * d /\ c * d \in Nat /\ c * a \in Nat
  BY <1>1
<1> QED  BY <1>2

(* The length of two byte strings joined. *)
LEMMA Concatenated ==
    ASSUME NEW w \in Bytes, NEW part \in Bytes
    PROVE  /\ w \o part \in Bytes /\ Len(w \o part) = Len(w) + Len(part)
           /\ Len(w) \in Nat /\ Len(part) \in Nat
           /\ SubSeq(w \o part, Len(w) + 1, Len(w) + Len(part)) = part
BY DEF Bytes

(* A piece of the first of two byte strings joined. *)
LEMMA PieceBefore ==
    ASSUME NEW w \in Bytes, NEW part \in Bytes, NEW p \in Nat, NEW q \in p .. Len(w)
    PROVE  SubSeq(w \o part, p + 1, q) = SubSeq(w, p + 1, q)
BY DEF Bytes

(* Chunks that are full stay what they are when another follows them. *)
LEMMA SliceBefore ==
    ASSUME NEW w \in Bytes, NEW part \in Bytes, NEW m \in Nat, Len(w) = ChunkSize * m,
           NEW k \in Nat, k < m
    PROVE  Slice(w \o part, k) = Slice(w, k)
<1>1. /\ Len(w \o part) = Len(w) + Len(part) /\ Len(w) \in Nat /\ Len(part) \in Nat
      /\ ChunkSize \in Nat
  BY Concatenated, ChunkPolicy, Zenon
<1> DEFINE p == ChunkSize * k
           q == ChunkSize * (k + 1)
<1>2. p \in Nat /\ q \in Nat /\ p <= q /\ q <= Len(w)
  <2>1. k <= k + 1 /\ k + 1 <= m /\ k + 1 \in Nat
    OBVIOUS
  <2>2. p \in Nat /\ q \in Nat /\ p <= q
    BY <1>1, <2>1, Multiples
  <2>3. q <= ChunkSize * m
    BY <1>1, <2>1, Multiples, SMTT(30)
  <2> QED  BY <2>2, <2>3, Zenon
<1> HIDE DEF p, q
<1>3. Min({q, Len(w)}) = q /\ Min({q, Len(w \o part)}) = q
  <2> DEFINE l == Len(w \o part)
  <2>1. q \in Int /\ Len(w) \in Int /\ l \in Int /\ q <= l
    BY <1>1, <1>2
  <2> HIDE DEF l
  <2>2. Min({q, Len(w)}) = q /\ Min({q, l}) = q
    BY <1>2, <2>1, MinOfTwo, Zenon
  <2> QED  BY <2>2, Zenon DEF l
<1>4. q \in p .. Len(w)
  BY <1>1, <1>2
<1>5. SubSeq(w \o part, p + 1, q) = SubSeq(w, p + 1, q)
  BY <1>2, <1>4, PieceBefore, Zenon
<1> QED  BY <1>3, <1>5, Zenon DEF Slice, p, q

(* The chunk handed out last is the last slice of what was handed out. *)
LEMMA SliceLast ==
    ASSUME NEW w \in Bytes, NEW part \in Bytes, NEW m \in Nat, Len(w) = ChunkSize * m,
           Len(part) # 0, Len(part) <= ChunkSize
    PROVE  /\ ChunkCount(w \o part) = m + 1
           /\ Slice(w \o part, m) = part
<1>1. /\ Len(w \o part) = Len(w) + Len(part) /\ Len(w) \in Nat /\ Len(part) \in Nat
      /\ ChunkSize \in Nat \ {0} /\ SubSeq(w \o part, Len(w) + 1, Len(w) + Len(part)) = part
  BY Concatenated, ChunkPolicy, Zenon
<1> DEFINE l == Len(w \o part)
           b == Len(part)
<1>2. /\ b \in Nat \ {0} /\ b <= ChunkSize /\ ChunkSize * m \in Nat /\ l = ChunkSize * m + b
  BY <1>1
<1> HIDE DEF l, b
<1>3. /\ l \in Nat /\ l <= ChunkSize * (m + 1) /\ ChunkSize * ((m + 1) - 1) < l /\ m + 1 \in Nat
      /\ ChunkSize * (m + 1) \in Int /\ l \in Int
  BY <1>1, <1>2, SMTT(30)
<1>4. DivCeil(l, ChunkSize) = m + 1
  BY <1>1, <1>3, DivCeilUnique, SMTT(30)
<1>5. Min({ChunkSize * (m + 1), l}) = l
  <2>1. Min({ChunkSize * (m + 1), l}) = IF ChunkSize * (m + 1) <= l THEN ChunkSize * (m + 1) ELSE l
    BY <1>3, MinOfTwo, Zenon
  <2> QED  BY <1>3, <2>1
<1> QED  BY <1>1, <1>4, <1>5, Zenon DEF ChunkCount, Slice, l

(* A slice is not empty, and only the last one is short. *)
LEMMA SliceShort ==
    ASSUME NEW x \in Bytes, NEW i \in Nat, i < ChunkCount(x)
    PROVE  /\ Slice(x, i) \in Bytes /\ Len(Slice(x, i)) \in Nat /\ Len(Slice(x, i)) # 0
           /\ Len(Slice(x, i)) <= ChunkSize
           /\ i + 1 < ChunkCount(x) => Len(Slice(x, i)) = ChunkSize
<1> DEFINE to == Min({ChunkSize * (i + 1), Len(x)})
           l == Len(Slice(x, i))
<1>1. /\ ChunkSize * i \in Nat /\ to \in Nat /\ to <= Len(x) /\ ChunkSize * i < to
      /\ to = IF i + 1 < ChunkCount(x) THEN ChunkSize * (i + 1) ELSE Len(x)
      /\ l = to - ChunkSize * i /\ Slice(x, i) \in Bytes
  BY SliceFacts, Zenon
<1>2. ChunkSize * (i + 1) = ChunkSize * i + ChunkSize /\ ChunkSize * (i + 1) \in Nat /\ ChunkSize \in Nat
  BY ChunkPolicy
<1>3. to <= ChunkSize * (i + 1)
  <2>1. Len(x) \in Int /\ ChunkSize * (i + 1) \in Int
    BY <1>2 DEF Bytes
  <2>2. to = IF ChunkSize * (i + 1) <= Len(x) THEN ChunkSize * (i + 1) ELSE Len(x)
    BY <2>1, MinOfTwo, Zenon
  <2> HIDE DEF to
  <2> QED  BY <2>1, <2>2, SMTT(30)
<1> HIDE DEF to, l
<1>4. l \in Nat /\ l # 0 /\ l <= ChunkSize
  BY <1>1, <1>2, <1>3, SMTT(30)
<1>5. i + 1 < ChunkCount(x) => l = ChunkSize
  BY <1>1, <1>2, SMTT(30)
<1> QED  BY <1>1, <1>4, <1>5, Zenon DEF l

(* A download that has begun has handed out nothing. *)
LEMMA PassesNone ==
    ASSUME NEW x \in Bytes
    PROVE  Passes(x, <<>>, 0)
<1>1. Len(x) \in Nat /\ ChunkSize \in Nat \ {0} /\ Len(<<>>) = 0
  BY ChunkPolicy DEF Bytes
<1>2. ChunkSize * 0 = 0 /\ 0 \in Int /\ Len(x) \in Int /\ 0 <= Len(x) /\ 0 <= 0 /\ ~ (0 < 0)
  BY <1>1
<1>3. Min({ChunkSize * 0, Len(x)}) = 0
  BY <1>2, MinOfTwo, Zenon
<1>4. SubSeq(x, 1, 0) = <<>>
  BY <1>1
<1>5. ChunkCount(<<>>) = 0
  <2>1. DivCeil(0, ChunkSize) = 0
    BY <1>1, DivCeilUnique, SMTT(30)
  <2> QED  BY <1>1, <2>1, Zenon DEF ChunkCount
<1>6. ChunksOf(<<>>, x, 0)
  <2>1. 0 .. 0 - 1 = {}
    OBVIOUS
  <2>2. [k \in 0 .. 0 - 1 |-> 0] \in Ascending(0, 0)
    BY <2>1 DEF Ascending
  <2> QED  BY <1>5, <2>1, <2>2, Zenon DEF ChunksOf
<1> QED  BY <1>1, <1>2, <1>3, <1>4, <1>5, <1>6, Zenon DEF Passes, Passed

(* One more chunk with a greater index. *)
Continues(m, i, e) == \E f \in Ascending(m + 1, i + 1) : f[m] = i /\ \A k \in 0 .. m - 1 : f[k] = e[k]

(* An ascending choice of chunks goes on with a later one. *)
LEMMA AscendingMore ==
    ASSUME NEW m \in Nat, NEW last \in Nat, NEW i \in Nat, last <= i, NEW e \in Ascending(m, last)
    PROVE  Continues(m, i, e)
<1>1. e \in [0 .. m - 1 -> 0 .. last - 1] /\ \A j \in 0 .. m - 1 : \A k \in 0 .. j - 1 : e[k] < e[j]
  BY DEF Ascending
<1> DEFINE f == [k \in 0 .. m |-> IF k = m THEN i ELSE e[k]]
<1>2. (m + 1) - 1 = m /\ (i + 1) - 1 = i
  OBVIOUS
<1>3. f \in [0 .. m -> 0 .. i]
  BY <1>1
<1>4. f[m] = i /\ \A k \in 0 .. m - 1 : k \in 0 .. m /\ f[k] = e[k] /\ e[k] < i
  BY <1>1
<1> HIDE DEF f
<1>5. ASSUME NEW j \in 0 .. m, NEW k \in 0 .. j - 1 PROVE f[k] < f[j]
  <2>1. k \in 0 .. m - 1
    OBVIOUS
  <2>2. CASE j = m
    BY <1>4, <2>1, <2>2, SMTT(30)
  <2>3. CASE j # m
    <3>1. j \in 0 .. m - 1
      BY <2>3
    <3> QED  BY <1>1, <1>4, <2>1, <3>1, Zenon
  <2> QED  BY <2>2, <2>3, SMTT(30)
<1>6. f \in Ascending(m + 1, i + 1)
  BY <1>2, <1>3, <1>5, Zenon DEF Ascending
<1> QED  BY <1>4, <1>6, Zenon DEF Continues

(* Handing out a later chunk keeps the chunks in their order. *)
LEMMA ChunksOfMore ==
    ASSUME NEW x \in Bytes, NEW w \in Bytes, NEW last \in Nat, NEW i \in Nat, last <= i, i < ChunkCount(x),
           NEW m \in Nat, m = ChunkCount(w), Len(w) = ChunkSize * m, ChunksOf(w, x, last)
    PROVE  ChunksOf(w \o Slice(x, i), x, i + 1)
<1> DEFINE y == w \o Slice(x, i)
<1>1. Slice(x, i) \in Bytes /\ Len(Slice(x, i)) # 0 /\ Len(Slice(x, i)) <= ChunkSize
  BY SliceShort
<1>2. ChunkCount(y) = m + 1 /\ Slice(y, m) = Slice(x, i)
  BY <1>1, SliceLast, Zenon
<1>3. \A k \in 0 .. m - 1 : k \in Nat /\ k < m
  OBVIOUS
<1>4. \A k \in 0 .. m - 1 : Slice(y, k) = Slice(w, k)
  <2> SUFFICES ASSUME NEW k \in 0 .. m - 1 PROVE Slice(y, k) = Slice(w, k)
    OBVIOUS
  <2>1. k \in Nat /\ k < m
    BY <1>3, Zenon
  <2> QED  BY <1>1, <2>1, SliceBefore, SMTT(30)
<1>5. PICK e \in Ascending(m, last) : \A k \in 0 .. m - 1 : Slice(w, k) = Slice(x, e[k])
  BY Zenon DEF ChunksOf
<1>6. PICK f \in Ascending(m + 1, i + 1) : f[m] = i /\ \A k \in 0 .. m - 1 : f[k] = e[k]
  <2>1. Continues(m, i, e)
    BY <1>5, AscendingMore, Zenon
  <2> QED  BY <2>1, Zenon DEF Continues
<1>7. \A k \in 0 .. (m + 1) - 1 : k = m \/ k \in 0 .. m - 1
  BY SMTT(20)
<1> HIDE DEF y
<1>8. \A k \in 0 .. (m + 1) - 1 : Slice(y, k) = Slice(x, f[k])
  BY <1>2, <1>4, <1>5, <1>6, <1>7, Zenon
<1>9. ChunksOf(y, x, i + 1)
  BY <1>2, <1>6, <1>8, Zenon DEF ChunksOf
<1> QED  BY <1>9, Zenon DEF y

(* Chunks of which none is short. *)
LEMMA FilledChunks ==
    ASSUME NEW w \in Bytes, ~ (Len(w) < ChunkSize * ChunkCount(w))
    PROVE  ChunkCount(w) \in Nat /\ Len(w) = ChunkSize * ChunkCount(w)
<1> DEFINE l == Len(w)
           n == ChunkCount(w)
<1>1. l \in Nat /\ ChunkSize \in Nat \ {0}
  BY ChunkPolicy DEF Bytes
<1>2. n \in Nat /\ l <= ChunkSize * n
  BY <1>1, DivCeilBounds, Zenon DEF ChunkCount
<1> HIDE DEF l, n
<1>3. l = ChunkSize * n
  <2>1. ~ (l < ChunkSize * n) /\ ChunkSize * n \in Nat
    BY <1>1, <1>2, SMTT(30) DEF l, n
  <2> QED  BY <1>1, <1>2, <2>1, SMTT(30)
<1> QED  BY <1>2, <1>3, Zenon DEF l, n

(* A length that reaches b by a part that starts at b is b. *)
LEMMA Squeezed ==
    ASSUME NEW n \in Nat, NEW a \in Nat, NEW b \in Nat, NEW to \in Nat,
           to = n + (to - b), n <= a, a <= b
    PROVE  n = a /\ a = b
OBVIOUS

(* Handing out chunk i, after none or some were skipped. *)
LEMMA PassesOne ==
    ASSUME NEW x \in Bytes, NEW w \in Bytes, NEW next \in Nat, NEW i \in Nat, next <= i, i < ChunkCount(x),
           Passes(x, w, next)
    PROVE  Passes(x, w \o Slice(x, i), i + 1)
<1> DEFINE part == Slice(x, i)
           y == w \o part
           to == Min({ChunkSize * (i + 1), Len(x)})
           a == ChunkSize * next
           b == ChunkSize * i
           m == ChunkCount(w)
<1>1. /\ b \in Nat /\ b < Len(x) /\ to \in Nat /\ to <= Len(x) /\ b < to
      /\ part = SubSeq(x, b + 1, to) /\ part \in Bytes /\ Len(part) = to - b
  BY SliceFacts, Zenon
<1>2. a \in Nat /\ a <= b
  BY ChunkPolicy, Multiples, SMTT(30)
<1>3. Len(x) \in Nat /\ ChunkSize \in Nat \ {0} /\ ChunkCount(x) \in Nat
  BY ChunkPolicy, ChunkCountNat DEF Bytes
<1>4. y \in Bytes /\ Len(y) = Len(w) + Len(part) /\ Len(w) \in Nat
  BY <1>1, Concatenated, Zenon
<1> HIDE DEF a, b, to, part, m, y
<1>5. Min({a, Len(x)}) = a
  <2>1. a \in Int /\ Len(x) \in Int /\ a <= Len(x)
    BY <1>1, <1>2, <1>3, SMTT(30)
  <2> QED  BY <2>1, MinOfTwo, Zenon
<1>6. /\ Len(w) <= a /\ (Len(w) = a => w = SubSeq(x, 1, a)) /\ ChunksOf(w, x, next)
      /\ (Len(w) < ChunkSize * m => next = ChunkCount(x))
  BY <1>5, Zenon DEF Passes, Passed, a, m
<1>7. Len(y) <= to
  BY <1>1, <1>2, <1>4, <1>6, SMTT(30)
<1>8. Len(y) = to => y = SubSeq(x, 1, to)
  <2> SUFFICES ASSUME Len(y) = to PROVE y = SubSeq(x, 1, to)
    OBVIOUS
  <2>1. Len(w) = a /\ a = b
    <3>1. to = Len(w) + (to - b)
      BY <1>1, <1>4, Zenon
    <3>2. Len(w) \in Nat /\ a \in Nat /\ b \in Nat /\ to \in Nat /\ Len(w) <= a /\ a <= b
      BY <1>1, <1>2, <1>4, <1>6, Zenon
    <3> QED  BY <3>1, <3>2, Squeezed, Zenon
  <2>2. 0 \in Nat /\ b \in 0 .. Len(x) /\ to \in b .. Len(x) /\ 0 + 1 = 1
    BY <1>1, <1>3, SMTT(30)
  <2>3. SubSeq(x, 0 + 1, b) \o SubSeq(x, b + 1, to) = SubSeq(x, 0 + 1, to)
    BY <2>2, PiecesJoin, Zenon
  <2> QED  BY <1>1, <1>6, <2>1, <2>2, <2>3, Zenon DEF y
<1>9. m \in Nat /\ Len(w) = ChunkSize * m
  <2>1. next # ChunkCount(x)
    BY <1>3, SMTT(30)
  <2> QED  BY <1>6, <2>1, FilledChunks, Zenon DEF m
<1>10. ChunksOf(y, x, i + 1)
  BY <1>6, <1>9, ChunksOfMore, Zenon DEF m, y, part
<1>11. /\ Len(part) \in Nat /\ Len(part) # 0 /\ Len(part) <= ChunkSize
       /\ i + 1 < ChunkCount(x) => Len(part) = ChunkSize
  BY SliceShort, Zenon DEF part
<1>12. ChunkCount(y) = m + 1
  BY <1>1, <1>9, <1>11, SliceLast, ZenonT(30) DEF y
<1>13. Len(y) < ChunkSize * (m + 1) => i + 1 = ChunkCount(x)
  <2>1. ChunkSize * (m + 1) = ChunkSize * m + ChunkSize /\ ChunkSize * m \in Nat
    BY <1>3, <1>9
  <2> DEFINE l == Len(part)
             n == ChunkCount(x)
             k == ChunkSize * m
  <2>2. /\ l \in Nat /\ n \in Nat /\ i < n /\ (i + 1 < n => l = ChunkSize) /\ k \in Nat
        /\ Len(y) = k + l /\ ChunkSize * (m + 1) = k + ChunkSize
    BY <1>3, <1>4, <1>9, <1>11, <2>1, Zenon
  <2> HIDE DEF l, n, k
  <2>3. k + l < k + ChunkSize => i + 1 = n
    BY <1>3, <2>2
  <2> QED  BY <2>2, <2>3, Zenon DEF n
<1> QED  BY <1>7, <1>8, <1>10, <1>12, <1>13, Zenon DEF Passes, Passed, y, to, part
=============================================================================
