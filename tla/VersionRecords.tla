--------------------------- MODULE VersionRecords ---------------------------
(***************************************************************************)
(* How an immutable version is laid out and read back (vlt1-core/src/       *)
(* vault.rs, storage.rs) under ideal cryptography (crypto.rs): a sealed     *)
(* record opens only with its key and its associated data, keys derived     *)
(* from different inputs differ, and a digest stands for what was hashed.   *)
(* Manifests are sealed as the values of their fields: ManifestCode has the *)
(* byte encoding, ManifestCodeProofs that a manifest has only one.          *)
(***************************************************************************)
EXTENDS Integers, Sequences, FiniteSetsExt

CONSTANTS
    RootKey, VaultId,
    Object, Version,
    ChunkSize,  \* bytes of plaintext in a chunk
    MaxChunks   \* MAX_CHUNKS_PER_VERSION

ASSUME ChunkPolicy == ChunkSize \in Nat \ {0} /\ MaxChunks \in Nat

(* AES-GCM-SIV *)
Seal(key, aad, data) == [key |-> key, aad |-> aad, data |-> data]
Opens(key, aad, record) == record.key = key /\ record.aad = aad

(* HKDF labels and the random DEK of a version *)
Kek == <<"VLT1/KEK", RootKey, VaultId>>
Dek(v) == <<"DEK", v>>
ManifestKey(dek, v) == <<"VLT1/MANIFEST", dek, v>>

WrappedDekAad(o, v) == <<"VLT1/WRAPPED-DEK", VaultId, o, v>>
ManifestAad(o, v) == <<"VLT1/MANIFEST", VaultId, o, v>>

(* A bug: a chunk's place in its version is not authenticated. *)
MutantChunkAad(o, v, i, n) == <<"VLT1/CHUNK", VaultId, o, v, 0, n>>

ChunkAad(o, v, i, n) == <<"VLT1/CHUNK", VaultId, o, v, i, n>>

(* A version as it is stored: its row and its chunk rows by index. *)
DivCeil(a, b) == (a + b - 1) \div b
Slice(x, i) == SubSeq(x, ChunkSize * i + 1, Min({ChunkSize * (i + 1), Len(x)}))

SealChunk(o, v, i, part) == Seal(Dek(v), ChunkAad(o, v, i, Len(part)), part)

(* ChunkDigestBuilder: the indices and records, in the order of the indices. *)
Digest(chunks) == {<<i, chunks[i]>> : i \in DOMAIN chunks}

FormatVersion == 1

Manifest(o, v, length, chunks) ==
    [format |-> FormatVersion, object |-> o, version |-> v, length |-> length,
     size |-> ChunkSize, count |-> Cardinality(DOMAIN chunks), digest |-> Digest(chunks)]

(* The row and the sealed manifest of a version with these chunks. *)
StoredVersion(o, v, length, chunks) ==
    [object |-> o,
     dek |-> Seal(Kek, WrappedDekAad(o, v), Dek(v)),
     manifest |-> Seal(ManifestKey(Dek(v), v), ManifestAad(o, v), Manifest(o, v, length, chunks)),
     length |-> length, size |-> ChunkSize, count |-> Cardinality(DOMAIN chunks),
     chunks |-> chunks]

ChunkCount(x) == DivCeil(Len(x), ChunkSize)

(* prepare_version: a plaintext with too many chunks is InvalidInput. *)
PrepareVersion(o, v, x) ==
    StoredVersion(o, v, Len(x), [i \in 0 .. ChunkCount(x) - 1 |-> SealChunk(o, v, i, Slice(x, i))])

-----------------------------------------------------------------------------
(* get_to_writer_inner *)

(* validate_manifest_binding: what SQLite says is what was authenticated. *)
ManifestBinds(m, v, row) ==
    /\ m.format = FormatVersion
    /\ m.object = row.object /\ m.version = v
    /\ m.length = row.length /\ m.size = row.size /\ m.count = row.count
    /\ m.size # 0 /\ m.count <= MaxChunks

(* The first pass over the chunk rows: indices without a gap, count, digest. *)
LayoutHolds(m, chunks) ==
    /\ DOMAIN chunks = 0 .. m.count - 1
    /\ Digest(chunks) = m.digest

(* Every check made before the first byte of plaintext is written; the rows of *)
(* this model carry no witness receipt (WitnessedVault has them).              *)
Readable(o, v, row) ==
    /\ row.object = o
    /\ Opens(Kek, WrappedDekAad(o, v), row.dek)
    /\ Opens(ManifestKey(row.dek.data, v), ManifestAad(o, v), row.manifest)
    /\ ManifestBinds(row.manifest.data, v, row)
    /\ LayoutHolds(row.manifest.data, row.chunks)

(* expected_plaintext_chunk_len; none for an index outside or a negative tail. *)
ExpectedLength(m, i) ==
    IF i + 1 < m.count THEN m.size ELSE m.length - m.size * (m.count - 1)

(* The second pass opens each chunk with the length the manifest implies. *)
ChunkOpens(dek, o, v, m, i, record) ==
    /\ i < m.count /\ ExpectedLength(m, i) >= 0
    /\ Opens(dek, ChunkAad(o, v, i, ExpectedLength(m, i)), record)
    /\ Len(record.data) = ExpectedLength(m, i)
=============================================================================
