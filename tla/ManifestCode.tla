---------------------------- MODULE ManifestCode ----------------------------
(***************************************************************************)
(* The canonical encoding of manifests (vlt1-core/src/cde.rs): one CBOR map *)
(* with the keys 1 to 8 in order and integers in their shortest form.       *)
(* Bytes are 0 .. 255; a u64 is its eight big-endian bytes (to_be_bytes).   *)
(***************************************************************************)
EXTENDS Integers, Sequences

Byte == 0 .. 255
U64 == [1 .. 8 -> Byte]
IsU32(u) == u[1] = 0 /\ u[2] = 0 /\ u[3] = 0 /\ u[4] = 0
U32 == {u \in U64 : IsU32(u)}
Bytes(n) == [1 .. n -> Byte]
Uint(n) == [i \in 1 .. 8 |-> IF i = 8 THEN n ELSE 0]  \* of a byte

Manifest ==
    [format_version : U32, object_id : Bytes(16), version_id : Bytes(16), plaintext_len : U64,
     chunk_size : U32, chunk_count : U32, chunk_digest : Bytes(32)]

(* The additional information of the shortest form, and the bytes after it. *)
CanonicalAdditional(u) ==
    IF ~ IsU32(u) THEN 27
    ELSE IF u[5] # 0 \/ u[6] # 0 THEN 26
    ELSE IF u[7] # 0 THEN 25
    ELSE IF u[8] > 23 THEN 24
    ELSE u[8]

Width(additional) ==
    IF additional < 24 THEN 0
    ELSE IF additional = 24 THEN 1
    ELSE IF additional = 25 THEN 2
    ELSE IF additional = 26 THEN 4
    ELSE 8

-----------------------------------------------------------------------------
(* encode_manifest *)

PutMajorUint(major, u) ==
    LET additional == CanonicalAdditional(u) IN
    <<32 * major + additional>> \o SubSeq(u, 9 - Width(additional), 8)

PutUint(key, u) == <<key>> \o PutMajorUint(0, u)
PutBytes(key, bytes) == <<key>> \o (PutMajorUint(2, Uint(Len(bytes))) \o bytes)

MapOfEight == 168  \* 0xa0 | MAP_FIELDS

EncodeManifest(m) ==
    <<MapOfEight>>
    \o PutUint(1, m.format_version)
    \o PutBytes(2, m.object_id)
    \o PutBytes(3, m.version_id)
    \o PutUint(4, m.plaintext_len)
    \o PutUint(5, m.chunk_size)
    \o PutUint(6, m.chunk_count)
    \o PutBytes(7, m.chunk_digest)
    \o PutUint(8, Uint(1))

-----------------------------------------------------------------------------
(* decode_manifest: a read at an offset gives a value and the next offset. *)

Read(value, next) == [ok |-> TRUE, value |-> value, next |-> next]
Refused(p) == [ok |-> FALSE, value |-> <<>>, next |-> p]

(* The integer whose last w bytes follow offset p, or that is in the head. *)
Extended(b, p, w) == [i \in 1 .. 8 |-> IF i <= 8 - w THEN 0 ELSE b[p + i - (8 - w)]]

ReadMajorUint(b, p, major) ==
    IF p < Len(b) /\ b[p + 1] \div 32 = major /\ b[p + 1] % 32 <= 27
    THEN LET additional == b[p + 1] % 32
             w == Width(additional)
         IN IF p + 1 + w <= Len(b)
            THEN LET u == IF w = 0 THEN Uint(additional) ELSE Extended(b, p + 1, w)
                 IN IF CanonicalAdditional(u) = additional THEN Read(u, p + 1 + w) ELSE Refused(p)
            ELSE Refused(p)
    ELSE Refused(p)

ReadBytesExact(b, p, n) ==
    LET head == ReadMajorUint(b, p, 2) IN
    IF head.ok /\ head.value = Uint(n) /\ head.next + n <= Len(b)
    THEN Read(SubSeq(b, head.next + 1, head.next + n), head.next + n)
    ELSE Refused(p)

(* A field: its expected key, then its value. *)
ReadKey(b, p, key) ==
    LET k == ReadMajorUint(b, p, 0) IN
    IF k.ok /\ k.value = Uint(key) THEN k ELSE Refused(p)

FieldUint(b, p, key) ==
    LET k == ReadKey(b, p, key) IN
    IF k.ok THEN ReadMajorUint(b, k.next, 0) ELSE Refused(p)

FieldBytes(b, p, key, n) ==
    LET k == ReadKey(b, p, key) IN
    IF k.ok THEN ReadBytesExact(b, k.next, n) ELSE Refused(p)

(* What the decoder reads of b, field by field. *)
Fields(b) ==
    LET f1 == FieldUint(b, 1, 1)
        f2 == FieldBytes(b, f1.next, 2, 16)
        f3 == FieldBytes(b, f2.next, 3, 16)
        f4 == FieldUint(b, f3.next, 4)
        f5 == FieldUint(b, f4.next, 5)
        f6 == FieldUint(b, f5.next, 6)
        f7 == FieldBytes(b, f6.next, 7, 32)
        f8 == FieldUint(b, f7.next, 8)
    IN <<f1, f2, f3, f4, f5, f6, f7, f8>>

(* Whether decode_manifest accepts b, and what it makes of it. *)
Accepts(b) ==
    LET f == Fields(b) IN
    /\ Len(b) > 0 /\ b[1] = MapOfEight
    /\ \A i \in 1 .. 8 : f[i].ok
    /\ IsU32(f[1].value) /\ IsU32(f[5].value) /\ IsU32(f[6].value)
    /\ f[8].value = Uint(1)
    /\ f[8].next = Len(b)

DecodeManifest(b) ==
    LET f == Fields(b) IN
    [format_version |-> f[1].value, object_id |-> f[2].value, version_id |-> f[3].value,
     plaintext_len |-> f[4].value, chunk_size |-> f[5].value, chunk_count |-> f[6].value,
     chunk_digest |-> f[7].value]
=============================================================================
