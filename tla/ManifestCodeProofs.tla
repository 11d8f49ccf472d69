------------------------- MODULE ManifestCodeProofs -------------------------
(***************************************************************************)
(* decode_manifest accepts only what encode_manifest produces.              *)
(***************************************************************************)
EXTENDS ManifestCode, SequenceTheorems, TLAPS

(* Two adjacent pieces of a sequence make one piece. *)
LEMMA SubSeqJoin ==
    ASSUME NEW b \in Seq(Byte), NEW p \in Nat, NEW q \in p .. Len(b), NEW r \in q .. Len(b)
    PROVE  SubSeq(b, p + 1, q) \o SubSeq(b, q + 1, r) = SubSeq(b, p + 1, r)
OBVIOUS

(* A piece of a byte string is a byte string. *)
LEMMA SubSeqBytes ==
    ASSUME NEW b \in Seq(Byte), NEW p \in Nat, NEW q \in p .. Len(b)
    PROVE  /\ SubSeq(b, p + 1, q) \in Seq(Byte)
           /\ Len(SubSeq(b, p + 1, q)) = q - p
OBVIOUS

(* A u64 is a sequence of eight bytes. *)
LEMMA U64Seq ==
    ASSUME NEW u \in U64
    PROVE  u \in Seq(Byte) /\ Len(u) = 8
<1>1. u = [i \in 1 .. 8 |-> u[i]] /\ \A i \in 1 .. 8 : u[i] \in Byte
  BY DEF U64
<1> QED  BY <1>1

(* An integer that read_major_uint returns is encoded as it was read. *)
LEMMA MajorUintCanonical ==
    ASSUME NEW b \in Seq(Byte), NEW p \in 0 .. Len(b), NEW major \in {0, 2},
           ReadMajorUint(b, p, major).ok
    PROVE  LET r == ReadMajorUint(b, p, major) IN
           /\ r.next \in p + 1 .. Len(b)
           /\ r.value \in U64
           /\ SubSeq(b, p + 1, r.next) = PutMajorUint(major, r.value)
<1> DEFINE head == b[p + 1]
           additional == head % 32
           w == Width(additional)
           u == IF w = 0 THEN Uint(additional) ELSE Extended(b, p + 1, w)
           r == ReadMajorUint(b, p, major)
<1>1. /\ p < Len(b) /\ head \div 32 = major /\ additional <= 27
      /\ p + 1 + w <= Len(b)
      /\ CanonicalAdditional(u) = additional
      /\ r = Read(u, p + 1 + w)
  BY Zenon DEF ReadMajorUint, Refused, Read
<1>0. p < Len(b) /\ p + 1 \in 1 .. Len(b)
  <2>1. p < Len(b)
    BY <1>1
  <2> QED  BY <2>1
<1>2. head \in 0 .. 255
  <2>1. head \in Byte
    BY <1>0, ElementOfSeq
  <2> QED  BY <2>1 DEF Byte
<1>3. additional \in 0 .. 27 /\ head = 32 * major + additional
  <2> HIDE DEF head
  <2> QED  BY <1>1, <1>2
<1>4. w \in {0, 1, 2, 4, 8}
  <2> HIDE DEF additional
  <2> QED  BY <1>3 DEF Width
<1>5. u \in U64
  <2>1. CASE w = 0
    <3>1. additional \in Byte
      <4> HIDE DEF additional
      <4> QED  BY <1>3 DEF Byte
    <3> HIDE DEF additional, w
    <3> QED  BY <2>1, <3>1 DEF Uint, U64, Byte
  <2>2. CASE w # 0
    <3> HIDE DEF additional, w
    <3>1. \A i \in 1 .. 8 : i > 8 - w => p + 1 + i - (8 - w) \in 1 .. Len(b)
      BY <1>1, <1>4
    <3>2. \A i \in 1 .. 8 : i > 8 - w => b[p + 1 + i - (8 - w)] \in Byte
      BY <3>1, SMTT(40)
    <3>3. 0 \in Byte
      BY DEF Byte
    <3>4. \A i \in 1 .. 8 : Extended(b, p + 1, w)[i] \in Byte
      <4> TAKE i \in 1 .. 8
      <4>1. Extended(b, p + 1, w)[i] = IF i <= 8 - w THEN 0 ELSE b[p + 1 + i - (8 - w)]
        BY DEF Extended
      <4>2. CASE i <= 8 - w
        BY <4>1, <4>2, <3>3
      <4>3. CASE ~ (i <= 8 - w)
        <5>1. i > 8 - w
          BY <4>3, <1>4
        <5> QED  BY <4>1, <4>3, <5>1, <3>2, Zenon
      <4> QED  BY <4>2, <4>3
    <3> QED  BY <2>2, <3>4 DEF Extended, U64
  <2> QED  BY <2>1, <2>2
<1>6. r.next = p + 1 + w /\ r.value = u
  <2> HIDE DEF u, w, r
  <2> QED  BY <1>1 DEF Read
<1>7. PutMajorUint(major, u) = <<head>> \o SubSeq(u, 9 - w, 8)
  <2> HIDE DEF u, head
  <2> QED  BY <1>1, <1>3, Zenon DEF PutMajorUint
<1>8. SubSeq(u, 9 - w, 8) = SubSeq(b, p + 2, p + 1 + w)
  <2>1. CASE w = 0
    <3> HIDE DEF u, w
    <3> QED  BY <2>1, <1>1, <1>5 DEF U64
  <2>2. CASE w # 0
    <3>1. u = Extended(b, p + 1, w)
      BY <2>2
    <3>2. \A k \in 1 .. w : u[8 - w + k] = b[p + 1 + k]
      <4> HIDE DEF u, w
      <4> QED  BY <3>1, <1>4 DEF Extended
    <3> HIDE DEF u, w
    <3>3. u \in Seq(Byte) /\ Len(u) = 8
      BY <1>5, U64Seq
    <3>4. SubSeq(u, 9 - w, 8) = [k \in 1 .. w |-> u[8 - w + k]]
      BY <3>3, <1>4, <2>2
    <3>5. SubSeq(b, p + 2, p + 1 + w) = [k \in 1 .. w |-> b[p + 1 + k]]
      BY <1>1, <1>4, <2>2
    <3> QED  BY <3>2, <3>4, <3>5, ZenonT(60)
  <2> QED  BY <2>1, <2>2, Zenon
<1>9. SubSeq(b, p + 1, p + 1 + w) = <<head>> \o SubSeq(b, p + 2, p + 1 + w)
  <2> HIDE DEF w
  <2>1. p + 1 \in 1 .. Len(b) /\ p + 1 + w \in p + 1 .. Len(b) /\ (p + 1) + 1 = p + 2
    BY <1>0, <1>1, <1>4
  <2> QED  BY <2>1, SubSeqRecursiveFirst, SMTT(40)
<1>10. r.next \in p + 1 .. Len(b)
  <2> HIDE DEF w, r
  <2> QED  BY <1>1, <1>4, <1>6
<1> HIDE DEF head, additional, w, u
<1> QED
  BY <1>5, <1>6, <1>7, <1>8, <1>9, <1>10, Zenon

(* The encoding of a small integer is one byte. *)
LEMMA SmallUint ==
    ASSUME NEW n \in 0 .. 23, NEW major \in {0, 2}
    PROVE  PutMajorUint(major, Uint(n)) = <<32 * major + n>>
<1>1. Uint(n) \in U64 /\ CanonicalAdditional(Uint(n)) = n /\ Width(n) = 0
  BY DEF Uint, U64, Byte, CanonicalAdditional, IsU32, Width
<1>2. SubSeq(Uint(n), 9, 8) = <<>>
  BY <1>1, U64Seq, SubSeqEmpty
<1>3. PutMajorUint(major, Uint(n)) = <<32 * major + n>> \o SubSeq(Uint(n), 9 - 0, 8)
  BY <1>1, Zenon DEF PutMajorUint
<1>4. 9 - 0 = 9 /\ <<32 * major + n>> \o <<>> = <<32 * major + n>>
  OBVIOUS
<1> QED  BY <1>2, <1>3, <1>4, Zenon

(* A field's key that is read is the byte that is written. *)
LEMMA KeyCanonical ==
    ASSUME NEW b \in Seq(Byte), NEW p \in 0 .. Len(b), NEW key \in 1 .. 8,
           ReadKey(b, p, key).ok
    PROVE  LET k == ReadKey(b, p, key) IN
           /\ k.next \in p + 1 .. Len(b)
           /\ SubSeq(b, p + 1, k.next) = <<key>>
<1> DEFINE k == ReadMajorUint(b, p, 0)
<1>1. k.ok /\ k.value = Uint(key) /\ ReadKey(b, p, key) = k
  BY DEF ReadKey, Refused
<1>2. k.next \in p + 1 .. Len(b) /\ SubSeq(b, p + 1, k.next) = PutMajorUint(0, k.value)
  BY <1>1, MajorUintCanonical, Zenon
<1>3. PutMajorUint(0, Uint(key)) = <<key>>
  <2>1. key \in 0 .. 23 /\ 32 * 0 + key = key
    OBVIOUS
  <2> QED  BY <2>1, SmallUint, Zenon
<1> QED  BY <1>1, <1>2, <1>3, Zenon

(* An integer field is encoded as it was read. *)
LEMMA FieldUintCanonical ==
    ASSUME NEW b \in Seq(Byte), NEW p \in 0 .. Len(b), NEW key \in 1 .. 8,
           FieldUint(b, p, key).ok
    PROVE  LET f == FieldUint(b, p, key) IN
           /\ f.next \in p + 1 .. Len(b)
           /\ f.value \in U64
           /\ SubSeq(b, p + 1, f.next) = PutUint(key, f.value)
<1> DEFINE k == ReadKey(b, p, key)
           f == ReadMajorUint(b, k.next, 0)
<1>1. k.ok /\ f.ok /\ FieldUint(b, p, key) = f
  BY DEF FieldUint, Refused
<1>2. k.next \in p + 1 .. Len(b) /\ SubSeq(b, p + 1, k.next) = <<key>>
  BY <1>1, KeyCanonical, Zenon
<1>3. k.next \in 0 .. Len(b)
  BY <1>2
<1>4. /\ f.next \in k.next + 1 .. Len(b) /\ f.value \in U64
      /\ SubSeq(b, k.next + 1, f.next) = PutMajorUint(0, f.value)
  BY <1>1, <1>3, MajorUintCanonical, Zenon
<1>5. k.next \in p .. Len(b) /\ f.next \in k.next .. Len(b) /\ f.next \in p + 1 .. Len(b)
  <2> HIDE DEF k, f
  <2> QED  BY <1>2, <1>4
<1>6. SubSeq(b, p + 1, f.next) = <<key>> \o PutMajorUint(0, f.value)
  <2> HIDE DEF k, f
  <2>1. p \in Nat
    OBVIOUS
  <2>2. SubSeq(b, p + 1, k.next) \o SubSeq(b, k.next + 1, f.next) = SubSeq(b, p + 1, f.next)
    BY <2>1, <1>5, SubSeqJoin, Zenon
  <2> QED  BY <2>2, <1>2, <1>4, Zenon
<1> QED  BY <1>1, <1>4, <1>5, <1>6, Zenon DEF PutUint

(* A byte string field is encoded as it was read. *)
LEMMA FieldBytesCanonical ==
    ASSUME NEW b \in Seq(Byte), NEW p \in 0 .. Len(b), NEW key \in 1 .. 8, NEW n \in {16, 32},
           FieldBytes(b, p, key, n).ok
    PROVE  LET f == FieldBytes(b, p, key, n) IN
           /\ f.next \in p + 1 .. Len(b)
           /\ f.value \in Bytes(n)
           /\ SubSeq(b, p + 1, f.next) = PutBytes(key, f.value)
<1> DEFINE k == ReadKey(b, p, key)
           h == ReadMajorUint(b, k.next, 2)
           f == ReadBytesExact(b, k.next, n)
<1>1. k.ok /\ f.ok /\ FieldBytes(b, p, key, n) = f
  BY DEF FieldBytes, Refused
<1>2. /\ h.ok /\ h.value = Uint(n) /\ h.next + n <= Len(b)
      /\ f = Read(SubSeq(b, h.next + 1, h.next + n), h.next + n)
  BY <1>1, Zenon DEF ReadBytesExact, Refused, Read
<1>3. f.next = h.next + n /\ f.value = SubSeq(b, h.next + 1, h.next + n)
  <2> HIDE DEF h, f
  <2> QED  BY <1>2, Zenon DEF Read
<1>4. k.next \in p + 1 .. Len(b) /\ SubSeq(b, p + 1, k.next) = <<key>>
  BY <1>1, KeyCanonical, ZenonT(60)
<1>5. k.next \in 0 .. Len(b)
  BY <1>4
<1>6. h.next \in k.next + 1 .. Len(b) /\ SubSeq(b, k.next + 1, h.next) = PutMajorUint(2, Uint(n))
  BY <1>2, <1>5, MajorUintCanonical, ZenonT(60)
<1> HIDE DEF k, h, f
<1>7. /\ p \in Nat /\ k.next \in p .. Len(b) /\ k.next \in Nat
      /\ h.next \in k.next .. Len(b) /\ h.next \in Nat
      /\ f.next \in h.next .. Len(b) /\ f.next \in k.next .. Len(b) /\ f.next \in p + 1 .. Len(b)
  <2>1. h.next + n <= Len(b) /\ n \in Nat
    BY <1>2
  <2>2. h.next \in k.next + 1 .. Len(b)
    BY <1>6
  <2>3. k.next \in p + 1 .. Len(b)
    BY <1>4
  <2>4. f.next = h.next + n
    BY <1>3
  <2> QED  BY <2>1, <2>2, <2>3, <2>4, SMTT(40)
<1>8. f.value \in Seq(Byte) /\ Len(f.value) = n
  <2>1. f.next - h.next = n /\ f.value = SubSeq(b, h.next + 1, f.next)
    BY <1>3, <1>7
  <2>2. h.next \in Nat /\ f.next \in h.next .. Len(b)
    BY <1>7
  <2>3. /\ SubSeq(b, h.next + 1, f.next) \in Seq(Byte)
        /\ Len(SubSeq(b, h.next + 1, f.next)) = f.next - h.next
    BY <2>2, SubSeqBytes, SMTT(40)
  <2> QED  BY <2>1, <2>3
<1>9. f.value \in Bytes(n)
  BY <1>8, LenProperties DEF Bytes
<1>10. SubSeq(b, k.next + 1, f.next) = PutMajorUint(2, Uint(n)) \o f.value
  <2>1. SubSeq(b, k.next + 1, h.next) \o SubSeq(b, h.next + 1, f.next) = SubSeq(b, k.next + 1, f.next)
    BY <1>7, SubSeqJoin, ZenonT(60)
  <2> QED  BY <2>1, <1>3, <1>6, Zenon
<1>11. SubSeq(b, p + 1, f.next) = <<key>> \o (PutMajorUint(2, Uint(n)) \o f.value)
  <2>1. SubSeq(b, p + 1, k.next) \o SubSeq(b, k.next + 1, f.next) = SubSeq(b, p + 1, f.next)
    BY <1>7, SubSeqJoin, ZenonT(60)
  <2> QED  BY <2>1, <1>4, <1>10, Zenon
<1> QED  BY <1>1, <1>7, <1>8, <1>9, <1>11, Zenon DEF PutBytes

(* One more field extends what has been read by what would be written. *)
LEMMA FieldsExtend ==
    ASSUME NEW b \in Seq(Byte), NEW p \in 1 .. Len(b), NEW q \in p + 1 .. Len(b)
    PROVE  SubSeq(b, 1, q) = SubSeq(b, 1, p) \o SubSeq(b, p + 1, q)
<1>1. 0 \in Nat /\ p \in 0 .. Len(b) /\ q \in p .. Len(b) /\ 0 + 1 = 1
  OBVIOUS
<1>2. SubSeq(b, 0 + 1, p) \o SubSeq(b, p + 1, q) = SubSeq(b, 0 + 1, q)
  BY <1>1, SubSeqJoin
<1> QED  BY <1>1, <1>2

(* decode_manifest accepts a byte string only if encode_manifest produces it   *)
(* from the decoded manifest: ARCHITECTURE.md's "the decoder rejects           *)
(* non-canonical encodings", for every input.                                  *)
THEOREM DecodedIsCanonical ==
    ASSUME NEW b \in Seq(Byte), Accepts(b)
    PROVE  DecodeManifest(b) \in Manifest /\ EncodeManifest(DecodeManifest(b)) = b
<1> DEFINE f1 == FieldUint(b, 1, 1)
           f2 == FieldBytes(b, f1.next, 2, 16)
           f3 == FieldBytes(b, f2.next, 3, 16)
           f4 == FieldUint(b, f3.next, 4)
           f5 == FieldUint(b, f4.next, 5)
           f6 == FieldUint(b, f5.next, 6)
           f7 == FieldBytes(b, f6.next, 7, 32)
           f8 == FieldUint(b, f7.next, 8)
<1>1. Fields(b) = <<f1, f2, f3, f4, f5, f6, f7, f8>>
  BY Zenon DEF Fields
<1> HIDE DEF f1, f2, f3, f4, f5, f6, f7, f8
<1>2. /\ Len(b) > 0 /\ b[1] = MapOfEight
      /\ f1.ok /\ f2.ok /\ f3.ok /\ f4.ok /\ f5.ok /\ f6.ok /\ f7.ok /\ f8.ok
      /\ IsU32(f1.value) /\ IsU32(f5.value) /\ IsU32(f6.value)
      /\ f8.value = Uint(1) /\ f8.next = Len(b)
  BY <1>1 DEF Accepts
<1>3. DecodeManifest(b) =
        [format_version |-> f1.value, object_id |-> f2.value, version_id |-> f3.value,
         plaintext_len |-> f4.value, chunk_size |-> f5.value, chunk_count |-> f6.value,
         chunk_digest |-> f7.value]
  BY <1>1 DEF DecodeManifest
<1> DEFINE e0 == <<MapOfEight>>
           e1 == e0 \o PutUint(1, f1.value)
           e2 == e1 \o PutBytes(2, f2.value)
           e3 == e2 \o PutBytes(3, f3.value)
           e4 == e3 \o PutUint(4, f4.value)
           e5 == e4 \o PutUint(5, f5.value)
           e6 == e5 \o PutUint(6, f6.value)
           e7 == e6 \o PutBytes(7, f7.value)
           e8 == e7 \o PutUint(8, f8.value)
<1> HIDE DEF e0, e1, e2, e3, e4, e5, e6, e7, e8
<1>4. 1 \in 1 .. Len(b) /\ SubSeq(b, 1, 1) = e0
  <2>1. 1 \in 1 .. Len(b)
    BY <1>2
  <2>2. SubSeq(b, 1, 1) = <<b[1]>> \o SubSeq(b, 2, 1) /\ SubSeq(b, 2, 1) = <<>>
    BY <2>1, SubSeqRecursiveFirst, SubSeqEmpty
  <2>3. <<b[1]>> \o <<>> = <<b[1]>>
    OBVIOUS
  <2> QED  BY <2>1, <2>2, <2>3, <1>2, Zenon DEF e0
<1>5. /\ f1.value \in U64 /\ f1.next \in 1 .. Len(b)
      /\ SubSeq(b, 1, f1.next) = e1
  <2>1. 1 \in 0 .. Len(b) /\ 1 \in 1 .. Len(b) /\ SubSeq(b, 1, 1) = e0
    BY <1>4
  <2>2. /\ f1.next \in 1 + 1 .. Len(b) /\ f1.value \in U64
        /\ SubSeq(b, 1 + 1, f1.next) = PutUint(1, f1.value)
    <3>1. FieldUint(b, 1, 1).ok /\ 1 \in 1 .. 8
      BY <1>2 DEF f1
    <3> QED  BY <2>1, <3>1, FieldUintCanonical, Zenon DEF f1
  <2>3. f1.next \in 1 .. Len(b)
    BY <2>1, <2>2
  <2>4. SubSeq(b, 1, f1.next) = SubSeq(b, 1, 1) \o SubSeq(b, 1 + 1, f1.next)
    BY <2>1, <2>2, FieldsExtend, Zenon
  <2> QED  BY <2>1, <2>2, <2>3, <2>4, Zenon DEF e1
<1>6. /\ f2.value \in Bytes(16) /\ f2.next \in 1 .. Len(b)
      /\ SubSeq(b, 1, f2.next) = e2
  <2>1. f1.next \in 0 .. Len(b) /\ f1.next \in 1 .. Len(b) /\ SubSeq(b, 1, f1.next) = e1
    BY <1>5
  <2>2. /\ f2.next \in f1.next + 1 .. Len(b) /\ f2.value \in Bytes(16)
        /\ SubSeq(b, f1.next + 1, f2.next) = PutBytes(2, f2.value)
    BY <2>1, <1>2, FieldBytesCanonical, SMTT(40) DEF f2
  <2>3. f2.next \in 1 .. Len(b)
    BY <2>1, <2>2
  <2>4. SubSeq(b, 1, f2.next) = SubSeq(b, 1, f1.next) \o SubSeq(b, f1.next + 1, f2.next)
    BY <2>1, <2>2, FieldsExtend, Zenon
  <2> QED  BY <2>1, <2>2, <2>3, <2>4, Zenon DEF e2
<1>7. /\ f3.value \in Bytes(16) /\ f3.next \in 1 .. Len(b)
      /\ SubSeq(b, 1, f3.next) = e3
  <2>1. f2.next \in 0 .. Len(b) /\ f2.next \in 1 .. Len(b) /\ SubSeq(b, 1, f2.next) = e2
    BY <1>6
  <2>2. /\ f3.next \in f2.next + 1 .. Len(b) /\ f3.value \in Bytes(16)
        /\ SubSeq(b, f2.next + 1, f3.next) = PutBytes(3, f3.value)
    BY <2>1, <1>2, FieldBytesCanonical, SMTT(40) DEF f3
  <2>3. f3.next \in 1 .. Len(b)
    BY <2>1, <2>2
  <2>4. SubSeq(b, 1, f3.next) = SubSeq(b, 1, f2.next) \o SubSeq(b, f2.next + 1, f3.next)
    BY <2>1, <2>2, FieldsExtend, Zenon
  <2> QED  BY <2>1, <2>2, <2>3, <2>4, Zenon DEF e3
<1>8. /\ f4.value \in U64 /\ f4.next \in 1 .. Len(b)
      /\ SubSeq(b, 1, f4.next) = e4
  <2>1. f3.next \in 0 .. Len(b) /\ f3.next \in 1 .. Len(b) /\ SubSeq(b, 1, f3.next) = e3
    BY <1>7
  <2>2. /\ f4.next \in f3.next + 1 .. Len(b) /\ f4.value \in U64
        /\ SubSeq(b, f3.next + 1, f4.next) = PutUint(4, f4.value)
    <3>1. FieldUint(b, f3.next, 4).ok /\ 4 \in 1 .. 8
      BY <1>2 DEF f4
    <3> QED  BY <2>1, <3>1, FieldUintCanonical, Zenon DEF f4
  <2>3. f4.next \in 1 .. Len(b)
    BY <2>1, <2>2
  <2>4. SubSeq(b, 1, f4.next) = SubSeq(b, 1, f3.next) \o SubSeq(b, f3.next + 1, f4.next)
    BY <2>1, <2>2, FieldsExtend, Zenon
  <2> QED  BY <2>1, <2>2, <2>3, <2>4, Zenon DEF e4
<1>9. /\ f5.value \in U64 /\ f5.next \in 1 .. Len(b)
      /\ SubSeq(b, 1, f5.next) = e5
  <2>1. f4.next \in 0 .. Len(b) /\ f4.next \in 1 .. Len(b) /\ SubSeq(b, 1, f4.next) = e4
    BY <1>8
  <2>2. /\ f5.next \in f4.next + 1 .. Len(b) /\ f5.value \in U64
        /\ SubSeq(b, f4.next + 1, f5.next) = PutUint(5, f5.value)
    <3>1. FieldUint(b, f4.next, 5).ok /\ 5 \in 1 .. 8
      BY <1>2 DEF f5
    <3> QED  BY <2>1, <3>1, FieldUintCanonical, Zenon DEF f5
  <2>3. f5.next \in 1 .. Len(b)
    BY <2>1, <2>2
  <2>4. SubSeq(b, 1, f5.next) = SubSeq(b, 1, f4.next) \o SubSeq(b, f4.next + 1, f5.next)
    BY <2>1, <2>2, FieldsExtend, Zenon
  <2> QED  BY <2>1, <2>2, <2>3, <2>4, Zenon DEF e5
<1>10. /\ f6.value \in U64 /\ f6.next \in 1 .. Len(b)
      /\ SubSeq(b, 1, f6.next) = e6
  <2>1. f5.next \in 0 .. Len(b) /\ f5.next \in 1 .. Len(b) /\ SubSeq(b, 1, f5.next) = e5
    BY <1>9
  <2>2. /\ f6.next \in f5.next + 1 .. Len(b) /\ f6.value \in U64
        /\ SubSeq(b, f5.next + 1, f6.next) = PutUint(6, f6.value)
    <3>1. FieldUint(b, f5.next, 6).ok /\ 6 \in 1 .. 8
      BY <1>2 DEF f6
    <3> QED  BY <2>1, <3>1, FieldUintCanonical, Zenon DEF f6
  <2>3. f6.next \in 1 .. Len(b)
    BY <2>1, <2>2
  <2>4. SubSeq(b, 1, f6.next) = SubSeq(b, 1, f5.next) \o SubSeq(b, f5.next + 1, f6.next)
    BY <2>1, <2>2, FieldsExtend, Zenon
  <2> QED  BY <2>1, <2>2, <2>3, <2>4, Zenon DEF e6
<1>11. /\ f7.value \in Bytes(32) /\ f7.next \in 1 .. Len(b)
      /\ SubSeq(b, 1, f7.next) = e7
  <2>1. f6.next \in 0 .. Len(b) /\ f6.next \in 1 .. Len(b) /\ SubSeq(b, 1, f6.next) = e6
    BY <1>10, SMTT(30)
  <2>2. /\ f7.next \in f6.next + 1 .. Len(b) /\ f7.value \in Bytes(32)
        /\ SubSeq(b, f6.next + 1, f7.next) = PutBytes(7, f7.value)
    BY <2>1, <1>2, FieldBytesCanonical, SMTT(40) DEF f7
  <2>3. f7.next \in 1 .. Len(b)
    BY <2>1, <2>2
  <2>4. SubSeq(b, 1, f7.next) = SubSeq(b, 1, f6.next) \o SubSeq(b, f6.next + 1, f7.next)
    BY <2>1, <2>2, FieldsExtend, Zenon
  <2> QED  BY <2>1, <2>2, <2>3, <2>4, Zenon DEF e7
<1>12. /\ f8.value \in U64 /\ f8.next \in 1 .. Len(b)
      /\ SubSeq(b, 1, f8.next) = e8
  <2>1. f7.next \in 0 .. Len(b) /\ f7.next \in 1 .. Len(b) /\ SubSeq(b, 1, f7.next) = e7
    BY <1>11
  <2>2. /\ f8.next \in f7.next + 1 .. Len(b) /\ f8.value \in U64
        /\ SubSeq(b, f7.next + 1, f8.next) = PutUint(8, f8.value)
    <3>1. FieldUint(b, f7.next, 8).ok /\ 8 \in 1 .. 8
      BY <1>2 DEF f8
    <3> QED  BY <2>1, <3>1, FieldUintCanonical, Zenon DEF f8
  <2>3. f8.next \in 1 .. Len(b)
    BY <2>1, <2>2
  <2>4. SubSeq(b, 1, f8.next) = SubSeq(b, 1, f7.next) \o SubSeq(b, f7.next + 1, f8.next)
    BY <2>1, <2>2, FieldsExtend, Zenon
  <2> QED  BY <2>1, <2>2, <2>3, <2>4, Zenon DEF e8
<1>13. EncodeManifest(DecodeManifest(b)) = e8
  <2> DEFINE m == DecodeManifest(b)
  <2>1. /\ m.format_version = f1.value /\ m.object_id = f2.value /\ m.version_id = f3.value
        /\ m.plaintext_len = f4.value /\ m.chunk_size = f5.value /\ m.chunk_count = f6.value
        /\ m.chunk_digest = f7.value
    BY <1>3
  <2> HIDE DEF m
  <2>2. EncodeManifest(m) = e8
    BY <1>2, <2>1, Zenon DEF EncodeManifest, e0, e1, e2, e3, e4, e5, e6, e7, e8
  <2> QED  BY <2>2, Zenon DEF m
<1>14. e8 = b
  <2>1. SubSeq(b, 1, Len(b)) = b
    BY SubSeqFull
  <2> QED  BY <2>1, <1>2, <1>12
<1>15. DecodeManifest(b) \in Manifest
  <2>1. f1.value \in U32 /\ f5.value \in U32 /\ f6.value \in U32
    BY <1>2, <1>5, <1>9, <1>10, Zenon DEF U32
  <2> QED  BY <2>1, <1>3, <1>6, <1>7, <1>8, <1>11 DEF Manifest
<1> QED  BY <1>13, <1>14, <1>15

(* One manifest has one accepted encoding, so the sealed bytes of two versions *)
(* that decode to the same manifest are sealings of the same plaintext.        *)
COROLLARY OneEncoding ==
    ASSUME NEW b \in Seq(Byte), NEW c \in Seq(Byte), Accepts(b), Accepts(c),
           DecodeManifest(b) = DecodeManifest(c)
    PROVE  b = c
BY DecodedIsCanonical
=============================================================================
