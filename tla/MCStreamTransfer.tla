-------------------------- MODULE MCStreamTransfer --------------------------
(* StreamTransfer for TLC: plaintexts of no chunk, two chunks, the second     *)
(* short or full, and one chunk too many, for chunks of two bytes.            *)
EXTENDS StreamTransfer

MCPlain == {<<>>, <<1, 2, 3>>, <<4, 3, 2, 1>>, <<1, 2, 3, 4, 5>>}
MCVersion == 1 .. 2

-----------------------------------------------------------------------------
(* The manifest encoding on both sides of every change of an integer's width, *)
(* and on the byte strings that differ from such an encoding in one byte, at  *)
(* the end of one, or by one byte more.                                       *)
Code == INSTANCE ManifestCode

Lengths ==
    {Code!Uint(0), Code!Uint(23), Code!Uint(24), Code!Uint(255), <<0, 0, 0, 0, 0, 0, 1, 0>>,
     <<0, 0, 0, 0, 0, 0, 255, 255>>, <<0, 0, 0, 0, 0, 1, 0, 0>>,
     <<0, 0, 0, 0, 255, 255, 255, 255>>, <<0, 0, 0, 1, 0, 0, 0, 0>>,
     <<255, 255, 255, 255, 255, 255, 255, 255>>}
Some(n) == [i \in 1 .. n |-> i]
Sample(length) ==
    [format_version |-> Code!Uint(1), object_id |-> Some(16), version_id |-> Some(16),
     plaintext_len |-> length, chunk_size |-> <<0, 0, 0, 0, 0, 64, 0, 0>>,
     chunk_count |-> Code!Uint(24), chunk_digest |-> Some(32)]
Near(b) ==
    {[b EXCEPT ![i] = x] : i \in 1 .. Len(b), x \in {0, 24, 25, 27, 88, 255}}
    \cup {SubSeq(b, 1, i) : i \in 0 .. Len(b) - 1} \cup {Append(b, 0)}

ASSUME ManifestRoundTrip ==
    \A length \in Lengths :
        LET b == Code!EncodeManifest(Sample(length)) IN
        Code!Accepts(b) /\ Code!DecodeManifest(b) = Sample(length)

ASSUME ManifestCanonical ==
    \A length \in {Code!Uint(24), <<0, 0, 0, 0, 0, 0, 1, 0>>} :
        \A b \in Near(Code!EncodeManifest(Sample(length))) :
            Code!Accepts(b) => Code!EncodeManifest(Code!DecodeManifest(b)) = b
=============================================================================
