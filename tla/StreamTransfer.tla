--------------------------- MODULE StreamTransfer ---------------------------
(***************************************************************************)
(* Streamed uploads and downloads, end to end: the CLI's put and get        *)
(* (vlt1-cli/src/main.rs), frames and stream items on the socket            *)
(* (vlt1-protocol/src/lib.rs), the daemon's put_stream and get_stream       *)
(* (vlt1-daemon/src/lib.rs), the vault's chunking and verification          *)
(* (vlt1-core/src/vault.rs) and the streaming transaction (storage.rs).     *)
(* One transfer at a time, as the long-operation permit makes it            *)
(* (DaemonThreads).  Either process may stop at any step, and stored rows   *)
(* may be damaged by storage faults.                                        *)
(***************************************************************************)
EXTENDS VersionRecords

CONSTANTS
    NoVersion,
    Plain,      \* plaintexts
    ItemSize,   \* MAX_STREAM_CHUNK_BYTES
    Buffer,     \* bound: items the socket holds in one direction
    MaxDamage,  \* bound: storage faults
    Faults      \* which of "crash", "abort", "timeout", "Storage" happen

Byte == 0 .. 255

ASSUME VersionsNumbered == Version \subseteq Nat \ {0} /\ NoVersion \notin Version
ASSUME PlainBytes == Plain \subseteq Seq(Byte)
ASSUME StreamBounds == ItemSize \in Nat \ {0} /\ Buffer \in Nat \ {0} /\ MaxDamage \in Nat

VARIABLES
    rows,      \* committed versions, by version id
    active,    \* the active pointer of each object
    unlocked,  \* whether the vault has its root key
    srv,       \* the daemon's handler of the transfer
    cli,       \* the client
    up, down,  \* items on the socket
    file,      \* the client's output file
    content,   \* history: the object and plaintext each version was published for
    damaged    \* history: versions whose rows were damaged, and how many faults

store == <<rows, active, content, damaged>>
vars == <<store, unlocked, srv, cli, up, down, file>>

(* What the socket carries: frames, and the items of a stream. *)
Frame(code, v) == [type |-> "frame", code |-> code, version |-> v]
StreamData(x) == [type |-> "data", data |-> x]
StreamEnd == [type |-> "end", data |-> <<>>]
StreamError(code) == [type |-> "error", code |-> code]

NoManifest == [length |-> 0, size |-> 0, count |-> 0]
Closed == [at |-> "closed", op |-> "none", object |-> "none", input |-> <<>>,
           version |-> NoVersion, cur |-> <<>>, finished |-> FALSE, buf |-> <<>>,
           chunks |-> <<>>, length |-> 0, next |-> 0, manifest |-> NoManifest,
           written |-> <<>>, code |-> "none"]
Gone == [at |-> "gone", op |-> "none", object |-> "none", input |-> <<>>, sent |-> 0,
         temp |-> <<>>, result |-> "none"]
NoFile == [there |-> FALSE, object |-> "none", data |-> <<>>]

Init ==
    /\ rows = <<>> /\ content = <<>>
    /\ active = [o \in Object |-> NoVersion]
    /\ damaged = [versions |-> {}, faults |-> 0]
    /\ unlocked = FALSE
    /\ srv = Closed /\ cli = Gone
    /\ up = <<>> /\ down = <<>>
    /\ file = NoFile

Serving == srv.at # "closed"
Connected == cli.at \notin {"gone", "done"}
Locks(code) == code \in {"Authentication", "Invariant", "Storage"}

-----------------------------------------------------------------------------
(* The vault, when the transfer does not hold its mutex *)

Free == srv.at \notin {"read", "append", "serve"}

Unlock ==
    /\ Free /\ ~ unlocked
    /\ unlocked' = TRUE
    /\ UNCHANGED <<store, srv, cli, up, down, file>>

Lock ==
    /\ Free /\ unlocked
    /\ unlocked' = FALSE
    /\ UNCHANGED <<store, srv, cli, up, down, file>>

With(f, v, x) == [u \in DOMAIN f \cup {v} |-> IF u = v THEN x ELSE f[u]]

Committed(o, v, row, x) ==
    /\ rows' = With(rows, v, row)
    /\ active' = [active EXCEPT ![o] = v]
    /\ content' = With(content, v, [object |-> o, data |-> x])
    /\ UNCHANGED damaged

NewVersions == Version \ DOMAIN rows
NewVersion == Min(NewVersions)

(* Vault::put: prepare_version and publish_inner, in one transaction. *)
BufferedPut(o, x) ==
    /\ Free /\ unlocked
    /\ NewVersions # {} /\ (srv.op = "put" => NewVersions # {NewVersion})
    /\ ChunkCount(x) <= MaxChunks
    /\ Committed(o, NewVersion, PrepareVersion(o, NewVersion, x), x)
    /\ UNCHANGED <<unlocked, srv, cli, up, down, file>>

(* What a storage fault may leave of version v: a chunk row lost, a field or  *)
(* a record taken from elsewhere.                                             *)
(* A put does not read stored rows, so faults are looked at during a get.     *)
Slots == UNION {{<<u, j>> : j \in DOMAIN rows[u].chunks} : u \in DOMAIN rows}
Damages(v) ==
    LET r == rows[v] IN
    {[r EXCEPT !.chunks = [j \in (DOMAIN r.chunks) \ {i} |-> r.chunks[j]]] : i \in DOMAIN r.chunks}
    \cup {[r EXCEPT !.chunks[i] = rows[t[1]].chunks[t[2]]] : i \in DOMAIN r.chunks, t \in Slots}
    \cup {[r EXCEPT !.length = n] : n \in {r.length + 1, 0}}
    \cup {[r EXCEPT !.manifest = rows[u].manifest] : u \in DOMAIN rows}
    \cup {[r EXCEPT !.dek = rows[u].dek] : u \in DOMAIN rows}
    \cup {[r EXCEPT !.object = o] : o \in Object}

DamageRow(v) ==
    /\ srv.op = "get" /\ damaged.faults < MaxDamage
    /\ \E r \in Damages(v) \ {rows[v]} : rows' = With(rows, v, r)
    /\ damaged' = [versions |-> damaged.versions \cup {v}, faults |-> damaged.faults + 1]
    /\ UNCHANGED <<active, content, unlocked, srv, cli, up, down, file>>

DamagePointer(o, v) ==
    /\ srv.op = "get" /\ damaged.faults < MaxDamage /\ active[o] # v
    /\ active' = [active EXCEPT ![o] = v]
    /\ damaged' = [damaged EXCEPT !.faults = @ + 1]
    /\ UNCHANGED <<rows, content, unlocked, srv, cli, up, down, file>>

-----------------------------------------------------------------------------
(* The client *)

(* put and get connect and write their request; get first needs a new output. *)
Request(op, o, x) ==
    /\ ~ Connected /\ ~ Serving
    /\ IF op = "put" THEN NewVersions # {} ELSE x = <<>> /\ ~ file.there
    /\ cli' = [Gone EXCEPT !.at = "ready", !.op = op, !.object = o, !.input = x]
    /\ srv' = [Closed EXCEPT !.at = "request", !.op = op, !.object = o, !.input = x]
    /\ up' = <<>> /\ down' = <<>>
    /\ UNCHANGED <<store, unlocked, file>>

(* The client exits: its temporary file and what it has not read are gone. *)
Ends(result) ==
    /\ cli' = [Gone EXCEPT !.at = "done", !.result = result]
    /\ down' = <<>>

(* read_response: read_frame takes a stream error's marker for a frame length. *)
ReadFrame(item) ==
    CASE item.type = "frame" -> item.code
      [] item.type = "error" -> "InvalidLength"

(* expect_stream_ready *)
AwaitReady ==
    /\ cli.at = "ready" /\ down # <<>>
    /\ IF ReadFrame(Head(down)) = "StreamReady"
       THEN /\ cli' = [cli EXCEPT !.at = IF cli.op = "put" THEN "send" ELSE "receive"]
            /\ down' = Tail(down)
       ELSE Ends(ReadFrame(Head(down)))
    /\ UNCHANGED <<store, unlocked, srv, up, file>>

(* file.read may return less than it was asked for. *)
SendChunk(n) ==
    /\ cli.at = "send" /\ Serving /\ Len(up) < Buffer
    /\ n <= Len(cli.input) - cli.sent
    /\ up' = Append(up, StreamData(SubSeq(cli.input, cli.sent + 1, cli.sent + n)))
    /\ cli' = [cli EXCEPT !.sent = @ + n]
    /\ UNCHANGED <<store, unlocked, srv, down, file>>

SendEnd ==
    /\ cli.at = "send" /\ Serving /\ Len(up) < Buffer
    /\ cli.sent = Len(cli.input)
    /\ up' = Append(up, StreamEnd)
    /\ cli' = [cli EXCEPT !.at = "answer"]
    /\ UNCHANGED <<store, unlocked, srv, down, file>>

AwaitPublished ==
    /\ cli.at = "answer" /\ down # <<>>
    /\ Ends(ReadFrame(Head(down)))
    /\ UNCHANGED <<store, unlocked, srv, up, file>>

ReceiveItem ==
    /\ cli.at = "receive" /\ down # <<>>
    /\ LET item == Head(down) IN
       CASE item.type = "data" -> cli' = [cli EXCEPT !.temp = @ \o item.data] /\ down' = Tail(down)
         [] item.type = "end" -> cli' = [cli EXCEPT !.at = "publish"] /\ down' = Tail(down)
         [] item.type = "error" -> Ends(item.code)
    /\ UNCHANGED <<store, unlocked, srv, up, file>>

(* The temporary file is synced and linked to its new name. *)
PublishOutput ==
    /\ cli.at = "publish" /\ ~ file.there
    /\ file' = [there |-> TRUE, object |-> cli.object, data |-> cli.temp]
    /\ Ends("Ok")
    /\ UNCHANGED <<store, unlocked, srv, up>>

(* A bug: the end of the connection passes for the end of the stream. *)
MutantLoseDaemon ==
    /\ ~ Serving
    /\ \/ cli.at \in {"ready", "answer"} /\ down = <<>> /\ Ends("failed")
       \/ cli.at = "receive" /\ down = <<>> /\ cli' = [cli EXCEPT !.at = "publish"] /\ UNCHANGED down
       \/ cli.at = "send" /\ Ends("failed")
    /\ UNCHANGED <<store, unlocked, srv, up, file>>

(* The daemon has closed the connection: a read is truncated, a write fails. *)
LoseDaemon ==
    /\ ~ Serving
    /\ \/ cli.at \in {"ready", "answer", "receive"} /\ down = <<>>
       \/ cli.at = "send"
    /\ Ends("failed")
    /\ UNCHANGED <<store, unlocked, srv, up, file>>

(* The client is interrupted, or cannot read its input or write its output. *)
Abort ==
    /\ "abort" \in Faults /\ Connected
    /\ Ends("failed")
    /\ UNCHANGED <<store, unlocked, srv, up, file>>

(* The user takes the output away. *)
TakeOutput ==
    /\ file.there /\ ~ Connected
    /\ file' = NoFile
    /\ UNCHANGED <<store, unlocked, srv, cli, up, down>>

-----------------------------------------------------------------------------
(* The daemon *)

Respond(item) ==
    /\ down' = IF Connected THEN Append(down, item) ELSE down
    /\ srv' = Closed /\ up' = <<>>
    /\ UNCHANGED <<store, unlocked, cli, file>>

(* The vault call returns: the transaction is dropped, some errors lock. *)
Returns(code) ==
    /\ srv' = [Closed EXCEPT !.at = "answer", !.op = srv.op, !.code = code,
                              !.version = IF code = "Ok" THEN srv.version ELSE NoVersion]
    /\ unlocked' = (unlocked /\ ~ Locks(code))
    /\ UNCHANGED <<cli, up, down, file>>

(* Another long operation runs, or the object id does not parse. *)
Refuse ==
    /\ srv.at = "request"
    /\ Respond(Frame("Overloaded", NoVersion))

Ready ==
    /\ srv.at = "request"
    /\ down' = IF Connected THEN Append(down, Frame("StreamReady", NoVersion)) ELSE down
    /\ srv' = IF Connected THEN [srv EXCEPT !.at = "begin"] ELSE Closed
    /\ UNCHANGED <<store, unlocked, cli, up, file>>

(* put_stream: a plain frame for a success, a stream error for a failure.  *)
(* get_stream: the end of the stream for a success.                        *)
Answer ==
    /\ srv.at = "answer"
    /\ Respond(CASE srv.code # "Ok" -> StreamError(srv.code)
                 [] srv.code = "Ok" /\ srv.op = "put" -> Frame("Ok", srv.version)
                 [] srv.code = "Ok" /\ srv.op = "get" -> StreamEnd)

(* The wrapped key and the placeholder row open the streaming transaction. *)
BeginPut ==
    /\ srv.at = "begin" /\ srv.op = "put"
    /\ \/ ~ unlocked /\ Returns("Locked")
       \/ /\ unlocked
          /\ srv' = [srv EXCEPT !.at = "read", !.version = NewVersion]
          /\ UNCHANGED <<unlocked, cli, up, down, file>>
    /\ UNCHANGED store

(* StreamReader::read fetches an item when the current one is used up. *)
ReadItem ==
    /\ srv.at = "read" /\ srv.cur = <<>> /\ ~ srv.finished /\ up # <<>>
    /\ IF Head(up).type = "data"
       THEN srv' = [srv EXCEPT !.cur = Head(up).data]
       ELSE srv' = [srv EXCEPT !.finished = TRUE, !.at = "append"]
    /\ up' = Tail(up)
    /\ UNCHANGED <<store, unlocked, cli, down, file>>

(* A bug: what does not fit into the buffer is copied all the same. *)
MutantCopyAll ==
    /\ srv.at = "read" /\ srv.cur # <<>>
    /\ srv' = [srv EXCEPT !.buf = @ \o srv.cur, !.cur = <<>>,
                          !.at = IF Len(srv.buf) + Len(srv.cur) >= ChunkSize THEN "append" ELSE "read"]
    /\ UNCHANGED <<store, unlocked, cli, up, down, file>>

(* ... and copies what fits; read_next_chunk goes on until its buffer is full. *)
CopyBytes ==
    /\ srv.at = "read" /\ srv.cur # <<>>
    /\ LET n == Min({Len(srv.cur), ChunkSize - Len(srv.buf)}) IN
       srv' = [srv EXCEPT !.buf = @ \o SubSeq(srv.cur, 1, n),
                          !.cur = SubSeq(@, n + 1, Len(@)),
                          !.at = IF Len(srv.buf) + n = ChunkSize THEN "append" ELSE "read"]
    /\ UNCHANGED <<store, unlocked, cli, up, down, file>>

(* A read after the end of the stream returns 0 again. *)
ReadAfterEnd ==
    /\ srv.at = "read" /\ srv.cur = <<>> /\ srv.finished
    /\ srv' = [srv EXCEPT !.at = "append"]
    /\ UNCHANGED <<store, unlocked, cli, up, down, file>>

Waiting == srv.at = "read" /\ srv.cur = <<>> /\ ~ srv.finished /\ up = <<>>

(* A bug: the end of the connection passes for the end of the stream. *)
MutantReadFails ==
    /\ Waiting /\ (~ Connected \/ "timeout" \in Faults)
    /\ IF Connected
       THEN Returns("Storage")
       ELSE /\ srv' = [srv EXCEPT !.finished = TRUE, !.at = "append"]
            /\ UNCHANGED <<unlocked, cli, up, down, file>>
    /\ UNCHANGED store

(* A bug: no read timeout is set. *)
MutantNoTimeout ==
    /\ Waiting /\ ~ Connected
    /\ Returns("Storage") /\ UNCHANGED store

(* The client is gone, or sends nothing for the I/O timeout. *)
ReadFails ==
    /\ Waiting /\ (~ Connected \/ "timeout" \in Faults)
    /\ Returns("Storage") /\ UNCHANGED store

Count == Cardinality(DOMAIN srv.chunks)

(* A chunk is sealed and inserted, up to the limit of a version. *)
AppendChunk ==
    /\ srv.at = "append" /\ srv.buf # <<>>
    /\ \/ Count >= MaxChunks /\ Returns("InvalidInput")
       \/ /\ Count < MaxChunks
          /\ srv' = [srv EXCEPT !.chunks = With(@, Count, SealChunk(srv.object, srv.version, Count, srv.buf)),
                                !.length = @ + Len(srv.buf), !.buf = <<>>, !.at = "read"]
          /\ UNCHANGED <<unlocked, cli, up, down, file>>
    /\ UNCHANGED store

FinishRow == StoredVersion(srv.object, srv.version, srv.length, srv.chunks)

(* A bug: the version is committed without moving the active pointer. *)
MutantFinish ==
    /\ srv.at = "append" /\ srv.buf = <<>>
    /\ rows' = With(rows, srv.version, FinishRow)
    /\ content' = With(content, srv.version, [object |-> srv.object, data |-> srv.input])
    /\ UNCHANGED <<active, damaged>>
    /\ Returns("Ok")

(* The manifest and the pointer are written and the transaction commits; the  *)
(* state files are checked after the commit.                                  *)
Finish ==
    /\ srv.at = "append" /\ srv.buf = <<>>
    /\ Committed(srv.object, srv.version, FinishRow, srv.input)
    /\ \/ Returns("Ok")
       \/ "Storage" \in Faults /\ \E code \in {"Storage", "InvalidInput"} : Returns(code)

(* get_to_writer_inner up to the end of its first pass over the chunks. *)
BeginGet ==
    /\ srv.at = "begin" /\ srv.op = "get"
    /\ LET v == active[srv.object] IN
       \/ ~ unlocked /\ Returns("Locked")
       \/ unlocked /\ v = NoVersion /\ Returns("NotFound")
       \/ /\ unlocked /\ v # NoVersion /\ ~ Readable(srv.object, v, rows[v])
          /\ Returns("Authentication")
       \/ /\ unlocked /\ v # NoVersion /\ Readable(srv.object, v, rows[v])
          /\ srv' = [srv EXCEPT !.at = "serve", !.version = v, !.manifest = rows[v].manifest.data]
          /\ UNCHANGED <<unlocked, cli, up, down, file>>
    /\ UNCHANGED store

(* The chunk rows the second pass has not visited, in ascending order. *)
Stored == rows[srv.version].chunks
Ahead == {i \in DOMAIN Stored : i >= srv.next}

(* StreamWriter::write cuts a chunk into items. *)
Items(part) ==
    [k \in 1 .. DivCeil(Len(part), ItemSize) |->
        StreamData(SubSeq(part, ItemSize * (k - 1) + 1, Min({ItemSize * k, Len(part)})))]

ServeChunk ==
    /\ srv.at = "serve" /\ Ahead # {}
    /\ LET i == Min(Ahead) IN
       IF ~ ChunkOpens(Dek(srv.version), srv.object, srv.version, srv.manifest, i, Stored[i])
       THEN Returns("Authentication")
       ELSE \/ /\ Connected /\ Len(down) < Buffer
               /\ down' = down \o Items(Stored[i].data)
               /\ srv' = [srv EXCEPT !.next = i + 1, !.written = @ \o Stored[i].data]
               /\ UNCHANGED <<unlocked, cli, up, file>>
            \/ ~ Connected /\ Returns("Storage")
            \/ Len(down) >= Buffer /\ "timeout" \in Faults /\ Returns("Storage")
    /\ UNCHANGED store

ServeEnd ==
    /\ srv.at = "serve" /\ Ahead = {}
    /\ Returns(IF Len(srv.written) = srv.manifest.length THEN "Ok" ELSE "Invariant")
    /\ UNCHANGED store

(* A statement fails, and an open transaction is rolled back. *)
StorageFails ==
    /\ "Storage" \in Faults /\ unlocked /\ srv.at \in {"begin", "append", "serve"}
    /\ Returns("Storage") /\ UNCHANGED store

(* The daemon is killed and started again: an open transaction is rolled back. *)
Crash ==
    /\ "crash" \in Faults /\ Serving
    /\ srv' = Closed /\ up' = <<>>
    /\ unlocked' = FALSE
    /\ UNCHANGED <<store, cli, down, file>>

Handler ==
    \/ Refuse \/ Ready \/ Answer
    \/ BeginPut \/ ReadItem \/ CopyBytes \/ ReadAfterEnd \/ ReadFails \/ AppendChunk \/ Finish
    \/ BeginGet \/ ServeChunk \/ ServeEnd

Client ==
    \/ \E o \in Object, x \in Plain : Request("put", o, x)
    \/ \E o \in Object : Request("get", o, <<>>)
    \/ AwaitReady
    \/ \E n \in 1 .. ItemSize : SendChunk(n)
    \/ SendEnd \/ AwaitPublished \/ ReceiveItem \/ PublishOutput \/ LoseDaemon
    \/ Abort \/ TakeOutput

Next ==
    \/ Handler \/ Client \/ StorageFails \/ Crash
    \/ Unlock \/ Lock
    \/ \E o \in Object, x \in Plain : BufferedPut(o, x)
    \/ \E v \in DOMAIN rows : DamageRow(v)
    \/ \E o \in Object, v \in DOMAIN rows : DamagePointer(o, v)

Spec == Init /\ [][Next]_vars

(* The handler's thread runs on; nothing is assumed of the client. *)
FairSpec == Spec /\ WF_vars(Handler)

-----------------------------------------------------------------------------
(* Properties *)

Published(o) == {content[v].data : v \in {u \in DOMAIN content : content[u].object = o}}

(* Every variable stays in its type; read_next_chunk never fills its buffer    *)
(* beyond a chunk, and a transaction stays within the limit of a version.      *)
TTypeOK ==
    /\ DOMAIN rows \subseteq Version /\ DOMAIN content = DOMAIN rows
    /\ active \in [Object -> DOMAIN rows \cup {NoVersion}]
    /\ unlocked \in BOOLEAN
    /\ srv.at \in {"closed", "request", "begin", "read", "append", "serve", "answer"}
    /\ Len(srv.buf) <= ChunkSize /\ Count \in 0 .. MaxChunks
    /\ cli.at \in {"gone", "ready", "send", "answer", "receive", "publish", "done"}
    /\ file.there \in BOOLEAN

(* What put_from_reader commits is what the client was given to upload, laid   *)
(* out as prepare_version would have: however the upload was cut into items,   *)
(* and whichever side stopped, no part of an upload becomes a version.         *)
StoredWhole ==
    \A v \in DOMAIN rows \ damaged.versions :
        rows[v] = PrepareVersion(content[v].object, v, content[v].data)

(* When the CLI's put reports a published version, that version holds its      *)
(* input and has become the active one, unless a later one has since.          *)
PutAcknowledged ==
    [][cli.at = "answer" /\ cli'.result = "Ok" /\ damaged.faults = 0 =>
          LET v == Head(down).version IN
          /\ v \in DOMAIN content
          /\ content[v] = [object |-> cli.object, data |-> cli.input]
          /\ active[cli.object] # NoVersion /\ active[cli.object] >= v]_vars

(* The output file of the CLI's get appears whole or not at all: it holds a    *)
(* plaintext published for the object that was asked for, also when rows were  *)
(* damaged before or during the download or a process stopped in the middle.   *)
OutputWhole ==
    file.there => file.data \in Published(file.object)

(* y consists of chunks of x with numbers below last, whole and in order. *)
Ascending(n, last) ==
    {e \in [0 .. n - 1 -> 0 .. last - 1] : \A j \in 0 .. n - 1 : \A k \in 0 .. j - 1 : e[k] < e[j]}
ChunksOf(y, x, last) ==
    \E e \in Ascending(ChunkCount(y), last) :
        \A k \in 0 .. ChunkCount(y) - 1 : Slice(y, k) = Slice(x, e[k])

(* What get_to_writer has handed out at any moment is the "verified prefix" of *)
(* vault.rs:331, the beginning of one plaintext published for the object, as   *)
(* long as no fault has touched the rows of the version.  The second pass      *)
(* reads the rows again and does not count them: when they have changed since  *)
(* the first, what it has handed out are still chunks of that plaintext, each  *)
(* whole and in their order, but one may be missing in between.                *)
SentVerified ==
    srv.at = "serve" =>
        \E x \in Published(srv.object) :
            /\ ChunksOf(srv.written, x, srv.next)
            /\ srv.version \notin damaged.versions =>
                  srv.written = SubSeq(x, 1, Len(srv.written))

HoldsVault == srv.at \in {"begin", "read", "append", "serve"}

(* The vault mutex is let go even if the client stalls for good: the socket's  *)
(* timeouts end the transfer that holds it.                                    *)
VaultReleased == HoldsVault ~> ~ HoldsVault

(* serve_stream: "Protocol and vault failures are converted into safe response *)
(* frames" that the client can read.                                           *)
PutErrorReadable == cli.result # "InvalidLength"

-----------------------------------------------------------------------------
(* The inductive invariant behind TTypeOK, StoredWhole, PutAcknowledged,       *)
(* OutputWhole and SentVerified                                                *)

Bytes == Seq(Byte)
Objects == Object \cup {"none"}
Versions == Version \cup {NoVersion}
Ops == {"none", "put", "get"}
Codes == {"none", "Ok", "StreamReady", "Overloaded", "Locked", "NotFound", "InvalidInput",
          "Authentication", "Invariant", "Storage", "InvalidLength", "failed"}
SocketItem ==
    [type : {"frame"}, code : Codes, version : Versions]
    \cup [type : {"data", "end"}, data : Bytes] \cup [type : {"error"}, code : Codes]

Shapes ==
    /\ TTypeOK
    /\ srv \in [at : {"closed", "request", "begin", "read", "append", "serve", "answer"},
               op : Ops, object : Objects, input : Bytes, version : Versions,
               cur : Bytes, finished : BOOLEAN, buf : Bytes, chunks : {srv.chunks},
               length : Nat, next : Nat, manifest : {srv.manifest}, written : Bytes, code : Codes]
    /\ cli \in [at : {"gone", "ready", "send", "answer", "receive", "publish", "done"},
               op : Ops, object : Objects, input : Bytes, sent : Nat, temp : Bytes, result : Codes]
    /\ file \in [there : BOOLEAN, object : Objects, data : Bytes]
    /\ damaged \in [versions : SUBSET Version, faults : Nat]
    /\ content \in [DOMAIN rows -> [object : Object, data : Bytes]]
    /\ up \in Seq(SocketItem) /\ down \in Seq(SocketItem)

(* The handler and the client of one transfer; where each of them can be. *)
Paired ==
    /\ srv.at \in {"request", "begin"} =>
          /\ srv.chunks = <<>> /\ srv.cur = <<>> /\ srv.buf = <<>> /\ srv.length = 0
          /\ srv.next = 0 /\ srv.written = <<>> /\ ~ srv.finished
    /\ srv.at \in {"read", "append"} => srv.op = "put"
    /\ srv.at = "serve" => srv.op = "get"
    /\ Serving => srv.op # "none"
    /\ srv.at \notin {"closed", "answer"} => srv.object \in Object
    /\ Connected => cli.result = "none" /\ cli.object \in Object
    /\ Connected /\ Serving => cli.op = srv.op
    /\ Connected /\ srv.at \notin {"closed", "answer"} => cli.object = srv.object /\ cli.input = srv.input
    /\ cli.at = "ready" => cli.op # "none" /\ cli.temp = <<>>
    /\ cli.at \in {"send", "answer"} => cli.op = "put"
    /\ cli.at \in {"receive", "publish"} => cli.op = "get" /\ srv.at # "request"

(* Versions are numbered in the order they are committed in; the transaction   *)
(* of an upload has the next number.                                           *)
Numbered ==
    /\ \A v \in DOMAIN rows, u \in Version : u < v => u \in DOMAIN rows
    /\ srv.op = "put" /\ srv.at \in {"request", "begin"} => NewVersions # {}
    /\ srv.at \in {"read", "append"} =>
          srv.version \in NewVersions /\ \A u \in NewVersions : srv.version <= u

(* Every record was sealed for a committed version, wherever a fault moved it. *)
Original(u) == PrepareVersion(content[u].object, u, content[u].data)
Manifests == {Original(u).manifest : u \in DOMAIN rows}
ChunkRecords == UNION {{Original(u).chunks[j] : j \in DOMAIN Original(u).chunks} : u \in DOMAIN rows}
Sealed ==
    \A v \in DOMAIN rows :
        /\ DOMAIN rows[v] = {"object", "dek", "manifest", "length", "size", "count", "chunks"}
        /\ rows[v].manifest \in Manifests
        /\ DOMAIN rows[v].chunks \subseteq Nat
        /\ \A i \in DOMAIN rows[v].chunks : rows[v].chunks[i] \in ChunkRecords

(* An upload in the handler: its chunks, its buffer and its current item are   *)
(* adjacent pieces of the input; only the last chunk is short.                 *)
Uploading == srv.op = "put" /\ srv.at \in {"request", "begin", "read", "append"}
Copied == srv.length + Len(srv.buf)
Taken == Copied + Len(srv.cur)
Chunked ==
    Uploading =>
        /\ srv.chunks = [i \in 0 .. Count - 1 |->
                            SealChunk(srv.object, srv.version, i, Slice(srv.input, i))]
        /\ srv.length = Min({ChunkSize * Count, Len(srv.input)})
        /\ Count > 0 => ChunkSize * (Count - 1) < srv.length
        /\ srv.length < ChunkSize * Count => srv.finished
        /\ Taken <= Len(srv.input)
        /\ srv.buf = SubSeq(srv.input, srv.length + 1, Copied)
        /\ srv.cur = SubSeq(srv.input, Copied + 1, Taken)
        /\ srv.finished => Copied = Len(srv.input) /\ srv.cur = <<>>
        /\ srv.at = "read" => Len(srv.buf) < ChunkSize
        /\ srv.at = "append" => srv.finished \/ Len(srv.buf) = ChunkSize

(* The items on the socket are the pieces that follow: c[k] is where the k-th  *)
(* ends.  The end of the stream follows the last byte.                         *)
InputCut(c) ==
    /\ c[0] = Taken
    /\ cli.at \in {"ready", "send"} => c[Len(up)] = cli.sent
    /\ \A k \in 1 .. Len(up) :
          /\ c[k - 1] <= c[k]
          /\ \/ up[k] = StreamData(SubSeq(srv.input, c[k - 1] + 1, c[k]))
             \/ up[k] = StreamEnd /\ c[k - 1] = Len(srv.input)
InFlight ==
    Uploading => \E c \in [0 .. Len(up) -> 0 .. Len(srv.input)] : InputCut(c)

(* A version reported to the client of a put is its input, and not older than  *)
(* the active version, unless a fault moved the pointer.                       *)
Acknowledges(v) ==
    /\ v \in DOMAIN rows
    /\ content[v] = [object |-> cli.object, data |-> cli.input]
    /\ damaged.faults = 0 => active[cli.object] # NoVersion /\ active[cli.object] >= v
Reports ==
    Connected /\ cli.op = "put" =>
        /\ \A k \in 1 .. Len(down) :
              /\ down[k].type \in {"frame", "error"}
              /\ down[k].type = "frame" /\ down[k].code = "Ok" => Acknowledges(down[k].version)
        /\ srv.at = "answer" /\ srv.code = "Ok" => Acknowledges(srv.version)

(* A download in the handler: what it has written is no longer than the chunks *)
(* it has passed, and if it is as long then none is missing; only the last     *)
(* chunk can be short.  It is as long unless the version was damaged.          *)
Passed(x, next) == Min({ChunkSize * next, Len(x)})
Passes(x, w, next) ==
    LET passed == Passed(x, next)
    IN  /\ Len(w) <= passed
        /\ Len(w) = passed => w = SubSeq(x, 1, passed)
        /\ ChunksOf(w, x, next)
        /\ Len(w) < ChunkSize * ChunkCount(w) => next = ChunkCount(x)
Written ==
    srv.at = "serve" =>
        /\ srv.version \in DOMAIN rows /\ content[srv.version].object = srv.object
        /\ srv.manifest = Original(srv.version).manifest.data
        /\ Passes(content[srv.version].data, srv.written, srv.next)
        /\ srv.version \notin damaged.versions =>
              Len(srv.written) = Passed(content[srv.version].data, srv.next)

(* What the client has and what is on the socket make up x. *)
OutputCut(x, c) ==
    /\ c[0] = Len(cli.temp) /\ c[Len(down)] = Len(x)
    /\ cli.temp = SubSeq(x, 1, c[0])
    /\ \A k \in 1 .. Len(down) :
          /\ c[k - 1] <= c[k]
          /\ IF down[k].type = "data" THEN down[k].data = SubSeq(x, c[k - 1] + 1, c[k])
                                      ELSE c[k - 1] = c[k]
Delivers(x) == \E c \in [0 .. Len(down) -> 0 .. Len(x)] : OutputCut(x, c)
Ended == \E k \in 1 .. Len(down) : down[k].type = "end"
Downloads ==
    Connected /\ cli.op = "get" =>
        /\ \A k \in 1 .. Len(down) :
              /\ down[k].type = "frame" => k = 1 /\ cli.at = "ready"
              /\ down[k].type = "end" => k = Len(down) /\ ~ Serving
        /\ cli.at = "ready" =>
              /\ srv.at = "request" => down = <<>>
              /\ srv.at \notin {"closed", "request"} => down # <<>>
              /\ down # <<>> => Head(down).type \in {"frame", "error"}
        /\ srv.at \in {"request", "begin"} => Delivers(<<>>)
        /\ srv.at = "serve" => Delivers(srv.written)
        /\ (srv.at = "answer" /\ srv.code = "Ok") \/ Ended =>
              \E x \in Published(cli.object) : Delivers(x)
        /\ cli.at = "publish" => cli.temp \in Published(cli.object)

(* After every step, whichever end took it and whatever failed: what is        *)
(* stored, what is on the socket in each direction, what put_from_reader and   *)
(* get_to_writer hold in between and what the client has fit together.         *)
TransferInv ==
    /\ Shapes /\ Paired /\ Numbered /\ Sealed /\ StoredWhole
    /\ Chunked /\ InFlight /\ Reports /\ Written /\ Downloads /\ OutputWhole

=============================================================================
