---------------------------- MODULE ChunkStream ----------------------------
(***************************************************************************)
(* The RTMP chunk stream (crates/rtmp/src/chunk): messages cut into chunks *)
(* that interleave on the wire, and ChunkDecoder::read_chunk putting them  *)
(* together again from reads that stop anywhere.                           *)
(*                                                                         *)
(* The wire is a sequence of tokens: the bytes of basic headers, a message *)
(* header (of a format's length), an extended timestamp, a payload byte.   *)
(* A read that stops inside a header or a timestamp is one that stops      *)
(* before it.  Extended stands for 0xFFFFFF.                               *)
(***************************************************************************)
EXTENDS Integers, Sequences, SequencesExt, FiniteSets, Functions

CONSTANTS Clients,      \* the clients: of each, the chunk stream ids `csid` (2 is the control
                        \* stream), message stream ids `sid`, timestamps `ts`, payload
                        \* lengths `len` and chunk sizes `size` it uses, and how many
                        \* messages `max` it sends
          Extended,
          INIT_CHUNK_SIZE, MAX_CHUNK_SIZE,
          MAX_PARTIAL_CHUNK_SIZE, MAX_PREVIOUS_CHUNK_HEADERS, MAX_PARTIAL_CHUNK_COUNT

ASSUME ChunkAssumption ==
    /\ \A c \in Clients : /\ c.csid \subseteq 3..65599 /\ c.sid \subseteq Nat /\ c.ts \subseteq Nat
                           /\ c.len \subseteq Nat /\ c.size \subseteq Nat \ {0} /\ c.max \in Nat
    /\ Extended \in Nat \ {0}
    /\ INIT_CHUNK_SIZE \in Nat \ {0} /\ MAX_CHUNK_SIZE \in Nat

VARIABLES traffic,                   \* the client there is
          size, cur, last, count,    \* the client: its chunk size; the message being sent,
                                     \* per chunk stream and message stream; the last
                                     \* header, per chunk stream; messages begun
          wire, sent,                \* sent: messages complete on the wire, in order
          offended,                  \* the client went past a limit of the decoder
          buffer, pc,                \* read_buf, and whether the session reads or parses
          previous_chunk_headers, partial_chunks, max_chunk_size,
          returned, status           \* chunks returned by read_chunk; its error

client  == <<traffic, size, cur, last, count, sent, offended>>
decoder == <<previous_chunk_headers, partial_chunks, max_chunk_size>>
vars    == <<client, wire, buffer, pc, decoder, returned, status>>

ControlStream == 2
Empty         == [x \in {} |-> x]

Init ==
    /\ traffic \in Clients
    /\ size = INIT_CHUNK_SIZE /\ cur = Empty /\ last = Empty /\ count = 0
    /\ wire = <<>> /\ sent = <<>> /\ offended = FALSE
    /\ buffer = <<>> /\ pc = "read"
    /\ previous_chunk_headers = Empty /\ partial_chunks = Empty
    /\ max_chunk_size = INIT_CHUNK_SIZE
    /\ returned = <<>> /\ status = "ok"

----------------------------------------------------------------------------
(* Writing chunks (encoder.rs).                                            *)

Tokens(k, vs) == [i \in DOMAIN vs |-> [k |-> k, v |-> vs[i]]]

\* write_basic_header: one, two or three bytes
WriteBasicHeader(fmt, csid) ==
    CASE csid >= 64 + 255 -> Tokens("byte", <<fmt * 64 + 1, (csid - 64) % 256, (csid - 64) \div 256>>)
      [] csid \in 64..(64 + 254) -> Tokens("byte", <<fmt * 64, csid - 64>>)
      [] csid < 64 -> Tokens("byte", <<fmt * 64 + csid>>)

is_extended_timestamp(ts) == ts >= Extended
ExtendedTimestamp(ts)     == IF is_extended_timestamp(ts) THEN Tokens("ext", <<ts>>) ELSE <<>>

\* write_message_header, and the shorter ones a client may use: ts is the
\* timestamp, or its delta for formats 1 and 2
WriteMessageHeader(fmt, ts, m) ==
    IF fmt = 3 THEN <<>>
    ELSE LET ts24 == IF is_extended_timestamp(ts) THEN Extended ELSE ts
         IN  Tokens("header", <<CASE fmt = 0 -> <<ts24, m.len, m.type, m.sid>>
                                  [] fmt = 1 -> <<ts24, m.len, m.type>>
                                  [] fmt = 2 -> <<ts24>> >>)

\* The part of a message a chunk carries after `off` bytes
Slice(m, off, n) == Tokens("data", SubSeq(m.payload, off + 1, off + n))
ChunkLen(m, off) == IF m.len - off > size THEN size ELSE m.len - off

\* write_chunk: format 0, then format 3 until the payload is empty
WriteChunk(m) ==
    LET chunks == IF m.len = 0 THEN 1 ELSE (m.len + size - 1) \div size
        Chunk(i) == LET fmt == IF i = 1 THEN 0 ELSE 3
                        off == (i - 1) * size
                    IN  WriteBasicHeader(fmt, m.csid) \o WriteMessageHeader(fmt, m.ts, m)
                        \o ExtendedTimestamp(m.ts) \o Slice(m, off, ChunkLen(m, off))
    IN  FlattenSeq([i \in 1..chunks |-> Chunk(i)])

----------------------------------------------------------------------------
(* The client (external), as RTMP 5.3.1 allows it to be: it interleaves     *)
(* chunks of its streams, several message streams on one chunk stream       *)
(* included, and uses any header format the last header of the chunk stream *)
(* allows.                                                                  *)

Msg(csid, ts, len, type, sid, payload) ==
    [csid |-> csid, ts |-> ts, len |-> len, type |-> type, sid |-> sid, payload |-> payload]

NewMsg(csid, ts, len, sid) == Msg(csid, ts, len, "media", sid, [i \in 1..len |-> <<count + 1, i>>])
Key(m) == <<m.csid, m.sid>>

\* What the client remembers of the header of m.  `delta` is what a message
\* begun with format 3 adds to the timestamp (5.3.1.2.4), a format 0 header's
\* timestamp included.  Ghost `lag`: the deltas added so since a format 0 header.
Sent(m, delta, ext, lag) ==
    [ts |-> m.ts, len |-> m.len, type |-> m.type, sid |-> m.sid, delta |-> delta, ext |-> ext, lag |-> lag]

\* Formats that can begin m after the last header of its chunk stream
Formats(m) ==
    {0} \cup IF m.csid \notin DOMAIN last THEN {}
             ELSE LET p == last[m.csid]
                      same == m.sid = p.sid /\ m.type = p.type
                  IN  {fmt \in 1..3 : /\ same /\ m.ts >= p.ts
                                      /\ fmt >= 2 => m.len = p.len
                                      /\ fmt = 3 => m.ts = p.ts + p.delta}

\* What of m is on the wire after a chunk that ends at off, under header h
Track(m, off, h) ==
    /\ last' = (m.csid :> h) @@ last
    /\ IF off = m.len
       THEN sent' = Append(sent, [msg |-> m, lag |-> h.lag]) /\ cur' = Restrict(cur, DOMAIN cur \ {Key(m)})
       ELSE UNCHANGED sent /\ cur' = (Key(m) :> [msg |-> m, off |-> off]) @@ cur

Offends(m) ==
    \/ m.len > MAX_PARTIAL_CHUNK_SIZE
    \/ Cardinality(DOMAIN last \cup {m.csid}) > MAX_PREVIOUS_CHUNK_HEADERS
    \/ m.len > size /\ Cardinality(DOMAIN cur) >= MAX_PARTIAL_CHUNK_COUNT

Begin(m, fmt) ==
    LET p     == last[m.csid]
        ts    == IF fmt = 0 THEN m.ts ELSE m.ts - p.ts
        ext   == IF fmt = 3 THEN p.ext ELSE is_extended_timestamp(ts)
        lag   == CASE fmt = 0 -> 0 [] fmt \in 1..2 -> p.lag [] fmt = 3 -> p.lag + p.delta
        n     == ChunkLen(m, 0)
    IN  /\ wire' = wire \o WriteBasicHeader(fmt, m.csid) \o WriteMessageHeader(fmt, ts, m)
                   \o (IF ext THEN Tokens("ext", <<ts>>) ELSE <<>>) \o Slice(m, 0, n)
        /\ Track(m, n, Sent(m, ts, ext, lag))
        /\ offended' = (offended \/ Offends(m))

ClientBegin ==
    /\ count < traffic.max /\ count' = count + 1
    /\ \E csid \in traffic.csid, ts \in traffic.ts, len \in traffic.len, sid \in traffic.sid :
          LET m == NewMsg(csid, ts, len, sid)
          IN  /\ Key(m) \notin DOMAIN cur
              /\ \E fmt \in Formats(m) : Begin(m, fmt)
    /\ UNCHANGED <<traffic, size, buffer, pc, decoder, returned, status>>

\* The next chunk of a message: format 3 under its own header; under the header
\* of another message stream, the whole header again.
ClientContinue(key) ==
    LET m    == cur[key].msg
        off  == cur[key].off
        n    == ChunkLen(m, off)
        same == last[m.csid].sid = m.sid
        h    == IF same THEN last[m.csid] ELSE Sent(m, m.ts, is_extended_timestamp(m.ts), 0)
        fmt  == IF same THEN 3 ELSE 0
    IN  /\ wire' = wire \o WriteBasicHeader(fmt, m.csid) \o WriteMessageHeader(fmt, m.ts, m)
                   \o (IF h.ext THEN Tokens("ext", <<m.ts>>) ELSE <<>>) \o Slice(m, off, n)
        /\ Track(m, off + n, h)
        /\ UNCHANGED <<traffic, size, count, offended, buffer, pc, decoder, returned, status>>

\* A message written by ChunkEncoder::write_chunk, nothing in between
EncoderWrite ==
    /\ count < traffic.max /\ count' = count + 1
    /\ \E csid \in traffic.csid, ts \in traffic.ts, len \in traffic.len, sid \in traffic.sid :
          LET m == NewMsg(csid, ts, len, sid)
          IN  /\ Key(m) \notin DOMAIN cur
              /\ wire' = wire \o WriteChunk(m)
              /\ Track(m, len, Sent(m, ts, is_extended_timestamp(ts), 0))
              /\ offended' = (offended \/ Offends(m))
    /\ UNCHANGED <<traffic, size, buffer, pc, decoder, returned, status>>

\* write_set_chunk_size and set_chunk_size, also between the chunks of other streams
SetChunkSize ==
    /\ count < traffic.max /\ count' = count + 1
    /\ \E n \in traffic.size :
          LET m == Msg(ControlStream, 0, 1, "chunk_size", 0, <<n>>)
          IN  /\ wire' = wire \o WriteChunk(m)
              /\ size' = n
              /\ Track(m, 1, Sent(m, 0, FALSE, 0))
              /\ offended' = (offended \/ Offends(m) \/ n \notin INIT_CHUNK_SIZE..MAX_CHUNK_SIZE)
    /\ UNCHANGED <<traffic, buffer, pc, decoder, returned, status>>

----------------------------------------------------------------------------
(* Reading chunks (decoder.rs).                                            *)

None   == [st |-> "none"]
Err(e) == [st |-> "err", e |-> e]

\* The cursor at token i finds a token of kind k, or the end of the buffer
At(i)      == i <= Len(buffer)
Kind(i, k) == buffer[i].k = k

\* read_header: bytes of the basic header, format and chunk stream id
HeaderLen == CASE buffer[1].v % 64 = 0 -> 2 [] buffer[1].v % 64 = 1 -> 3 [] OTHER -> 1
ReadHeader ==
    [format |-> buffer[1].v \div 64,
     chunk_stream_id |-> CASE HeaderLen = 2 -> 64 + buffer[2].v
                           [] HeaderLen = 3 -> 64 + buffer[2].v + buffer[3].v * 256
                           [] HeaderLen = 1 -> buffer[1].v % 64]

Header(ts, len, type, sid, ext) == [ts |-> ts, len |-> len, type |-> type, sid |-> sid, ext |-> ext]

\* read_message_header from token i on: the header and the token after it.
\* checked_add and + agree on the sums a client's timestamps make.
ReadMessageHeader(h, i) ==
    LET fmt  == h.format
        known == h.chunk_stream_id \in DOMAIN previous_chunk_headers
        prev == previous_chunk_headers[h.chunk_stream_id]
        f    == buffer[i].v
        ext  == IF fmt = 3 THEN prev.ext ELSE f[1] = Extended
        j    == IF fmt = 3 THEN i ELSE i + 1
        ts   == IF ext THEN buffer[j].v ELSE f[1]
    IN  IF fmt = 3 /\ ~known THEN Err("MissingPreviousChunkHeader")
        ELSE IF fmt # 3 /\ ~At(i) THEN None
        ELSE IF fmt # 3 /\ ~Kind(i, "header") THEN Err("desync")
        ELSE IF fmt < 2 /\ f[2] > MAX_PARTIAL_CHUNK_SIZE THEN Err("PartialChunkTooLarge")
        ELSE IF ext /\ ~At(j) THEN None
        ELSE IF ext /\ ~Kind(j, "ext") THEN Err("desync")
        ELSE IF ~known /\ fmt # 0 THEN Err("MissingPreviousChunkHeader")
        ELSE [st |-> "ok", next |-> IF ext THEN j + 1 ELSE j,
              header |-> CASE fmt = 0 -> Header(ts, f[2], f[3], f[4], ext)
                           [] fmt = 1 -> Header(prev.ts + ts, f[2], f[3], prev.sid, ext)
                           [] fmt = 2 -> Header(prev.ts + ts, prev.len, prev.type, prev.sid, ext)
                           [] fmt = 3 -> prev]

Partial(key) == IF key \in DOMAIN partial_chunks THEN partial_chunks[key] ELSE <<>>

\* Mutant: a chunk is as long as the message allows, whatever was read of it
PayloadLenWhole(key, header) ==
    IF header.len > max_chunk_size THEN max_chunk_size ELSE header.len

\* get_payload_range: how much of the message this chunk holds
PayloadLen(key, header) ==
    LET remaining == header.len - Len(Partial(key))
    IN  IF remaining > max_chunk_size THEN max_chunk_size ELSE remaining

\* The first chunk of the buffer
Decode ==
    IF ~At(1) THEN None
    ELSE IF ~Kind(1, "byte") THEN Err("desync")
    ELSE IF ~At(HeaderLen) THEN None
    ELSE LET h == ReadHeader
             m == ReadMessageHeader(h, HeaderLen + 1)
         IN  IF m.st # "ok" THEN m
             ELSE LET key == <<h.chunk_stream_id, m.header.sid>>
                      n   == PayloadLen(key, m.header)
                      end == m.next + n - 1
                  IN  IF ~(n = 0 \/ At(end)) THEN None
                      ELSE IF \E i \in m.next..end : ~Kind(i, "data") THEN Err("desync")
                      ELSE [st |-> "ok", key |-> key, header |-> m.header, end |-> end,
                            payload |-> [i \in 1..n |-> buffer[m.next + i - 1].v]]

\* io.read_buf of do_ready
Receive ==
    /\ pc = "read" /\ status = "ok"
    /\ \E n \in 1..Len(wire) :
          /\ buffer' = buffer \o SubSeq(wire, 1, n)
          /\ wire' = SubSeq(wire, n + 1, Len(wire))
    /\ pc' = "parse"
    /\ UNCHANGED <<client, decoder, returned, status>>

ReadNone ==
    /\ pc = "parse" /\ status = "ok" /\ Decode.st = "none"
    /\ pc' = "read"
    /\ UNCHANGED <<client, wire, buffer, decoder, returned, status>>

Fail(e) == status' = e /\ UNCHANGED <<max_chunk_size, returned, pc>>

ReadError ==
    /\ pc = "parse" /\ status = "ok" /\ Decode.st = "err"
    /\ Fail(Decode.e)
    /\ UNCHANGED <<client, wire, buffer, previous_chunk_headers, partial_chunks>>

\* A chunk is returned, and the session applies a chunk size
update_max_chunk_size(m) ==
    IF m.type # "chunk_size" THEN UNCHANGED <<max_chunk_size, status>>
    ELSE IF m.payload[1] \in INIT_CHUNK_SIZE..MAX_CHUNK_SIZE
    THEN max_chunk_size' = m.payload[1] /\ UNCHANGED status
    ELSE status' = "InvalidChunkSize" /\ UNCHANGED max_chunk_size

ReturnChunk(d, payload) ==
    LET m == Msg(d.key[1], d.header.ts, d.header.len, d.header.type, d.header.sid, payload)
    IN  returned' = Append(returned, m) /\ update_max_chunk_size(m) /\ UNCHANGED pc

\* Mutant: an incomplete message ends read_chunk although another chunk is there
PartialStops(d) ==
    LET payload == Partial(d.key) \o d.payload IN
    IF Len(payload) = d.header.len
    THEN ReturnChunk(d, payload) /\ partial_chunks' = Restrict(partial_chunks, DOMAIN partial_chunks \ {d.key})
    ELSE /\ partial_chunks' = (d.key :> payload) @@ partial_chunks
         /\ pc' = "read" /\ UNCHANGED <<max_chunk_size, returned, status>>

\* Mutant: a finished message stays among the partial ones
PartialKept(d) ==
    LET payload == Partial(d.key) \o d.payload IN
    /\ partial_chunks' = (d.key :> payload) @@ partial_chunks
    /\ IF Len(payload) = d.header.len THEN ReturnChunk(d, payload)
       ELSE UNCHANGED <<pc, max_chunk_size, returned, status>>

\* The chunk joins the partial message of its key
AddPartial(d) ==
    LET payload == Partial(d.key) \o d.payload IN
    IF d.key \notin DOMAIN partial_chunks /\ Cardinality(DOMAIN partial_chunks) >= MAX_PARTIAL_CHUNK_COUNT
    THEN Fail("TooManyPartialChunks") /\ UNCHANGED partial_chunks
    ELSE IF Len(payload) > MAX_PARTIAL_CHUNK_SIZE
    THEN Fail("PartialChunkTooLarge") /\ partial_chunks' = (d.key :> Partial(d.key)) @@ partial_chunks
    ELSE IF Len(payload) = d.header.len
    THEN ReturnChunk(d, payload) /\ partial_chunks' = Restrict(partial_chunks, DOMAIN partial_chunks \ {d.key})
    ELSE /\ partial_chunks' = (d.key :> payload) @@ partial_chunks
         /\ UNCHANGED <<pc, max_chunk_size, returned, status>>

\* One round of read_chunk's loop on a whole chunk
ReadChunk ==
    /\ pc = "parse" /\ status = "ok" /\ Decode.st = "ok"
    /\ LET d == Decode
       IN  /\ buffer' = SubSeq(buffer, d.end + 1, Len(buffer))
           /\ IF Cardinality(DOMAIN previous_chunk_headers \cup {d.key[1]}) > MAX_PREVIOUS_CHUNK_HEADERS
              THEN Fail("TooManyPreviousChunkHeaders") /\ UNCHANGED <<previous_chunk_headers, partial_chunks>>
              ELSE /\ previous_chunk_headers' = (d.key[1] :> d.header) @@ previous_chunk_headers
                   /\ IF Len(d.payload) = d.header.len
                      THEN ReturnChunk(d, d.payload) /\ UNCHANGED partial_chunks
                      ELSE AddPartial(d)
    /\ UNCHANGED <<client, wire>>

----------------------------------------------------------------------------

Client == ClientBegin \/ (\E key \in DOMAIN cur : ClientContinue(key)) \/ EncoderWrite \/ SetChunkSize
Next == Client \/ Receive \/ ReadNone \/ ReadError \/ ReadChunk

Spec == Init /\ [][Next]_vars

----------------------------------------------------------------------------
(* Properties.                                                             *)

\* What read_chunk makes of a message: its timestamp stays behind by the deltas
\* that format 3 headers repeated
AsRead(e) == [e.msg EXCEPT !.ts = @ - e.lag]

\* read_chunk returns the messages that were sent, in the order in which
\* their last chunks were: header fields and payload, however chunks
\* interleave, also of two message streams on one chunk stream, headers are
\* shortened, timestamps are extended, chunk sizes change between two chunks of a
\* message, and reads are cut.  One field may differ, and by how much is said
\* exactly: a message begun with format 3 repeats the last delta (RTMP
\* 5.3.1.2.4), but read_message_header gives it the timestamp before it
\* (decoder.rs 411-433), so that this stream lags by that delta until its next
\* format 0 header.
RoundTrip == IsPrefix(returned, [i \in DOMAIN sent |-> AsRead(sent[i])])

\* The limits of decoder.rs mean what they say: read_chunk fails only on a
\* client that went past one of them, and whatever a client sends the maps of
\* the decoder stay within them.
ErrorsAreEarned ==
    /\ status # "ok" => offended
    /\ max_chunk_size \in INIT_CHUNK_SIZE..MAX_CHUNK_SIZE
    /\ Cardinality(DOMAIN previous_chunk_headers) <= MAX_PREVIOUS_CHUNK_HEADERS
    /\ Cardinality(DOMAIN partial_chunks) <= MAX_PARTIAL_CHUNK_COUNT
    /\ \A key \in DOMAIN partial_chunks : Len(partial_chunks[key]) <= MAX_PARTIAL_CHUNK_SIZE

\* When the session goes back to reading, every message that has arrived whole
\* has been returned: a client that waits for an answer is not left waiting.
NothingLeftBehind ==
    pc = "read" /\ wire = <<>> /\ status = "ok" => Len(returned) = Len(sent)
=============================================================================
