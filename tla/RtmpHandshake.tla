--------------------------- MODULE RtmpHandshake ---------------------------
(***************************************************************************)
(* What HandshakeServer and DigestProcessor read and write: C1, S1 and S2  *)
(* byte by byte, and where in them the digests are.  A byte is a number or *)
(* a name; the bytes of an HMAC are named after its key and message.       *)
(***************************************************************************)
EXTENDS Naturals, Sequences

CONSTANTS CHUNK_LENGTH,         \* 764
          RTMP_DIGEST_LENGTH,   \* 32
          FIELD_LENGTH,         \* 4, of the time and of the version
          Offsets               \* the four bytes a chunk may begin with

VARIABLES hello,     \* C0C1, and what the client knows of it
          shaker,    \* Complex or Simple, its state, and what it keeps of C1
          s0s1s2     \* the output

shakeVars == <<hello, shaker, s0s1s2>>

OFFSET_LENGTH == 4
TIME_VERSION_LENGTH == 2 * FIELD_LENGTH
RTMP_HANDSHAKE_SIZE == TIME_VERSION_LENGTH + 2 * CHUNK_LENGTH
OffsetRange == CHUNK_LENGTH - RTMP_DIGEST_LENGTH - OFFSET_LENGTH

ASSUME DigestAssumption ==
    /\ RTMP_DIGEST_LENGTH \in Nat \ {0} /\ FIELD_LENGTH \in Nat \ {0}
    /\ CHUNK_LENGTH \in Nat /\ CHUNK_LENGTH > RTMP_DIGEST_LENGTH + OFFSET_LENGTH
    /\ Offsets \subseteq [1..OFFSET_LENGTH -> Nat]

Number(n) == <<"number", n>>
Field(name) == [i \in 1..FIELD_LENGTH |-> <<name, i>>]
Random(who, n) == [i \in 1..n |-> <<who, i>>]
Between(s, from, to) == SubSeq(s, from + 1, to)   \* s[from..to]

-----------------------------------------------------------------------------
(* DigestProcessor *)

SchemaOffset(schema) == TIME_VERSION_LENGTH + IF schema = 0 THEN CHUNK_LENGTH ELSE 0

find_digest_offset(data, schema) ==
    LET at == SchemaOffset(schema)
        sum == data[at + 1][2] + data[at + 2][2] + data[at + 3][2] + data[at + 4][2]
    IN  (sum % OffsetRange) + at + OFFSET_LENGTH

cook_raw_message(data, schema) ==
    LET at == find_digest_offset(data, schema)
    IN  [left |-> Between(data, 0, at),
         digest |-> Between(data, at, at + RTMP_DIGEST_LENGTH),
         right |-> Between(data, at + RTMP_DIGEST_LENGTH, Len(data))]

make_digest(key, message) ==
    [i \in 1..RTMP_DIGEST_LENGTH |-> <<"mac", <<key, message>>, i>>]

generate_and_validate(data, key, schema) ==
    LET m == cook_raw_message(data, schema)
    IN  m.digest = make_digest(key, m.left \o m.right)

NoSchema == 2

(* Schema 0 is tried first. *)
read_digest(data, key) ==
    IF generate_and_validate(data, key, 0) THEN 0
    ELSE IF generate_and_validate(data, key, 1) THEN 1 ELSE NoSchema

generate_and_fill_digest(data, key, schema) ==
    LET m == cook_raw_message(data, schema)
    IN  m.left \o make_digest(key, m.left \o m.right) \o m.right

-----------------------------------------------------------------------------
(* Random bytes are numbers only where the offsets are read.               *)
Chunk(who, offset) ==
    [i \in 1..CHUNK_LENGTH |-> IF i <= OFFSET_LENGTH THEN Number(offset[i]) ELSE <<who, i>>]

PutDigest(data, at, digest) ==
    [i \in DOMAIN data |-> IF i \in at + 1..at + Len(digest) THEN digest[i - at] ELSE data[i]]

(* The client (external): one of the complex handshake puts its digest     *)
(* where it likes behind the offset bytes of its schema's chunk, which say *)
(* where, modulo their range; one of the simple handshake has none.        *)
Raw(first, second) ==
    Field("c1_time") \o Field("c1_version") \o Chunk("client", first) \o Chunk("client", second)

Place(schema, first, second) ==
    LET own == IF schema = 0 THEN second ELSE first
    IN  SchemaOffset(schema) + OFFSET_LENGTH + ((own[1] + own[2] + own[3] + own[4]) % OffsetRange)

Greeting(schema, first, second) ==
    LET data == Raw(first, second)
        at == Place(schema, first, second)
        rest == Between(data, 0, at) \o Between(data, at + RTMP_DIGEST_LENGTH, RTMP_HANDSHAKE_SIZE)
        digest == IF schema = NoSchema THEN <<>> ELSE make_digest("client key", rest)
    IN  [schema |-> schema, digest |-> digest, c1 |-> PutDigest(data, at, digest)]

ShakeInit ==
    /\ \E version \in {3, 6}, schema \in {0, 1, NoSchema}, first, second \in Offsets :
          LET g == Greeting(schema, first, second)
          IN  hello = [c0 |-> version, c1 |-> g.c1, schema |-> g.schema, digest |-> g.digest]
    /\ shaker = [mode |-> "Complex", state |-> "ReadC0C1", version |-> 0, schema |-> 0,
                 digest |-> <<>>, time |-> <<>>, bytes |-> <<>>]
    /\ s0s1s2 = <<>>

(* ComplexHandshakeServer: read_c0 and read_c1 *)
ReadComplex ==
    LET schema == read_digest(hello.c1, "client key")
    IN  /\ shaker.mode = "Complex" /\ shaker.state = "ReadC0C1"
        /\ schema # NoSchema
        /\ shaker' = [shaker EXCEPT !.state = "WriteS0S1S2", !.version = 3, !.schema = schema,
                                    !.digest = cook_raw_message(hello.c1, schema).digest,
                                    !.time = Between(hello.c1, 0, FIELD_LENGTH)]
        /\ UNCHANGED <<hello, s0s1s2>>

(* HandshakeServer::handshake, when the complex handshake fails: a simple  *)
(* one reads the same bytes again.                                         *)
ReadSimple ==
    /\ shaker.mode = "Complex" /\ shaker.state = "ReadC0C1"
    /\ read_digest(hello.c1, "client key") = NoSchema
    /\ shaker' = [shaker EXCEPT !.mode = "Simple", !.state = "WriteS0S1S2", !.version = 3,
                                !.time = Between(hello.c1, 0, FIELD_LENGTH),
                                !.bytes = Between(hello.c1, TIME_VERSION_LENGTH, RTMP_HANDSHAKE_SIZE)]
    /\ UNCHANGED <<hello, s0s1s2>>

SimpleS1(first, second) ==
    Field("now") \o [i \in 1..FIELD_LENGTH |-> Number(0)] \o Chunk("server", first) \o Chunk("server", second)

SimpleS2 == shaker.time \o Field("now") \o shaker.bytes

ComplexS1(first, second) ==
    generate_and_fill_digest(Field("now") \o Field("RTMP_SERVER_VERSION")
                             \o Chunk("server", first) \o Chunk("server", second),
                             "server key first half", shaker.schema)

ComplexS2Long ==   \* mutant: random bytes for the digest as well
    LET data == Field("now") \o shaker.time \o Random("server", RTMP_HANDSHAKE_SIZE - TIME_VERSION_LENGTH)
        key == make_digest("server key", shaker.digest)
    IN  data \o make_digest(key, Between(data, 0, RTMP_HANDSHAKE_SIZE - RTMP_DIGEST_LENGTH))

ComplexS2 ==
    LET data == Field("now") \o shaker.time
                \o Random("server", RTMP_HANDSHAKE_SIZE - RTMP_DIGEST_LENGTH - TIME_VERSION_LENGTH)
        key == make_digest("server key", shaker.digest)
    IN  data \o make_digest(key, Between(data, 0, RTMP_HANDSHAKE_SIZE - RTMP_DIGEST_LENGTH))

(* write_s0, write_s1 and write_s2 *)
WriteS0S1S2 ==
    /\ shaker.state = "WriteS0S1S2"
    /\ \E first, second \in Offsets :
          s0s1s2' = <<Number(shaker.version)>>
                    \o (IF shaker.mode = "Simple" THEN SimpleS1(first, second) \o SimpleS2
                        ELSE ComplexS1(first, second) \o ComplexS2)
    /\ shaker' = [shaker EXCEPT !.state = "ReadC2"]
    /\ UNCHANGED hello

(* C2 is skipped, whatever it says. *)
ReadC2 ==
    /\ shaker.state = "ReadC2"
    /\ shaker' = [shaker EXCEPT !.state = "Finish"]
    /\ UNCHANGED <<hello, s0s1s2>>

ShakeNext == ReadComplex \/ ReadSimple \/ WriteS0S1S2 \/ ReadC2

ShakeSpec == ShakeInit /\ [][ShakeNext]_shakeVars

-----------------------------------------------------------------------------
(* Every client gets the answer its handshake calls for, wherever its own  *)
(* digest is and wherever the server's random bytes put theirs.  The       *)
(* output is version 3 and two messages of RTMP_HANDSHAKE_SIZE.  A client  *)
(* of the complex handshake finds in S1 the server's digest by the schema  *)
(* of its C1, and at the end of S2 the digest whose key is made from its   *)
(* own; one of the simple handshake gets its time and its bytes back.      *)
HandshakeIsAnswered ==
    s0s1s2 # <<>> =>
        LET s1 == Between(s0s1s2, 1, RTMP_HANDSHAKE_SIZE + 1)
            s2 == Between(s0s1s2, RTMP_HANDSHAKE_SIZE + 1, Len(s0s1s2))
            signed == RTMP_HANDSHAKE_SIZE - RTMP_DIGEST_LENGTH
        IN  /\ s0s1s2[1] = Number(3)
            /\ Len(s1) = RTMP_HANDSHAKE_SIZE /\ Len(s2) = RTMP_HANDSHAKE_SIZE
            /\ IF hello.schema = NoSchema
               THEN /\ Between(s2, 0, FIELD_LENGTH) = Between(hello.c1, 0, FIELD_LENGTH)
                    /\ Between(s2, TIME_VERSION_LENGTH, Len(s2))
                       = Between(hello.c1, TIME_VERSION_LENGTH, RTMP_HANDSHAKE_SIZE)
               ELSE /\ generate_and_validate(s1, "server key first half", hello.schema)
                    /\ Between(s2, signed, Len(s2))
                       = make_digest(make_digest("server key", hello.digest), Between(s2, 0, signed))
=============================================================================
