----------------------------- MODULE RtmpProofs -----------------------------
(***************************************************************************)
(* Proofs about the RTMP session, for every size of the handshake, every   *)
(* set of messages and every way the reads cut them.                       *)
(***************************************************************************)
EXTENDS RtmpSession, TLAPS

Unit  == Message \cup {Frag, Byte}
Reply == {"s0s1s2", "set_chunk_size", "window", "connect", "create", "delete", "publish"}

SessionTypeOK ==
    /\ wire \in Seq(Unit) /\ peer \in {"open", "eof", "reset"} /\ step \in {"c0c1", "c2", "messages"}
    /\ read_buf \in Seq(Unit) /\ bytes_read \in Nat /\ write_buf \in Seq(Reply) /\ got \subseteq Reply
    /\ pc \in {"hs_read", "handshake", "hs_flush", "ready", "parse", "publish", "send", "flush", "end"}
    /\ state \in {"ReadC0C1", "ReadC2", "Finish"} /\ skip_read \in BOOLEAN
    /\ current \in Message \cup {NoMsg} /\ result \in {"none", "true", "false", "err"}
    /\ is_publishing \in BOOLEAN /\ republished \in BOOLEAN
    /\ data \in Seq(StreamID)

\* What was read or is in flight: `off` bytes of the handshake, then messages
stream == read_buf \o wire
Odd(n) == n % 2 = 1
Laid(s, off) ==
    \A i \in 1..Len(s) : IF i <= off THEN s[i] = Byte
                         ELSE s[i] # Byte /\ (Odd(i - off) <=> s[i] = Frag)

Past == IF state = "ReadC2" THEN HS ELSE 0

\* Each round of the handshake reads at least one byte more than it takes, so
\* C0C1 is read whole before the first round ends, and the second leaves
\* something in the buffer.
FramingInv ==
    /\ SessionTypeOK
    /\ state = "ReadC0C1" => /\ pc \in {"hs_read", "handshake", "end"} /\ got = {} /\ step # "messages"
                             /\ Len(stream) <= HS + 1 /\ (step = "c0c1" => stream = <<>>)
    /\ state = "ReadC2" => /\ pc \in {"hs_read", "handshake", "hs_flush", "end"} /\ step # "c0c1"
                           /\ step = "c2" => stream = <<>>
    /\ state = "Finish" => pc \notin {"hs_read", "handshake", "hs_flush"} /\ step = "messages"
    /\ pc \in {"hs_read", "handshake", "hs_flush"} => bytes_read = Len(read_buf)
    /\ pc = "handshake" => bytes_read > HS
    /\ state # "ReadC0C1" => Laid(stream, Past)
    /\ state # "ReadC0C1" /\ step = "messages" /\ peer # "reset" =>
           Len(stream) >= Past /\ ~Odd(Len(stream) - Past)
    /\ pc = "hs_read" \/ (pc = "ready" /\ ~skip_read) => write_buf = <<>>

\* The ghosts against the session's own fields
PublishInv ==
    /\ is_publishing => stream_id \in connected
    /\ ~republished => connected = IF is_publishing THEN {stream_id} ELSE {}
    /\ pc = "send" => is_publishing /\ current.sid = stream_id /\ current.sid \in StreamID
    /\ result # "none" => pc = "end"
    /\ ResultUnlessRepublished

\* Concatenation, element by element.
LEMMA ConcatFacts ==
    ASSUME NEW S, NEW a \in Seq(S), NEW b \in Seq(S)
    PROVE  /\ Len(a) \in Nat /\ Len(b) \in Nat
           /\ a \o b \in Seq(S) /\ Len(a \o b) = Len(a) + Len(b)
           /\ \A i \in 1 .. Len(a) + Len(b) : (a \o b)[i] = IF i <= Len(a) THEN a[i] ELSE b[i - Len(a)]
OBVIOUS

\* A part of a sequence, element by element.
LEMMA PartFacts ==
    ASSUME NEW S, NEW a \in Seq(S), NEW m \in 1 .. Len(a) + 1, NEW n \in m - 1 .. Len(a)
    PROVE  /\ SubSeq(a, m, n) \in Seq(S) /\ Len(SubSeq(a, m, n)) = n - m + 1
           /\ \A i \in 1 .. n - m + 1 : SubSeq(a, m, n)[i] = a[m + i - 1]
OBVIOUS

\* Two sequences with the same elements are the same.
LEMMA SameElements ==
    ASSUME NEW S, NEW a \in Seq(S), NEW b \in Seq(S), Len(a) = Len(b), \A i \in 1..Len(a) : a[i] = b[i]
    PROVE  a = b
OBVIOUS

\* Concatenation is associative.
LEMMA ConcatAssociates ==
    ASSUME NEW S, NEW a \in Seq(S), NEW b \in Seq(S), NEW c \in Seq(S)
    PROVE  (a \o b) \o c = a \o (b \o c)
OBVIOUS

Moves(a, w, n) ==
    /\ a \o SubSeq(w, 1, n) \in Seq(Unit) /\ SubSeq(w, n + 1, Len(w)) \in Seq(Unit)
    /\ Len(a \o SubSeq(w, 1, n)) = Len(a) + n
    /\ (a \o SubSeq(w, 1, n)) \o SubSeq(w, n + 1, Len(w)) = a \o w

\* A read moves the front of the wire to the end of the buffer.
LEMMA ReadMoves ==
    ASSUME NEW a \in Seq(Unit), NEW w \in Seq(Unit), NEW n \in 1..Len(w)
    PROVE  Moves(a, w, n)
<1>1. PICK x : x = SubSeq(w, 1, n)
    BY Zenon
<1>2. PICK y : y = SubSeq(w, n + 1, Len(w))
    BY Zenon
<1>3. Len(a) \in Nat /\ Len(w) \in Nat /\ n \in Nat /\ n <= Len(w)
    OBVIOUS
<1>4. x \in Seq(Unit) /\ Len(x) = n /\ \A i \in 1..n : x[i] = w[i]
    BY <1>1, <1>3, PartFacts
<1>5. y \in Seq(Unit) /\ Len(y) = Len(w) - n /\ \A i \in 1 .. Len(w) - n : y[i] = w[n + i]
    BY <1>2, <1>3, PartFacts
<1>6. x \o y = w
    <2>1. /\ x \o y \in Seq(Unit) /\ Len(x \o y) = Len(x) + Len(y)
          /\ \A i \in 1 .. Len(x) + Len(y) : (x \o y)[i] = IF i <= Len(x) THEN x[i] ELSE y[i - Len(x)]
        BY <1>4, <1>5, ConcatFacts, Zenon
    <2>2. Len(x) + Len(y) = Len(w)
        BY <1>3, <1>4, <1>5
    <2>3. ASSUME NEW i \in 1..Len(w) PROVE (x \o y)[i] = w[i]
        <3>1. CASE i <= n
            BY <1>3, <1>4, <2>1, <2>2, <3>1
        <3>2. CASE ~(i <= n)
            <4>1. i - n \in 1 .. Len(w) - n /\ n + (i - n) = i
                BY <1>3, <3>2
            <4> QED
                BY <1>4, <1>5, <2>1, <2>2, <3>2, <4>1, Zenon
        <3> QED
            BY <3>1, <3>2, Zenon
    <2> QED
        BY <2>1, <2>2, <2>3, SameElements, Zenon
<1>7. (a \o x) \o y = a \o w
    <2>1. x \in Seq(Unit) /\ y \in Seq(Unit)
        BY <1>4, <1>5
    <2>2. (a \o x) \o y = a \o (x \o y)
        BY <2>1
    <2> QED
        BY <1>6, <2>2, Zenon
<1>8. a \o x \in Seq(Unit) /\ Len(a \o x) = Len(a) + Len(x)
    BY <1>4, ConcatFacts, Zenon
<1> QED
    BY <1>1, <1>2, <1>4, <1>5, <1>7, <1>8, Zenon DEF Moves

\* Taking k units from the front of the buffer takes them from the stream.
LEMMA TakeFront ==
    ASSUME NEW S, NEW a \in Seq(S), NEW w \in Seq(S), NEW k \in 0..Len(a)
    PROVE  /\ SubSeq(a, k + 1, Len(a)) \in Seq(S) /\ Len(SubSeq(a, k + 1, Len(a))) = Len(a) - k
           /\ Len(SubSeq(a, k + 1, Len(a)) \o w) = Len(a \o w) - k
           /\ \A i \in 1 .. Len(a \o w) - k : (SubSeq(a, k + 1, Len(a)) \o w)[i] = (a \o w)[i + k]
<1>1. PICK x : x = SubSeq(a, k + 1, Len(a))
    BY Zenon
<1>2. PICK p \in Nat : p = Len(a)
    OBVIOUS
<1>3. PICK q \in Nat : q = Len(w)
    OBVIOUS
<1>4. k \in Nat /\ k <= p
    BY <1>2
<1>5. x \in Seq(S) /\ Len(x) = p - k /\ \A i \in 1 .. p - k : x[i] = a[k + i]
    BY <1>1, <1>2, <1>4, PartFacts, SMTT(20), Z3T(20)
<1>6. Len(x \o w) = Len(x) + Len(w)
      /\ \A i \in 1 .. Len(x) + Len(w) : (x \o w)[i] = IF i <= Len(x) THEN x[i] ELSE w[i - Len(x)]
    BY <1>5, ConcatFacts, Zenon
<1>7. Len(x \o w) = p - k + q
      /\ \A i \in 1 .. p - k + q : (x \o w)[i] = IF i <= p - k THEN x[i] ELSE w[i - (p - k)]
    BY <1>3, <1>5, <1>6, SMTT(20)
<1>8. Len(a \o w) = Len(a) + Len(w)
      /\ \A i \in 1 .. Len(a) + Len(w) : (a \o w)[i] = IF i <= Len(a) THEN a[i] ELSE w[i - Len(a)]
    BY ConcatFacts
<1>9. Len(a \o w) = p + q
      /\ \A i \in 1 .. p + q : (a \o w)[i] = IF i <= p THEN a[i] ELSE w[i - p]
    BY <1>2, <1>3, <1>8
<1>10. ASSUME NEW i \in 1 .. p + q - k PROVE (x \o w)[i] = (a \o w)[i + k]
    <2>1. i + k \in 1 .. p + q /\ i \in 1 .. p - k + q
        BY <1>4
    <2>2. CASE i <= p - k
        <3>1. i \in 1 .. p - k /\ i + k <= p /\ k + i = i + k
            BY <1>4, <2>2
        <3> QED
            BY <1>5, <1>7, <1>9, <2>1, <2>2, <3>1, Zenon
    <2>3. CASE ~(i <= p - k)
        <3>1. PICK j : j = i + k
            BY Zenon
        <3>2. j \in 1 .. p + q /\ ~(j <= p) /\ i - (p - k) = j - p
            BY <1>4, <2>1, <2>3, <3>1
        <3>3. (x \o w)[i] = w[i - (p - k)]
            BY <1>7, <2>1, <2>3, Zenon
        <3>4. (a \o w)[j] = w[j - p]
            BY <1>9, <3>2, Zenon
        <3> QED
            BY <3>1, <3>2, <3>3, <3>4, Zenon
    <2> QED
        BY <2>2, <2>3, Zenon
<1> QED
    <2>1. Len(x) = Len(a) - k /\ Len(x \o w) = Len(a \o w) - k
        BY <1>2, <1>4, <1>5, <1>7, <1>9
    <2>2. 1 .. Len(a \o w) - k = 1 .. p + q - k
        BY <1>9
    <2> QED
        BY <1>1, <1>5, <1>10, <2>1, <2>2, Zenon

Appends(a, w, u) ==
    /\ w \o u \in Seq(Unit) /\ Len(a \o (w \o u)) = Len(a \o w) + Len(u)
    /\ \A i \in 1..Len(a \o w) : (a \o (w \o u))[i] = (a \o w)[i]
    /\ \A j \in 1..Len(u) : (a \o (w \o u))[Len(a \o w) + j] = u[j]

\* What the client sends goes to the end of the stream.
LEMMA SendAppends ==
    ASSUME NEW a \in Seq(Unit), NEW w \in Seq(Unit), NEW u \in Seq(Unit)
    PROVE  Appends(a, w, u)
<1>1. (a \o w) \o u = a \o (w \o u)
    BY ConcatAssociates
<1>2. a \o w \in Seq(Unit) /\ w \o u \in Seq(Unit) /\ Len(a \o w) \in Nat /\ Len(u) \in Nat
    OBVIOUS
<1>3. PICK s : s = a \o w
    BY Zenon
<1>4. s \in Seq(Unit) /\ Len(s) \in Nat
    BY <1>2, <1>3
<1>5. /\ Len(s \o u) = Len(s) + Len(u)
      /\ \A i \in 1 .. Len(s) + Len(u) : (s \o u)[i] = IF i <= Len(s) THEN s[i] ELSE u[i - Len(s)]
    BY <1>4, ConcatFacts
<1>6. \A j \in 1..Len(u) : Len(s) + j \in 1 .. Len(s) + Len(u) /\ ~(Len(s) + j <= Len(s)) /\ Len(s) + j - Len(s) = j
    BY <1>2, <1>4
<1>7. \A j \in 1..Len(u) : (s \o u)[Len(s) + j] = u[j]
    BY <1>5, <1>6
<1>8. \A i \in 1..Len(s) : (s \o u)[i] = s[i]
    BY <1>2, <1>4, <1>5
<1> QED
    BY <1>1, <1>2, <1>3, <1>5, <1>7, <1>8, Zenon DEF Appends

\* The kinds of units are distinct.
LEMMA UnitKinds ==
    /\ Frag # Byte /\ Frag \notin Message /\ Byte \notin Message /\ Frag \in Unit /\ Byte \in Unit
    /\ \A u \in Unit : u # Byte /\ u # Frag => u \in Message
    /\ \A m \in Message : m \in Unit /\ (m.type \in {"publish", "delete", "data"} => m.sid \in StreamID)
<1>1. \A m \in Message : m.type # "frag" /\ m.type # "byte"
    BY DEF Message
<1>2. \A m \in Message : m.type \in {"publish", "delete", "data"} => m.sid \in StreamID
    BY DEF Message
<1> QED
    BY <1>1, <1>2 DEF Frag, Byte, Unit

\* Odd and even alternate.
LEMMA Parity == ~Odd(0) /\ \A n \in Nat : (Odd(n + 1) <=> ~Odd(n)) /\ (Odd(n + 2) <=> Odd(n))
BY DEF Odd

\* With the handshake taken from it, or a message, the stream is laid out as before.
LEMMA LaidTail ==
    ASSUME NEW s, NEW t, NEW off \in Nat, NEW k \in Nat, Laid(s, off), Len(s) \in Nat, k <= Len(s),
           Len(t) = Len(s) - k, \A i \in 1 .. Len(s) - k : t[i] = s[i + k],
           k = off \/ (off = 0 /\ k = 2)
    PROVE  Laid(t, 0)
<1>0. Len(t) \in Nat
    OBVIOUS
<1> SUFFICES ASSUME NEW i \in 1..Len(t) PROVE t[i] # Byte /\ (Odd(i) <=> t[i] = Frag)
    BY DEF Laid
<1>1. i + k \in 1..Len(s) /\ i + k > off /\ t[i] = s[i + k]
    OBVIOUS
<1>2. s[i + k] # Byte /\ (Odd(i + k - off) <=> s[i + k] = Frag)
    BY <1>1 DEF Laid
<1>3. Odd(i + k - off) <=> Odd(i)
    <2>1. CASE k = off
        <3>1. i + k - off = i
            BY <2>1
        <3> QED
            BY <3>1
    <2>2. CASE off = 0 /\ k = 2
        <3>1. i + k - off = i + 2 /\ i \in Nat
            BY <2>2
        <3> QED
            BY <3>1, Parity
    <2> QED
        BY <2>1, <2>2
<1> QED
    BY <1>1, <1>2, <1>3

\* With the handshake's second part or a message at its end, it is laid out as before.
LEMMA LaidMore ==
    ASSUME NEW s, NEW t, NEW off \in Nat, NEW u, Laid(s, off), Len(s) \in Nat, Len(u) \in Nat,
           Len(t) = Len(s) + Len(u), \A i \in 1..Len(s) : t[i] = s[i], \A i \in 1..Len(u) : t[Len(s) + i] = u[i],
           \/ Len(s) = 0 /\ Len(u) = off /\ \A i \in 1..off : u[i] = Byte
           \/ /\ Len(s) >= off /\ ~Odd(Len(s) - off) /\ Len(u) = 2
              /\ u[1] = Frag /\ u[2] # Frag /\ u[2] # Byte
    PROVE  Laid(t, off) /\ Len(t) >= off /\ ~Odd(Len(t) - off)
<1>1. CASE Len(s) = 0 /\ Len(u) = off /\ \A i \in 1..off : u[i] = Byte
    <2>1. \A i \in 1..off : t[i] = Byte
        BY <1>1
    <2> QED
        BY <1>1, <2>1, Parity DEF Laid
<1>2. CASE /\ Len(s) >= off /\ ~Odd(Len(s) - off) /\ Len(u) = 2
           /\ u[1] = Frag /\ u[2] # Frag /\ u[2] # Byte
    <2>1. PICK n \in Nat : n = Len(s)
        OBVIOUS
    <2>2. Len(t) = n + 2 /\ t[n + 1] = Frag /\ t[n + 2] # Frag /\ t[n + 2] # Byte
        BY <1>2, <2>1
    <2>3. Odd(n + 1 - off) /\ ~Odd(n + 2 - off) /\ n >= off
        <3>1. n - off \in Nat /\ n + 1 - off = (n - off) + 1 /\ n + 2 - off = (n - off) + 2
            BY <1>2, <2>1
        <3> QED
            BY <1>2, <2>1, <3>1, Parity
    <2>4. ASSUME NEW i \in 1..Len(t)
          PROVE  IF i <= off THEN t[i] = Byte ELSE t[i] # Byte /\ (Odd(i - off) <=> t[i] = Frag)
        <3>1. CASE i <= n
            BY <2>1, <3>1 DEF Laid
        <3>2. CASE i = n + 1
            BY <2>2, <2>3, <3>2, UnitKinds
        <3>3. CASE i = n + 2
            <4>1. ~(i <= off)
                BY <2>3, <3>3
            <4>2. ~Odd(i - off) /\ t[i] # Frag /\ t[i] # Byte
                BY <2>2, <2>3, <3>3
            <4> QED
                BY <4>1, <4>2, Zenon
        <3> QED
            BY <2>2, <3>1, <3>2, <3>3
    <2> QED
        BY <2>2, <2>3, <2>4 DEF Laid
<1> QED
    BY <1>1, <1>2

\* A new session satisfies the invariant.
LEMMA FramingInit == Init => FramingInv
<1> SUFFICES ASSUME Init PROVE FramingInv
    OBVIOUS
<1>1. wire = <<>> /\ read_buf = <<>> /\ write_buf = <<>> /\ data = <<>> /\ got = {}
    BY DEF Init
<1>2. stream = <<>> /\ Len(stream) = 0
    BY <1>1 DEF stream
<1>3. SessionTypeOK
    <2>1. wire \in Seq(Unit) /\ read_buf \in Seq(Unit) /\ write_buf \in Seq(Reply) /\ data \in Seq(StreamID)
        BY <1>1
    <2> QED
        BY <1>1, <2>1, Zenon DEF Init, SessionTypeOK
<1> QED
    BY <1>1, <1>2, <1>3, SessionAssumption DEF Init, FramingInv

\* What the invariant says of the handshake and of replies.
LEMMA FramingSays == FramingInv => RepliesBeforeRead /\ HandshakeKeepsFraming
<1> SUFFICES ASSUME FramingInv PROVE RepliesBeforeRead /\ HandshakeKeepsFraming
    OBVIOUS
<1>1. RepliesBeforeRead
    BY DEF FramingInv, RepliesBeforeRead
<1>2. ASSUME state = "Finish"
      PROVE  /\ Byte \notin Range(read_buf \o wire)
             /\ \A i \in DOMAIN (read_buf \o wire) : i % 2 = 1 <=> (read_buf \o wire)[i] = Frag
    <2>1. PICK s : s = read_buf \o wire
        BY Zenon
    <2>2. s \in Seq(Unit)
        BY <2>1, ConcatFacts DEF FramingInv, SessionTypeOK
    <2>3. Laid(s, 0)
        BY <1>2, <2>1 DEF FramingInv, stream, Past
    <2>4. \A i \in 1..Len(s) : s[i] # Byte /\ (Odd(i) <=> s[i] = Frag)
        BY <2>3 DEF Laid
    <2>5. DOMAIN s = 1..Len(s)
        BY <2>2
    <2>6. Byte \notin Range(s)
        BY <2>4, <2>5 DEF Range
    <2>7. \A i \in DOMAIN s : i % 2 = 1 <=> s[i] = Frag
        BY <2>4, <2>5, Zenon DEF Odd
    <2> QED
        BY <2>1, <2>6, <2>7, Zenon
<1> QED
    BY <1>1, <1>2 DEF HandshakeKeepsFraming

\* A step that touches neither the stream nor the handshake.
LEMMA FramingQuiet ==
    ASSUME FramingInv, SessionTypeOK',
           UNCHANGED <<stream, peer, step, bytes_read, write_buf, got, pc, state, skip_read>>,
           Len(read_buf') = Len(read_buf)
    PROVE  FramingInv'
<1>1. Laid(stream, Past)' = Laid(stream, Past)
    BY DEF Laid, Past
<1>2. Past' = Past
    BY DEF Past
<1> QED
    BY <1>1, <1>2 DEF FramingInv

\* A step of a session whose handshake is over.
LEMMA FramingFinish ==
    ASSUME FramingInv, SessionTypeOK', state = "Finish", state' = state, step' = step, peer' = peer,
           pc' \notin {"hs_read", "handshake", "hs_flush"},
           pc' = "ready" /\ ~skip_read' => write_buf' = <<>>,
           \/ stream' = stream
           \/ Laid(stream', 0) /\ (peer # "reset" => ~Odd(Len(stream')))
    PROVE  FramingInv'
<1>1. Past = 0 /\ Past' = 0
    BY DEF Past
<1>2. Len(stream') \in Nat /\ Len(stream) \in Nat
    BY ConcatFacts DEF FramingInv, SessionTypeOK, stream
<1>3. Laid(stream, 0) /\ (peer # "reset" => ~Odd(Len(stream) - 0))
    BY <1>1, <1>2 DEF FramingInv
<1>4. Laid(stream', 0) /\ (peer # "reset" => ~Odd(Len(stream') - 0))
    <2>1. CASE stream' = stream
        BY <1>3, <2>1
    <2>2. CASE Laid(stream', 0) /\ (peer # "reset" => ~Odd(Len(stream')))
        <3>1. Len(stream') - 0 = Len(stream')
            BY <1>2
        <3> QED
            BY <2>2, <3>1
    <2> QED
        BY <2>1, <2>2
<1>5. Laid(stream, Past)'
    BY <1>1, <1>4 DEF Laid
<1>6. peer' # "reset" => Len(stream') >= Past' /\ ~Odd(Len(stream') - Past')
    BY <1>1, <1>2, <1>4
<1> QED
    BY <1>5, <1>6 DEF FramingInv

\* run is over: nothing of the invariant but the place of the session changes.
LEMMA FramingOver ==
    ASSUME FramingInv, SessionTypeOK', UNCHANGED <<stream, peer, step, got, state>>, pc' = "end"
    PROVE  FramingInv'
<1>1. Laid(stream, Past)' = Laid(stream, Past) /\ Past' = Past
    BY DEF Laid, Past
<1> QED
    BY <1>1 DEF FramingInv

\* The client sends the next part of its handshake, or a message.
LEMMA FramingClientSend == FramingInv /\ ClientSend => FramingInv'
<1> SUFFICES ASSUME FramingInv, ClientSend PROVE FramingInv'
    OBVIOUS
<1>1. /\ peer = "open" /\ peer' = peer
      /\ UNCHANGED <<read_buf, bytes_read, write_buf, got, pc, state, skip_read, current, result,
                     is_publishing, republished, data>>
    BY DEF ClientSend, io, control, session, app
<1>2. wire \in Seq(Unit) /\ read_buf \in Seq(Unit)
    BY DEF FramingInv, SessionTypeOK
<1>3. Past' = Past /\ Past \in Nat /\ HS \in Nat
    BY <1>1, SessionAssumption DEF Past
<1>4. ASSUME NEW n \in Nat PROVE Bytes(n) \in Seq(Unit) /\ Len(Bytes(n)) = n /\ \A i \in 1..n : Bytes(n)[i] = Byte
    BY UnitKinds DEF Bytes
<1>5. Len(stream) \in Nat
    BY <1>2, ConcatFacts DEF stream
<1>6. CASE step = "c0c1" /\ step' = "c2" /\ wire' = wire \o Bytes(HS + 1)
    <2>1. state = "ReadC0C1" /\ stream = <<>>
        BY <1>6 DEF FramingInv, SessionTypeOK
    <2>2. HS + 1 \in Nat
        BY <1>3
    <2>3. wire' \in Seq(Unit) /\ Len(stream') = Len(stream) + (HS + 1)
        <3>1. PICK u : u = Bytes(HS + 1)
            BY Zenon
        <3>2. u \in Seq(Unit) /\ Len(u) = HS + 1
            BY <1>4, <2>2, <3>1
        <3>3. Appends(read_buf, wire, u)
            BY <1>2, <3>2, SendAppends, Zenon
        <3>4. wire' = wire \o u /\ stream' = read_buf \o (wire \o u) /\ stream = read_buf \o wire
            BY <1>1, <1>6, <3>1, Zenon DEF stream
        <3> QED
            BY <3>2, <3>3, <3>4, Zenon DEF Appends
    <2>4. SessionTypeOK'
        BY <1>1, <1>6, <2>3 DEF FramingInv, SessionTypeOK
    <2>5. Len(stream') <= HS + 1
        BY <2>1, <2>2, <2>3
    <2> QED
        BY <1>1, <1>6, <2>1, <2>4, <2>5 DEF FramingInv
<1>7. CASE step = "c2" /\ "s0s1s2" \in got /\ step' = "messages" /\ wire' = wire \o Bytes(HS)
    <2>1. state = "ReadC2" /\ stream = <<>>
        BY <1>7 DEF FramingInv, SessionTypeOK
    <2>2. /\ wire' \in Seq(Unit) /\ Len(stream') = Len(stream) + Len(Bytes(HS))
          /\ \A i \in 1..Len(stream) : stream'[i] = stream[i]
          /\ \A i \in 1..Len(Bytes(HS)) : stream'[Len(stream) + i] = Bytes(HS)[i]
        <3>1. PICK u : u = Bytes(HS)
            BY Zenon
        <3>2. Appends(read_buf, wire, u)
            BY <1>2, <1>3, <1>4, <3>1, SendAppends
        <3>3. stream' = read_buf \o (wire \o u) /\ wire' = wire \o u /\ stream = read_buf \o wire
            BY <1>1, <1>7, <3>1, Zenon DEF stream
        <3> QED
            BY <3>1, <3>2, <3>3, Zenon DEF Appends
    <2>3. SessionTypeOK'
        BY <1>1, <1>7, <2>2 DEF FramingInv, SessionTypeOK
    <2>4. Laid(stream, HS) /\ Past = HS /\ Len(stream) = 0
        BY <2>1 DEF Laid, Past
    <2>5. Len(Bytes(HS)) = HS /\ \A i \in 1..HS : Bytes(HS)[i] = Byte
        BY <1>3, <1>4
    <2>6. Laid(stream', HS) /\ Len(stream') >= HS /\ ~Odd(Len(stream') - HS)
        BY <1>3, <2>2, <2>4, <2>5, LaidMore
    <2>7. Laid(stream, Past)'
        BY <1>3, <2>4, <2>6 DEF Laid
    <2> QED
        BY <1>1, <1>3, <1>7, <2>1, <2>3, <2>4, <2>6, <2>7 DEF FramingInv
<1>8. CASE step = "messages" /\ step' = step /\ \E m \in Sent : wire' = wire \o <<Frag, m>>
    <2>1. PICK m \in Sent : wire' = wire \o <<Frag, m>>
        BY <1>8, Zenon
    <2>0. PICK u : u = <<Frag, m>>
        BY Zenon
    <2>2. m \in Message /\ u \in Seq(Unit) /\ Len(u) = 2 /\ u[1] = Frag /\ u[2] # Frag /\ u[2] # Byte
        BY <2>0, SessionAssumption, UnitKinds
    <2>3. state # "ReadC0C1" /\ Laid(stream, Past) /\ Len(stream) >= Past /\ ~Odd(Len(stream) - Past)
        BY <1>1, <1>8 DEF FramingInv
    <2>4. /\ wire' \in Seq(Unit) /\ Len(stream') = Len(stream) + Len(u)
          /\ \A i \in 1..Len(stream) : stream'[i] = stream[i]
          /\ \A i \in 1..Len(u) : stream'[Len(stream) + i] = u[i]
        <3>1. stream' = read_buf \o (wire \o u) /\ wire' = wire \o u /\ stream = read_buf \o wire
            BY <1>1, <2>1, <2>0, Zenon DEF stream
        <3>2. Appends(read_buf, wire, u)
            BY <1>2, <2>2, SendAppends, Zenon
        <3> QED
            BY <3>1, <3>2, Zenon DEF Appends
    <2>5. SessionTypeOK'
        BY <1>1, <1>8, <2>4 DEF FramingInv, SessionTypeOK
    <2>6. Laid(stream', Past) /\ Len(stream') >= Past /\ ~Odd(Len(stream') - Past)
        <3>1. PICK s : s = stream
            BY Zenon
        <3>2. PICK t : t = stream'
            BY Zenon
        <3>3. PICK off : off = Past
            BY Zenon
        <3>4. /\ off \in Nat /\ Laid(s, off) /\ Len(s) \in Nat /\ Len(u) \in Nat /\ Len(t) = Len(s) + Len(u)
              /\ \A i \in 1..Len(s) : t[i] = s[i]
              /\ \A i \in 1..Len(u) : t[Len(s) + i] = u[i]
            BY <1>3, <1>5, <2>2, <2>3, <2>4, <3>1, <3>2, <3>3
        <3>5. Len(s) >= off /\ ~Odd(Len(s) - off)
            BY <2>3, <3>1, <3>3
        <3>6. Laid(t, off) /\ Len(t) >= off /\ ~Odd(Len(t) - off)
            BY <2>2, <3>4, <3>5, LaidMore, Zenon
        <3> QED
            BY <3>2, <3>3, <3>6, Zenon
    <2>7. Laid(stream, Past)'
        BY <1>3, <2>6 DEF Laid
    <2> QED
        BY <1>1, <1>3, <1>8, <2>3, <2>5, <2>6, <2>7 DEF FramingInv
<1> QED
    BY <1>6, <1>7, <1>8, Zenon DEF ClientSend

\* The client goes away, and with a reset what was in flight.
LEMMA FramingClientClose == FramingInv /\ ClientClose => FramingInv'
<1> SUFFICES ASSUME FramingInv, ClientClose PROVE FramingInv'
    OBVIOUS
<1>1. /\ UNCHANGED <<read_buf, bytes_read, write_buf, got, pc, state, skip_read, current, result,
                     is_publishing, republished, data, step>>
      /\ \/ peer' = "eof" /\ wire' = wire
         \/ peer' = "reset" /\ wire' = <<>>
      /\ peer = "open"
    BY DEF ClientClose, io, control, session, app
<1>2. wire \in Seq(Unit) /\ read_buf \in Seq(Unit) /\ <<>> \in Seq(Unit)
    BY DEF FramingInv, SessionTypeOK
<1>3. SessionTypeOK'
    <2>1. wire' \in Seq(Unit) /\ peer' \in {"open", "eof", "reset"}
        BY <1>1, <1>2, Zenon
    <2> QED
        BY <1>1, <2>1 DEF FramingInv, SessionTypeOK
<1>4. Past' = Past
    BY <1>1 DEF Past
<1>5. CASE peer' = "eof" /\ wire' = wire
    <2>1. stream' = stream
        BY <1>1, <1>5 DEF stream
    <2>2. Laid(stream, Past)' = Laid(stream, Past)
        BY <1>4, <2>1 DEF Laid
    <2> QED
        BY <1>1, <1>3, <1>4, <1>5, <2>1, <2>2 DEF FramingInv
<1>6. CASE peer' = "reset" /\ wire' = <<>>
    <2>1. stream' = read_buf
        BY <1>1, <1>2, <1>6 DEF stream
    <2>2. Len(stream') <= Len(stream) /\ (stream = <<>> => stream' = <<>>)
          /\ \A i \in 1..Len(stream') : i \in 1..Len(stream) /\ stream'[i] = stream[i]
        BY <1>2, <2>1 DEF stream
    <2>3. Len(stream) \in Nat /\ Len(stream') \in Nat /\ HS \in Nat
        BY <1>2, <2>1, ConcatFacts, SessionAssumption DEF stream
    <2>4. Laid(stream, Past) => Laid(stream, Past)'
        BY <1>4, <2>2 DEF Laid
    <2> QED
        BY <1>1, <1>3, <1>4, <1>6, <2>2, <2>3, <2>4 DEF FramingInv
<1> QED
    BY <1>1, <1>5, <1>6

\* A read of the handshake.
LEMMA FramingHandshakeRead == FramingInv /\ HandshakeRead => FramingInv'
<1> SUFFICES ASSUME FramingInv, HandshakeRead PROVE FramingInv'
    OBVIOUS
<1>1. pc = "hs_read" /\ UNCHANGED <<state, skip_read, current, peer, step, write_buf, got,
                                    is_publishing, republished, data>>
    BY DEF HandshakeRead, Receive, Pass, Goto, End, client, io, session, app
<1>2. wire \in Seq(Unit) /\ read_buf \in Seq(Unit) /\ bytes_read \in Nat /\ HS \in Nat
    BY SessionAssumption DEF FramingInv, SessionTypeOK
<1>3. CASE \E n \in 1..Len(wire) :
             /\ Receive(n)
             /\ bytes_read' = bytes_read + n
             /\ Pass(IF bytes_read + n >= READ_SIZE THEN "handshake" ELSE "hs_read")
    <2>1. PICK n \in 1..Len(wire) :
             /\ read_buf' = read_buf \o SubSeq(wire, 1, n)
             /\ wire' = SubSeq(wire, n + 1, Len(wire))
             /\ bytes_read' = bytes_read + n
             /\ pc' = IF bytes_read + n >= READ_SIZE THEN "handshake" ELSE "hs_read"
             /\ result' = result
        BY <1>3, Zenon DEF Receive, Pass, Goto
    <2>2. /\ read_buf' \in Seq(Unit) /\ wire' \in Seq(Unit) /\ Len(read_buf') = Len(read_buf) + n
          /\ stream' = stream
        <3>1. Moves(read_buf, wire, n)
            BY <1>2, ReadMoves, Zenon
        <3> QED
            BY <2>1, <3>1, Zenon DEF Moves, stream
    <2>3. SessionTypeOK'
        BY <1>1, <1>2, <2>1, <2>2 DEF FramingInv, SessionTypeOK
    <2>4. bytes_read' = Len(read_buf') /\ (pc' = "handshake" => bytes_read' > HS)
        <3>1. bytes_read = Len(read_buf)
            BY <1>1 DEF FramingInv
        <3>2. pc' = "handshake" => bytes_read + n >= HS + 1
            BY <2>1 DEF READ_SIZE
        <3>3. n \in Nat
            BY <1>2
        <3>4. bytes_read' = Len(read_buf') /\ bytes_read' = bytes_read + n
            BY <2>1, <2>2, <3>1, Zenon
        <3>5. pc' = "handshake" => bytes_read + n > HS
            BY <1>2, <3>2, <3>3
        <3> QED
            BY <3>4, <3>5, Zenon
    <2>5. Laid(stream, Past)' = Laid(stream, Past) /\ Past' = Past
        BY <1>1, <2>2 DEF Laid, Past
    <2> QED
        BY <1>1, <2>1, <2>2, <2>3, <2>4, <2>5 DEF FramingInv
<1>4. CASE End("err") /\ UNCHANGED <<client, io, session, app>>
    <2>1. UNCHANGED <<stream, peer, step, got, state, wire, read_buf, bytes_read>> /\ pc' = "end" /\ result' = "err"
        BY <1>4 DEF End, client, io, stream
    <2>2. SessionTypeOK'
        BY <1>1, <2>1 DEF FramingInv, SessionTypeOK
    <2> QED
        BY <2>1, <2>2, FramingOver
<1> QED
    BY <1>3, <1>4 DEF HandshakeRead

\* A round of the handshake.
LEMMA FramingHandshake == FramingInv /\ Handshake => FramingInv'
<1> SUFFICES ASSUME FramingInv, Handshake PROVE FramingInv'
    OBVIOUS
<1>1. /\ pc = "handshake" /\ bytes_read' = 0
      /\ UNCHANGED <<wire, peer, step, got, current, result, is_publishing, republished, data>>
    BY DEF Handshake, client, session, app
<1>2. /\ wire \in Seq(Unit) /\ read_buf \in Seq(Unit) /\ write_buf \in Seq(Reply) /\ <<>> \in Seq(Unit)
      /\ HS \in Nat \ {0} /\ Len(read_buf) \in Nat /\ Len(read_buf) > HS /\ Len(wire) \in Nat
      /\ state \in {"ReadC0C1", "ReadC2"}
    BY <1>1, SessionAssumption DEF FramingInv, SessionTypeOK
<1>3. CASE state = "ReadC0C1"
    <2>1. handshake(state) = [state |-> "ReadC2", read |-> HS + 1, out |-> <<"s0s1s2">>]
        BY <1>3 DEF handshake
    <2>2. /\ state' = "ReadC2" /\ pc' = "hs_flush" /\ read_buf' = <<>>
          /\ write_buf' = write_buf \o <<"s0s1s2">> /\ skip_read' = skip_read
        BY <2>1 DEF Handshake
    <2>3. Len(read_buf) + Len(wire) <= HS + 1 /\ step = "c2" /\ stream # <<>>
        <3>1. Len(stream) = Len(read_buf) + Len(wire)
            BY <1>2, ConcatFacts DEF stream
        <3> QED
            BY <1>2, <1>3, <3>1 DEF FramingInv, SessionTypeOK
    <2>4. wire = <<>>
        BY <1>2, <2>3
    <2>5. stream' = <<>> /\ Len(stream') = 0
        BY <1>1, <2>2, <2>4 DEF stream
    <2>6. write_buf' \in Seq(Reply)
        BY <1>2, <2>2 DEF Reply
    <2>7. SessionTypeOK'
        BY <1>1, <1>2, <2>2, <2>6 DEF FramingInv, SessionTypeOK
    <2>8. Laid(stream, Past)'
        BY <2>5 DEF Laid
    <2> QED
        BY <1>1, <2>2, <2>3, <2>5, <2>7, <2>8 DEF FramingInv
<1>4. CASE state = "ReadC2"
    <2>1. handshake(state) = [state |-> "Finish", read |-> HS, out |-> <<>>]
        BY <1>4 DEF handshake
    <2>2. /\ state' = "Finish" /\ pc' = "ready" /\ read_buf' = SubSeq(read_buf, HS + 1, Len(read_buf))
          /\ skip_read' = (SubSeq(read_buf, HS + 1, Len(read_buf)) # <<>>)
          /\ write_buf' = write_buf \o <<>> \o <<"set_chunk_size">>
        BY <2>1 DEF Handshake
    <2>3. HS \in 0..Len(read_buf)
        BY <1>2
    <2>4. /\ read_buf' \in Seq(Unit) /\ Len(read_buf') = Len(read_buf) - HS
          /\ Len(stream') = Len(stream) - HS
          /\ \A i \in 1 .. Len(stream) - HS : stream'[i] = stream[i + HS]
        BY <1>1, <1>2, <2>2, <2>3, TakeFront, SMTT(20), Z3T(20) DEF stream
    <2>5. Len(stream) = Len(read_buf) + Len(wire)
        BY <1>2, ConcatFacts DEF stream
    <2>6. step = "messages"
        BY <1>2, <1>4, <2>5 DEF FramingInv, SessionTypeOK
    <2>7. Laid(stream', 0)
        <3>1. PICK s : s = stream
            BY Zenon
        <3>2. PICK t : t = stream'
            BY Zenon
        <3>3. /\ Laid(s, HS) /\ Len(s) \in Nat /\ HS \in Nat /\ HS <= Len(s) /\ Len(t) = Len(s) - HS
              /\ \A i \in 1 .. Len(s) - HS : t[i] = s[i + HS]
            BY <1>2, <1>4, <2>4, <2>5, <3>1, <3>2, SMTT(20), Z3T(20) DEF FramingInv, Past
        <3>4. Laid(t, 0)
            BY <3>3, LaidTail
        <3> QED
            BY <3>2, <3>4, Zenon
    <2>8. write_buf' \in Seq(Reply)
        BY <1>2, <2>2 DEF Reply
    <2>9. read_buf' # <<>>
        BY <1>2, <2>4
    <2>10. SessionTypeOK'
        BY <1>1, <1>2, <2>2, <2>4, <2>8 DEF FramingInv, SessionTypeOK
    <2>11. peer # "reset" => Len(stream') >= 0 /\ ~Odd(Len(stream') - 0)
        <3>1. peer # "reset" => Len(stream) >= HS /\ ~Odd(Len(stream) - HS)
            BY <1>4, <2>6 DEF FramingInv, Past
        <3>2. Len(stream) \in Nat /\ HS \in Nat
            BY <1>2, <2>5
        <3>3. peer # "reset" => Len(stream') - 0 = Len(stream) - HS /\ Len(stream') >= 0
            BY <2>4, <3>1, <3>2
        <3> QED
            BY <3>1, <3>3
    <2>12. Past' = 0 /\ Laid(stream, Past)'
        BY <2>2, <2>7 DEF Past, Laid
    <2> QED
        BY <1>1, <2>2, <2>6, <2>9, <2>10, <2>11, <2>12, Zenon DEF FramingInv
<1> QED
    BY <1>2, <1>3, <1>4

\* flush: what was queued has been sent.
LEMMA FramingFlush == FramingInv /\ Flush => FramingInv'
<1> SUFFICES ASSUME FramingInv, Flush PROVE FramingInv'
    OBVIOUS
<1>1. /\ pc \in {"hs_flush", "flush"}
      /\ UNCHANGED <<wire, peer, step, read_buf, bytes_read, state, skip_read, current,
                     is_publishing, republished, data>>
    BY DEF Flush, Pass, Goto, End, client, io, session, app
<1>2. stream' = stream /\ <<>> \in Seq(Reply)
    BY <1>1 DEF stream
<1>3. CASE got' = got \cup Range(write_buf) /\ write_buf' = <<>> /\ Pass(IF pc = "flush" THEN "ready" ELSE "hs_read")
    <2>1. pc' = (IF pc = "flush" THEN "ready" ELSE "hs_read") /\ result' = result
        BY <1>3 DEF Pass, Goto
    <2>2. Range(write_buf) \subseteq Reply
        BY DEF FramingInv, SessionTypeOK, Range
    <2>3. SessionTypeOK'
        BY <1>1, <1>2, <1>3, <2>1, <2>2 DEF FramingInv, SessionTypeOK
    <2>4. CASE pc = "flush"
        <3>1. state = "Finish"
            BY <2>4 DEF FramingInv, SessionTypeOK
        <3> QED
            BY <1>1, <1>2, <1>3, <2>1, <2>3, <2>4, <3>1, FramingFinish
    <2>5. CASE pc = "hs_flush"
        <3>1. state = "ReadC2" /\ pc' = "hs_read"
            BY <2>1, <2>5 DEF FramingInv, SessionTypeOK
        <3>2. Laid(stream, Past)' = Laid(stream, Past) /\ Past' = Past
            BY <1>1, <1>2 DEF Laid, Past
        <3> QED
            BY <1>1, <1>2, <1>3, <2>3, <2>5, <3>1, <3>2 DEF FramingInv
    <2> QED
        BY <1>1, <2>4, <2>5
<1>4. CASE End("err") /\ UNCHANGED <<client, io, session, app>>
    <2>1. pc' = "end" /\ result' = "err" /\ UNCHANGED <<got, write_buf>>
        BY <1>4 DEF End, io
    <2>2. SessionTypeOK'
        BY <1>1, <2>1 DEF FramingInv, SessionTypeOK
    <2> QED
        BY <1>1, <1>2, <2>1, <2>2, FramingOver
<1> QED
    BY <1>3, <1>4 DEF Flush

\* do_ready up to the parser, and the parser without a whole message.
LEMMA FramingReady == FramingInv /\ (Ready \/ ParseNone) => FramingInv'
<1> SUFFICES ASSUME FramingInv, Ready \/ ParseNone PROVE FramingInv'
    OBVIOUS
<1>1. /\ pc \in {"ready", "parse"} /\ state = "Finish"
      /\ UNCHANGED <<peer, step, bytes_read, write_buf, got, state, current, is_publishing, republished, data>>
    <2>1. /\ pc \in {"ready", "parse"}
          /\ UNCHANGED <<peer, step, bytes_read, write_buf, got, state, current, is_publishing, republished, data>>
        BY DEF Ready, ParseNone, Pass, Goto, End, Closed, Receive, client, io, session, app
    <2> QED
        BY <2>1 DEF FramingInv, SessionTypeOK
<1>2. wire \in Seq(Unit) /\ read_buf \in Seq(Unit)
    BY DEF FramingInv, SessionTypeOK
<1>3. CASE UNCHANGED <<client, io>> /\ pc' \in {"parse", "flush", "end"} /\ skip_read' \in BOOLEAN
           /\ result' \in {result, "true", "false", "err"}
    <2>1. UNCHANGED <<wire, read_buf, stream>>
        BY <1>3 DEF client, io, stream
    <2>2. SessionTypeOK'
        BY <1>1, <1>3, <2>1 DEF FramingInv, SessionTypeOK
    <2> QED
        BY <1>1, <1>3, <2>1, <2>2, FramingFinish
<1>4. CASE \E n \in 1..Len(wire) : Receive(n) /\ Pass("parse")
    <2>1. PICK n \in 1..Len(wire) :
             /\ read_buf' = read_buf \o SubSeq(wire, 1, n)
             /\ wire' = SubSeq(wire, n + 1, Len(wire))
             /\ pc' = "parse" /\ result' = result /\ skip_read' = skip_read
        BY <1>4, Zenon DEF Receive, Pass, Goto
    <2>2. Moves(read_buf, wire, n)
        BY <1>2, ReadMoves, Zenon
    <2>3. read_buf' \in Seq(Unit) /\ wire' \in Seq(Unit) /\ stream' = stream
        BY <2>1, <2>2, Zenon DEF Moves, stream
    <2>4. SessionTypeOK'
        BY <1>1, <2>1, <2>3 DEF FramingInv, SessionTypeOK
    <2> QED
        BY <1>1, <2>1, <2>3, <2>4, FramingFinish
<1>5. skip_read \in BOOLEAN
    BY DEF FramingInv, SessionTypeOK
<1> QED
    BY <1>3, <1>4, <1>5, Zenon DEF Ready, ParseNone, Pass, Goto, End, Closed

\* What one message does to the session, beyond the buffer it is taken from.
Processed ==
    /\ state' = state /\ pc' \in {"parse", "publish", "send", "end"} /\ skip_read' = skip_read
    /\ write_buf' \in Seq(Reply) /\ current' \in Message \cup {NoMsg}
    /\ result' \in {result, "err"} /\ is_publishing' \in BOOLEAN /\ republished' \in BOOLEAN
    /\ data' = data

\* What the handlers of a message have in common: they answer, and keep the
\* types.
LEMMA Processing ==
    ASSUME SessionTypeOK, NEW m \in Message,
           OnOther(m) \/ OnConnect(m) \/ OnCreateStream(m) \/ OnDeleteStream(m) \/ OnPublish(m) \/ OnData(m)
    PROVE  Processed
<1>1. /\ write_buf \in Seq(Reply) /\ current \in Message \cup {NoMsg}
      /\ is_publishing \in BOOLEAN /\ republished \in BOOLEAN
    BY DEF SessionTypeOK
<1>2. /\ \A r \in Reply : Append(write_buf, r) \in Seq(Reply)
      /\ write_buf \o <<"window", "connect">> \in Seq(Reply)
    BY <1>1 DEF Reply
<1>3. "window" \in Reply /\ "create" \in Reply /\ "delete" \in Reply
    BY DEF Reply
<1>4. CASE OnOther(m)
    BY <1>1, <1>4 DEF OnOther, Processed, End, Goto, session, app
<1>5. CASE OnConnect(m)
    BY <1>1, <1>2, <1>3, <1>5, Zenon DEF OnConnect, Processed, End, Goto, Queue, app
<1>6. CASE OnCreateStream(m)
    BY <1>1, <1>2, <1>3, <1>6 DEF OnCreateStream, Processed, Goto, Queue, session, app
<1>7. CASE OnDeleteStream(m)
    BY <1>1, <1>2, <1>3, <1>7 DEF OnDeleteStream, Processed, Goto, Queue, app
<1>8. CASE OnPublish(m)
    BY <1>1, <1>8 DEF OnPublish, Processed, End, session
<1>9. CASE OnData(m)
    BY <1>1, <1>9 DEF OnData, Processed, End, session, app
<1> QED
    BY <1>4, <1>5, <1>6, <1>7, <1>8, <1>9

\* A whole message is at the front of the buffer, and is a message.
LEMMA WholeMessage ==
    ASSUME FramingInv, pc = "parse", Whole
    PROVE  read_buf[2] \in Message /\ state = "Finish" /\ 2 \in 0..Len(read_buf)
<1>1. read_buf \in Seq(Unit) /\ wire \in Seq(Unit) /\ state = "Finish"
    BY DEF FramingInv, SessionTypeOK
<1>2. 2 \in 1..Len(read_buf) /\ 2 \in 0..Len(read_buf)
    BY <1>1 DEF Whole
<1>3. Laid(stream, 0)
    BY <1>1 DEF FramingInv, Past
<1>4. 2 \in 1..Len(stream) /\ stream[2] = read_buf[2]
    BY <1>1, <1>2 DEF stream
<1>5. ~(2 <= 0) /\ 2 - 0 = 2 /\ ~Odd(2)
    BY DEF Odd
<1>6. stream[2] # Byte /\ stream[2] # Frag
    BY <1>3, <1>4, <1>5 DEF Laid
<1>7. read_buf[2] \in Unit
    BY <1>1, <1>2
<1> QED
    BY <1>1, <1>2, <1>4, <1>6, <1>7, UnitKinds

\* parse_chunks takes one message from the buffer.
LEMMA FramingParse == FramingInv /\ Parse => FramingInv'
<1> SUFFICES ASSUME FramingInv, Parse PROVE FramingInv'
    OBVIOUS
<1>1. /\ pc = "parse" /\ Whole /\ read_buf' = SubSeq(read_buf, 3, Len(read_buf))
      /\ UNCHANGED <<wire, peer, step, bytes_read, got>>
    BY DEF Parse, client
<1>2. read_buf[2] \in Message /\ state = "Finish" /\ 2 \in 0..Len(read_buf)
    BY <1>1, WholeMessage
<1>3. Processed
    BY <1>2, Processing DEF Parse, FramingInv
<1>4. read_buf \in Seq(Unit) /\ wire \in Seq(Unit)
    BY DEF FramingInv, SessionTypeOK
<1>5. /\ read_buf' \in Seq(Unit) /\ Len(stream') = Len(stream) - 2
      /\ \A i \in 1 .. Len(stream) - 2 : stream'[i] = stream[i + 2]
    BY <1>1, <1>2, <1>4, TakeFront, SMTT(20), Z3T(20) DEF stream
<1>6. Len(stream) \in Nat /\ Len(stream) >= 2
    BY <1>2, <1>4, ConcatFacts DEF stream
<1>7. Laid(stream, 0) /\ (peer # "reset" => ~Odd(Len(stream) - 0))
    BY <1>2 DEF FramingInv, Past
<1>8. Laid(stream', 0)
    <2>1. PICK s : s = stream
        BY Zenon
    <2>2. PICK t : t = stream'
        BY Zenon
    <2>3. /\ Laid(s, 0) /\ Len(s) \in Nat /\ 2 <= Len(s) /\ Len(t) = Len(s) - 2
          /\ \A i \in 1 .. Len(s) - 2 : t[i] = s[i + 2]
        BY <1>5, <1>6, <1>7, <2>1, <2>2
    <2>4. Laid(t, 0)
        BY <2>3, LaidTail
    <2> QED
        BY <2>2, <2>4, Zenon
<1>9. peer # "reset" => ~Odd(Len(stream'))
    <2>1. PICK n \in Nat : n = Len(stream) - 2
        BY <1>6
    <2>2. Len(stream) - 0 = n + 2 /\ Len(stream') = n
        BY <1>5, <1>6, <2>1
    <2> QED
        BY <1>7, <2>2, Parity
<1>10. SessionTypeOK'
    BY <1>1, <1>3, <1>5 DEF FramingInv, SessionTypeOK, Processed
<1> QED
    BY <1>1, <1>2, <1>3, <1>8, <1>9, <1>10, FramingFinish DEF Processed

\* The application's answer to a publish request, and a message it consumes.
LEMMA FramingApp == FramingInv /\ PublishInv /\ (Published \/ SendData) => FramingInv'
<1> SUFFICES ASSUME FramingInv, PublishInv, Published \/ SendData PROVE FramingInv'
    OBVIOUS
<1>1. /\ UNCHANGED <<wire, peer, step, read_buf, bytes_read, got, state, skip_read, current>>
      /\ pc \in {"publish", "send"} /\ pc' \in {"parse", "end"} /\ result' \in {result, "err"}
    BY DEF Published, SendData, Goto, End, client, io
<1>2. state = "Finish" /\ stream' = stream
    BY <1>1 DEF FramingInv, SessionTypeOK, stream
<1>3. write_buf \in Seq(Reply) /\ data \in Seq(StreamID) /\ current \in Message \cup {NoMsg}
      /\ is_publishing \in BOOLEAN /\ republished \in BOOLEAN
    BY DEF FramingInv, SessionTypeOK
<1>4. /\ write_buf' \in Seq(Reply) /\ is_publishing' \in BOOLEAN /\ republished' \in BOOLEAN
      /\ data' \in Seq(StreamID)
    <2>1. CASE Published
        <3>1. Append(write_buf, "publish") \in Seq(Reply)
            BY <1>3 DEF Reply
        <3>2. write_buf' \in {write_buf, Append(write_buf, "publish")} /\ data' = data
            BY <2>1 DEF Published, Queue
        <3>3. is_publishing' \in BOOLEAN /\ republished' \in BOOLEAN
            BY <1>3, <2>1, Zenon DEF Published
        <3> QED
            BY <1>3, <3>1, <3>2, <3>3
    <2>2. CASE SendData
        <3>1. current.sid \in StreamID
            BY <2>2 DEF SendData, PublishInv
        <3>2. Append(data, current.sid) \in Seq(StreamID)
            BY <1>3, <3>1
        <3>3. data' \in {data, Append(data, current.sid)} /\ UNCHANGED <<write_buf, is_publishing, republished>>
            BY <2>2 DEF SendData, io, session
        <3> QED
            BY <1>3, <3>2, <3>3, SMTT(20)
    <2> QED
        BY <2>1, <2>2
<1>5. SessionTypeOK'
    BY <1>1, <1>4 DEF FramingInv, SessionTypeOK
<1> QED
    BY <1>1, <1>2, <1>5, FramingFinish

\* Every step of the session, the client and the application keeps the framing.
LEMMA FramingStep == FramingInv /\ PublishInv /\ [Next]_vars => FramingInv'
<1> SUFFICES ASSUME FramingInv, PublishInv, [Next]_vars PROVE FramingInv'
    OBVIOUS
<1>1. CASE UNCHANGED vars \/ Answer \/ Consume
    <2>1. UNCHANGED <<client, io, control, session>>
        BY <1>1 DEF vars, Answer, Consume
    <2>2. UNCHANGED <<wire, peer, step, read_buf, bytes_read, write_buf, got, pc, state, skip_read, current,
                      result, is_publishing, republished>>
        BY <2>1 DEF client, io, control, session
    <2>3. data' \in Seq(StreamID)
        <3>1. data \in Seq(StreamID)
            BY DEF FramingInv, SessionTypeOK
        <3>2. data' = data \/ (data # <<>> /\ data' = Tail(data))
            BY <1>1, Zenon DEF vars, Answer, Consume, app
        <3> QED
            BY <3>1, <3>2
    <2>4. SessionTypeOK' /\ stream' = stream
        BY <2>2, <2>3 DEF FramingInv, SessionTypeOK, stream
    <2> QED
        BY <2>2, <2>4, FramingQuiet
<1> QED
    BY <1>1, FramingHandshakeRead, FramingHandshake, FramingFlush, FramingReady, FramingParse, FramingApp,
       FramingClientSend, FramingClientClose DEF Next, Session

\* A new session has no publisher.
LEMMA PublishInit == Init => PublishInv
BY DEF Init, PublishInv, ResultUnlessRepublished

\* A step that leaves the publisher alone, and the message in hand.
LEMMA PublishQuiet ==
    ASSUME PublishInv, UNCHANGED <<is_publishing, stream_id, connected, republished, result>>,
           pc' # "send" \/ UNCHANGED <<pc, current>>, pc # "end" \/ pc' = "end"
    PROVE  PublishInv'
BY SMTT(20) DEF PublishInv, ResultUnlessRepublished

\* run is over with an error or because the client is gone.
LEMMA PublishOver ==
    ASSUME PublishInv, UNCHANGED <<is_publishing, stream_id, connected, republished>>, pc' = "end",
           result' \in {"err", IF is_publishing THEN "false" ELSE "true"}
    PROVE  PublishInv'
BY DEF PublishInv, ResultUnlessRepublished

\* Every step of the session, the client and the application keeps the
\* publisher and the ghosts together.
LEMMA PublishStep == FramingInv /\ PublishInv /\ [Next]_vars => PublishInv'
<1> SUFFICES ASSUME FramingInv, PublishInv, [Next]_vars PROVE PublishInv'
    OBVIOUS
<1>1. CASE UNCHANGED vars \/ Answer \/ Consume \/ ClientSend \/ ClientClose
    <2>1. UNCHANGED <<control, session>>
        BY <1>1 DEF vars, Answer, Consume, ClientSend, ClientClose
    <2> QED
        BY <2>1, PublishQuiet DEF control, session
<1>2. CASE HandshakeRead \/ Flush \/ Ready \/ ParseNone
    <2>1. UNCHANGED session /\ pc # "end"
        BY <1>2 DEF HandshakeRead, Flush, Ready, ParseNone, Pass
    <2>2. \/ pc' # "send" /\ result' = result
          \/ pc' = "end" /\ result' \in {"err", IF is_publishing THEN "false" ELSE "true"}
        BY <1>2 DEF HandshakeRead, Flush, Ready, ParseNone, Pass, Goto, End, Closed
    <2> QED
        BY <2>1, <2>2, PublishQuiet, PublishOver DEF session
<1>3. CASE Handshake
    <2>1. UNCHANGED <<session, result>> /\ pc = "handshake" /\ pc' \in {"ready", "hs_flush"}
        BY <1>3 DEF Handshake
    <2> QED
        BY <2>1, PublishQuiet DEF session
<1>4. CASE Parse
    <2>1. PICK m : m = read_buf[2]
        BY Zenon
    <2>2. m \in Message /\ pc = "parse"
        BY <1>4, <2>1, WholeMessage DEF Parse
    <2>3. OnOther(m) \/ OnConnect(m) \/ OnCreateStream(m) \/ OnDeleteStream(m) \/ OnPublish(m) \/ OnData(m)
        BY <1>4, <2>1 DEF Parse
    <2>4. CASE OnOther(m) \/ OnConnect(m) \/ OnCreateStream(m) \/ OnPublish(m)
        <3>1. UNCHANGED <<is_publishing, stream_id, connected, republished>>
            BY <2>4 DEF OnOther, OnConnect, OnCreateStream, OnPublish, session
        <3>2. (pc' # "send" /\ result' = result) \/ (pc' = "end" /\ result' = "err")
            BY <2>4 DEF OnOther, OnConnect, OnCreateStream, OnPublish, Goto, End
        <3> QED
            BY <2>2, <3>1, <3>2, PublishQuiet, PublishOver
    <2>5. CASE OnDeleteStream(m)
        <3>1. /\ pc' = "parse" /\ result' = result /\ republished' = republished
              /\ connected' = connected \ {m.sid}
              /\ stream_id' = (IF m.sid = stream_id /\ is_publishing THEN 0 ELSE stream_id)
              /\ is_publishing' = (is_publishing /\ ~(m.sid = stream_id /\ is_publishing))
            BY <2>5 DEF OnDeleteStream, Goto
        <3>2. is_publishing \in BOOLEAN /\ republished \in BOOLEAN /\ result = "none"
            BY <2>2 DEF FramingInv, SessionTypeOK, PublishInv
        <3>3. CASE is_publishing /\ m.sid = stream_id
            BY <3>1, <3>2, <3>3, Zenon DEF PublishInv, ResultUnlessRepublished
        <3>4. CASE is_publishing /\ m.sid # stream_id
            BY <3>1, <3>2, <3>4, Zenon DEF PublishInv, ResultUnlessRepublished
        <3>5. CASE ~is_publishing
            BY <3>1, <3>2, <3>5 DEF PublishInv, ResultUnlessRepublished
        <3> QED
            BY <3>3, <3>4, <3>5
    <2>6. CASE OnData(m)
        <3>1. CASE m.sid = stream_id /\ is_publishing
            <4>1. pc' = "send" /\ current' = m /\ result' = result /\ UNCHANGED session
                BY <2>6, <3>1 DEF OnData
            <4>2. m.sid \in StreamID
                BY <2>2, <2>6, UnitKinds DEF OnData
            <4> QED
                BY <2>2, <3>1, <4>1, <4>2 DEF PublishInv, ResultUnlessRepublished, session
        <3>2. CASE ~(m.sid = stream_id /\ is_publishing)
            BY <2>6, <3>2, PublishOver DEF OnData, End, session
        <3> QED
            BY <3>1, <3>2
    <2> QED
        BY <2>3, <2>4, <2>5, <2>6
<1>5. CASE Published
    <2>1. CASE request = "accepted"
        <3>1. /\ is_publishing' = TRUE /\ stream_id' = current.sid
              /\ connected' = connected \cup {current.sid}
              /\ republished' = (republished \/ is_publishing)
              /\ pc = "publish" /\ pc' = "parse" /\ result' = result
            BY <1>5, <2>1 DEF Published, Goto
        <3>2. result = "none" /\ is_publishing \in BOOLEAN /\ republished \in BOOLEAN
            BY <3>1 DEF PublishInv, FramingInv, SessionTypeOK
        <3> QED
            BY <3>1, <3>2 DEF PublishInv, ResultUnlessRepublished
    <2>2. CASE request # "accepted"
        BY <1>5, <2>2, PublishOver DEF Published, End
    <2> QED
        BY <2>1, <2>2
<1>6. CASE SendData
    <2>1. UNCHANGED session /\ pc = "send"
        BY <1>6 DEF SendData
    <2>2. (pc' = "parse" /\ result' = result) \/ (pc' = "end" /\ result' = "err")
        BY <1>6 DEF SendData, Goto, End
    <2> QED
        BY <2>1, <2>2, PublishQuiet, PublishOver DEF session
<1> QED
    BY <1>1, <1>2, <1>3, <1>4, <1>5, <1>6 DEF Next, Session

\* Both invariants hold throughout.
LEMMA SessionInvariance == Spec => [](FramingInv /\ PublishInv)
BY FramingInit, PublishInit, FramingStep, PublishStep, PTL DEF Spec

\* The session never waits for its client with a reply unsent, for any size of
\* the handshake and however its bytes and the messages are cut into reads.
THEOREM RepliesCorrect == Spec => []RepliesBeforeRead
BY SessionInvariance, FramingSays, PTL

\* No byte of the handshake is taken for a message, and none of a message is lost.
THEOREM FramingCorrect == Spec => []HandshakeKeepsFraming
BY SessionInvariance, FramingSays, PTL

\* The invariant says what run returns.
LEMMA PublishSays == PublishInv => ResultUnlessRepublished
BY DEF PublishInv

\* What run returns says whether a publisher is left, for every order of publish,
\* deleteStream, data and the end of the connection, unless a publish was
\* accepted over another.
THEOREM ResultCorrect == Spec => []ResultUnlessRepublished
BY SessionInvariance, PublishSays, PTL

\* Data reaches the application only for the stream that is published and that
\* the application accepted.
THEOREM DataCorrect == Spec => DataIsAccepted
<1>1. FramingInv /\ PublishInv /\ [Next]_vars =>
        [Len(data') > Len(data) => data'[Len(data')] = stream_id /\ stream_id \in connected]_vars
    <2> SUFFICES ASSUME FramingInv, PublishInv, Next, Len(data') > Len(data)
                 PROVE  data'[Len(data')] = stream_id /\ stream_id \in connected
        BY Zenon
    <2>1. data \in Seq(StreamID)
        BY DEF FramingInv, SessionTypeOK
    <2>2. CASE SendData
        <3>1. data' = Append(data, current.sid)
            BY <2>1, <2>2 DEF SendData
        <3>2. is_publishing /\ current.sid = stream_id /\ current.sid \in StreamID
            BY <2>2 DEF SendData, PublishInv
        <3>3. data'[Len(data')] = current.sid
            BY <2>1, <3>1, <3>2
        <3> QED
            BY <3>2, <3>3 DEF PublishInv
    <2>3. CASE Consume
        BY <2>1, <2>3 DEF Consume
    <2>4. CASE ~SendData /\ ~Consume
        <3>1. CASE ClientSend \/ ClientClose \/ Answer
            <4>1. data' = data
                BY <3>1, Zenon DEF ClientSend, ClientClose, Answer, app
            <4> QED
                BY <2>1, <4>1
        <3>2. CASE HandshakeRead \/ Handshake \/ Flush \/ Ready \/ ParseNone \/ Published
            <4>1. data' = data
                BY <3>2, Zenon DEF HandshakeRead, Handshake, Flush, Ready, ParseNone, Published, Pass, app
            <4> QED
                BY <2>1, <4>1
        <3>3. CASE Parse
            <4>1. PICK m : OnOther(m) \/ OnConnect(m) \/ OnCreateStream(m) \/ OnDeleteStream(m) \/ OnPublish(m) \/ OnData(m)
                BY <3>3 DEF Parse
            <4>2. data' = data
                BY <4>1 DEF OnOther, OnConnect, OnCreateStream, OnDeleteStream, OnPublish, OnData, app
            <4> QED
                BY <2>1, <4>2
        <3> QED
            BY <2>4, <3>1, <3>2, <3>3 DEF Next, Session
    <2> QED
        BY <2>2, <2>3, <2>4
<1> QED
    BY <1>1, SessionInvariance, PTL DEF Spec, DataIsAccepted
=============================================================================
