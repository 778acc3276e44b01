---------------------------- MODULE RtmpSession ----------------------------
(***************************************************************************)
(* The RTMP server session (crates/rtmp/src/session/server_session.rs)     *)
(* with its handshake (handshake/server.rs), between a client and the      *)
(* application that answers publish requests and consumes the data.        *)
(*                                                                         *)
(* The wire carries units: HS + 1 of them are C0C1, HS are C2; a message   *)
(* is a "frag" and the message itself, so it can arrive in two reads.      *)
(* ChunkStream models how bytes become messages.                           *)
(***************************************************************************)
EXTENDS Naturals, Sequences, Functions

CONSTANTS HS,         \* RTMP_HANDSHAKE_SIZE
          StreamID,   \* message stream ids a client uses
          Sent,       \* messages a client sends
          MaxMsg,     \* how many it sends
          Capacity    \* capacity of the data channel

VARIABLES wire, peer, step, count,   \* the client: units in flight, its side of the
                                     \* connection, its place in the handshake, messages sent
          read_buf, bytes_read, write_buf, got,  \* got: replies the client was sent
          pc, state, skip_read, current,         \* current: the message being processed
          app_name, is_publishing, stream_id,
          request,                   \* the publish request and its oneshot
          data, consumer,            \* the data channel and its receiver
          result,                    \* what run returned
          connected,                 \* ghost: streams published and not deleted
          republished                \* ghost: a publish was accepted while publishing

client  == <<wire, peer, step, count>>
io      == <<read_buf, bytes_read, write_buf, got>>
control == <<pc, state, skip_read, current, result>>
session == <<app_name, is_publishing, stream_id, connected, republished>>
app     == <<request, data, consumer>>
vars    == <<client, io, control, session, app>>

Message ==
    [type : {"connect", "create", "play", "unknown"}, sid : {0}, ok : BOOLEAN]
    \cup [type : {"chunk_size"}, sid : {0}, ok : BOOLEAN]
    \cup [type : {"publish", "delete", "data"}, sid : StreamID, ok : BOOLEAN]

\* ok: whether connect names an app, publish a stream, and a chunk size is in range
ASSUME SessionAssumption ==
    HS \in Nat \ {0} /\ Sent \subseteq Message /\ MaxMsg \in Nat /\ Capacity \in Nat \ {0}

NoMsg    == [type |-> "none", sid |-> 0, ok |-> TRUE]
Frag     == [type |-> "frag", sid |-> 0, ok |-> TRUE]
Byte     == [type |-> "byte", sid |-> 0, ok |-> TRUE]
Bytes(n) == [i \in 1..n |-> Byte]

Init ==
    /\ wire = <<>> /\ peer = "open" /\ step = "c0c1" /\ count = 0
    /\ read_buf = <<>> /\ bytes_read = 0 /\ write_buf = <<>> /\ got = {}
    /\ pc = "hs_read" /\ state = "ReadC0C1" /\ skip_read = FALSE /\ current = NoMsg
    /\ app_name = FALSE /\ is_publishing = FALSE /\ stream_id = 0
    /\ request = "none" /\ data = <<>> /\ consumer = "alive"
    /\ result = "none" /\ connected = {} /\ republished = FALSE

----------------------------------------------------------------------------
(* The client and the application (external).                              *)

\* C0C1 at once, C2 after S0S1S2, then messages
ClientSend ==
    /\ peer = "open"
    /\ \/ step = "c0c1" /\ step' = "c2" /\ wire' = wire \o Bytes(HS + 1) /\ UNCHANGED count
       \/ step = "c2" /\ "s0s1s2" \in got /\ step' = "messages" /\ wire' = wire \o Bytes(HS) /\ UNCHANGED count
       \/ /\ step = "messages" /\ count < MaxMsg
          /\ count' = count + 1
          /\ \E m \in Sent : wire' = wire \o <<Frag, m>>
          /\ UNCHANGED step
    /\ UNCHANGED <<peer, io, control, session, app>>

\* The client closes its side, or the connection breaks with what was in flight
ClientClose ==
    /\ peer = "open"
    /\ \/ peer' = "eof" /\ UNCHANGED wire
       \/ peer' = "reset" /\ wire' = <<>>
    /\ UNCHANGED <<step, count, io, control, session, app>>

\* The application answers a publish request, or drops it
Answer ==
    /\ request = "sent"
    /\ request' \in {"accepted", "denied"}
    /\ UNCHANGED <<client, io, control, session, data, consumer>>

\* The application takes data, or drops the receiver
Consume ==
    /\ consumer = "alive"
    /\ \/ data # <<>> /\ data' = Tail(data) /\ UNCHANGED consumer
       \/ consumer' = "dropped" /\ UNCHANGED data
    /\ UNCHANGED <<client, io, control, session, request>>

----------------------------------------------------------------------------
(* Reading and writing.                                                    *)

Goto(l)   == pc' = l /\ UNCHANGED <<state, skip_read, current, result>>
End(r)    == pc' = "end" /\ result' = r /\ UNCHANGED <<state, skip_read, current>>
Closed    == End(IF is_publishing THEN "false" ELSE "true")

\* io.read_buf: some of what has arrived
Receive(n) ==
    /\ read_buf' = read_buf \o SubSeq(wire, 1, n)
    /\ wire' = SubSeq(wire, n + 1, Len(wire))
    /\ UNCHANGED <<peer, step, count, write_buf, got>>

\* Nothing arrives within the timeout of the read
Silent == wire = <<>> /\ peer = "open"

\* What a read can fail with: a broken connection is reported as one of the
\* kinds of io error the session knows, or as another
ReadErrors == CASE peer = "reset" -> {"ConnectionAborted", "ConnectionReset", "UnexpectedEof", "other"}
                [] Silent         -> {"Timeout"}
                [] OTHER          -> {}

is_client_closed(err) == err \in {"ConnectionAborted", "ConnectionReset", "UnexpectedEof", "Timeout"}

Pass(l) == Goto(l) /\ UNCHANGED <<session, app>>

READ_SIZE == HS + 1

\* do_handshake: one read.  At the end of the stream read_buf returns Ok(0) and
\* the loop runs on: no step.
HandshakeRead ==
    /\ pc = "hs_read"
    /\ \/ \E n \in 1..Len(wire) :
             /\ Receive(n)
             /\ bytes_read' = bytes_read + n
             /\ Pass(IF bytes_read + n >= READ_SIZE THEN "handshake" ELSE "hs_read")
       \/ /\ ReadErrors # {}
          /\ End("err")
          /\ UNCHANGED <<client, io, session, app>>

\* HandshakeServer::handshake: the state it ends in, how much it reads, what it
\* writes.  The complex handshake does as the simple one but for the contents
\* of S1 and S2, and fails over to it before anything is written; RtmpHandshake
\* models what they hold.
handshake(s) ==
    CASE s = "ReadC0C1" -> [state |-> "ReadC2", read |-> HS + 1, out |-> <<"s0s1s2">>]
      [] s = "ReadC2"   -> [state |-> "Finish", read |-> HS, out |-> <<>>]

\* Mutant: do_ready reads first although the buffer holds something
HandshakeNoSkip ==
    /\ pc = "handshake" /\ bytes_read' = 0
    /\ \/ /\ state = "ReadC0C1"
          /\ state' = "ReadC2" /\ pc' = "hs_flush"
          /\ read_buf' = <<>>
          /\ write_buf' = Append(write_buf, "s0s1s2")
          /\ UNCHANGED skip_read
       \/ /\ state = "ReadC2"
          /\ state' = "Finish" /\ pc' = "ready"
          /\ read_buf' = SubSeq(read_buf, HS + 1, Len(read_buf))
          /\ UNCHANGED skip_read
          /\ write_buf' = Append(write_buf, "set_chunk_size")
    /\ UNCHANGED <<client, got, current, result, session, app>>

\* Mutant: what was read past C2 is not put back
HandshakeLosesRest ==
    /\ pc = "handshake" /\ bytes_read' = 0 /\ read_buf' = <<>>
    /\ \/ /\ state = "ReadC0C1" /\ state' = "ReadC2" /\ pc' = "hs_flush"
          /\ write_buf' = Append(write_buf, "s0s1s2") /\ UNCHANGED skip_read
       \/ /\ state = "ReadC2" /\ state' = "Finish" /\ pc' = "ready"
          /\ write_buf' = Append(write_buf, "set_chunk_size") /\ skip_read' = TRUE
    /\ UNCHANGED <<client, got, current, result, session, app>>

\* do_handshake once enough was read.  The first round drops what follows C1;
\* the second puts back what follows C2 and queues our chunk size.
Handshake ==
    LET h         == handshake(state)
        over_read == SubSeq(read_buf, h.read + 1, Len(read_buf))
    IN  /\ pc = "handshake" /\ bytes_read' = 0 /\ state' = h.state
        /\ \/ /\ h.state = "Finish" /\ pc' = "ready"
              /\ read_buf' = over_read
              /\ skip_read' = (over_read # <<>>)
              /\ write_buf' = write_buf \o h.out \o <<"set_chunk_size">>
           \/ /\ h.state # "Finish" /\ pc' = "hs_flush"
              /\ read_buf' = <<>> /\ write_buf' = write_buf \o h.out
              /\ UNCHANGED skip_read
        /\ UNCHANGED <<client, got, current, result, session, app>>

\* flush, after do_handshake and after do_ready.  An error of it ends run.
Flush ==
    /\ pc \in {"hs_flush", "flush"}
    /\ \/ /\ peer # "reset" \/ write_buf = <<>>
          /\ got' = got \cup Range(write_buf)
          /\ write_buf' = <<>>
          /\ Pass(IF pc = "flush" THEN "ready" ELSE "hs_read")
          /\ UNCHANGED <<client, read_buf, bytes_read>>
       \/ /\ write_buf # <<>>
          /\ End("err")
          /\ UNCHANGED <<client, io, session, app>>

\* Mutant: the end of the stream is taken for an empty read
ReadyIgnoresEof ==
    /\ pc = "ready"
    /\ \/ /\ skip_read
          /\ skip_read' = FALSE /\ pc' = "parse"
          /\ UNCHANGED <<client, io, state, current, result, session, app>>
       \/ /\ ~skip_read
          /\ \E n \in 0..Len(wire) : Receive(n)
          /\ Pass("parse") /\ UNCHANGED bytes_read

\* do_ready
Ready ==
    /\ pc = "ready"
    /\ \/ /\ skip_read
          /\ skip_read' = FALSE /\ pc' = "parse"
          /\ UNCHANGED <<client, io, state, current, result, session, app>>
       \/ /\ ~skip_read
          /\ \E n \in 1..Len(wire) : Receive(n)
          /\ Pass("parse") /\ UNCHANGED bytes_read
       \/ /\ ~skip_read
          /\ \/ peer = "eof" /\ wire = <<>> /\ Closed
             \/ \E err \in ReadErrors : IF is_client_closed(err) THEN Closed ELSE End("err")
          /\ UNCHANGED <<client, io, session, app>>

----------------------------------------------------------------------------
(* parse_chunks and process_messages.                                      *)

\* read_chunk finds a whole message at the front of the buffer, or returns None
Whole == Len(read_buf) >= 2
Queue(r)    == write_buf' = Append(write_buf, r)

\* read_chunk returns None: do_ready is over
ParseNone ==
    /\ pc = "parse" /\ ~Whole
    /\ Pass("flush") /\ UNCHANGED <<client, io>>

\* Messages that leave the session as it is, or end it
OnOther(m) ==
    /\ m.type \in {"unknown", "play", "chunk_size"}
    /\ IF m.type = "play" \/ ~m.ok THEN End("err") ELSE Goto("parse")
    /\ UNCHANGED <<write_buf, session, app>>

\* on_command_connect
OnConnect(m) ==
    /\ m.type = "connect"
    /\ IF m.ok
       THEN Goto("parse") /\ write_buf' = write_buf \o <<"window", "connect">> /\ app_name' = TRUE
       ELSE End("err") /\ Queue("window") /\ UNCHANGED app_name
    /\ UNCHANGED <<is_publishing, stream_id, connected, republished, app>>

\* on_command_create_stream
OnCreateStream(m) ==
    /\ m.type = "create"
    /\ Queue("create") /\ Goto("parse") /\ UNCHANGED <<session, app>>

\* Mutant: deleteStream of any stream ends publishing
DeleteAny(m) ==
    /\ m.type = "delete"
    /\ stream_id' = 0 /\ is_publishing' = FALSE
    /\ connected' = connected \ {m.sid}
    /\ Queue("delete") /\ Goto("parse") /\ UNCHANGED <<app_name, republished, app>>

\* on_command_delete_stream
OnDeleteStream(m) ==
    LET hit == m.sid = stream_id /\ is_publishing IN
    /\ m.type = "delete"
    /\ stream_id' = IF hit THEN 0 ELSE stream_id
    /\ is_publishing' = (is_publishing /\ ~hit)
    /\ connected' = connected \ {m.sid}
    /\ Queue("delete") /\ Goto("parse") /\ UNCHANGED <<app_name, republished, app>>

\* on_command_publish up to the wait for the application's answer
OnPublish(m) ==
    /\ m.type = "publish"
    /\ IF m.ok /\ app_name
       THEN /\ pc' = "publish" /\ request' = "sent" /\ current' = m
            /\ UNCHANGED <<state, skip_read, result>>
       ELSE End("err") /\ UNCHANGED request
    /\ UNCHANGED <<write_buf, session, data, consumer>>

\* waiter.await
Published ==
    /\ pc = "publish" /\ request \in {"accepted", "denied"}
    /\ request' = "none"
    /\ IF request = "accepted"
       THEN /\ is_publishing' = TRUE /\ stream_id' = current.sid
            /\ connected' = connected \cup {current.sid}
            /\ republished' = (republished \/ is_publishing)
            /\ Queue("publish") /\ Goto("parse")
       ELSE End("err") /\ UNCHANGED <<is_publishing, stream_id, connected, republished, write_buf>>
    /\ UNCHANGED <<client, read_buf, bytes_read, got, app_name, data, consumer>>

\* Mutant: data of any stream is forwarded
OnDataAny(m) ==
    /\ m.type = "data"
    /\ pc' = "send" /\ current' = m /\ UNCHANGED <<state, skip_read, result>>
    /\ UNCHANGED <<write_buf, session, app>>

\* on_data: the stream must be the one being published
OnData(m) ==
    /\ m.type = "data"
    /\ IF m.sid = stream_id /\ is_publishing
       THEN pc' = "send" /\ current' = m /\ UNCHANGED <<state, skip_read, result>>
       ELSE End("err")
    /\ UNCHANGED <<write_buf, session, app>>

\* data_producer.send, with its timeout
SendData ==
    /\ pc = "send"
    /\ \/ /\ consumer = "alive" /\ Len(data) < Capacity
          /\ data' = Append(data, current.sid)
          /\ Goto("parse")
       \/ /\ consumer = "dropped" \/ Len(data) = Capacity
          /\ End("err") /\ UNCHANGED data
    /\ UNCHANGED <<client, io, session, request, consumer>>

\* One message of parse_chunks
Parse ==
    /\ pc = "parse" /\ Whole
    /\ read_buf' = SubSeq(read_buf, 3, Len(read_buf))
    /\ LET m == read_buf[2]
       IN  OnOther(m) \/ OnConnect(m) \/ OnCreateStream(m) \/ OnDeleteStream(m) \/ OnPublish(m) \/ OnData(m)
    /\ UNCHANGED <<client, bytes_read, got>>

----------------------------------------------------------------------------

Session == \/ HandshakeRead \/ Handshake \/ Flush \/ Ready \/ ParseNone
           \/ Parse \/ Published \/ SendData

Next == Session \/ ClientSend \/ ClientClose \/ Answer \/ Consume

Spec == Init /\ [][Next]_vars

\* The session's task runs, and the application answers what it is asked.
FairSpec == Spec /\ WF_vars(Session) /\ WF_vars(Answer)

----------------------------------------------------------------------------
(* Properties.                                                             *)

\* The session never waits for the client with replies unsent: the second
\* handshake round reads one byte past C2, so skip_read always takes do_ready
\* past the read and on to flush with the chunk size queued by do_handshake.
RepliesBeforeRead == pc = "hs_read" \/ (pc = "ready" /\ ~skip_read) => write_buf = <<>>

\* Nothing of the handshake is taken for a message, and no byte of a message
\* is lost behind it: after the handshake the buffer and the wire are the
\* client's messages, whole but for a part already read.
HandshakeKeepsFraming ==
    state = "Finish" =>
        /\ Byte \notin Range(read_buf \o wire)
        /\ \A i \in DOMAIN (read_buf \o wire) :
              i % 2 = 1 <=> (read_buf \o wire)[i] = Frag

\* Data reaches the application only for a stream it accepted and that the
\* client has not deleted, whatever the order of publish, deleteStream and data.
DataIsAccepted ==
    [][Len(data') > Len(data) =>
          /\ data'[Len(data')] = stream_id
          /\ stream_id \in connected]_vars

\* run returns true only when every publisher was deleted, unless a publish
\* was accepted over another; it returns false only when one is left.
ResultUnlessRepublished ==
    /\ result = "true" => connected = {} \/ republished
    /\ result = "false" => connected # {}

\* Once the handshake is over, a client that is gone ends the session.
SessionEndsWhenReady == state = "Finish" /\ peer # "open" ~> pc = "end"

=============================================================================
