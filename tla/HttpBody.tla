------------------------------ MODULE HttpBody ------------------------------
(***************************************************************************)
(* An HTTP/3 request whose handler answers with the request's own body:    *)
(* QuicIncomingBody reads the frames of the h3 stream, TrackedBody asks a  *)
(* Tracker about them, and copy_body writes them into the response.        *)
(* The bytes of the request are numbered.                                  *)
(***************************************************************************)
EXTENDS Integers, Sequences, FiniteSetsExt

CONSTANTS Methods,      \* methods a client uses
          Lengths,      \* values of its Content-Length, NoLength if it has none
          MaxFrame,     \* bound: bytes in a data frame
          MaxBody       \* bound: bytes in a request

NoLength == -1

ASSUME BodyAssumption ==
    /\ Lengths \subseteq Nat \cup {NoLength}
    /\ MaxFrame \in Nat /\ MaxBody \in Nat

VARIABLES request,   \* its method and length; the bytes sent, and those of them
                     \* before the trailers; whether there were trailers, and
                     \* whether the client is done
          frames,    \* frames that arrived and were not read
          trailers,  \* whether h3 keeps the trailers it came across
          body,      \* the State of QuicIncomingBodyInner: Data, Trailers, Done
          remaining_data, \* of Data(remaining)
          frame,     \* what poll_frame returned and copy_body works on
          response,  \* the bytes sent and how copy_body ended
          causes     \* ghost: what has gone wrong outside this code

bodyVars == <<request, frames, trailers, body, remaining_data, frame, response, causes>>

has_body(method) == method \notin {"GET", "HEAD", "OPTIONS", "CONNECT", "TRACE"}

AtEnd == [type |-> "none", bytes |-> <<>>]
Error == [type |-> "err", bytes |-> <<>>]
Trailers == [type |-> "trailers", bytes |-> <<>>]
Fin == [type |-> "fin", bytes |-> <<>>]
Reset == [type |-> "reset", bytes |-> <<>>]
Data(bytes) == [type |-> "data", bytes |-> bytes]
Idle == [type |-> "idle", bytes |-> <<>>]

(* serve_handle splits the stream and parses the Content-Length if the     *)
(* method has a body; IncomingBody::empty is at its end from the start.    *)
BodyInit ==
    /\ \E m \in Methods, n \in Lengths :
          /\ request = [method |-> m, length |-> n, sent |-> 0, early |-> 0,
                      late |-> FALSE, over |-> FALSE]
          /\ body = IF has_body(m) THEN "Data" ELSE "Empty"
          /\ remaining_data = n
    /\ frames = <<>> /\ trailers = FALSE /\ frame = Idle
    /\ response = [bytes |-> <<>>, end |-> "open"] /\ causes = {}

-----------------------------------------------------------------------------
(* The client (external): data, perhaps trailers, the end or a reset; one  *)
(* that breaks the rules sends data after its trailers.                    *)
ClientFrames ==
    /\ ~request.over
    /\ \/ \E n \in 1..MaxFrame :
             /\ request.sent + n <= MaxBody
             /\ frames' = Append(frames, Data([i \in 1..n |-> request.sent + i]))
             /\ request' = [request EXCEPT !.sent = @ + n, !.early = IF request.late THEN @ ELSE @ + n]
             /\ causes' = IF request.late THEN causes \union {"late_data"} ELSE causes
       \/ /\ ~request.late
          /\ frames' = Append(frames, Trailers)
          /\ request' = [request EXCEPT !.late = TRUE]
          /\ UNCHANGED causes
       \/ /\ frames' = Append(frames, Fin)
          /\ request' = [request EXCEPT !.over = TRUE]
          /\ UNCHANGED causes
       \/ /\ frames' = <<Reset>>
          /\ request' = [request EXCEPT !.over = TRUE]
          /\ causes' = causes \union {"reset"}
    /\ UNCHANGED <<trailers, body, remaining_data, frame, response>>

(* h3's poll_recv_data (external), Pending while nothing has arrived: the  *)
(* trailers are put aside, the end and a reset stay.                       *)
Polled ==
    CASE Head(frames).type \in {"trailers", "fin"} -> AtEnd
      [] Head(frames).type = "reset" -> Error
      [] OTHER -> Head(frames)

RecvData ==
    /\ frames # <<>>
    /\ frames' = IF Head(frames).type \in {"fin", "reset"} THEN frames ELSE Tail(frames)
    /\ trailers' = (trailers \/ Head(frames).type = "trailers")

Polling == response.end = "open" /\ frame = Idle

(* TrackedBody::poll_frame: a frame of data the tracker refuses is lost,   *)
(* and its consumer gets the tracker's error.                              *)
Tracked(polled) ==
    \/ frame' = polled /\ UNCHANGED causes
    \/ polled.type = "data" /\ frame' = Error /\ causes' = causes \union {"refused"}

Exceeds(n) == remaining_data # NoLength /\ n > remaining_data

PollDataUncounted ==   \* mutant: remaining stays as it is
    /\ Polling /\ body = "Data" /\ RecvData
    /\ \/ /\ Polled.type = "data" /\ Exceeds(Len(Polled.bytes))
          /\ body' = "Done" /\ frame' = Error /\ UNCHANGED <<remaining_data, causes>>
       \/ /\ Polled.type = "data" /\ ~Exceeds(Len(Polled.bytes))
          /\ UNCHANGED remaining_data
          /\ Tracked(Polled) /\ UNCHANGED body
       \/ /\ Polled = AtEnd
          /\ body' = "Trailers" /\ UNCHANGED <<remaining_data, frame, causes>>
       \/ /\ Polled = Error
          /\ body' = "Done" /\ frame' = Error /\ UNCHANGED <<remaining_data, causes>>
    /\ UNCHANGED <<request, response>>

(* poll_frame in State::Data *)
PollData ==
    /\ Polling /\ body = "Data" /\ RecvData
    /\ \/ /\ Polled.type = "data" /\ Exceeds(Len(Polled.bytes))
          /\ body' = "Done" /\ frame' = Error /\ UNCHANGED <<remaining_data, causes>>
       \/ /\ Polled.type = "data" /\ ~Exceeds(Len(Polled.bytes))
          /\ remaining_data' = IF remaining_data = NoLength THEN NoLength ELSE remaining_data - Len(Polled.bytes)
          /\ Tracked(Polled) /\ UNCHANGED body
       \/ /\ Polled = AtEnd
          /\ body' = "Trailers" /\ UNCHANGED <<remaining_data, frame, causes>>
       \/ /\ Polled = Error
          /\ body' = "Done" /\ frame' = Error /\ UNCHANGED <<remaining_data, causes>>
    /\ UNCHANGED <<request, response>>

(* poll_frame in State::Trailers, and on after the None of PollData: the   *)
(* stream must be at its end; recv_trailers gives what h3 put aside, or    *)
(* fails to decode it.  It is polled once: one that is Pending counts as   *)
(* the end.                                                                *)
PollTrailers ==
    /\ Polling /\ body = "Trailers" /\ RecvData
    /\ body' = "Done"
    /\ \/ /\ Polled # AtEnd
          /\ frame' = Error /\ UNCHANGED causes
       \/ /\ Polled = AtEnd /\ trailers
          /\ \/ frame' = Trailers /\ UNCHANGED causes
             \/ frame' = Error /\ causes' = causes \union {"bad_trailers"}
       \/ /\ Polled = AtEnd /\ ~trailers
          /\ frame' = AtEnd /\ UNCHANGED causes
       \/ /\ Polled = AtEnd
          /\ frame' = AtEnd /\ causes' = causes \union {"pending"}
    /\ UNCHANGED <<request, remaining_data, response>>

(* poll_frame in State::Done, and of IncomingBodyInner::Empty *)
PollDone ==
    /\ Polling /\ body \in {"Done", "Empty"}
    /\ frame' = AtEnd
    /\ UNCHANGED <<request, frames, trailers, body, remaining_data, response, causes>>

(* copy_body: send the data and poll again; trailers, the end and an error *)
(* are the last thing it does.  A send may fail.                           *)
CopyBody ==
    /\ response.end = "open" /\ frame # Idle
    /\ \/ /\ frame.type = "data"
          /\ response' = [response EXCEPT !.bytes = @ \o frame.bytes]
          /\ UNCHANGED causes
       \/ /\ frame.type # "data"
          /\ response' = [response EXCEPT !.end = frame.type]
          /\ UNCHANGED causes
       \/ /\ frame.type # "err"
          /\ response' = [response EXCEPT !.end = "err"]
          /\ causes' = causes \union {"send"}
    /\ frame' = Idle
    /\ UNCHANGED <<request, frames, trailers, body, remaining_data>>

BodyNext == ClientFrames \/ PollData \/ PollTrailers \/ PollDone \/ CopyBody

BodySpec == BodyInit /\ [][BodyNext]_bodyVars

-----------------------------------------------------------------------------
is_end_stream == body # "Data" \/ remaining_data = 0
size_hint == IF body = "Data" THEN remaining_data ELSE 0

(* The response is the request's body, each byte once and in order, and    *)
(* never more of it than its Content-Length; one that ends well is the     *)
(* whole body, with the client's trailers if it sent some, unless h3's     *)
(* recv_trailers was not ready at once; one that does not has a reason     *)
(* outside the server or too long a body.  While there is data to come     *)
(* size_hint is what is missing of the Content-Length, and once            *)
(* is_end_stream says so no data is left that could be delivered           *)
(* (QuicIncomingBodyInner, TrackedBody, copy_body).                        *)
BodyIsFaithful ==
    LET out == response.bytes \o frame.bytes
        limited == has_body(request.method) /\ request.length # NoLength
        due == IF ~has_body(request.method) THEN 0
               ELSE IF limited THEN Min({request.early, request.length}) ELSE request.early
        well == response.end # "err" /\ frame # Error
    IN  /\ \A i \in DOMAIN out : out[i] = i
        /\ Len(out) <= due
        /\ response.end \in {"none", "trailers"} =>
              /\ Len(out) = due
              /\ has_body(request.method) => request.early = due
              /\ response.end = "trailers" => request.late /\ has_body(request.method)
              /\ request.late /\ has_body(request.method) =>
                    response.end = "trailers" \/ "pending" \in causes
        /\ response.end = "err" =>
              causes \ {"pending"} # {} \/ (limited /\ request.sent > request.length)
        /\ limited /\ body = "Data" /\ well => Len(out) + size_hint = request.length
        /\ is_end_stream /\ well => Len(out) = due
=============================================================================
