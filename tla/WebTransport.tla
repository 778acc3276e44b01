---------------------------- MODULE WebTransport ----------------------------
(***************************************************************************)
(* scuffle-h3-webtransport (crates/h3-webtransport): the ConnectionDriver  *)
(* that sorts what a client opens on one HTTP/3 connection (server.rs),    *)
(* and the sessions that requests are upgraded to (session.rs).            *)
(*                                                                         *)
(* A session is named after its CONNECT request.  An item is a stream or   *)
(* datagram the client addresses to a session.  The driver is one task; a  *)
(* step of it ends at an await, or where another thread can see what it    *)
(* has done so far.                                                        *)
(***************************************************************************)
EXTENDS Naturals, Sequences, Functions

CONSTANTS Session, Item,
          Kind,         \* Kind[i]: "uni", "bidi" or "dgram"
          To,           \* To[i]: the session item i is for
          None,
          SessionCap,   \* capacity of a session's channels (16)
          RequestCap,   \* capacity of the request channels (128)
          Plans         \* what a client may open, and whether the driver and Incoming
                        \* run apart (split) or in Connection::accept

ASSUME WebTransportAssumption ==
    /\ Kind \in [Item -> {"uni", "bidi", "dgram"}] /\ To \in [Item -> Session]
    /\ None \notin Session \cup Item /\ Session \cap Item = {}
    /\ SessionCap \in Nat \ {0} /\ RequestCap \in Nat \ {0}
    /\ Plans \subseteq [opens : SUBSET (Session \cup Item), split : BOOLEAN]

VARIABLES plan,
          conn,       \* the HTTP/3 connection
          req,        \* life of a request, and of the session it becomes
          item,       \* where an item is
          framed,     \* streams whose first frame has arrived
          pc, held,   \* the driver: its next step, the stream it holds
          map,        \* webtransport_session_map
          closes,     \* session_close_rx
          wtq,        \* webtransport_request_rx
          incoming,   \* the channel of request_sender, None once Incoming is dropped
          chan,       \* chan[s][k]: the channels of session s
          dg,         \* per session: a send_datagram call
          est         \* ghost: items sent to a session the client had a 200 for

client == <<plan, conn, framed, est>>
driver == <<pc, held, map, closes>>
vars   == <<client, req, item, driver, wtq, incoming, chan, dg>>

Kinds == {"uni", "bidi", "dgram"}

Init ==
    /\ plan \in Plans
    /\ conn = "open" /\ framed = {} /\ est = {}
    /\ req = [s \in Session |-> "none"] /\ item = [i \in Item |-> "none"]
    /\ pc = "poll" /\ held = None /\ map = {} /\ closes = <<>>
    /\ wtq = <<>> /\ incoming = <<>>
    /\ chan = [s \in Session |-> [k \in Kinds |-> <<>>]]
    /\ dg = [s \in Session |-> "none"]

----------------------------------------------------------------------------
(* The client (external).                                                  *)

ClientConnect(s) ==
    /\ conn = "open" /\ s \in plan.opens /\ req[s] = "none"
    /\ req' = [req EXCEPT ![s] = "arrived"]
    /\ UNCHANGED <<client, item, driver, wtq, incoming, chan, dg>>

\* Also for a session that is not there yet, or no longer
ClientOpen(i) ==
    /\ conn = "open" /\ i \in plan.opens /\ item[i] = "none"
    /\ item' = [item EXCEPT ![i] = "arrived"]
    /\ est' = IF req[To[i]] \in {"open", "closed"} THEN est \cup {i} ELSE est
    /\ UNCHANGED <<plan, conn, framed, req, driver, wtq, incoming, chan, dg>>

Opened(x) == IF x \in Session THEN req[x] \in {"arrived", "held"} ELSE item[x] \in {"arrived", "held"}

ClientFrame(x) ==
    /\ x \notin framed /\ Opened(x)
    /\ framed' = framed \cup {x}
    /\ UNCHANGED <<plan, conn, est, req, item, driver, wtq, incoming, chan, dg>>

ClientClose ==
    /\ conn = "open" /\ conn' = "closed"
    /\ UNCHANGED <<plan, framed, est, req, item, driver, wtq, incoming, chan, dg>>

----------------------------------------------------------------------------
(* ConnectionDriver::drive.                                                *)

\* Request streams: every bidirectional stream, before its first frame is read
Streams == {s \in Session : req[s] = "arrived"} \cup {i \in Item : Kind[i] = "bidi" /\ item[i] = "arrived"}
Arrived(k) == {i \in Item : Kind[i] = k /\ item[i] = "arrived"}

\* poll_inner polls its two channels first.  poll_recv returns Pending when a
\* channel is empty, and whenever tokio's budget for the task is used up.
PollInner == pc = "poll"

\* What holds stream x becomes st
Put(x, st) ==
    /\ req' = IF x \in Session THEN [req EXCEPT ![x] = st] ELSE req
    /\ item' = IF x \in Item THEN [item EXCEPT ![x] = st] ELSE item

\* Mutant: a closed session takes the whole map with it
CloseClearsMap ==
    /\ PollInner /\ closes # <<>>
    /\ map' = {} /\ closes' = Tail(closes)
    /\ UNCHANGED <<client, req, item, pc, held, wtq, incoming, chan, dg>>

\* Winner::Close
TakeClose ==
    /\ PollInner /\ closes # <<>>
    /\ map' = map \ {Head(closes)} /\ closes' = Tail(closes)
    /\ UNCHANGED <<client, req, item, pc, held, wtq, incoming, chan, dg>>

\* Mutant: inserted whether or not anybody waits for the answer
UpgradeUnchecked ==
    /\ PollInner /\ wtq # <<>> /\ Head(wtq).type = "upgrade"
    /\ wtq' = Tail(wtq)
    /\ pc' = "insert" /\ held' = Head(wtq).s
    /\ req' = [req EXCEPT ![held'] = IF @ = "upgrading" THEN "answered" ELSE @]
    /\ UNCHANGED <<client, item, map, closes, incoming, chan, dg>>

\* Winner::WebTransport(Upgrade): answered unless the request's future is gone
TakeUpgrade ==
    /\ PollInner /\ wtq # <<>> /\ Head(wtq).type = "upgrade"
    /\ wtq' = Tail(wtq)
    /\ LET s == Head(wtq).s
       IN  IF req[s] = "upgrading"
           THEN req' = [req EXCEPT ![s] = "answered"] /\ pc' = "insert" /\ held' = s
           ELSE UNCHANGED <<req, pc, held>>
    /\ UNCHANGED <<client, item, map, closes, incoming, chan, dg>>

\* ... and inserted: the session's task may have run in between
Insert ==
    /\ pc = "insert"
    /\ map' = map \cup {held}
    /\ pc' = "poll" /\ held' = None
    /\ UNCHANGED <<client, req, item, closes, wtq, incoming, chan, dg>>

\* Winner::WebTransport(SendDatagram)
TakeSendDatagram ==
    /\ PollInner /\ wtq # <<>> /\ Head(wtq).type = "dgram"
    /\ wtq' = Tail(wtq)
    /\ dg' = [dg EXCEPT ![Head(wtq).s] = IF @ = "waiting" THEN "done" ELSE @]
    /\ UNCHANGED <<client, req, item, driver, incoming, chan>>

\* Winner::Request: the driver waits for the stream's first frame
TakeStream(x) ==
    /\ PollInner /\ x \in Streams
    /\ Put(x, "held")
    /\ pc' = "frame" /\ held' = x
    /\ UNCHANGED <<client, map, closes, wtq, incoming, chan, dg>>

\* To the channel of a session in the map; otherwise a stream is rejected and
\* a datagram dropped
Route(i) ==
    IF To[i] \in map
    THEN pc' = "send" /\ held' = i /\ Put(i, "held")
    ELSE pc' = "poll" /\ held' = None /\ Put(i, IF Kind[i] = "dgram" THEN "dropped" ELSE "rejected")

\* Winner::Uni and Winner::Datagram
TakeItem(i) ==
    /\ PollInner /\ Streams = {}
    /\ i \in Arrived("uni") \/ (i \in Arrived("dgram") /\ Arrived("uni") = {})
    /\ Route(i)
    /\ UNCHANGED <<client, map, closes, wtq, incoming, chan, dg>>

\* The first frame names a session, or begins a request, which is resolved
ReadFrame ==
    /\ pc = "frame" /\ held \in framed
    /\ IF held \in Item THEN Route(held) ELSE pc' = "forward" /\ UNCHANGED <<held, req, item>>
    /\ UNCHANGED <<client, map, closes, wtq, incoming, chan, dg>>

\* The receivers of a session live as long as WebTransportSession::new and then
\* the session do
Receives(s) == req[s] \in {"sending", "upgrading", "answered", "open"}

\* send on the session's channel waits for room, or fails
SendItem ==
    LET s == To[held]  k == Kind[held] IN
    /\ pc = "send"
    /\ \/ /\ Receives(s) /\ Len(chan[s][k]) < SessionCap
          /\ chan' = [chan EXCEPT ![s][k] = Append(@, held)]
          /\ Put(held, "queued")
       \/ /\ ~Receives(s)
          /\ Put(held, IF k = "dgram" THEN "dropped" ELSE "rejected")
          /\ UNCHANGED chan
    /\ pc' = "poll" /\ held' = None
    /\ UNCHANGED <<client, map, closes, wtq, incoming, dg>>

\* request_sender.send
Forward ==
    /\ pc = "forward" /\ incoming # None /\ Len(incoming) < RequestCap
    /\ incoming' = Append(incoming, held)
    /\ Put(held, "queued")
    /\ pc' = "poll" /\ held' = None
    /\ UNCHANGED <<client, map, closes, wtq, chan, dg>>

\* Mutant: drive returns, and the driver with its channels is kept
EndKept ==
    /\ \/ PollInner /\ conn = "closed"
       \/ pc = "frame"
       \/ pc = "forward" /\ incoming = None
    /\ pc' = "ended" /\ held' = None
    /\ IF held = None THEN UNCHANGED <<req, item>> ELSE Put(held, "dropped")
    /\ UNCHANGED <<client, map, closes, wtq, incoming, chan, dg>>

\* drive returns: the connection has ended, the held stream ended without a
\* frame or its request does not resolve, or nobody takes requests any more.
\* The driver goes away with it: the application runs drive in a task that owns
\* the driver, the half that Connection::split gives.  Connection::accept only
\* borrows it, and one who keeps the Connection keeps its maps and channels.
End ==
    /\ \/ PollInner /\ conn = "closed"
       \/ pc = "frame"
       \/ pc = "forward" /\ incoming = None
    /\ pc' = "ended" /\ held' = None
    /\ IF held = None THEN UNCHANGED <<req, item>> ELSE Put(held, "dropped")
    /\ map' = {} /\ closes' = <<>> /\ wtq' = <<>>
    /\ UNCHANGED <<client, incoming, chan, dg>>

----------------------------------------------------------------------------
(* The application: requests.                                              *)

\* Incoming::accept.  In Connection::accept the request wins a select against
\* drive, whose future is dropped with the stream it holds.
AcceptRequest ==
    /\ incoming # None /\ incoming # <<>>
    /\ incoming' = Tail(incoming)
    /\ IF plan.split
       THEN req' = [req EXCEPT ![Head(incoming)] = "handler"] /\ UNCHANGED <<item, pc, held>>
       ELSE /\ pc \in {"poll", "frame", "send", "forward"}
            /\ req' = [s \in Session |-> CASE s = Head(incoming) -> "handler"
                                           [] s = held -> "lost"
                                           [] OTHER -> req[s]]
            /\ item' = [i \in Item |-> IF i = held THEN "lost" ELSE item[i]]
            /\ pc' = "poll" /\ held' = None
    /\ UNCHANGED <<client, map, closes, wtq, chan, dg>>

\* Incoming is dropped, with the requests in its channel
DropIncoming ==
    /\ plan.split /\ incoming # None
    /\ req' = [s \in Session |-> IF s \in Range(incoming) THEN "dropped" ELSE req[s]]
    /\ incoming' = None
    /\ UNCHANGED <<client, item, driver, wtq, chan, dg>>

Become(s, st) ==
    /\ req' = [req EXCEPT ![s] = st]
    /\ UNCHANGED <<client, item, driver, incoming, dg>>

\* begin: the response carries what completes the upgrade, once
Begin(s) == req[s] = "handler" /\ Become(s, "pending") /\ UNCHANGED <<wtq, chan>>

\* complete and upgrade; or WebTransportSession::accept: `new` is called
Upgrade(s) == req[s] \in {"handler", "pending"} /\ Become(s, "sending") /\ UNCHANGED <<wtq, chan>>

\* The request is answered like any other
Respond(s) == req[s] \in {"handler", "pending"} /\ Become(s, "done") /\ UNCHANGED <<wtq, chan>>

\* new: the Upgrade is sent to the driver, if there is one
SendUpgrade(s) ==
    /\ req[s] = "sending"
    /\ \/ pc = "ended" /\ Become(s, "failed") /\ UNCHANGED wtq
       \/ /\ pc # "ended" /\ Len(wtq) < RequestCap
          /\ wtq' = Append(wtq, [type |-> "upgrade", s |-> s])
          /\ Become(s, "upgrading")
    /\ UNCHANGED chan

\* new: rx.await fails when the driver went away with the Upgrade
UpgradeFails(s) ==
    /\ req[s] = "upgrading" /\ ~\E n \in DOMAIN wtq : wtq[n] = [type |-> "upgrade", s |-> s]
    /\ Become(s, "failed") /\ UNCHANGED <<wtq, chan>>

\* Everything in the session's channels goes with their receivers
DropReceivers(s) == chan' = [chan EXCEPT ![s] = [k \in Kinds |-> <<>>]]

\* new: the 200 is sent and the session exists, or sending it fails
SendResponse(s) ==
    /\ req[s] = "answered"
    /\ \/ Become(s, "open") /\ UNCHANGED chan
       \/ Become(s, "abandoned") /\ DropReceivers(s)
    /\ UNCHANGED wtq

\* The future of new is dropped
DropUpgrade(s) ==
    /\ req[s] \in {"sending", "upgrading", "answered"}
    /\ Become(s, IF req[s] = "answered" THEN "abandoned" ELSE "failed")
    /\ DropReceivers(s) /\ UNCHANGED wtq

----------------------------------------------------------------------------
(* The application: sessions.                                              *)

\* accept_bi, accept_uni, accept_datagram
AcceptItem(s, k) ==
    /\ req[s] = "open" /\ chan[s][k] # <<>>
    /\ chan' = [chan EXCEPT ![s][k] = Tail(@)]
    /\ item' = [item EXCEPT ![Head(chan[s][k])] = "accepted"]
    /\ UNCHANGED <<client, req, driver, wtq, incoming, dg>>

\* send_datagram is called
SendDatagram(s) ==
    /\ req[s] = "open" /\ dg[s] = "none"
    /\ dg' = [dg EXCEPT ![s] = "sending"]
    /\ UNCHANGED <<client, req, item, driver, wtq, incoming, chan>>

\* ... sends the request, then waits for the answer or for the driver to go
SendDatagramStep(s) ==
    /\ \/ /\ dg[s] = "sending" /\ pc # "ended" /\ Len(wtq) < RequestCap
          /\ wtq' = Append(wtq, [type |-> "dgram", s |-> s])
          /\ dg' = [dg EXCEPT ![s] = "waiting"]
       \/ /\ dg[s] = "sending" /\ pc = "ended"
          /\ dg' = [dg EXCEPT ![s] = "done"] /\ UNCHANGED wtq
       \/ /\ dg[s] = "waiting" /\ ~\E n \in DOMAIN wtq : wtq[n] = [type |-> "dgram", s |-> s]
          /\ dg' = [dg EXCEPT ![s] = "done"] /\ UNCHANGED wtq
    /\ UNCHANGED <<client, req, item, driver, incoming, chan>>

\* Drop for WebTransportSession
DropSession(s) ==
    /\ req[s] = "open"
    /\ req' = [req EXCEPT ![s] = "closed"]
    /\ closes' = IF pc = "ended" THEN closes ELSE Append(closes, s)
    /\ DropReceivers(s)
    /\ dg' = [dg EXCEPT ![s] = "none"]
    /\ UNCHANGED <<client, item, pc, held, map, wtq, incoming>>

----------------------------------------------------------------------------

Drive == \/ TakeClose \/ TakeUpgrade \/ Insert \/ TakeSendDatagram \/ ReadFrame \/ SendItem \/ Forward
         \/ \E x \in Session \cup Item : TakeStream(x)
         \/ \E i \in Item : TakeItem(i)
Closing == pc \in {"poll", "forward"} /\ End

\* The steps of WebTransportSession::new and send_datagram
SessionStep(s) == SendUpgrade(s) \/ UpgradeFails(s) \/ SendResponse(s) \/ SendDatagramStep(s)

Next ==
    \/ Drive \/ End \/ AcceptRequest \/ DropIncoming \/ ClientClose
    \/ \E s \in Session : \/ ClientConnect(s) \/ Begin(s) \/ Upgrade(s) \/ Respond(s) \/ SessionStep(s)
                          \/ DropUpgrade(s) \/ SendDatagram(s) \/ DropSession(s)
                          \/ \E k \in Kinds : AcceptItem(s, k)
    \/ \E i \in Item : ClientOpen(i)
    \/ \E x \in Session \cup {i \in Item : Kind[i] = "bidi"} : ClientFrame(x)

Spec == Init /\ [][Next]_vars

\* The driver's task runs, requests are accepted, futures of new and
\* send_datagram are polled, and sessions accept what is sent to them.
Fairness ==
    /\ WF_vars(Drive \/ Closing) /\ WF_vars(AcceptRequest)
    /\ \A s \in Session : /\ WF_vars(SessionStep(s))
                          /\ \A k \in Kinds : WF_vars(AcceptItem(s, k))

FairSpec == Spec /\ Fairness

\* The client sends at least a frame on each stream it opens.
PeerFairSpec == FairSpec /\ \A x \in Session \cup Item : WF_vars(ClientFrame(x))

----------------------------------------------------------------------------
(* Properties.                                                             *)

\* The map holds no dead sessions: each is alive, or its close is on the way
\* to the driver, however upgrade, insertion and drop interleave.  Only a
\* request that went away between the answer and the session stays behind.
MapIsLive ==
    \A s \in map : \/ req[s] \in {"answered", "open", "abandoned"}
                   \/ req[s] = "closed" /\ s \in Range(closes)

\* A stream a client opens after its 200 is not rejected while the session is
\* alive: the 200 leaves another task, before or after the driver inserted
\* the session in its map.
EstablishedIsRouted ==
    [][\A i \in est : item[i] # item'[i] /\ item'[i] \in {"rejected", "dropped"} /\ pc' # "ended"
          => req[To[i]] # "open"]_vars

\* An upgrade is answered one way or the other, and send_datagram returns, also
\* when the driver goes away.
CallsReturn ==
    \A s \in Session : /\ req[s] \in {"sending", "upgrading"} ~> req[s] \notin {"sending", "upgrading"}
                       /\ dg[s] \in {"sending", "waiting"} ~> dg[s] \in {"none", "done"}
=============================================================================
