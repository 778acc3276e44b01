--------------------------- MODULE ProtocolProofs ---------------------------
(***************************************************************************)
(* Proofs about the RTMP handshake, for every length of its parts and      *)
(* every offset the client or the server draws; and about WebTransport,    *)
(* for every set of sessions and of items, any capacity of the queues and  *)
(* every order of arrivals, answers, upgrades, closes and the end of the   *)
(* connection.                                                             *)
(***************************************************************************)
EXTENDS RtmpHandshake, WebTransport, TLAPS

(* WebTransport. *)

\* Life of a request: before it is a session, and then
Early == {"none", "arrived", "held", "queued", "handler", "pending", "sending", "upgrading",
          "dropped", "lost", "done", "failed"}
Live  == {"answered", "open", "abandoned"}

RouteTypeOK ==
    /\ req \in [Session -> Early \cup Live \cup {"closed"}]
    /\ DOMAIN item = Item
    /\ pc \in {"poll", "insert", "frame", "send", "forward", "ended"}
    /\ held \in Session \cup Item \cup {None}
    /\ map \in SUBSET Session /\ closes \in Seq(Session)
    /\ incoming # None => incoming \in Seq(Session)
    /\ wtq \in Seq([type : {"upgrade", "dgram"}, s : Session])

\* Alive, or its close is on the way to the driver
Tracked(s) == req[s] \in Live \/ (req[s] = "closed" /\ \E n \in DOMAIN closes : closes[n] = s)

\* The map and the session about to be inserted are tracked; a session the
\* client may use is one of these while the driver runs; what the driver
\* and Incoming hold are requests that are no session yet.
RouteInv ==
    /\ RouteTypeOK
    /\ \A s \in map : Tracked(s)
    /\ pc = "ended" => map = {} /\ closes = <<>>
    /\ pc = "insert" => held \in Session /\ Tracked(held)
    /\ \A s \in Session : req[s] \in Live => s \in map \/ pc = "ended" \/ (pc = "insert" /\ held = s)
    /\ \A n \in DOMAIN closes : req[closes[n]] = "closed"
    /\ pc \in {"frame", "send", "forward"} <=> held # None /\ pc # "insert"
    /\ pc \in {"frame", "forward"} /\ held \in Session => req[held] = "held"
    /\ (pc = "send" => held \in Item) /\ (pc = "forward" => held \in Session)
    /\ incoming # None =>
         /\ \A n \in DOMAIN incoming : req[incoming[n]] = "queued"
         /\ \A m, n \in DOMAIN incoming : incoming[m] = incoming[n] => m = n

\* The front of a queue and what is left of it.
LEMMA HeadAndTail ==
    ASSUME NEW S, NEW q \in Seq(S), q # <<>>
    PROVE  Head(q) \in S /\ Tail(q) \in Seq(S)
OBVIOUS

\* A new connection satisfies the invariant.
LEMMA RouteInitInv == Init => RouteInv
BY WebTransportAssumption DEF Init, RouteInv, RouteTypeOK, Early, Live

\* What the invariant says of the map.
LEMMA RouteInvSays == RouteInv => MapIsLive
BY DEF RouteInv, RouteTypeOK, Tracked, Live, MapIsLive, Range

\* A step that touches no request, nor what the driver and Incoming hold.
LEMMA RouteQuiet ==
    ASSUME RouteInv, UNCHANGED <<req, driver, incoming>>, DOMAIN item' = Item,
           wtq' \in Seq([type : {"upgrade", "dgram"}, s : Session])
    PROVE  RouteInv'
BY DEF RouteInv, RouteTypeOK, Tracked, driver

\* A step of the client or of a handler on its own request: it stays a request
\* that is no session yet, or a session whose close has not been sent.
LEMMA RouteBecome ==
    ASSUME RouteInv, NEW s \in Session, NEW st,
           req' = [req EXCEPT ![s] = st], UNCHANGED <<driver, item, incoming>>,
           wtq' \in Seq([type : {"upgrade", "dgram"}, s : Session]),
           \/ req[s] \in Early \ {"held", "queued"} /\ st \in Early
           \/ req[s] \in Live /\ st \in Live
    PROVE  RouteInv'
<1>1. req[s] \notin {"held", "queued", "closed"} /\ st # "closed"
    BY DEF Early, Live
<1>2. \A x \in Session : x # s => req'[x] = req[x]
    BY DEF RouteInv, RouteTypeOK
<1>3. req'[s] = st
    BY DEF RouteInv, RouteTypeOK
<1>4. RouteTypeOK'
    BY DEF RouteInv, RouteTypeOK, driver
<1>5. ASSUME NEW x \in Session, Tracked(x) PROVE Tracked(x)'
    BY <1>1, <1>2, <1>3, <1>5 DEF Tracked, driver, Early, Live
<1>6. ASSUME NEW x \in Session, req'[x] \in Live PROVE req[x] \in Live
    BY <1>2, <1>3, <1>6 DEF Early, Live
<1>7. \A n \in DOMAIN closes : req'[closes[n]] = "closed"
    BY <1>1, <1>2 DEF RouteInv, RouteTypeOK
<1>8. held \in Session /\ req[held] = "held" => req'[held] = "held"
    BY <1>1, <1>2
<1>9. incoming # None => \A n \in DOMAIN incoming : req'[incoming[n]] = "queued"
    BY <1>1, <1>2 DEF RouteInv, RouteTypeOK
<1> QED
    BY <1>4, <1>5, <1>6, <1>7, <1>8, <1>9 DEF RouteInv, RouteTypeOK, driver

\* What of the invariant only a change of the driver's hold can disturb.
LEMMA RouteHold ==
    ASSUME RouteInv, RouteTypeOK', NEW x, UNCHANGED <<map, closes, incoming>>,
           \A s \in Session : s # x => req'[s] = req[s],
           x \in Session => req[x] \in Early \ {"queued"} /\ req'[x] \in Early \cup {"answered"},
           x \in Session /\ req'[x] = "answered" => pc' = "insert" /\ held' = x,
           pc # "insert", pc' = "ended" <=> pc = "ended"
    PROVE  /\ \A s \in map' : Tracked(s)'
           /\ \A s \in Session : req'[s] \in Live => s \in map' \/ pc' = "ended" \/ (pc' = "insert" /\ held' = s)
           /\ \A n \in DOMAIN closes' : req'[closes'[n]] = "closed"
           /\ incoming # None => \A n \in DOMAIN incoming : req'[incoming[n]] = "queued"
<1>1. \A s \in Session : req[s] \in Live \cup {"closed", "queued"} => req'[s] = req[s]
    BY DEF Early, Live
<1>2. \A s \in Session : req'[s] \in Live => req[s] \in Live \/ (pc' = "insert" /\ held' = s)
    BY DEF Early, Live
<1>3. \A s \in map : Tracked(s)'
    BY <1>1 DEF RouteInv, RouteTypeOK, Tracked, Live
<1>4. \A n \in DOMAIN closes : req'[closes[n]] = "closed"
    BY <1>1 DEF RouteInv, RouteTypeOK
<1>5. incoming # None => \A n \in DOMAIN incoming : req'[incoming[n]] = "queued"
    BY <1>1 DEF RouteInv, RouteTypeOK
<1> QED
    BY <1>2, <1>3, <1>4, <1>5 DEF RouteInv

\* The driver takes a close from its channel.
LEMMA RouteTakeClose == RouteInv /\ TakeClose => RouteInv'
<1> SUFFICES ASSUME RouteInv, TakeClose PROVE RouteInv'
    OBVIOUS
<1> DEFINE c == Head(closes)
<1>1. closes \in Seq(Session) /\ closes # <<>> /\ closes' = Tail(closes) /\ pc = "poll"
    BY DEF RouteInv, RouteTypeOK, TakeClose, PollInner
<1>2. closes' \in Seq(Session) /\ Len(closes') = Len(closes) - 1 /\ c = closes[1]
      /\ \A n \in 1 .. Len(closes) - 1 : closes'[n] = closes[n + 1]
    BY <1>1
<1>3. req[c] = "closed" /\ c \in Session
    BY <1>1, <1>2 DEF RouteInv, RouteTypeOK
<1>4. \A n \in DOMAIN closes' : req[closes'[n]] = "closed"
    BY <1>1, <1>2 DEF RouteInv
<1>5. ASSUME NEW s \in map, s # c PROVE Tracked(s)'
    <2>1. Tracked(s) /\ req' = req
        BY DEF RouteInv, TakeClose
    <2>2. ASSUME NEW n \in DOMAIN closes, closes[n] = s PROVE \E m \in DOMAIN closes' : closes'[m] = s
        <3>1. n - 1 \in DOMAIN closes' /\ closes'[n - 1] = s
            BY <1>1, <1>2, <1>5, <2>2
        <3> QED
            BY <3>1
    <2> QED
        BY <2>1, <2>2 DEF Tracked
<1>6. map' = map \ {c} /\ UNCHANGED <<req, item, pc, held, wtq, incoming>>
    BY DEF TakeClose
<1>7. RouteTypeOK'
    BY <1>2, <1>6 DEF RouteInv, RouteTypeOK
<1>8. \A s \in Session : req[s] \in Live => s # c
    BY <1>3 DEF Live
<1> QED
    BY <1>1, <1>4, <1>5, <1>6, <1>7, <1>8 DEF RouteInv

\* The driver answers an upgrade, whose future may be gone.
LEMMA RouteTakeUpgrade == RouteInv /\ TakeUpgrade => RouteInv'
<1> SUFFICES ASSUME RouteInv, TakeUpgrade PROVE RouteInv'
    OBVIOUS
<1>0. PICK s : s = Head(wtq).s
    OBVIOUS
<1>1. wtq # <<>> /\ wtq' = Tail(wtq) /\ pc = "poll" /\ UNCHANGED <<item, map, closes, incoming>>
    BY DEF TakeUpgrade, PollInner
<1>2. s \in Session /\ wtq' \in Seq([type : {"upgrade", "dgram"}, s : Session])
    <2>1. wtq \in Seq([type : {"upgrade", "dgram"}, s : Session])
        BY DEF RouteInv, RouteTypeOK
    <2>2. Head(wtq) \in [type : {"upgrade", "dgram"}, s : Session]
        BY <1>1, <2>1, HeadAndTail, Zenon
    <2> QED
        BY <1>0, <1>1, <2>1, <2>2, HeadAndTail
<1>3. CASE req[s] = "upgrading"
    <2>1. req' = [req EXCEPT ![s] = "answered"] /\ pc' = "insert" /\ held' = s
        BY <1>0, <1>3 DEF TakeUpgrade
    <2>2. RouteTypeOK' /\ req'[s] = "answered" /\ \A x \in Session : x # s => req'[x] = req[x]
        BY <1>1, <1>2, <2>1 DEF RouteInv, RouteTypeOK, Live
    <2>3. /\ \A x \in map' : Tracked(x)'
          /\ \A x \in Session : req'[x] \in Live => x \in map' \/ pc' = "ended" \/ (pc' = "insert" /\ held' = x)
          /\ \A n \in DOMAIN closes' : req'[closes'[n]] = "closed"
          /\ incoming # None => \A n \in DOMAIN incoming : req'[incoming[n]] = "queued"
        BY <1>1, <1>2, <1>3, <2>1, <2>2, RouteHold DEF Early
    <2>4. Tracked(s)'
        BY <2>2 DEF Tracked, Live
    <2>5. s # None
        BY <1>2, WebTransportAssumption
    <2> QED
        BY <1>1, <1>2, <2>1, <2>2, <2>3, <2>4, <2>5 DEF RouteInv
<1>4. CASE req[s] # "upgrading"
    <2>1. UNCHANGED <<req, driver, incoming, item>>
        BY <1>0, <1>1, <1>4 DEF TakeUpgrade, driver
    <2> QED
        BY <1>2, <2>1, RouteQuiet DEF RouteInv, RouteTypeOK
<1> QED
    BY <1>3, <1>4

\* The session is inserted, whatever became of it meanwhile.
LEMMA RouteInsert == RouteInv /\ Insert => RouteInv'
<1> SUFFICES ASSUME RouteInv, Insert PROVE RouteInv'
    OBVIOUS
<1>1. /\ pc = "insert" /\ map' = map \cup {held} /\ pc' = "poll" /\ held' = None
      /\ UNCHANGED <<req, item, closes, wtq, incoming>>
    BY DEF Insert
<1>2. held \in Session /\ Tracked(held)
    BY <1>1 DEF RouteInv
<1>3. RouteTypeOK'
    BY <1>1, <1>2 DEF RouteInv, RouteTypeOK
<1>4. \A s \in map' : Tracked(s)'
    BY <1>1, <1>2 DEF RouteInv, Tracked
<1> QED
    BY <1>1, <1>2, <1>3, <1>4 DEF RouteInv

\* The driver takes hold of a stream.
LEMMA RouteTakeStream ==
    ASSUME RouteInv, NEW x \in Session \cup Item, TakeStream(x)
    PROVE  RouteInv'
<1>1. /\ pc = "poll" /\ pc' = "frame" /\ held' = x /\ Put(x, "held") /\ x \in Streams
      /\ UNCHANGED <<map, closes, wtq, incoming>>
    BY DEF TakeStream, PollInner
<1>2. x \in Session => req[x] = "arrived" /\ req'[x] = "held"
    BY <1>1, WebTransportAssumption DEF Streams, Put, RouteInv, RouteTypeOK
<1>3. \A s \in Session : s # x => req'[s] = req[s]
    BY <1>1 DEF Put, RouteInv, RouteTypeOK
<1>4. RouteTypeOK'
    BY <1>1 DEF Put, RouteInv, RouteTypeOK, Early
<1>5. /\ \A s \in map' : Tracked(s)'
      /\ \A s \in Session : req'[s] \in Live => s \in map' \/ pc' = "ended" \/ (pc' = "insert" /\ held' = s)
      /\ \A n \in DOMAIN closes' : req'[closes'[n]] = "closed"
      /\ incoming # None => \A n \in DOMAIN incoming : req'[incoming[n]] = "queued"
    BY <1>1, <1>2, <1>3, <1>4, RouteHold DEF Early
<1>6. x # None
    BY WebTransportAssumption
<1> QED
    BY <1>1, <1>2, <1>4, <1>5, <1>6 DEF RouteInv

\* The driver routes an item, or learns that its session is not there.
LEMMA RouteRoute ==
    ASSUME RouteInv, NEW i \in Item, Route(i), pc \in {"poll", "frame"}, UNCHANGED <<map, closes, wtq, incoming>>
    PROVE  RouteInv'
<1>1. i \notin Session /\ i # None
    BY WebTransportAssumption
<1>2. /\ req' = req /\ DOMAIN item' = Item
      /\ (pc' = "send" /\ held' = i) \/ (pc' = "poll" /\ held' = None)
    BY <1>1 DEF Route, Put, RouteInv, RouteTypeOK
<1> QED
    BY <1>1, <1>2 DEF RouteInv, RouteTypeOK, Tracked

\* The first frame of the held stream is read.
LEMMA RouteReadFrame == RouteInv /\ ReadFrame => RouteInv'
<1> SUFFICES ASSUME RouteInv, ReadFrame PROVE RouteInv'
    OBVIOUS
<1>1. pc = "frame" /\ UNCHANGED <<map, closes, wtq, incoming>>
    BY DEF ReadFrame
<1>2. CASE held \in Item
    BY <1>1, <1>2, RouteRoute DEF ReadFrame
<1>3. CASE held \notin Item
    <2>1. pc' = "forward" /\ UNCHANGED <<held, req, item>>
        BY <1>3 DEF ReadFrame
    <2>2. held \in Session
        BY <1>1, <1>3 DEF RouteInv, RouteTypeOK
    <2>3. RouteTypeOK'
        BY <1>1, <2>1 DEF RouteInv, RouteTypeOK
    <2> QED
        BY <1>1, <2>1, <2>2, <2>3 DEF RouteInv, Tracked
<1> QED
    BY <1>2, <1>3

\* The held item goes to its session, or is rejected.
LEMMA RouteSendItem == RouteInv /\ SendItem => RouteInv'
<1> SUFFICES ASSUME RouteInv, SendItem PROVE RouteInv'
    OBVIOUS
<1>1. pc = "send" /\ pc' = "poll" /\ held' = None /\ UNCHANGED <<map, closes, wtq, incoming>>
    BY DEF SendItem
<1>2. held \in Item /\ held \notin Session
    BY <1>1, WebTransportAssumption DEF RouteInv
<1>3. req' = req /\ DOMAIN item' = Item
    BY <1>2, Zenon DEF SendItem, Put, RouteInv, RouteTypeOK
<1> QED
    BY <1>1, <1>3 DEF RouteInv, RouteTypeOK, Tracked

\* The driver passes a request on.
LEMMA RouteForward == RouteInv /\ Forward => RouteInv'
<1> SUFFICES ASSUME RouteInv, Forward PROVE RouteInv'
    OBVIOUS
<1>1. /\ pc = "forward" /\ pc' = "poll" /\ held' = None /\ incoming # None
      /\ incoming' = Append(incoming, held) /\ Put(held, "queued")
      /\ UNCHANGED <<map, closes, wtq>>
    BY DEF Forward
<1>2. held \in Session /\ req[held] = "held"
    BY <1>1 DEF RouteInv, RouteTypeOK
<1>3. req' = [req EXCEPT ![held] = "queued"] /\ DOMAIN item' = Item
    BY <1>1, <1>2 DEF Put, RouteInv, RouteTypeOK
<1>4. incoming \in Seq(Session) /\ incoming' \in Seq(Session) /\ Len(incoming') = Len(incoming) + 1
      /\ incoming'[Len(incoming) + 1] = held /\ \A n \in 1..Len(incoming) : incoming'[n] = incoming[n]
    BY <1>1, <1>2, SMTT(20) DEF RouteInv, RouteTypeOK
<1>5. RouteTypeOK'
    BY <1>1, <1>2, <1>3, <1>4 DEF RouteInv, RouteTypeOK, Early
<1>6. req'[held] = "queued" /\ \A s \in Session : s # held => req'[s] = req[s]
    BY <1>2, <1>3 DEF RouteInv, RouteTypeOK
<1>7. \A s \in map : Tracked(s)'
    <2>1. ASSUME NEW s \in map PROVE Tracked(s)'
        <3>1. s \in Session /\ Tracked(s)
            BY DEF RouteInv, RouteTypeOK
        <3>2. req'[s] = req[s]
            BY <1>2, <1>6, <3>1 DEF Tracked, Live
        <3> QED
            BY <1>1, <3>1, <3>2 DEF Tracked
    <2> QED
        BY <2>1
<1>8. \A s \in Session : req'[s] \in Live => s \in map
    BY <1>1, <1>6 DEF RouteInv, Live
<1>9. \A n \in DOMAIN closes : req'[closes[n]] = "closed"
    BY <1>2, <1>6 DEF RouteInv, RouteTypeOK
<1>10. \A n \in 1..Len(incoming) : req[incoming[n]] = "queued" /\ incoming[n] # held
    BY <1>1, <1>2, <1>4 DEF RouteInv
<1>11. \A n \in DOMAIN incoming' : req'[incoming'[n]] = "queued"
    BY <1>4, <1>6, <1>10
<1>12. \A m, n \in DOMAIN incoming' : incoming'[m] = incoming'[n] => m = n
    BY <1>1, <1>4, <1>10 DEF RouteInv
<1> QED
    BY <1>1, <1>5, <1>7, <1>8, <1>9, <1>11, <1>12 DEF RouteInv

\* The driver goes away.
LEMMA RouteEnd == RouteInv /\ End => RouteInv'
<1> SUFFICES ASSUME RouteInv, End PROVE RouteInv'
    OBVIOUS
<1>1. /\ pc' = "ended" /\ held' = None /\ map' = {} /\ closes' = <<>> /\ wtq' = <<>> /\ incoming' = incoming
      /\ pc \in {"poll", "frame", "forward"}
    BY DEF End, PollInner
<1>2. /\ \A s \in Session : s # held => req'[s] = req[s]
      /\ held \in Session => req[held] = "held" /\ req'[held] = "dropped"
      /\ RouteTypeOK'
    <2>1. CASE held = None
        BY <1>1, <2>1, WebTransportAssumption DEF End, RouteInv, RouteTypeOK
    <2>2. CASE held # None
        <3>1. Put(held, "dropped")
            BY <2>2 DEF End
        <3>2. held \in Session => req[held] = "held"
            BY <1>1, <2>2 DEF RouteInv
        <3> QED
            BY <1>1, <3>1, <3>2 DEF Put, RouteInv, RouteTypeOK, Early
    <2> QED
        BY <2>1, <2>2
<1>3. incoming # None => \A n \in DOMAIN incoming : req'[incoming[n]] = "queued"
    BY <1>2 DEF RouteInv, RouteTypeOK
<1> QED
    BY <1>1, <1>2, <1>3 DEF RouteInv

\* A request is accepted, and with Connection::accept the driver's hold is lost.
LEMMA RouteAcceptRequest == RouteInv /\ AcceptRequest => RouteInv'
<1> SUFFICES ASSUME RouteInv, AcceptRequest PROVE RouteInv'
    OBVIOUS
<1>0. PICK h : h = Head(incoming)
    OBVIOUS
<1>1. incoming # None /\ incoming # <<>> /\ incoming' = Tail(incoming) /\ UNCHANGED <<map, closes, wtq>>
    BY DEF AcceptRequest
<1>2. /\ incoming \in Seq(Session) /\ incoming' \in Seq(Session) /\ Len(incoming') = Len(incoming) - 1
      /\ h = incoming[1] /\ 1 \in DOMAIN incoming /\ h \in Session
      /\ \A n \in 1 .. Len(incoming) - 1 : incoming'[n] = incoming[n + 1]
    BY <1>0, <1>1 DEF RouteInv, RouteTypeOK
<1>3. req[h] = "queued" /\ \A n \in DOMAIN incoming' : incoming'[n] # h /\ req[incoming'[n]] = "queued"
    BY <1>1, <1>2 DEF RouteInv
<1>4. \A m, n \in DOMAIN incoming' : incoming'[m] = incoming'[n] => m = n
    BY <1>1, <1>2 DEF RouteInv
<1>5. /\ DOMAIN item' = Item /\ req' \in [Session -> Early \cup Live \cup {"closed"}]
      /\ req'[h] = "handler"
      /\ \A s \in Session : s # h /\ s # held => req'[s] = req[s]
      /\ \/ req' = [req EXCEPT ![h] = "handler"] /\ UNCHANGED <<pc, held>>
         \/ /\ pc \in {"poll", "frame", "send", "forward"} /\ pc' = "poll" /\ held' = None
            /\ held \in Session => req[held] = "held" /\ req'[held] \in {"lost", "handler"}
    <2>1. CASE plan.split
        BY <1>0, <1>2, <2>1 DEF AcceptRequest, RouteInv, RouteTypeOK, Early
    <2>2. CASE ~plan.split
        <3>1. /\ pc \in {"poll", "frame", "send", "forward"} /\ pc' = "poll" /\ held' = None
              /\ req' = [s \in Session |-> CASE s = h -> "handler" [] s = held -> "lost" [] OTHER -> req[s]]
              /\ DOMAIN item' = Item
            BY <1>0, <2>2 DEF AcceptRequest
        <3>2. held \in Session => req[held] = "held"
            BY <3>1, WebTransportAssumption DEF RouteInv
        <3>3. h # held
            BY <1>2, <1>3, <3>2
        <3>4. ASSUME NEW s \in Session
              PROVE  req'[s] = IF s = h THEN "handler" ELSE IF s = held THEN "lost" ELSE req[s]
            BY <3>1, <3>3
        <3>5. DOMAIN req' = Session /\ req' = [s \in Session |-> req'[s]]
            BY <3>1
        <3>6. \A s \in Session : req'[s] \in Early \cup Live \cup {"closed"}
            BY <3>4 DEF RouteInv, RouteTypeOK, Early
        <3> QED
            BY <1>2, <3>1, <3>2, <3>3, <3>4, <3>5, <3>6
    <2> QED
        BY <2>1, <2>2
<1>6. \A s \in Session : req[s] \in Live \cup {"closed"} => req'[s] = req[s]
    BY <1>3, <1>5 DEF RouteInv, RouteTypeOK, Live
<1>7. \A s \in Session : req'[s] \in Live \cup {"closed"} => req'[s] = req[s]
    BY <1>3, <1>5 DEF RouteInv, RouteTypeOK, Live
<1>8. RouteTypeOK'
    BY <1>1, <1>2, <1>5 DEF RouteInv, RouteTypeOK
<1>9. \A s \in map : Tracked(s)'
    BY <1>1, <1>6 DEF RouteInv, RouteTypeOK, Tracked, Live
<1>10. \A n \in DOMAIN closes : req'[closes[n]] = "closed"
    BY <1>6 DEF RouteInv, RouteTypeOK
<1>11. \A n \in DOMAIN incoming' : req'[incoming'[n]] = "queued"
    BY <1>2, <1>3, <1>5
<1>12. CASE req' = [req EXCEPT ![h] = "handler"] /\ UNCHANGED <<pc, held>>
    BY <1>1, <1>3, <1>4, <1>6, <1>7, <1>8, <1>9, <1>10, <1>11, <1>12, SMTT(20), Z3T(20) DEF RouteInv, Tracked, Live
<1>13. CASE pc \in {"poll", "frame", "send", "forward"} /\ pc' = "poll" /\ held' = None
    BY <1>1, <1>4, <1>7, <1>8, <1>9, <1>10, <1>11, <1>13, Zenon DEF RouteInv
<1> QED
    BY <1>5, <1>12, <1>13

\* Incoming goes away, with the requests in it.
LEMMA RouteDropIncoming == RouteInv /\ DropIncoming => RouteInv'
<1> SUFFICES ASSUME RouteInv, DropIncoming PROVE RouteInv'
    OBVIOUS
<1>1. /\ incoming # None /\ incoming' = None /\ UNCHANGED <<item, pc, held, map, closes, wtq>>
      /\ req' = [s \in Session |-> IF s \in Range(incoming) THEN "dropped" ELSE req[s]]
    BY DEF DropIncoming, driver
<1>2. \A s \in Range(incoming) : req[s] = "queued"
    BY <1>1 DEF RouteInv, Range
<1>3. \A s \in Session : req[s] \in Live \cup {"closed", "held"} => req'[s] = req[s]
    BY <1>1, <1>2 DEF Live
<1>4. \A s \in Session : req'[s] \in Live => req[s] \in Live
    BY <1>1 DEF Live
<1>5. RouteTypeOK'
    BY <1>1 DEF RouteInv, RouteTypeOK, Early
<1>6. \A s \in map \cup {held} : s \in Session /\ Tracked(s) => Tracked(s)'
    BY <1>1, <1>3 DEF Tracked, Live
<1>7. \A n \in DOMAIN closes : req'[closes[n]] = "closed"
    BY <1>3 DEF RouteInv, RouteTypeOK
<1>8. map \subseteq Session
    BY Zenon  DEF RouteInv, RouteTypeOK
<1> QED
    BY <1>1, <1>3, <1>4, <1>5, <1>6, <1>7, <1>8 DEF RouteInv

\* A session is dropped: its close is sent, unless there is no driver.
LEMMA RouteDropSession ==
    ASSUME RouteInv, NEW s \in Session, DropSession(s)
    PROVE  RouteInv'
<1>1. /\ req[s] = "open" /\ req' = [req EXCEPT ![s] = "closed"]
      /\ closes' = (IF pc = "ended" THEN closes ELSE Append(closes, s))
      /\ UNCHANGED <<item, pc, held, map, wtq, incoming>>
    BY Zenon  DEF DropSession
<1>2. req'[s] = "closed" /\ \A x \in Session : x # s => req'[x] = req[x]
    BY <1>1 DEF RouteInv, RouteTypeOK
<1>3. closes \in Seq(Session) /\ closes' \in Seq(Session)
    BY <1>1 DEF RouteInv, RouteTypeOK
<1>4. \A n \in DOMAIN closes : n \in DOMAIN closes' /\ closes'[n] = closes[n]
    BY <1>1, <1>3
<1>5. \A n \in DOMAIN closes' : closes'[n] = s \/ (n \in DOMAIN closes /\ closes'[n] = closes[n])
    BY <1>1, <1>3
<1>6. pc # "ended" => \E n \in DOMAIN closes' : closes'[n] = s
    <2>1. ASSUME pc # "ended" PROVE Len(closes) + 1 \in DOMAIN closes' /\ closes'[Len(closes) + 1] = s
        BY <1>1, <1>3, <2>1
    <2> QED
        BY <2>1
<1>7. pc = "ended" => map = {}
    BY DEF RouteInv
<1>8. ASSUME NEW x \in Session, Tracked(x), x # s \/ pc # "ended" PROVE Tracked(x)'
    BY <1>1, <1>2, <1>4, <1>6, <1>8, Zenon DEF Tracked, Live
<1>9. RouteTypeOK'
    BY <1>1, <1>3 DEF RouteInv, RouteTypeOK
<1>10. \A n \in DOMAIN closes' : req'[closes'[n]] = "closed"
    BY <1>2, <1>3, <1>5 DEF RouteInv
<1>11. \A x \in Session : req'[x] \in Live => req[x] \in Live
    BY <1>2 DEF Live
<1>12. held \in Session /\ req[held] = "held" => req'[held] = "held"
    BY <1>1, <1>2, Zenon
<1>13. incoming # None => \A n \in DOMAIN incoming : req'[incoming[n]] = "queued"
    BY <1>1, <1>2, SMTT(20), Z3T(20) DEF RouteInv, RouteTypeOK
<1>14. \A x \in map : Tracked(x)'
    BY <1>7, <1>8 DEF RouteInv, RouteTypeOK
<1> QED
    BY <1>1, <1>8, <1>9, <1>10, <1>11, <1>12, <1>13, <1>14 DEF RouteInv

\* The steps of the client, of a handler on its request and of a session.
LEMMA RouteSession ==
    ASSUME RouteInv, NEW s \in Session,
           \/ ClientConnect(s) \/ Begin(s) \/ Upgrade(s) \/ Respond(s) \/ SessionStep(s)
           \/ DropUpgrade(s) \/ SendDatagram(s) \/ DropSession(s) \/ \E k \in Kinds : AcceptItem(s, k)
    PROVE  RouteInv'
<1>1. /\ wtq \in Seq([type : {"upgrade", "dgram"}, s : Session]) /\ DOMAIN item = Item
      /\ \A t \in {"upgrade", "dgram"} :
            Append(wtq, [type |-> t, s |-> s]) \in Seq([type : {"upgrade", "dgram"}, s : Session])
    <2>1. wtq \in Seq([type : {"upgrade", "dgram"}, s : Session]) /\ DOMAIN item = Item
        BY Zenon DEF RouteInv, RouteTypeOK
    <2>2. PICK Requests : Requests = [type : {"upgrade", "dgram"}, s : Session]
        BY Zenon
    <2>3. \A t \in {"upgrade", "dgram"} : [type |-> t, s |-> s] \in Requests
        BY <2>2
    <2>4. wtq \in Seq(Requests)
        BY <2>1, <2>2, Zenon
    <2>5. \A t \in {"upgrade", "dgram"} : Append(wtq, [type |-> t, s |-> s]) \in Seq(Requests)
        BY <2>3, <2>4
    <2> QED
        BY <2>1, <2>2, <2>5, Zenon
<1>2. CASE ClientConnect(s)
    BY <1>1, <1>2, RouteBecome, Zenon DEF ClientConnect, Early
<1>3. CASE Begin(s) \/ Upgrade(s) \/ Respond(s)
    BY <1>1, <1>3, RouteBecome, Zenon DEF Begin, Upgrade, Respond, Become, Early
<1>4. CASE SendUpgrade(s) \/ UpgradeFails(s)
    BY <1>1, <1>4, RouteBecome, Zenon DEF SendUpgrade, UpgradeFails, Become, Early
<1>5. CASE SendResponse(s) \/ DropUpgrade(s)
    BY <1>1, <1>5, RouteBecome, Zenon DEF SendResponse, DropUpgrade, Become, Early, Live
<1>6. CASE SendDatagramStep(s) \/ SendDatagram(s)
    BY <1>1, <1>6, RouteQuiet, Zenon DEF SendDatagramStep, SendDatagram
<1>7. CASE DropSession(s)
    BY <1>7, RouteDropSession, Zenon
<1>8. CASE \E k \in Kinds : AcceptItem(s, k)
    BY <1>1, <1>8, RouteQuiet DEF AcceptItem
<1> QED
    BY <1>2, <1>3, <1>4, <1>5, <1>6, <1>7, <1>8, SMTT(20) DEF SessionStep

\* Every step of the client, the driver, a handler and a session keeps the invariant.
LEMMA RouteStep == RouteInv /\ [Next]_vars => RouteInv'
<1> SUFFICES ASSUME RouteInv, [Next]_vars PROVE RouteInv'
    OBVIOUS
<1>1. wtq \in Seq([type : {"upgrade", "dgram"}, s : Session]) /\ DOMAIN item = Item
    BY DEF RouteInv, RouteTypeOK
<1>2. CASE UNCHANGED vars
    BY <1>1, <1>2, RouteQuiet, Zenon DEF vars
<1>3. CASE Drive
    <2>1. CASE TakeSendDatagram
        <3>1. UNCHANGED <<req, item, driver, incoming>> /\ wtq # <<>> /\ wtq' = Tail(wtq)
            BY <2>1 DEF TakeSendDatagram
        <3>2. wtq' \in Seq([type : {"upgrade", "dgram"}, s : Session])
            BY <1>1, <3>1, HeadAndTail, Zenon
        <3> QED
            BY <1>1, <3>1, <3>2, RouteQuiet, Zenon
    <2>2. CASE \E i \in Item : TakeItem(i)
        BY <2>2, RouteRoute DEF TakeItem, PollInner
    <2> QED
        BY <1>3, <2>1, <2>2, RouteTakeClose, RouteTakeUpgrade, RouteInsert, RouteTakeStream, RouteReadFrame,
           RouteSendItem, RouteForward DEF Drive
<1>4. CASE ClientClose \/ \E x \in Session \cup {i \in Item : Kind[i] = "bidi"} : ClientFrame(x)
    BY <1>1, <1>4, RouteQuiet, Zenon DEF ClientClose, ClientFrame
<1>5. CASE \E i \in Item : ClientOpen(i)
    BY <1>1, <1>5, RouteQuiet DEF ClientOpen
<1> QED
    BY <1>2, <1>3, <1>4, <1>5, RouteEnd, RouteAcceptRequest, RouteDropIncoming, RouteSession DEF Next

\* The invariant holds throughout.
LEMMA RouteInvariance == Spec => []RouteInv
BY RouteInitInv, RouteStep, PTL DEF Spec

EstTypeOK == est \subseteq Item

\* What is sent to an established session is an item.
LEMMA EstItems == Spec => []EstTypeOK
<1>1. EstTypeOK /\ [Next]_vars => EstTypeOK'
    <2> SUFFICES ASSUME est \subseteq Item, [Next]_vars PROVE est' \subseteq Item
        BY DEF EstTypeOK
    <2>1. CASE \E i \in Item : ClientOpen(i)
        BY <2>1 DEF ClientOpen
    <2>2. CASE est' = est
        BY <2>2
    <2> QED
        BY <2>1, <2>2, ZenonT(30) DEF Next, vars, client, Drive, TakeClose, TakeUpgrade, Insert, TakeSendDatagram, ReadFrame,
            SendItem, Forward, TakeStream, TakeItem, End, AcceptRequest, DropIncoming, ClientClose, ClientConnect,
            Begin, Upgrade, Respond, SessionStep, SendUpgrade, UpgradeFails, SendResponse, SendDatagramStep,
            DropUpgrade, SendDatagram, DropSession, Become, AcceptItem, ClientFrame
<1>2. Init => EstTypeOK
    BY SMTT(20) DEF Init, EstTypeOK
<1> QED
    BY <1>1, <1>2, PTL DEF Spec

\* The session map of the driver holds no dead session whose close is not on
\* its way, however upgrades, insertions and drops interleave, for any number
\* of sessions, items and any capacity of the channels.
THEOREM MapCorrect == Spec => []MapIsLive
BY RouteInvariance, RouteInvSays, PTL, ZenonT(30)

\* A step that rejects or drops an item is one of the driver that does not
\* find the session, or finds its receivers gone.
LEMMA WhoRejects ==
    ASSUME RouteInv, Next, NEW i \in Item, item'[i] # item[i], item'[i] \in {"rejected", "dropped"}, pc' # "ended"
    PROVE  (To[i] \notin map /\ pc \in {"poll", "frame"}) \/ ~Receives(To[i])
<1>1. DOMAIN item = Item /\ held \notin Session \cap Item /\ None \notin Item /\ None \notin Session
    BY WebTransportAssumption, Zenon DEF RouteInv, RouteTypeOK
<1>2. CASE Drive
    <2>1. CASE \E j \in Item : TakeItem(j)
        BY <1>1, <2>1, Zenon DEF TakeItem, Route, Put, PollInner
    <2>2. CASE ReadFrame
        BY <1>1, <2>2, Zenon DEF ReadFrame, Route, Put
    <2>3. CASE SendItem
        <3>1. held \in Item
            BY <2>3 DEF SendItem, RouteInv
        <3> QED
            BY <1>1, <2>3, <3>1 DEF SendItem, Put
    <2>4. CASE \E x \in Session \cup Item : TakeStream(x)
        BY <1>1, <2>4 DEF TakeStream, Put
    <2>5. CASE Forward
        BY <1>1, <2>5 DEF Forward, Put
    <2> QED
        BY <1>2, <2>1, <2>2, <2>3, <2>4, <2>5, Zenon DEF Drive, TakeClose, TakeUpgrade, Insert, TakeSendDatagram
<1>3. CASE AcceptRequest
    BY <1>1, <1>3 DEF AcceptRequest
<1>4. CASE \E s \in Session : \E k \in Kinds : AcceptItem(s, k)
    BY <1>1, <1>4 DEF AcceptItem
<1>5. CASE \E j \in Item : ClientOpen(j)
    BY <1>1, <1>5, SMTT(20), Z3T(20) DEF ClientOpen
<1>6. CASE \E s \in Session : \/ ClientConnect(s) \/ Begin(s) \/ Upgrade(s) \/ Respond(s) \/ SessionStep(s)
                              \/ DropUpgrade(s) \/ SendDatagram(s) \/ DropSession(s)
    BY <1>6 DEF ClientConnect, Begin, Upgrade, Respond, SessionStep, SendUpgrade, UpgradeFails, SendResponse,
                SendDatagramStep, DropUpgrade, SendDatagram, DropSession, Become
<1>7. CASE End
    BY <1>7, Zenon DEF End
<1>8. CASE DropIncoming \/ ClientClose \/ \E x \in Session \cup {j \in Item : Kind[j] = "bidi"} : ClientFrame(x)
    BY <1>8, Zenon DEF DropIncoming, ClientClose, ClientFrame
<1> QED
    BY <1>2, <1>3, <1>4, <1>5, <1>6, <1>7, <1>8, Zenon DEF Next

\* A stream the client opens after its 200 is not rejected while the session is
\* alive and the driver runs: the session is in the map, or is being inserted
\* and the driver reads no stream until it is.
THEOREM RoutingCorrect == Spec => EstablishedIsRouted
<1>1. RouteInv /\ EstTypeOK /\ [Next]_vars =>
        [\A i \in est : item[i] # item'[i] /\ item'[i] \in {"rejected", "dropped"} /\ pc' # "ended"
            => req[To[i]] # "open"]_vars
    <2> SUFFICES ASSUME RouteInv, est \subseteq Item, Next, NEW i \in est,
                        item[i] # item'[i], item'[i] \in {"rejected", "dropped"}, pc' # "ended"
                 PROVE  req[To[i]] # "open"
        BY ZenonT(30) DEF EstTypeOK
    <2>1. i \in Item /\ To[i] \in Session
        BY WebTransportAssumption
    <2>2. (To[i] \notin map /\ pc \in {"poll", "frame"}) \/ ~Receives(To[i])
        BY <2>1, WhoRejects
    <2> QED
        BY <2>1, <2>2 DEF RouteInv, Live, Receives
<1> QED
    BY <1>1, RouteInvariance, EstItems, PTL, ZenonT(30) DEF Spec, EstablishedIsRouted

-----------------------------------------------------------------------------
(* The RTMP handshake. *)

\* s is a string of n bytes.
Str(s, n) == n \in Nat /\ Len(s) = n /\ \E A : s \in Seq(A)

\* A sequence of bytes is a string of its length.
LEMMA StrIntro ==
  ASSUME NEW s, NEW n \in Nat, NEW A, s \in Seq(A), Len(s) = n
  PROVE  Str(s, n)
    BY Zenon DEF Str

\* Two strings behind one another are a string of both lengths.
Joined(u, s, t) == u = s \o t

\* The parts of a join keep their bytes: the first at the front, the second behind it.
LEMMA StrJoin ==
  ASSUME NEW u, NEW s, NEW t, NEW m \in Nat, NEW n \in Nat, Joined(u, s, t), Str(s, m), Str(t, n)
  PROVE  /\ Str(u, m + n)
         /\ \A i \in 1..m : u[i] = s[i]
         /\ \A i \in 1..n : u[m + i] = t[i]
<1>1. PICK A : s \in Seq(A)
    BY DEF Str
<1>2. PICK B : t \in Seq(B)
    BY DEF Str
<1> DEFINE C == A \union B
<1>3. s \in Seq(C) /\ t \in Seq(C)
    BY <1>1, <1>2
<1>4. Len(s) = m /\ Len(t) = n
    BY DEF Str
<1> HIDE DEF C
<1>5. u \in Seq(C) /\ Len(u) = m + n
    <2>1. s \o t \in Seq(C) /\ Len(s \o t) = m + n
        BY <1>3, <1>4
    <2> QED
        BY <2>1, Zenon DEF Joined
<1>6. Str(u, m + n)
    <2>1. m + n \in Nat
        OBVIOUS
    <2> QED
        BY <1>5, <2>1, StrIntro, Zenon
<1> QED
    BY <1>3, <1>4, <1>6, SMTT(20) DEF Joined

\* A slice of a string.
LEMMA StrBetween ==
  ASSUME NEW s, NEW n, NEW a \in Nat, NEW b \in Nat, Str(s, n), a <= b, b <= n
  PROVE  Str(Between(s, a, b), b - a) /\ \A i \in 1..b - a : Between(s, a, b)[i] = s[a + i]
<1>1. PICK A : s \in Seq(A)
    BY DEF Str
<1>2. n \in Nat /\ Len(s) = n
    BY DEF Str
<1>3. /\ SubSeq(s, a + 1, b) \in Seq(A) /\ Len(SubSeq(s, a + 1, b)) = b - a
      /\ \A i \in 1..b - a : SubSeq(s, a + 1, b)[i] = s[a + i]
    BY <1>1, <1>2
<1>4. b - a \in Nat
    OBVIOUS
<1>5. Str(SubSeq(s, a + 1, b), b - a)
    BY <1>3, <1>4, StrIntro, Zenon
<1> QED
    BY <1>3, <1>5 DEF Between

\* The same with the length of the slice; a slice to the end or from the start.
LEMMA StrSlice ==
  ASSUME NEW s, NEW n, NEW a \in Nat, NEW m \in Nat, NEW b, b = a + m, Str(s, n), b <= n
  PROVE  Str(Between(s, a, b), m) /\ \A i \in 1..m : Between(s, a, b)[i] = s[a + i]
<1>1. b \in Nat /\ a <= b /\ b - a = m
    OBVIOUS
<1>2. Str(Between(s, a, b), b - a) /\ \A i \in 1..b - a : Between(s, a, b)[i] = s[a + i]
    BY <1>1, StrBetween
<1> QED
    BY <1>1, <1>2, Zenon

\* Slicing up to the end leaves the last bytes.
LEMMA StrSuffix ==
  ASSUME NEW s, NEW n, NEW a \in Nat, NEW m \in Nat, n = a + m, Str(s, n)
  PROVE  Str(Between(s, a, n), m) /\ \A i \in 1..m : Between(s, a, n)[i] = s[a + i]
<1>1. n \in Nat /\ a <= n /\ n <= n /\ n - a = m
    OBVIOUS
<1>2. Str(Between(s, a, n), n - a) /\ \A i \in 1..n - a : Between(s, a, n)[i] = s[a + i]
    BY <1>1, StrBetween
<1> QED
    BY <1>1, <1>2, Zenon

\* Slicing from the start leaves the first bytes.
LEMMA StrPrefix ==
  ASSUME NEW s, NEW n, NEW m \in Nat, Str(s, n), m <= n
  PROVE  Str(Between(s, 0, m), m) /\ \A i \in 1..m : Between(s, 0, m)[i] = s[i]
<1>1. 0 \in Nat /\ m = 0 + m /\ \A i \in 1..m : 0 + i = i
    OBVIOUS
<1>2. Str(Between(s, 0, m), m) /\ \A i \in 1..m : Between(s, 0, m)[i] = s[0 + i]
    BY <1>1, StrSlice
<1> QED
    BY <1>1, <1>2, Zenon

\* Strings with the same bytes are the same.
LEMMA StrEqual ==
  ASSUME NEW s, NEW t, NEW n, Str(s, n), Str(t, n), \A i \in 1..n : s[i] = t[i]
  PROVE  s = t
<1>1. PICK A : s \in Seq(A)
    BY DEF Str
<1>2. PICK B : t \in Seq(B)
    BY DEF Str
<1>3. n \in Nat /\ Len(s) = n /\ Len(t) = n
    BY DEF Str
<1> QED
    BY <1>1, <1>2, <1>3

\* The strings the handshake is made of.
LEMMA StrField == ASSUME NEW name PROVE Str(Field(name), FIELD_LENGTH)
<1>1. FIELD_LENGTH \in Nat
    BY DigestAssumption
<1>2. Field(name) \in Seq({<<name, i>> : i \in 1..FIELD_LENGTH})
    BY <1>1 DEF Field
<1>3. Len(Field(name)) = FIELD_LENGTH
    BY <1>1 DEF Field
<1> QED
    BY <1>1, <1>2, <1>3, StrIntro

\* Random bytes have the length asked for.
LEMMA StrRandom == ASSUME NEW who, NEW n \in Nat PROVE Str(Random(who, n), n)
<1>1. Random(who, n) \in Seq({<<who, i>> : i \in 1..n})
    BY DEF Random
<1>2. Len(Random(who, n)) = n
    BY DEF Random
<1> QED
    BY <1>1, <1>2, StrIntro

\* An HMAC has the length of a digest (make_digest, digest.rs 85).
LEMMA StrDigest == ASSUME NEW key, NEW message PROVE Str(make_digest(key, message), RTMP_DIGEST_LENGTH)
<1>1. RTMP_DIGEST_LENGTH \in Nat
    BY DigestAssumption
<1>2. make_digest(key, message) \in Seq({<<"mac", <<key, message>>, i>> : i \in 1..RTMP_DIGEST_LENGTH})
    BY <1>1 DEF make_digest
<1>3. Len(make_digest(key, message)) = RTMP_DIGEST_LENGTH
    BY <1>1 DEF make_digest
<1> QED
    BY <1>1, <1>2, <1>3, StrIntro

\* A chunk with its four bytes of offset has the length of a chunk.
LEMMA StrChunk == ASSUME NEW who, NEW offset \in Offsets PROVE Str(Chunk(who, offset), CHUNK_LENGTH)
<1>1. CHUNK_LENGTH \in Nat
    BY DigestAssumption
<1>2. Chunk(who, offset) \in Seq({IF i <= OFFSET_LENGTH THEN Number(offset[i]) ELSE <<who, i>> : i \in 1..CHUNK_LENGTH})
    BY <1>1 DEF Chunk
<1>3. Len(Chunk(who, offset)) = CHUNK_LENGTH
    BY <1>1 DEF Chunk
<1> QED
    BY <1>1, <1>2, <1>3, StrIntro

\* Putting a digest into a message does not change its length.
LEMMA StrPut ==
  ASSUME NEW msg, NEW n, NEW at, NEW digest, Str(msg, n)
  PROVE  Str(PutDigest(msg, at, digest), n)
<1>1. n \in Nat /\ DOMAIN msg = 1..n
    BY DEF Str
<1> DEFINE byte(i) == IF i \in at + 1..at + Len(digest) THEN digest[i - at] ELSE msg[i]
<1>2. PutDigest(msg, at, digest) = [i \in 1..n |-> byte(i)]
    BY <1>1 DEF PutDigest
<1>3. [i \in 1..n |-> byte(i)] \in Seq({byte(i) : i \in 1..n}) /\ Len([i \in 1..n |-> byte(i)]) = n
    BY <1>1
<1> QED
    BY <1>1, <1>2, <1>3, StrIntro, Zenon

\* The lengths are what the constants of define.rs say.
LEMMA Lengths ==
  /\ FIELD_LENGTH \in Nat /\ CHUNK_LENGTH \in Nat /\ RTMP_DIGEST_LENGTH \in Nat \ {0}
  /\ TIME_VERSION_LENGTH = FIELD_LENGTH + FIELD_LENGTH /\ TIME_VERSION_LENGTH \in Nat
  /\ RTMP_HANDSHAKE_SIZE = TIME_VERSION_LENGTH + CHUNK_LENGTH + CHUNK_LENGTH
  /\ RTMP_HANDSHAKE_SIZE \in Nat
  /\ OffsetRange = CHUNK_LENGTH - RTMP_DIGEST_LENGTH - 4 /\ OffsetRange \in Nat \ {0}
    BY DigestAssumption DEF TIME_VERSION_LENGTH, RTMP_HANDSHAKE_SIZE, OffsetRange, OFFSET_LENGTH

\* The chunk of a schema is the first or the second of the message.
LEMMA SchemaPlaces ==
  ASSUME NEW schema
  PROVE  /\ SchemaOffset(schema) \in Nat
         /\ schema = 0 => SchemaOffset(schema) = TIME_VERSION_LENGTH + CHUNK_LENGTH
         /\ schema # 0 => SchemaOffset(schema) = TIME_VERSION_LENGTH
         /\ SchemaOffset(schema) + CHUNK_LENGTH <= RTMP_HANDSHAKE_SIZE
    BY Lengths DEF SchemaOffset

\* The offset bytes of a schema's chunk in msg.
OffsetBytes(msg, schema, o) ==
    LET at == SchemaOffset(schema)
    IN  /\ msg[at + 1] = Number(o[1]) /\ msg[at + 2] = Number(o[2])
        /\ msg[at + 3] = Number(o[3]) /\ msg[at + 4] = Number(o[4])

Sum(o) == o[1] + o[2] + o[3] + o[4]

\* The digest is behind the offset bytes and ends within the chunk.
LEMMA DigestPlace ==
  ASSUME NEW msg, NEW schema, NEW o \in Offsets, OffsetBytes(msg, schema, o)
  PROVE  LET at == find_digest_offset(msg, schema)
         IN  /\ at = (Sum(o) % OffsetRange) + SchemaOffset(schema) + 4 /\ at \in Nat
             /\ SchemaOffset(schema) + 4 <= at
             /\ at + RTMP_DIGEST_LENGTH < SchemaOffset(schema) + CHUNK_LENGTH
<1>1. o[1] \in Nat /\ o[2] \in Nat /\ o[3] \in Nat /\ o[4] \in Nat
    BY DigestAssumption DEF OFFSET_LENGTH
<1>2. Sum(o) \in Nat
    BY <1>1 DEF Sum
<1>3. Sum(o) % OffsetRange \in 0..OffsetRange - 1
    BY <1>2, Lengths
<1>4. find_digest_offset(msg, schema) = (Sum(o) % OffsetRange) + SchemaOffset(schema) + 4
    <2> DEFINE at == SchemaOffset(schema)
    <2>1. \A n : Number(n)[2] = n
        BY Zenon DEF Number
    <2>2. /\ msg[at + 1][2] = o[1] /\ msg[at + 2][2] = o[2]
          /\ msg[at + 3][2] = o[3] /\ msg[at + 4][2] = o[4]
        BY <2>1 DEF OffsetBytes
    <2>3. find_digest_offset(msg, schema)
          = ((msg[at + 1][2] + msg[at + 2][2] + msg[at + 3][2] + msg[at + 4][2]) % OffsetRange) + at + 4
        BY Zenon DEF find_digest_offset, OFFSET_LENGTH
    <2> QED
        BY <2>2, <2>3, Zenon DEF Sum
<1> QED
    BY <1>3, <1>4, Lengths, SchemaPlaces

\* The message msg with the digest of its other bytes at at.
Signed(full, msg, key, at, digest) ==
    /\ digest = make_digest(key, Between(msg, 0, at)
                                 \o Between(msg, at + RTMP_DIGEST_LENGTH, RTMP_HANDSHAKE_SIZE))
    /\ \A i \in 1..at : full[i] = msg[i]
    /\ \A i \in 1..RTMP_DIGEST_LENGTH : full[at + i] = digest[i]
    /\ \A i \in at + RTMP_DIGEST_LENGTH + 1..RTMP_HANDSHAKE_SIZE : full[i] = msg[i]

\* digest is where the server looks for one.
Finds(msg, schema, digest) == cook_raw_message(msg, schema).digest = digest

\* A message with its digest where its offset bytes say is valid, and the digest
\* is found there.
LEMMA SignedIsValid ==
  ASSUME NEW msg, NEW full, NEW key, NEW schema, NEW o \in Offsets, NEW at, NEW digest,
         Str(msg, RTMP_HANDSHAKE_SIZE), Str(full, RTMP_HANDSHAKE_SIZE),
         OffsetBytes(msg, schema, o), at = find_digest_offset(msg, schema),
         Signed(full, msg, key, at, digest)
  PROVE  generate_and_validate(full, key, schema) /\ Finds(full, schema, digest)
<1>1. /\ at \in Nat /\ SchemaOffset(schema) \in Nat /\ SchemaOffset(schema) + 4 <= at
      /\ at + RTMP_DIGEST_LENGTH <= RTMP_HANDSHAKE_SIZE /\ RTMP_DIGEST_LENGTH \in Nat
      /\ RTMP_HANDSHAKE_SIZE \in Nat /\ at + RTMP_DIGEST_LENGTH \in Nat
    BY DigestPlace, SchemaPlaces, Lengths
<1>2. OffsetBytes(full, schema, o)
    <2>1. \A i \in 1..4 : full[SchemaOffset(schema) + i] = msg[SchemaOffset(schema) + i]
        <3>1. \A i \in 1..4 : SchemaOffset(schema) + i \in 1..at
            BY <1>1
        <3> QED
            BY <3>1, Zenon DEF Signed
    <2> QED
        BY <2>1 DEF OffsetBytes
<1>3. find_digest_offset(full, schema) = at
    BY <1>2, DigestPlace
<1> DEFINE left(d) == Between(d, 0, at)
           right(d) == Between(d, at + RTMP_DIGEST_LENGTH, RTMP_HANDSHAKE_SIZE)
           own == Between(full, at, at + RTMP_DIGEST_LENGTH)
<1>4. left(full) = left(msg)
    <2>1. Str(left(full), at) /\ Str(left(msg), at)
          /\ \A i \in 1..at : left(full)[i] = full[i] /\ left(msg)[i] = msg[i]
        <3>1. at <= RTMP_HANDSHAKE_SIZE
            BY <1>1
        <3> QED
            BY <1>1, <3>1, StrPrefix
    <2>2. \A i \in 1..at : full[i] = msg[i]
        BY DEF Signed
    <2> QED
        BY <2>1, <2>2, StrEqual
<1>5. right(full) = right(msg)
    <2>1. PICK n \in Nat : n = RTMP_HANDSHAKE_SIZE - (at + RTMP_DIGEST_LENGTH)
        BY <1>1
    <2>2. Str(right(full), n) /\ Str(right(msg), n)
          /\ \A i \in 1..n : /\ right(full)[i] = full[at + RTMP_DIGEST_LENGTH + i]
                             /\ right(msg)[i] = msg[at + RTMP_DIGEST_LENGTH + i]
        <3>1. /\ RTMP_HANDSHAKE_SIZE = (at + RTMP_DIGEST_LENGTH) + n
              /\ RTMP_HANDSHAKE_SIZE <= RTMP_HANDSHAKE_SIZE
            BY <1>1, <2>1
        <3>2. PICK a \in Nat : a = at + RTMP_DIGEST_LENGTH
            BY <1>1
        <3>3. RTMP_HANDSHAKE_SIZE = a + n
            BY <3>1, <3>2
        <3>4. ASSUME NEW d, Str(d, RTMP_HANDSHAKE_SIZE)
              PROVE  Str(Between(d, a, RTMP_HANDSHAKE_SIZE), n)
                     /\ \A i \in 1..n : Between(d, a, RTMP_HANDSHAKE_SIZE)[i] = d[a + i]
            BY <3>3, <3>4, StrSuffix
        <3> QED
            BY <3>2, <3>4, Zenon
    <2>3. \A i \in 1..n : full[at + RTMP_DIGEST_LENGTH + i] = msg[at + RTMP_DIGEST_LENGTH + i]
        <3>1. \A i \in 1..n : at + RTMP_DIGEST_LENGTH + i \in at + RTMP_DIGEST_LENGTH + 1..RTMP_HANDSHAKE_SIZE
            BY <1>1, <2>1
        <3> QED
            BY <3>1, Zenon DEF Signed
    <2> QED
        BY <2>2, <2>3, StrEqual
<1>6. own = digest
    <2>1. Str(own, RTMP_DIGEST_LENGTH) /\ \A i \in 1..RTMP_DIGEST_LENGTH : own[i] = full[at + i]
        BY <1>1, StrSlice, SMTT(20), Z3T(20)
    <2>2. Str(digest, RTMP_DIGEST_LENGTH)
        BY StrDigest, Zenon DEF Signed
    <2>3. \A i \in 1..RTMP_DIGEST_LENGTH : full[at + i] = digest[i]
        BY DEF Signed
    <2> QED
        BY <2>1, <2>2, <2>3, StrEqual
<1>7. Len(full) = RTMP_HANDSHAKE_SIZE
    BY DEF Str
<1>8. cook_raw_message(full, schema) = [left |-> left(full), digest |-> own, right |-> right(full)]
    BY <1>3, <1>7, Zenon DEF cook_raw_message
<1> QED
    <2>1. digest = make_digest(key, left(msg) \o right(msg))
        BY DEF Signed
    <2> QED
        BY <1>4, <1>5, <1>6, <1>8, <2>1 DEF generate_and_validate, Finds

\* Bytes that are no HMAC are no digest.
LEMMA UnsignedIsRefused ==
  ASSUME NEW msg, NEW key, NEW schema, NEW o \in Offsets, NEW who, NEW n,
         Str(msg, RTMP_HANDSHAKE_SIZE), OffsetBytes(msg, schema, o),
         msg[find_digest_offset(msg, schema) + 1] = <<who, n>>
  PROVE  ~generate_and_validate(msg, key, schema)
<1>1. PICK at : at = find_digest_offset(msg, schema)
    BY Zenon
<1>2. /\ at \in Nat /\ at + RTMP_DIGEST_LENGTH <= RTMP_HANDSHAKE_SIZE /\ RTMP_DIGEST_LENGTH \in Nat \ {0}
      /\ at + RTMP_DIGEST_LENGTH \in Nat
    BY <1>1, DigestPlace, SchemaPlaces, Lengths
<1>3. Between(msg, at, at + RTMP_DIGEST_LENGTH)[1] = <<who, n>>
    <2>1. 1 \in 1..RTMP_DIGEST_LENGTH /\ RTMP_DIGEST_LENGTH \in Nat
        BY <1>2, SMTT(20), Z3T(20)
    <2>2. Between(msg, at, at + RTMP_DIGEST_LENGTH)[1] = msg[at + 1]
        <3>1. \A i \in 1..RTMP_DIGEST_LENGTH :
                 Between(msg, at, at + RTMP_DIGEST_LENGTH)[i] = msg[at + i]
            BY <1>2, <2>1, StrSlice
        <3> QED
            BY <2>1, <3>1, Zenon
    <2> QED
        BY <1>1, <2>2, Zenon
<1>4. ASSUME NEW message PROVE make_digest(key, message)[1] = <<"mac", <<key, message>>, 1>>
    BY <1>2 DEF make_digest
<1>5. \A m : <<who, n>> # <<"mac", m, 1>>
    BY Zenon
<1>6. cook_raw_message(msg, schema).digest = Between(msg, at, at + RTMP_DIGEST_LENGTH)
    BY <1>1 DEF cook_raw_message
<1> QED
    BY <1>3, <1>4, <1>5, <1>6, Zenon DEF generate_and_validate

\* The chunk a schema looks into.
Own(schema, first, second) == IF schema = 0 THEN second ELSE first

Packed(msg, x, y, who, first, second) == msg = x \o y \o Chunk(who, first) \o Chunk(who, second)

\* A message of which who chose the bytes.
Packet(msg, who, first, second) ==
    /\ Str(msg, RTMP_HANDSHAKE_SIZE)
    /\ \A schema : /\ OffsetBytes(msg, schema, Own(schema, first, second))
                   /\ \A i \in 5..CHUNK_LENGTH : msg[SchemaOffset(schema) + i] = <<who, i>>

\* Two fields and two chunks are a message whose chunks are where the schemas look.
LEMMA Blocks ==
  ASSUME NEW x, NEW y, NEW who, NEW first \in Offsets, NEW second \in Offsets, NEW msg,
         Str(x, FIELD_LENGTH), Str(y, FIELD_LENGTH), Packed(msg, x, y, who, first, second)
  PROVE  Packet(msg, who, first, second)
<1> DEFINE a == Chunk(who, first)
           b == Chunk(who, second)
<1>1. Str(a, CHUNK_LENGTH) /\ Str(b, CHUNK_LENGTH)
    BY StrChunk
<1>2. /\ \A i \in 1..CHUNK_LENGTH : a[i] = IF i <= 4 THEN Number(first[i]) ELSE <<who, i>>
      /\ \A i \in 1..CHUNK_LENGTH : b[i] = IF i <= 4 THEN Number(second[i]) ELSE <<who, i>>
    BY Zenon DEF Chunk, OFFSET_LENGTH
<1>3. PICK xy, xya : Joined(xy, x, y) /\ Joined(xya, xy, a) /\ Joined(msg, xya, b)
    BY Zenon DEF Joined, Packed
<1> HIDE DEF a, b
<1>4. Str(xy, TIME_VERSION_LENGTH)
    <2>1. FIELD_LENGTH \in Nat /\ TIME_VERSION_LENGTH = FIELD_LENGTH + FIELD_LENGTH
        BY Lengths
    <2>2. Str(xy, FIELD_LENGTH + FIELD_LENGTH)
        BY <1>3, <2>1, StrJoin
    <2> QED
        BY <2>1, <2>2, Zenon
<1>5. /\ Str(xya, TIME_VERSION_LENGTH + CHUNK_LENGTH)
      /\ \A i \in 1..CHUNK_LENGTH : xya[TIME_VERSION_LENGTH + i] = a[i]
    BY <1>1, <1>3, <1>4, StrJoin, Lengths
<1>6. /\ Str(msg, TIME_VERSION_LENGTH + CHUNK_LENGTH + CHUNK_LENGTH)
      /\ \A i \in 1..TIME_VERSION_LENGTH + CHUNK_LENGTH : msg[i] = xya[i]
      /\ \A i \in 1..CHUNK_LENGTH : msg[TIME_VERSION_LENGTH + CHUNK_LENGTH + i] = b[i]
    <2>1. PICK k \in Nat : k = TIME_VERSION_LENGTH + CHUNK_LENGTH
        BY Lengths
    <2>2. Str(xya, k) /\ CHUNK_LENGTH \in Nat
        BY <1>5, <2>1, Lengths, Zenon
    <2>3. /\ Str(msg, k + CHUNK_LENGTH)
          /\ \A i \in 1..k : msg[i] = xya[i]
          /\ \A i \in 1..CHUNK_LENGTH : msg[k + i] = b[i]
        BY <1>1, <1>3, <2>2, StrJoin
    <2> QED
        BY <2>1, <2>3, Zenon
<1>7. Str(msg, RTMP_HANDSHAKE_SIZE)
    BY <1>6, Lengths, Zenon
<1>9. \A i \in 1..CHUNK_LENGTH : msg[TIME_VERSION_LENGTH + i] = a[i]
    <2>1. \A i \in 1..CHUNK_LENGTH : TIME_VERSION_LENGTH + i \in 1..TIME_VERSION_LENGTH + CHUNK_LENGTH
        BY Lengths, SMTT(20), Z3T(20)
    <2> QED
        BY <1>5, <1>6, <2>1, Zenon
<1>10. ASSUME NEW schema
       PROVE  \A i \in 1..CHUNK_LENGTH :
                 msg[SchemaOffset(schema) + i]
                 = IF i <= 4 THEN Number(Own(schema, first, second)[i]) ELSE <<who, i>>
    <2>1. CASE schema = 0
        <3>1. SchemaOffset(schema) = TIME_VERSION_LENGTH + CHUNK_LENGTH
            BY <2>1, SchemaPlaces
        <3> QED
            BY <1>2, <1>6, <2>1, <3>1, Zenon DEF Own
    <2>2. CASE schema # 0
        <3>1. SchemaOffset(schema) = TIME_VERSION_LENGTH
            BY <2>2, SchemaPlaces
        <3> QED
            BY <1>2, <1>9, <2>2, <3>1, Zenon DEF Own
    <2> QED
        BY <2>1, <2>2
<1>11. ASSUME NEW schema
       PROVE  /\ OffsetBytes(msg, schema, Own(schema, first, second))
              /\ \A i \in 5..CHUNK_LENGTH : msg[SchemaOffset(schema) + i] = <<who, i>>
    <2>1. /\ 1 \in 1..CHUNK_LENGTH /\ 2 \in 1..CHUNK_LENGTH /\ 3 \in 1..CHUNK_LENGTH /\ 4 \in 1..CHUNK_LENGTH
          /\ 1 <= 4 /\ 2 <= 4 /\ 3 <= 4 /\ 4 <= 4
          /\ \A i \in 5..CHUNK_LENGTH : i \in 1..CHUNK_LENGTH /\ ~(i <= 4)
        BY Lengths
    <2> QED
        BY <1>10, <2>1, Zenon DEF OffsetBytes
<1> QED
    BY <1>7, <1>11, Zenon DEF Packet

\* The client's own calculation of its place is the server's.
LEMMA PlaceFound ==
  ASSUME NEW schema, NEW first \in Offsets, NEW second \in Offsets
  PROVE  /\ Packet(Raw(first, second), "client", first, second)
         /\ Place(schema, first, second) = find_digest_offset(Raw(first, second), schema)
<1>1. Packet(Raw(first, second), "client", first, second)
    <2>1. Packed(Raw(first, second), Field("c1_time"), Field("c1_version"), "client", first, second)
        BY Zenon DEF Packed, Raw
    <2>2. Str(Field("c1_time"), FIELD_LENGTH) /\ Str(Field("c1_version"), FIELD_LENGTH)
        BY StrField
    <2> QED
        BY <2>1, <2>2, Blocks
<1>2. PICK o \in Offsets : o = Own(schema, first, second)
    BY DEF Own
<1>3. OffsetBytes(Raw(first, second), schema, o)
    BY <1>1, <1>2, Zenon DEF Packet
<1>4. find_digest_offset(Raw(first, second), schema) = (Sum(o) % OffsetRange) + SchemaOffset(schema) + 4
    BY <1>3, DigestPlace
<1>5. Place(schema, first, second) = SchemaOffset(schema) + 4 + (Sum(o) % OffsetRange)
    BY <1>2 DEF Place, Own, Sum, OFFSET_LENGTH
<1>6. Sum(o) % OffsetRange \in Nat
    <2>1. o[1] \in Nat /\ o[2] \in Nat /\ o[3] \in Nat /\ o[4] \in Nat
        BY DigestAssumption DEF OFFSET_LENGTH
    <2>2. Sum(o) \in Nat
        BY <2>1 DEF Sum
    <2> QED
        BY <2>2, Lengths
<1>7. Place(schema, first, second) = find_digest_offset(Raw(first, second), schema)
    BY <1>4, <1>5, <1>6, SchemaPlaces
<1> QED
    BY <1>1, <1>7

\* The bytes of PutDigest.
Changed(full, msg, at, digest, m, n) ==
    /\ \A i \in 1..at : full[i] = msg[i]
    /\ \A i \in 1..m : full[at + i] = digest[i]
    /\ \A i \in at + m + 1..n : full[i] = msg[i]

\* Putting a digest changes the bytes at its place and no others.
LEMMA PutBytes ==
  ASSUME NEW msg, NEW n, NEW at \in Nat, NEW digest, NEW m \in Nat,
         Str(msg, n), Str(digest, m), at + m <= n
  PROVE  Changed(PutDigest(msg, at, digest), msg, at, digest, m, n)
<1>1. n \in Nat /\ DOMAIN msg = 1..n /\ Len(digest) = m
    BY DEF Str
<1>2. PutDigest(msg, at, digest)
      = [i \in 1..n |-> IF i \in at + 1..at + m THEN digest[i - at] ELSE msg[i]]
    BY <1>1, Zenon DEF PutDigest
<1>3. \A i \in 1..n : PutDigest(msg, at, digest)[i] = IF i \in at + 1..at + m THEN digest[i - at] ELSE msg[i]
    BY <1>2, Zenon
<1>4. ASSUME NEW i \in 1..m PROVE PutDigest(msg, at, digest)[at + i] = digest[i]
    <2>1. at + i \in 1..n /\ at + i \in at + 1..at + m /\ (at + i) - at = i
        BY <1>1
    <2> QED
        BY <1>3, <2>1, Zenon
<1>5. ASSUME NEW i \in 1..n, i \in 1..at \/ i \in at + m + 1..n PROVE PutDigest(msg, at, digest)[i] = msg[i]
    <2>1. i \notin at + 1..at + m
        BY <1>1, <1>5
    <2> QED
        BY <1>3, <2>1, Zenon
<1>6. (\A i \in 1..at : i \in 1..n) /\ (\A i \in at + m + 1..n : i \in 1..n)
    BY <1>1
<1> QED
    BY <1>4, <1>5, <1>6, Zenon DEF Changed

\* What is known of a client's greeting: it is a message, and the server reads
\* from it the client's own schema and digest.
Greets(g) ==
    /\ Str(g.c1, RTMP_HANDSHAKE_SIZE)
    /\ g.schema \in {0, 1, NoSchema}
    /\ read_digest(g.c1, "client key") = g.schema
    /\ g.schema # NoSchema => Finds(g.c1, g.schema, g.digest)

\* A client that signs its C1 is recognised, with its schema and its digest,
\* wherever its offset puts the digest.
LEMMA SignedGreets ==
  ASSUME NEW schema \in {0, 1}, NEW first \in Offsets, NEW second \in Offsets
  PROVE  Greets(Greeting(schema, first, second))
<1>1. PICK msg, at : msg = Raw(first, second) /\ at = Place(schema, first, second)
    BY Zenon
<1>2. Packet(msg, "client", first, second) /\ at = find_digest_offset(msg, schema)
    BY <1>1, PlaceFound
<1>3. PICK o \in Offsets : o = Own(schema, first, second)
    BY DEF Own
<1>4. Str(msg, RTMP_HANDSHAKE_SIZE) /\ OffsetBytes(msg, schema, o)
    BY <1>2, <1>3, Zenon DEF Packet
<1>5. /\ at \in Nat /\ SchemaOffset(schema) \in Nat /\ SchemaOffset(schema) + 4 <= at
      /\ at + RTMP_DIGEST_LENGTH < SchemaOffset(schema) + CHUNK_LENGTH
      /\ at + RTMP_DIGEST_LENGTH <= RTMP_HANDSHAKE_SIZE
    BY <1>2, <1>4, DigestPlace, SchemaPlaces, Lengths
<1>6. PICK digest :
         digest = make_digest("client key", Between(msg, 0, at)
                                 \o Between(msg, at + RTMP_DIGEST_LENGTH, RTMP_HANDSHAKE_SIZE))
    BY Zenon
<1>7. PICK full : full = PutDigest(msg, at, digest)
    BY Zenon
<1>8. schema # NoSchema
    BY DEF NoSchema
<1>9. Greeting(schema, first, second) = [schema |-> schema, digest |-> digest, c1 |-> full]
    BY <1>1, <1>6, <1>7, <1>8, Zenon DEF Greeting
<1>10. Str(digest, RTMP_DIGEST_LENGTH)
    BY <1>6, StrDigest, Zenon
<1>11. Str(full, RTMP_HANDSHAKE_SIZE)
    BY <1>4, <1>7, StrPut, Zenon
<1>12. /\ \A i \in 1..at : full[i] = msg[i]
       /\ \A i \in 1..RTMP_DIGEST_LENGTH : full[at + i] = digest[i]
       /\ \A i \in at + RTMP_DIGEST_LENGTH + 1..RTMP_HANDSHAKE_SIZE : full[i] = msg[i]
    <2>1. RTMP_DIGEST_LENGTH \in Nat
        BY Lengths
    <2>2. Changed(PutDigest(msg, at, digest), msg, at, digest, RTMP_DIGEST_LENGTH, RTMP_HANDSHAKE_SIZE)
        BY <1>4, <1>5, <1>10, <2>1, PutBytes
    <2> QED
        BY <1>7, <2>2, Zenon DEF Changed
<1>13. generate_and_validate(full, "client key", schema) /\ Finds(full, schema, digest)
    <2>1. Signed(full, msg, "client key", at, digest)
        BY <1>6, <1>12, Zenon DEF Signed
    <2> QED
        BY <1>2, <1>4, <1>11, <2>1, SignedIsValid, Zenon
<1>14. ASSUME schema = 1 PROVE ~generate_and_validate(full, "client key", 0)
    <2>1. OffsetBytes(msg, 0, second) /\ \A i \in 5..CHUNK_LENGTH : msg[SchemaOffset(0) + i] = <<"client", i>>
        BY <1>2, Zenon DEF Packet, Own
    <2>2. /\ SchemaOffset(schema) = TIME_VERSION_LENGTH
          /\ SchemaOffset(0) = TIME_VERSION_LENGTH + CHUNK_LENGTH
        BY <1>14, SchemaPlaces
    <2>3. \A i \in 1..CHUNK_LENGTH : full[SchemaOffset(0) + i] = msg[SchemaOffset(0) + i]
        <3>1. \A i \in 1..CHUNK_LENGTH :
                 SchemaOffset(0) + i \in at + RTMP_DIGEST_LENGTH + 1..RTMP_HANDSHAKE_SIZE
            BY <1>5, <2>2, Lengths
        <3> QED
            BY <1>12, <3>1, Zenon
    <2>4. OffsetBytes(full, 0, second)
        <3>1. 1 \in 1..CHUNK_LENGTH /\ 2 \in 1..CHUNK_LENGTH /\ 3 \in 1..CHUNK_LENGTH /\ 4 \in 1..CHUNK_LENGTH
            BY Lengths
        <3> QED
            BY <2>1, <2>3, <3>1, Zenon DEF OffsetBytes
    <2>5. PICK place : place = find_digest_offset(full, 0)
        BY Zenon
    <2>6. PICK i \in 5..CHUNK_LENGTH : place + 1 = SchemaOffset(0) + i
        <3>1. /\ place \in Nat /\ SchemaOffset(0) \in Nat /\ SchemaOffset(0) + 4 <= place
              /\ place + RTMP_DIGEST_LENGTH < SchemaOffset(0) + CHUNK_LENGTH
            BY <2>4, <2>5, DigestPlace, SchemaPlaces
        <3>2. place + 1 - SchemaOffset(0) \in 5..CHUNK_LENGTH
              /\ place + 1 = SchemaOffset(0) + (place + 1 - SchemaOffset(0))
            BY <3>1, Lengths
        <3> QED
            BY <3>2, Zenon
    <2>7. full[place + 1] = <<"client", i>>
        <3>1. i \in 1..CHUNK_LENGTH
            OBVIOUS
        <3> QED
            BY <2>1, <2>3, <2>6, <3>1, Zenon
    <2> QED
        BY <1>11, <2>4, <2>5, <2>7, UnsignedIsRefused, Zenon
<1>15. read_digest(full, "client key") = schema
    BY <1>13, <1>14, Zenon DEF read_digest
<1>16. PICK g : g = Greeting(schema, first, second)
    BY Zenon
<1>17. g.schema = schema /\ g.digest = digest /\ g.c1 = full
    BY <1>9, <1>16
<1> QED
    BY <1>11, <1>13, <1>15, <1>16, <1>17, Zenon DEF Greets

\* A client of the simple handshake has no digest where either schema looks.
LEMMA UnsignedGreets ==
  ASSUME NEW first \in Offsets, NEW second \in Offsets
  PROVE  Greets(Greeting(NoSchema, first, second))
<1>1. PICK msg, at : msg = Raw(first, second) /\ at = Place(NoSchema, first, second)
    BY Zenon
<1>2. Packet(msg, "client", first, second)
    BY <1>1, PlaceFound
<1>3. PICK full : full = PutDigest(msg, at, <<>>)
    BY Zenon
<1>4. at \in Nat
    <2>1. PICK o \in Offsets : o = Own(NoSchema, first, second)
        BY SMTT(20) DEF Own
    <2>2. at = find_digest_offset(msg, NoSchema) /\ OffsetBytes(msg, NoSchema, o)
        BY <1>1, <1>2, <2>1, PlaceFound, ZenonT(40) DEF Packet
    <2> QED
        BY <2>2, DigestPlace
<1>5. Str(msg, RTMP_HANDSHAKE_SIZE)
    BY <1>2 DEF Packet
<1>6. full = msg
    <2>1. Str(full, RTMP_HANDSHAKE_SIZE)
        BY <1>3, <1>5, StrPut
    <2>2. \A i \in 1..RTMP_HANDSHAKE_SIZE : full[i] = msg[i]
        <3>1. DOMAIN msg = 1..RTMP_HANDSHAKE_SIZE
            BY <1>5 DEF Str
        <3>2. Len(<<>>) = 0
            OBVIOUS
        <3>3. \A i : i \notin at + 1..at + 0
            BY <1>4, SMTT(20)
        <3> QED
            BY <1>3, <3>1, <3>2, <3>3, Zenon DEF PutDigest
    <2> QED
        BY <1>5, <2>1, <2>2, StrEqual
<1>7. ASSUME NEW schema PROVE ~generate_and_validate(msg, "client key", schema)
    <2>1. PICK o \in Offsets : o = Own(schema, first, second)
        BY DEF Own
    <2>2. OffsetBytes(msg, schema, o) /\ \A i \in 5..CHUNK_LENGTH : msg[SchemaOffset(schema) + i] = <<"client", i>>
        BY <1>2, <2>1, Zenon DEF Packet
    <2>3. PICK place : place = find_digest_offset(msg, schema)
        BY Zenon
    <2>4. PICK i \in 5..CHUNK_LENGTH : place + 1 = SchemaOffset(schema) + i
        <3>1. /\ place \in Nat /\ SchemaOffset(schema) \in Nat /\ SchemaOffset(schema) + 4 <= place
              /\ place + RTMP_DIGEST_LENGTH < SchemaOffset(schema) + CHUNK_LENGTH
            BY <2>2, <2>3, DigestPlace, SchemaPlaces
        <3>2. place + 1 - SchemaOffset(schema) \in 5..CHUNK_LENGTH
              /\ place + 1 = SchemaOffset(schema) + (place + 1 - SchemaOffset(schema))
            BY <3>1, Lengths
        <3> QED
            BY <3>2, ZenonT(40)
    <2>5. msg[place + 1] = <<"client", i>>
        BY <2>2, <2>4, Zenon
    <2> QED
        BY <1>5, <2>2, <2>3, <2>5, UnsignedIsRefused, Zenon
<1>8. read_digest(msg, "client key") = NoSchema
    BY <1>7, Zenon DEF read_digest
<1>9. PICK g : g = Greeting(NoSchema, first, second)
    BY Zenon
<1>10. g = [schema |-> NoSchema, digest |-> <<>>, c1 |-> full]
    BY <1>1, <1>3, <1>9, Zenon DEF Greeting
<1>11. g.schema = NoSchema /\ g.c1 = msg
    BY <1>6, <1>10
<1>12. NoSchema \in {0, 1, NoSchema}
    OBVIOUS
<1> QED
    BY <1>5, <1>8, <1>9, <1>11, <1>12, Zenon DEF Greets

\* The output taken apart again.
LEMMA Output ==
  ASSUME NEW x, NEW s, NEW t, NEW n \in Nat, NEW st, NEW out,
         Str(s, n), Str(t, n), Joined(st, s, t), Joined(out, <<x>>, st)
  PROVE  /\ out[1] = x
         /\ Between(out, 1, n + 1) = s
         /\ Between(out, n + 1, Len(out)) = t
<1>1. Str(<<x>>, 1)
    <2>1. <<x>> \in Seq({x}) /\ Len(<<x>>) = 1 /\ 1 \in Nat
        BY SMTT(20), Z3T(20)
    <2> QED
        BY <2>1, StrIntro, Zenon
<1>2. Str(st, n + n) /\ (\A i \in 1..n : st[i] = s[i]) /\ (\A i \in 1..n : st[n + i] = t[i])
    BY StrJoin
<1>3. PICK m \in Nat : m = n + n
    OBVIOUS
<1>4. Str(out, 1 + m) /\ (\A i \in 1..1 : out[i] = <<x>>[i]) /\ (\A i \in 1..m : out[1 + i] = st[i])
    <2>1. Str(st, m) /\ 1 \in Nat
        BY <1>2, <1>3
    <2> QED
        BY <1>1, <2>1, StrJoin
<1>5. out[1] = x
    BY <1>4
<1>6. Between(out, 1, n + 1) = s
    <2>1. 1 \in Nat /\ n + 1 = 1 + n /\ n + 1 <= 1 + m
        BY <1>3
    <2>2. Str(Between(out, 1, n + 1), n) /\ \A i \in 1..n : Between(out, 1, n + 1)[i] = out[1 + i]
        <3>1. PICK one, k, e : one \in Nat /\ one = 1 /\ k = 1 + m /\ e = n + 1
            BY <2>1
        <3>2. Str(out, k) /\ e = one + n /\ e <= k
            BY <1>4, <2>1, <3>1
        <3>3. Str(Between(out, one, e), n) /\ \A i \in 1..n : Between(out, one, e)[i] = out[one + i]
            <4>1. one \in Nat
                BY <3>1
            <4> QED
                BY <3>2, <4>1, StrSlice
        <3> QED
            BY <3>1, <3>3, Zenon
    <2>3. \A i \in 1..n : i \in 1..m
        BY <1>3
    <2>4. \A i \in 1..n : Between(out, 1, n + 1)[i] = s[i]
        BY <1>2, <1>4, <2>2, <2>3, Zenon
    <2> QED
        BY <2>2, <2>4, StrEqual
<1>7. Between(out, n + 1, Len(out)) = t
    <2>1. PICK k \in Nat : k = n + 1
        OBVIOUS
    <2>2. Len(out) = 1 + m /\ 1 + m = k + n
        BY <1>3, <1>4, <2>1 DEF Str
    <2>3. Str(out, k + n)
        BY <1>4, <2>2, Zenon
    <2>4. PICK l : l = k + n
        BY Zenon
    <2>5. Str(Between(out, k, l), n) /\ \A i \in 1..n : Between(out, k, l)[i] = out[k + i]
        BY <2>3, <2>4, StrSuffix
    <2>6. \A i \in 1..n : k + i = 1 + (n + i) /\ n + i \in 1..m
        BY <1>3, <2>1
    <2>7. \A i \in 1..n : Between(out, k, l)[i] = t[i]
        BY <1>2, <1>4, <2>5, <2>6, ZenonT(40)
    <2>8. Between(out, k, l) = t
        BY <2>5, <2>7, StrEqual
    <2> QED
        BY <2>1, <2>2, <2>4, <2>8, Zenon
<1> QED
    BY <1>5, <1>6, <1>7

\* A string of three parts.
Three(all, s, t, u, l, m, n) ==
    /\ Str(all, l + m + n)
    /\ \A i \in 1..l : all[i] = s[i]
    /\ \A i \in 1..m : all[l + i] = t[i]
    /\ \A i \in 1..n : all[l + m + i] = u[i]

\* Where the bytes of three strings in a row are.
LEMMA Parts ==
  ASSUME NEW s, NEW t, NEW u, NEW l \in Nat, NEW m \in Nat, NEW n \in Nat, NEW st, NEW all,
         Str(s, l), Str(t, m), Str(u, n), Joined(st, s, t), Joined(all, st, u)
  PROVE  Three(all, s, t, u, l, m, n)
<1>1. Str(st, l + m) /\ (\A i \in 1..l : st[i] = s[i]) /\ (\A i \in 1..m : st[l + i] = t[i])
    BY StrJoin
<1>2. PICK k \in Nat : k = l + m
    OBVIOUS
<1>3. Str(st, k)
    BY <1>1, <1>2, Zenon
<1>4. Str(all, k + n) /\ (\A i \in 1..k : all[i] = st[i]) /\ (\A i \in 1..n : all[k + i] = u[i])
    BY <1>3, StrJoin
<1>5. (\A i \in 1..l : i \in 1..k) /\ (\A i \in 1..m : l + i \in 1..k)
    BY <1>2
<1>6. (\A i \in 1..l : all[i] = s[i]) /\ (\A i \in 1..m : all[l + i] = t[i])
    BY <1>1, <1>4, <1>5, Zenon
<1> QED
    BY <1>2, <1>4, <1>6, Zenon DEF Three

\* generate_and_fill_digest puts the digest where generate_and_validate looks.
LEMMA FillIsValid ==
  ASSUME NEW msg, NEW key, NEW schema, NEW who, NEW first \in Offsets, NEW second \in Offsets,
         Packet(msg, who, first, second)
  PROVE  /\ Str(generate_and_fill_digest(msg, key, schema), RTMP_HANDSHAKE_SIZE)
         /\ generate_and_validate(generate_and_fill_digest(msg, key, schema), key, schema)
<1>1. PICK o \in Offsets : o = Own(schema, first, second)
    BY DEF Own
<1>2. Str(msg, RTMP_HANDSHAKE_SIZE) /\ OffsetBytes(msg, schema, o)
    BY <1>1, Zenon DEF Packet
<1>3. PICK at : at = find_digest_offset(msg, schema)
    BY Zenon
<1>4. /\ at \in Nat /\ at + RTMP_DIGEST_LENGTH <= RTMP_HANDSHAKE_SIZE /\ RTMP_DIGEST_LENGTH \in Nat
      /\ RTMP_HANDSHAKE_SIZE \in Nat
    BY <1>2, <1>3, DigestPlace, SchemaPlaces, Lengths
<1>5. PICK a \in Nat : a = at + RTMP_DIGEST_LENGTH
    BY <1>4
<1>6. PICK n \in Nat : n = RTMP_HANDSHAKE_SIZE - a
    BY <1>4, <1>5
<1>7. RTMP_HANDSHAKE_SIZE = a + n /\ at <= RTMP_HANDSHAKE_SIZE
    BY <1>4, <1>5, <1>6
<1>8. PICK left : left = Between(msg, 0, at)
    BY Zenon
<1>9. PICK right : right = Between(msg, a, RTMP_HANDSHAKE_SIZE)
    BY Zenon
<1>10. Str(left, at) /\ \A i \in 1..at : left[i] = msg[i]
    <2>1. Str(Between(msg, 0, at), at) /\ \A i \in 1..at : Between(msg, 0, at)[i] = msg[i]
        BY <1>2, <1>4, <1>7, StrPrefix, Zenon
    <2> QED
        BY <1>8, <2>1, Zenon
<1>11. Str(right, n) /\ \A i \in 1..n : right[i] = msg[a + i]
    <2>1. Str(Between(msg, a, RTMP_HANDSHAKE_SIZE), n)
          /\ \A i \in 1..n : Between(msg, a, RTMP_HANDSHAKE_SIZE)[i] = msg[a + i]
        BY <1>2, <1>7, StrSuffix
    <2> QED
        BY <1>9, <2>1, Zenon
<1>12. PICK digest : digest = make_digest(key, left \o right)
    BY Zenon
<1>13. Str(digest, RTMP_DIGEST_LENGTH)
    BY <1>12, StrDigest, Zenon
<1>14. PICK full, st : Joined(st, left, digest) /\ Joined(full, st, right)
    BY Zenon DEF Joined
<1>15. generate_and_fill_digest(msg, key, schema) = full
    <2>1. Len(msg) = RTMP_HANDSHAKE_SIZE
        BY <1>2 DEF Str
    <2>2. PICK m : m = cook_raw_message(msg, schema)
        BY Zenon
    <2>3. m = [left |-> left, digest |-> Between(msg, at, a), right |-> right]
        BY <1>3, <1>5, <1>8, <1>9, <2>1, <2>2, Zenon DEF cook_raw_message
    <2>4. m.left = left /\ m.right = right
        BY <2>3
    <2> QED
        BY <1>12, <1>14, <2>2, <2>4, Zenon DEF generate_and_fill_digest, Joined
<1>16. /\ Str(full, at + RTMP_DIGEST_LENGTH + n)
       /\ \A i \in 1..at : full[i] = left[i]
       /\ \A i \in 1..RTMP_DIGEST_LENGTH : full[at + i] = digest[i]
       /\ \A i \in 1..n : full[at + RTMP_DIGEST_LENGTH + i] = right[i]
    <2>1. Three(full, left, digest, right, at, RTMP_DIGEST_LENGTH, n)
        BY <1>4, <1>10, <1>11, <1>13, <1>14, Parts
    <2> QED
        BY <2>1, ZenonT(40) DEF Three
<1>17. Str(full, RTMP_HANDSHAKE_SIZE)
    BY <1>5, <1>7, <1>16, Zenon
<1>18. Signed(full, msg, key, at, digest)
    <2>1. \A i \in 1..at : full[i] = msg[i]
        BY <1>10, <1>16, Zenon
    <2>2. ASSUME NEW i \in at + RTMP_DIGEST_LENGTH + 1..RTMP_HANDSHAKE_SIZE
          PROVE  full[i] = msg[i]
        <3>1. PICK j \in 1..n : i = a + j
            <4>1. i - a \in 1..n /\ i = a + (i - a)
                BY <1>4, <1>5, <1>7
            <4> QED
                BY <4>1, Zenon
        <3> QED
            BY <1>5, <1>11, <1>16, <3>1, Zenon
    <2>3. digest = make_digest(key, Between(msg, 0, at)
                                    \o Between(msg, at + RTMP_DIGEST_LENGTH, RTMP_HANDSHAKE_SIZE))
        BY <1>5, <1>8, <1>9, <1>12, Zenon
    <2> QED
        BY <1>16, <2>1, <2>2, <2>3, Zenon DEF Signed
<1>19. generate_and_validate(full, key, schema)
    BY <1>2, <1>3, <1>17, <1>18, SignedIsValid
<1> QED
    BY <1>15, <1>17, <1>19, Zenon

Echoes(s2, time, bytes) ==
    /\ Str(s2, RTMP_HANDSHAKE_SIZE)
    /\ Between(s2, 0, FIELD_LENGTH) = time
    /\ Between(s2, TIME_VERSION_LENGTH, RTMP_HANDSHAKE_SIZE) = bytes

\* The S2 of the simple handshake gives back the two parts it was made from.
LEMMA Echo ==
  ASSUME NEW time, NEW mid, NEW bytes, NEW n \in Nat, NEW st, NEW s2,
         n = RTMP_HANDSHAKE_SIZE - TIME_VERSION_LENGTH,
         Str(time, FIELD_LENGTH), Str(mid, FIELD_LENGTH), Str(bytes, n),
         Joined(st, time, mid), Joined(s2, st, bytes)
  PROVE  Echoes(s2, time, bytes)
<1>1. /\ FIELD_LENGTH \in Nat /\ TIME_VERSION_LENGTH \in Nat
      /\ TIME_VERSION_LENGTH = FIELD_LENGTH + FIELD_LENGTH
      /\ RTMP_HANDSHAKE_SIZE = TIME_VERSION_LENGTH + n
      /\ FIELD_LENGTH <= RTMP_HANDSHAKE_SIZE
    BY Lengths
<1>2. Three(s2, time, mid, bytes, FIELD_LENGTH, FIELD_LENGTH, n)
    BY <1>1, Parts
<1>3. /\ Str(s2, RTMP_HANDSHAKE_SIZE)
      /\ \A i \in 1..FIELD_LENGTH : s2[i] = time[i]
      /\ \A i \in 1..n : s2[TIME_VERSION_LENGTH + i] = bytes[i]
    BY <1>1, <1>2, Zenon DEF Three
<1>4. Between(s2, 0, FIELD_LENGTH) = time
    <2>1. /\ Str(Between(s2, 0, FIELD_LENGTH), FIELD_LENGTH)
          /\ \A i \in 1..FIELD_LENGTH : Between(s2, 0, FIELD_LENGTH)[i] = s2[i]
        BY <1>1, <1>3, StrPrefix, Zenon
    <2> QED
        BY <1>3, <2>1, StrEqual
<1>5. Between(s2, TIME_VERSION_LENGTH, RTMP_HANDSHAKE_SIZE) = bytes
    <2>1. /\ Str(Between(s2, TIME_VERSION_LENGTH, RTMP_HANDSHAKE_SIZE), n)
          /\ \A i \in 1..n : Between(s2, TIME_VERSION_LENGTH, RTMP_HANDSHAKE_SIZE)[i]
                             = s2[TIME_VERSION_LENGTH + i]
        BY <1>1, <1>3, StrSuffix
    <2> QED
        BY <1>3, <2>1, StrEqual, Zenon
<1> QED
    BY <1>3, <1>4, <1>5, Zenon DEF Echoes

\* The S2 of the complex handshake ends with the digest of what is before it.
LEMMA EndsWithDigest ==
  ASSUME NEW key, NEW d \in Nat, NEW msg, NEW s2, d = RTMP_HANDSHAKE_SIZE - RTMP_DIGEST_LENGTH,
         Str(msg, d), Joined(s2, msg, make_digest(key, Between(msg, 0, d)))
  PROVE  /\ Str(s2, RTMP_HANDSHAKE_SIZE)
         /\ Between(s2, d, RTMP_HANDSHAKE_SIZE) = make_digest(key, Between(s2, 0, d))
<1>1. PICK digest : digest = make_digest(key, Between(msg, 0, d))
    BY Zenon
<1>2. Str(digest, RTMP_DIGEST_LENGTH) /\ Joined(s2, msg, digest)
    BY <1>1, StrDigest, Zenon
<1>3. /\ RTMP_DIGEST_LENGTH \in Nat /\ RTMP_HANDSHAKE_SIZE = d + RTMP_DIGEST_LENGTH
      /\ d <= RTMP_HANDSHAKE_SIZE /\ d <= d
    BY Lengths
<1>4. /\ Str(s2, d + RTMP_DIGEST_LENGTH)
      /\ \A i \in 1..d : s2[i] = msg[i]
      /\ \A i \in 1..RTMP_DIGEST_LENGTH : s2[d + i] = digest[i]
    BY <1>2, <1>3, StrJoin
<1>5. Str(s2, RTMP_HANDSHAKE_SIZE)
    BY <1>3, <1>4, Zenon
<1>6. Between(s2, d, RTMP_HANDSHAKE_SIZE) = digest
    <2>1. /\ Str(Between(s2, d, RTMP_HANDSHAKE_SIZE), RTMP_DIGEST_LENGTH)
          /\ \A i \in 1..RTMP_DIGEST_LENGTH : Between(s2, d, RTMP_HANDSHAKE_SIZE)[i] = s2[d + i]
        BY <1>3, <1>5, StrSuffix, SMTT(20), Z3T(20)
    <2> QED
        BY <1>2, <1>4, <2>1, StrEqual, Zenon
<1>7. Between(s2, 0, d) = Between(msg, 0, d)
    <2>1. Str(Between(s2, 0, d), d) /\ \A i \in 1..d : Between(s2, 0, d)[i] = s2[i]
        BY <1>3, <1>5, StrPrefix, Zenon
    <2>2. Str(Between(msg, 0, d), d) /\ \A i \in 1..d : Between(msg, 0, d)[i] = msg[i]
        BY <1>3, StrPrefix, Zenon
    <2>3. \A i \in 1..d : Between(s2, 0, d)[i] = Between(msg, 0, d)[i]
        BY <1>4, <2>1, <2>2, Zenon
    <2> QED
        BY <2>1, <2>2, <2>3, StrEqual
<1> QED
    BY <1>1, <1>5, <1>6, <1>7, Zenon

\* What the client may expect of S1 and S2.
Expected(s1, s2) ==
    /\ Str(s1, RTMP_HANDSHAKE_SIZE) /\ Str(s2, RTMP_HANDSHAKE_SIZE)
    /\ IF hello.schema = NoSchema
       THEN /\ Between(s2, 0, FIELD_LENGTH) = Between(hello.c1, 0, FIELD_LENGTH)
            /\ Between(s2, TIME_VERSION_LENGTH, RTMP_HANDSHAKE_SIZE)
               = Between(hello.c1, TIME_VERSION_LENGTH, RTMP_HANDSHAKE_SIZE)
       ELSE /\ generate_and_validate(s1, "server key first half", hello.schema)
            /\ Between(s2, RTMP_HANDSHAKE_SIZE - RTMP_DIGEST_LENGTH, RTMP_HANDSHAKE_SIZE)
               = make_digest(make_digest("server key", hello.digest),
                             Between(s2, 0, RTMP_HANDSHAKE_SIZE - RTMP_DIGEST_LENGTH))

\* The time kept from C1 is one field long.
LEMMA TimeIsField ==
  ASSUME Greets(hello), shaker.time = Between(hello.c1, 0, FIELD_LENGTH)
  PROVE  Str(shaker.time, FIELD_LENGTH)
<1>1. Str(hello.c1, RTMP_HANDSHAKE_SIZE)
    BY Zenon DEF Greets
<1>2. FIELD_LENGTH \in Nat /\ FIELD_LENGTH <= RTMP_HANDSHAKE_SIZE
    BY Lengths, SMTT(20), Z3T(20)
<1>3. Str(Between(hello.c1, 0, FIELD_LENGTH), FIELD_LENGTH)
    BY <1>1, <1>2, StrPrefix
<1> QED
    BY <1>3, Zenon

\* The answer of the simple handshake is what an unsigned client expects
\* (write_s1 and write_s2, handshake/server.rs 159 and 184).
LEMMA SimpleExpected ==
  ASSUME NEW first \in Offsets, NEW second \in Offsets, Greets(hello), hello.schema = NoSchema,
         shaker.time = Between(hello.c1, 0, FIELD_LENGTH),
         shaker.bytes = Between(hello.c1, TIME_VERSION_LENGTH, RTMP_HANDSHAKE_SIZE)
  PROVE  Expected(SimpleS1(first, second), SimpleS2)
<1>1. Str(SimpleS1(first, second), RTMP_HANDSHAKE_SIZE)
    <2>1. PICK zero : zero = [i \in 1..FIELD_LENGTH |-> Number(0)]
        BY Zenon
    <2>2. Str(zero, FIELD_LENGTH)
        <3>1. FIELD_LENGTH \in Nat
            BY Lengths
        <3>2. zero \in Seq({Number(0)}) /\ Len(zero) = FIELD_LENGTH
            BY <2>1, <3>1
        <3> QED
            BY <3>1, <3>2, StrIntro, Zenon
    <2>3. Packed(SimpleS1(first, second), Field("now"), zero, "server", first, second)
        BY <2>1, ZenonT(40) DEF Packed, SimpleS1
    <2>4. Packet(SimpleS1(first, second), "server", first, second)
        BY <2>2, <2>3, StrField, Blocks, Zenon
    <2> QED
        BY <2>4, Zenon DEF Packet
<1>2. PICK n \in Nat : n = RTMP_HANDSHAKE_SIZE - TIME_VERSION_LENGTH
    BY Lengths
<1>3. Str(shaker.bytes, n)
    <2>1. Str(hello.c1, RTMP_HANDSHAKE_SIZE)
        BY Zenon DEF Greets
    <2>2. TIME_VERSION_LENGTH \in Nat /\ RTMP_HANDSHAKE_SIZE = TIME_VERSION_LENGTH + n
        BY <1>2, Lengths, SMTT(20), Z3T(20)
    <2>3. Str(Between(hello.c1, TIME_VERSION_LENGTH, RTMP_HANDSHAKE_SIZE), n)
        BY <2>1, <2>2, StrSuffix, Zenon
    <2> QED
        BY <2>3, Zenon
<1>4. Str(shaker.time, FIELD_LENGTH) /\ Str(Field("now"), FIELD_LENGTH)
    BY TimeIsField, StrField
<1>5. PICK time, bytes : time = shaker.time /\ bytes = shaker.bytes
    BY Zenon
<1>6. PICK st, s2 : Joined(st, time, Field("now")) /\ Joined(s2, st, bytes) /\ s2 = SimpleS2
    BY <1>5, ZenonT(40) DEF Joined, SimpleS2
<1>7. Echoes(s2, time, bytes)
    <2>1. Str(time, FIELD_LENGTH) /\ Str(bytes, n) /\ Str(Field("now"), FIELD_LENGTH)
        BY <1>3, <1>4, <1>5, Zenon
    <2> QED
        BY <1>2, <1>6, <2>1, Echo
<1> QED
    BY <1>1, <1>5, <1>6, <1>7, Zenon DEF Expected, Echoes

\* The answer of the complex handshake is what a signed client expects
\* (write_s1 and write_s2, handshake/server.rs 285 and 316).
LEMMA ComplexExpected ==
  ASSUME NEW first \in Offsets, NEW second \in Offsets, Greets(hello), hello.schema # NoSchema,
         shaker.time = Between(hello.c1, 0, FIELD_LENGTH),
         shaker.schema = hello.schema, shaker.digest = hello.digest
  PROVE  Expected(ComplexS1(first, second), ComplexS2)
<1>1. /\ Str(ComplexS1(first, second), RTMP_HANDSHAKE_SIZE)
      /\ generate_and_validate(ComplexS1(first, second), "server key first half", hello.schema)
    <2>1. PICK msg : msg = Field("now") \o Field("RTMP_SERVER_VERSION")
                             \o Chunk("server", first) \o Chunk("server", second)
        BY Zenon
    <2>2. Packed(msg, Field("now"), Field("RTMP_SERVER_VERSION"), "server", first, second)
        BY <2>1, ZenonT(30) DEF Packed
    <2>3. Str(Field("now"), FIELD_LENGTH) /\ Str(Field("RTMP_SERVER_VERSION"), FIELD_LENGTH)
        BY StrField, SMTT(20)
    <2>4. Packet(msg, "server", first, second)
        BY <2>2, <2>3, Blocks, Zenon
    <2>5. PICK schema, key : schema = hello.schema /\ key = "server key first half"
        BY ZenonT(40)
    <2>6. /\ Str(generate_and_fill_digest(msg, key, schema), RTMP_HANDSHAKE_SIZE)
          /\ generate_and_validate(generate_and_fill_digest(msg, key, schema), key, schema)
        BY <2>4, FillIsValid, Zenon
    <2>7. ComplexS1(first, second) = generate_and_fill_digest(msg, key, schema)
        BY <2>1, <2>5, Zenon DEF ComplexS1
    <2> QED
        BY <2>5, <2>6, <2>7, Zenon
<1>2. PICK n \in Nat, d \in Nat : /\ n = RTMP_HANDSHAKE_SIZE - RTMP_DIGEST_LENGTH - TIME_VERSION_LENGTH
                                  /\ d = RTMP_HANDSHAKE_SIZE - RTMP_DIGEST_LENGTH
    <2>1. /\ RTMP_HANDSHAKE_SIZE - RTMP_DIGEST_LENGTH - TIME_VERSION_LENGTH \in Nat
          /\ RTMP_HANDSHAKE_SIZE - RTMP_DIGEST_LENGTH \in Nat
        BY Lengths
    <2> QED
        BY <2>1, Zenon
<1>3. PICK time, rest, st, msg : /\ time = shaker.time /\ rest = Random("server", n)
                                  /\ Joined(st, Field("now"), time) /\ Joined(msg, st, rest)
    BY Zenon DEF Joined
<1>4. Str(msg, d)
    <2>1. Str(time, FIELD_LENGTH) /\ Str(Field("now"), FIELD_LENGTH) /\ Str(rest, n)
        BY <1>2, <1>3, TimeIsField, StrField, StrRandom, ZenonT(30)
    <2>2. FIELD_LENGTH \in Nat /\ FIELD_LENGTH + FIELD_LENGTH + n = d
        BY <1>2, Lengths, SMTT(20)
    <2>3. Three(msg, Field("now"), time, rest, FIELD_LENGTH, FIELD_LENGTH, n)
        BY <1>3, <2>1, <2>2, Parts, Zenon
    <2> QED
        BY <2>2, <2>3, Zenon DEF Three
<1>5. PICK key, s2 : /\ key = make_digest("server key", hello.digest)
                     /\ Joined(s2, msg, make_digest(key, Between(msg, 0, d)))
    BY Zenon DEF Joined
<1>6. s2 = ComplexS2
    BY <1>2, <1>3, <1>5, ZenonT(30) DEF ComplexS2, Joined
<1>7. Str(s2, RTMP_HANDSHAKE_SIZE) /\ Between(s2, d, RTMP_HANDSHAKE_SIZE) = make_digest(key, Between(s2, 0, d))
    BY <1>2, <1>4, <1>5, EndsWithDigest, ZenonT(30)
<1> QED
    BY <1>1, <1>2, <1>5, <1>6, <1>7, Zenon DEF Expected

-----------------------------------------------------------------------------
\* What the server keeps of C1 is what the answer is made from.
Kept ==
    /\ shaker.mode \in {"Complex", "Simple"}
    /\ shaker.state \in {"ReadC0C1", "WriteS0S1S2", "ReadC2", "Finish"}
    /\ shaker.state = "ReadC0C1" => shaker.mode = "Complex"
    /\ shaker.state # "ReadC0C1" =>
          /\ shaker.version = 3
          /\ shaker.mode = "Simple" <=> hello.schema = NoSchema
          /\ shaker.time = Between(hello.c1, 0, FIELD_LENGTH)
          /\ IF hello.schema = NoSchema
             THEN shaker.bytes = Between(hello.c1, TIME_VERSION_LENGTH, RTMP_HANDSHAKE_SIZE)
             ELSE shaker.schema = hello.schema /\ shaker.digest = hello.digest

ShakerFields == {"mode", "state", "version", "schema", "digest", "time", "bytes"}

ShakeInv == Greets(hello) /\ DOMAIN shaker = ShakerFields /\ Kept /\ HandshakeIsAnswered

\* The invariant holds of every client and a fresh server.
LEMMA ShakeStart == ShakeInit => ShakeInv
<1> SUFFICES ASSUME ShakeInit PROVE ShakeInv
    OBVIOUS
<1>1. PICK version \in {3, 6}, schema \in {0, 1, NoSchema}, first \in Offsets, second \in Offsets :
         LET g == Greeting(schema, first, second)
         IN  hello = [c0 |-> version, c1 |-> g.c1, schema |-> g.schema, digest |-> g.digest]
    BY Zenon DEF ShakeInit
<1>2. PICK g : g = Greeting(schema, first, second)
    BY Zenon
<1>3. hello = [c0 |-> version, c1 |-> g.c1, schema |-> g.schema, digest |-> g.digest]
    BY <1>1, <1>2, Zenon
<1>4. Greets(g)
    <2>1. CASE schema \in {0, 1}
        BY <1>2, <2>1, SignedGreets, Zenon
    <2>2. CASE schema = NoSchema
        BY <1>2, <2>2, UnsignedGreets, Zenon
    <2> QED
        BY <2>1, <2>2
<1>5. hello.c1 = g.c1 /\ hello.schema = g.schema /\ hello.digest = g.digest
    BY <1>3
<1>6. Greets(hello)
    BY <1>4, <1>5, ZenonT(30) DEF Greets
<1>7. DOMAIN shaker = ShakerFields /\ Kept
    <2>1. shaker = [mode |-> "Complex", state |-> "ReadC0C1", version |-> 0, schema |-> 0,
                    digest |-> <<>>, time |-> <<>>, bytes |-> <<>>]
        BY Zenon DEF ShakeInit
    <2>2. shaker.mode = "Complex" /\ shaker.state = "ReadC0C1" /\ DOMAIN shaker = ShakerFields
        BY <2>1 DEF ShakerFields
    <2> QED
        BY <2>2, Zenon DEF Kept
<1>8. HandshakeIsAnswered
    BY Zenon DEF ShakeInit, HandshakeIsAnswered
<1> QED
    BY <1>6, <1>7, <1>8 DEF ShakeInv

\* Reading C0C1, answering and reading C2 keep the invariant.
LEMMA ShakeStep == ShakeInv /\ [ShakeNext]_shakeVars => ShakeInv'
<1> SUFFICES ASSUME ShakeInv, [ShakeNext]_shakeVars PROVE ShakeInv'
    OBVIOUS
<1>1. /\ Greets(hello) /\ DOMAIN shaker = ShakerFields /\ Kept /\ HandshakeIsAnswered
    BY Zenon DEF ShakeInv
<1>2. ASSUME hello' = hello, s0s1s2' = s0s1s2 PROVE Greets(hello)' /\ HandshakeIsAnswered'
    BY <1>1, <1>2, Zenon DEF Greets, HandshakeIsAnswered
<1>3. CASE ReadComplex
    <2>1. /\ shaker.state = "ReadC0C1" /\ hello' = hello /\ s0s1s2' = s0s1s2
          /\ read_digest(hello.c1, "client key") # NoSchema
        BY <1>3, Zenon DEF ReadComplex
    <2>2. PICK schema, digest, time :
             /\ schema = read_digest(hello.c1, "client key")
             /\ digest = cook_raw_message(hello.c1, schema).digest
             /\ time = Between(hello.c1, 0, FIELD_LENGTH)
        BY Zenon
    <2>3. shaker' = [shaker EXCEPT !.state = "WriteS0S1S2", !.version = 3, !.schema = schema,
                                   !.digest = digest, !.time = time]
        BY <1>3, <2>2, Zenon DEF ReadComplex
    <2>4. schema = hello.schema /\ digest = hello.digest
        BY <1>1, <2>1, <2>2, Zenon DEF Greets, Finds
    <2>5. /\ shaker'.mode = "Complex" /\ shaker'.state = "WriteS0S1S2" /\ shaker'.version = 3
          /\ shaker'.schema = schema /\ shaker'.digest = digest /\ shaker'.time = time
          /\ DOMAIN shaker' = ShakerFields
        BY <1>1, <2>1, <2>3, Zenon DEF Kept, ShakerFields
    <2>6. Kept'
        BY <2>1, <2>2, <2>4, <2>5, Zenon DEF Kept
    <2> QED
        BY <1>2, <2>1, <2>5, <2>6, Zenon DEF ShakeInv
<1>4. CASE ReadSimple
    <2>1. /\ shaker.state = "ReadC0C1" /\ hello' = hello /\ s0s1s2' = s0s1s2
          /\ read_digest(hello.c1, "client key") = NoSchema
        BY <1>4, Zenon DEF ReadSimple
    <2>2. PICK time, bytes : /\ time = Between(hello.c1, 0, FIELD_LENGTH)
                             /\ bytes = Between(hello.c1, TIME_VERSION_LENGTH, RTMP_HANDSHAKE_SIZE)
        BY Zenon
    <2>3. shaker' = [shaker EXCEPT !.mode = "Simple", !.state = "WriteS0S1S2", !.version = 3,
                                   !.time = time, !.bytes = bytes]
        BY <1>4, <2>2, Zenon DEF ReadSimple
    <2>4. hello.schema = NoSchema
        BY <1>1, <2>1, Zenon DEF Greets
    <2>5. /\ shaker'.mode = "Simple" /\ shaker'.state = "WriteS0S1S2" /\ shaker'.version = 3
          /\ shaker'.bytes = bytes /\ shaker'.time = time
          /\ DOMAIN shaker' = ShakerFields
        BY <1>1, <2>3 DEF ShakerFields
    <2>6. Kept'
        BY <2>1, <2>2, <2>4, <2>5, ZenonT(30) DEF Kept
    <2> QED
        BY <1>2, <2>1, <2>5, <2>6, Zenon DEF ShakeInv
<1>5. CASE WriteS0S1S2
    <2>1. shaker.state = "WriteS0S1S2" /\ hello' = hello /\ shaker' = [shaker EXCEPT !.state = "ReadC2"]
        BY <1>5, Zenon DEF WriteS0S1S2
    <2>2. PICK first \in Offsets, second \in Offsets :
             s0s1s2' = <<Number(shaker.version)>>
                       \o (IF shaker.mode = "Simple" THEN SimpleS1(first, second) \o SimpleS2
                           ELSE ComplexS1(first, second) \o ComplexS2)
        BY <1>5, Zenon DEF WriteS0S1S2
    <2>3. /\ shaker.version = 3
          /\ shaker.mode = "Simple" <=> hello.schema = NoSchema
          /\ shaker.time = Between(hello.c1, 0, FIELD_LENGTH)
          /\ IF hello.schema = NoSchema
             THEN shaker.bytes = Between(hello.c1, TIME_VERSION_LENGTH, RTMP_HANDSHAKE_SIZE)
             ELSE shaker.schema = hello.schema /\ shaker.digest = hello.digest
        BY <1>1, <2>1, Zenon DEF Kept
    <2>4. PICK s1, s2 : s0s1s2' = <<Number(3)>> \o (s1 \o s2) /\ Expected(s1, s2)
        <3>1. CASE hello.schema = NoSchema
            <4>1. s0s1s2' = <<Number(3)>> \o (SimpleS1(first, second) \o SimpleS2)
                BY <2>2, <2>3, <3>1
            <4>2. Expected(SimpleS1(first, second), SimpleS2)
                BY <1>1, <2>3, <3>1, SimpleExpected, Zenon
            <4> QED
                BY <4>1, <4>2, ZenonT(30)
        <3>2. CASE hello.schema # NoSchema
            <4>1. s0s1s2' = <<Number(3)>> \o (ComplexS1(first, second) \o ComplexS2)
                BY <2>2, <2>3, <3>2, Zenon
            <4>2. Expected(ComplexS1(first, second), ComplexS2)
                BY <1>1, <2>3, <3>2, ComplexExpected, Zenon
            <4> QED
                BY <4>1, <4>2, Zenon
        <3> QED
            BY <3>1, <3>2, Zenon
    <2>5. PICK st, out, x : Joined(st, s1, s2) /\ Joined(out, <<x>>, st) /\ out = s0s1s2' /\ x = Number(3)
        BY <2>4, Zenon DEF Joined
    <2>6. Str(s1, RTMP_HANDSHAKE_SIZE) /\ Str(s2, RTMP_HANDSHAKE_SIZE) /\ RTMP_HANDSHAKE_SIZE \in Nat
        BY <2>4, Lengths, Zenon DEF Expected
    <2>7. /\ out[1] = x /\ Between(out, 1, RTMP_HANDSHAKE_SIZE + 1) = s1
          /\ Between(out, RTMP_HANDSHAKE_SIZE + 1, Len(out)) = s2
        BY <2>5, <2>6, Output
    <2>8. Len(s1) = RTMP_HANDSHAKE_SIZE /\ Len(s2) = RTMP_HANDSHAKE_SIZE
        BY <2>6, Zenon DEF Str
    <2>9. HandshakeIsAnswered'
        BY <2>1, <2>4, <2>5, <2>7, <2>8, Zenon DEF HandshakeIsAnswered, Expected
    <2>10. /\ shaker'.mode = shaker.mode /\ shaker'.state = "ReadC2" /\ shaker'.version = shaker.version
           /\ shaker'.schema = shaker.schema /\ shaker'.digest = shaker.digest
           /\ shaker'.time = shaker.time /\ shaker'.bytes = shaker.bytes
           /\ DOMAIN shaker' = ShakerFields
        BY <1>1, <2>1 DEF ShakerFields
    <2>11. Greets(hello)'
        BY <1>1, <2>1, Zenon DEF Greets
    <2>12. Kept'
        BY <1>1, <2>1, <2>3, <2>10 DEF Kept
    <2> QED
        BY <2>9, <2>10, <2>11, <2>12 DEF ShakeInv
<1>6. CASE ReadC2
    <2>1. /\ shaker.state = "ReadC2" /\ hello' = hello /\ s0s1s2' = s0s1s2
          /\ shaker' = [shaker EXCEPT !.state = "Finish"]
        BY <1>6, Zenon DEF ReadC2
    <2>2. /\ shaker'.mode = shaker.mode /\ shaker'.state = "Finish" /\ shaker'.version = shaker.version
          /\ shaker'.schema = shaker.schema /\ shaker'.digest = shaker.digest
          /\ shaker'.time = shaker.time /\ shaker'.bytes = shaker.bytes
          /\ DOMAIN shaker' = ShakerFields
        BY <1>1, <2>1 DEF ShakerFields
    <2>3. Kept'
        BY <1>1, <2>1, <2>2 DEF Kept
    <2> QED
        BY <1>2, <2>1, <2>2, <2>3 DEF ShakeInv
<1>7. CASE UNCHANGED shakeVars
    <2>1. hello' = hello /\ shaker' = shaker /\ s0s1s2' = s0s1s2
        BY <1>7 DEF shakeVars
    <2>2. Kept'
        BY <1>1, <2>1, Zenon DEF Kept
    <2> QED
        BY <1>1, <1>2, <2>1, <2>2 DEF ShakeInv
<1> QED
    BY <1>3, <1>4, <1>5, <1>6, <1>7 DEF ShakeNext

\* Whatever offsets the client and the server draw, every client gets the answer
\* its handshake calls for: the server's digest found by the schema of its C1 and
\* the S2 signed with its own digest, or its time and bytes back.
THEOREM AnswerCorrect == ShakeSpec => []HandshakeIsAnswered
<1>1. ShakeInv => HandshakeIsAnswered
    BY DEF ShakeInv
<1> QED
    BY <1>1, ShakeStart, ShakeStep, PTL DEF ShakeSpec
=============================================================================
