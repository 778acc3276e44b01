--------------------------- MODULE HttpBodyProofs ---------------------------
(***************************************************************************)
(* Proof that a response which copies the body of its request is that      *)
(* body, for every method, Content-Length, size of a frame and length.     *)
(* The bytes delivered so far and the frames that wait are one numbered    *)
(* stretch of the request, up to the place where its data ends: the        *)
(* trailers, the end of the stream, or what the client sends next.         *)
(***************************************************************************)
EXTENDS HttpBody, TLAPS

\* Frames of the given types: only data has bytes
Frames(T) == {f \in [type : T, bytes : Seq(Nat)] : f.type # "data" => f.bytes = <<>>}

Limited == has_body(request.method) /\ request.length # NoLength
Well    == response.end # "err" /\ frame.type # "err"
Out     == Len(response.bytes) + Len(frame.bytes)   \* bytes delivered

\* The bytes of s are those that follow the first b of the request
Numbered(s, b) == \A j \in 1..Len(s) : s[j] = b + j

BodyTypeOK ==
    /\ request \in [method : Methods, length : Lengths, sent : Nat, early : Nat,
                    late : BOOLEAN, over : BOOLEAN]
    /\ frames \in Seq(Frames({"data", "trailers", "fin", "reset"}))
    /\ trailers \in BOOLEAN
    /\ body \in {"Data", "Trailers", "Done", "Empty"}
    /\ frame \in Frames({"data", "idle", "none", "err", "trailers"})
    /\ response \in [bytes : Seq(Nat), end : {"open", "none", "trailers", "err"}]

\* The byte before the first one of frame i
Start(i) == IF i = 1 THEN Out ELSE frames[i - 1].bytes[Len(frames[i - 1].bytes)]

\* A frame behind the trailers
IsLate(f) == f.type # "trailers" /\ (f.type = "data" => "late_data" \in causes)

\* Frames 1 .. t - 1 are the data that is still to come; t is where the data ends
LayoutAt(t) ==
    /\ \A i \in 1 .. t - 1 : /\ frames[i].type = "data" /\ Len(frames[i].bytes) > 0
                             /\ Numbered(frames[i].bytes, Start(i))
    /\ Start(t) = request.early /\ \A i \in 1 .. t : Start(i) \in 0 .. request.early
    /\ \/ t = Len(frames) + 1 /\ ~request.late /\ ~request.over
       \/ t = Len(frames) /\ frames[t].type = "fin" /\ ~request.late /\ request.over
       \/ /\ t <= Len(frames) /\ frames[t].type = "trailers" /\ request.late
          /\ \A i \in t + 1 .. Len(frames) : IsLate(frames[i])

Layout == \E t \in 1 .. Len(frames) + 1 : LayoutAt(t)

InData ==
    /\ response.end = "open" /\ frame.type \in {"idle", "data"} /\ ~trailers
    /\ remaining_data = IF Limited THEN request.length - Out ELSE NoLength
    /\ "reset" \notin causes => Layout

InTrailers ==
    /\ response.end = "open" /\ frame.type = "idle" /\ Out = request.early
    /\ \/ trailers /\ request.late /\ \A i \in 1..Len(frames) : IsLate(frames[i])
       \/ /\ ~trailers /\ ~request.late /\ request.over
          /\ Len(frames) = 1 /\ frames[1].type = "fin"

\* The body ended, without trailers or with them; trailers are left out only
\* when recv_trailers was not ready
Ended(end) ==
    \/ ~has_body(request.method) /\ end = "none"
    \/ /\ has_body(request.method) /\ body = "Done" /\ Out = request.early
       /\ \/ end = "none" /\ ~request.late /\ request.over
          \/ end = "none" /\ request.late /\ "pending" \in causes
          \/ end = "trailers" /\ request.late

Excused == causes \ {"pending"} # {} \/ (Limited /\ request.sent > request.length)

BodyInv ==
    /\ BodyTypeOK
    /\ Numbered(response.bytes, 0) /\ Numbered(frame.bytes, Len(response.bytes))
    /\ request.early <= request.sent /\ (~request.late => request.early = request.sent)
    /\ Out <= request.early /\ (Limited => Out <= request.length)
    /\ has_body(request.method) <=> body # "Empty"
    /\ ~has_body(request.method) => Out = 0 /\ frame.type \in {"idle", "none"}
    /\ "reset" \in causes => Len(frames) = 1 /\ frames[1].type = "reset" /\ request.over
    /\ \A i \in 1..Len(frames) : frames[i].type = "reset" => "reset" \in causes
    /\ body = "Data" /\ Well => InData
    /\ body = "Trailers" => InTrailers
    /\ body = "Done" => frame.type # "data" /\ (frame.type = "idle" <=> response.end # "open")
    /\ ~Well => Excused
    /\ frame.type \in {"none", "trailers"} => Ended(frame.type)
    /\ response.end \in {"none", "trailers"} => Ended(response.end)
    /\ response.end # "open" => frame.type = "idle"

\* A frame that is not data is known by its type.
LEMMA FrameKinds ==
    ASSUME NEW T, NEW f \in Frames(T)
    PROVE  /\ f = Idle <=> f.type = "idle"
           /\ f = AtEnd <=> f.type = "none"
           /\ f = Error <=> f.type = "err"
           /\ f = Trailers <=> f.type = "trailers"
           /\ f.bytes \in Seq(Nat) /\ Len(f.bytes) \in Nat /\ f.type \in T
           /\ f.type # "data" => f.bytes = <<>>
           /\ f.type # "data" => Len(f.bytes) = 0
<1>1. f \in [type : T, bytes : Seq(Nat)] /\ (f.type # "data" => f.bytes = <<>>)
    BY DEF Frames
<1>2. f = [type |-> f.type, bytes |-> f.bytes]
    BY <1>1
<1>3. f.bytes \in Seq(Nat) /\ f.type \in T
    BY <1>1
<1> QED
    BY <1>1, <1>2, <1>3 DEF Idle, AtEnd, Error, Trailers

\* Two stretches of the request, one behind the other, are one.
LEMMA NumberedConcat ==
    ASSUME NEW b \in Nat, NEW s \in Seq(Nat), NEW t \in Seq(Nat), Numbered(s, b), Numbered(t, b + Len(s))
    PROVE  s \o t \in Seq(Nat) /\ Len(s \o t) = Len(s) + Len(t) /\ Numbered(s \o t, b)
<1>1. Len(s) \in Nat /\ Len(t) \in Nat
    OBVIOUS
<1>2. /\ s \o t \in Seq(Nat) /\ Len(s \o t) = Len(s) + Len(t)
      /\ \A j \in 1..(Len(s) + Len(t)) : (s \o t)[j] = IF j <= Len(s) THEN s[j] ELSE t[j - Len(s)]
    OBVIOUS
<1>3. ASSUME NEW j \in 1..(Len(s) + Len(t)) PROVE (s \o t)[j] = b + j
    <2>1. CASE j <= Len(s)
        BY <1>1, <1>2, <2>1 DEF Numbered
    <2>2. CASE ~(j <= Len(s))
        <3>1. j - Len(s) \in 1..Len(t) /\ (s \o t)[j] = t[j - Len(s)]
            BY <1>1, <1>2, <2>2
        <3>2. t[j - Len(s)] = b + Len(s) + (j - Len(s))
            BY <3>1 DEF Numbered
        <3> QED
            BY <1>1, <3>1, <3>2
    <2> QED
        BY <2>1, <2>2
<1> QED
    BY <1>2, <1>3 DEF Numbered

\* The lesser of two numbers.
LEMMA MinOfTwo ==
    ASSUME NEW a \in Nat, NEW b \in Nat
    PROVE  Min({a, b}) = IF a <= b THEN a ELSE b
<1>1. \E x \in {a, b} : \A y \in {a, b} : x <= y
    OBVIOUS
<1>2. Min({a, b}) \in {a, b} /\ \A y \in {a, b} : Min({a, b}) <= y
    BY <1>1 DEF Min
<1> QED
    BY <1>2

\* The types of the parts of the state.
LEMMA BodyParts ==
    ASSUME BodyTypeOK
    PROVE  /\ response.bytes \in Seq(Nat) /\ Len(response.bytes) \in Nat
           /\ response.end \in {"open", "none", "trailers", "err"}
           /\ frame.bytes \in Seq(Nat) /\ Len(frame.bytes) \in Nat
           /\ frame.type \in {"data", "idle", "none", "err", "trailers"}
           /\ frame = Error <=> frame.type = "err"
           /\ frame = Idle <=> frame.type = "idle"
           /\ frame.type # "data" => Len(frame.bytes) = 0
           /\ Out \in Nat /\ Len(frames) \in Nat
           /\ \A i \in 1..Len(frames) : frames[i] \in Frames({"data", "trailers", "fin", "reset"})
           /\ request.early \in Nat /\ request.length \in Nat \cup {NoLength} /\ request.sent \in Nat
           /\ request.late \in BOOLEAN /\ request.over \in BOOLEAN
<1>1. frame \in Frames({"data", "idle", "none", "err", "trailers"})
    BY DEF BodyTypeOK
<1>2. /\ frame.bytes \in Seq(Nat) /\ Len(frame.bytes) \in Nat
      /\ frame.type \in {"data", "idle", "none", "err", "trailers"}
      /\ frame = Error <=> frame.type = "err"
      /\ frame = Idle <=> frame.type = "idle"
      /\ frame.type # "data" => Len(frame.bytes) = 0
    BY <1>1, FrameKinds
<1>3. /\ response.bytes \in Seq(Nat) /\ Len(response.bytes) \in Nat
      /\ response.end \in {"open", "none", "trailers", "err"}
    BY DEF BodyTypeOK
<1>4. /\ request.early \in Nat /\ request.length \in Nat \cup {NoLength} /\ request.sent \in Nat
      /\ request.late \in BOOLEAN /\ request.over \in BOOLEAN
    BY Zenon, BodyAssumption DEF BodyTypeOK
<1>5. /\ Len(frames) \in Nat
      /\ \A i \in 1..Len(frames) : frames[i] \in Frames({"data", "trailers", "fin", "reset"})
    BY DEF BodyTypeOK
<1>6. Out \in Nat
    <2>1. /\ frame \in [type : {"data", "idle", "none", "err", "trailers"}, bytes : Seq(Nat)]
          /\ response \in [bytes : Seq(Nat), end : {"open", "none", "trailers", "err"}]
        BY DEF BodyTypeOK, Frames
    <2> QED
        BY <2>1 DEF Out
<1> QED
    BY <1>2, <1>3, <1>4, <1>5, <1>6, Zenon

\* The inductive invariant says what BodyIsFaithful does.
LEMMA BodyInvSays == BodyInv => BodyIsFaithful
<1> SUFFICES ASSUME BodyInv PROVE BodyIsFaithful
    OBVIOUS
<1> DEFINE out == response.bytes \o frame.bytes
           due == IF ~has_body(request.method) THEN 0
                  ELSE IF Limited THEN Min({request.early, request.length}) ELSE request.early
<1>1. /\ response.bytes \in Seq(Nat) /\ frame.bytes \in Seq(Nat) /\ Out \in Nat
      /\ request.early \in Nat /\ request.length \in Nat \cup {NoLength} /\ request.sent \in Nat
      /\ request.late \in BOOLEAN
    BY BodyParts DEF BodyInv
<1>2. out \in Seq(Nat) /\ Len(out) = Out /\ Numbered(out, 0)
    <2>1. Numbered(response.bytes, 0) /\ Numbered(frame.bytes, 0 + Len(response.bytes))
        BY <1>1 DEF BodyInv
    <2> QED
        BY <1>1, <2>1, NumberedConcat, Zenon DEF Out
<1>3. \A i \in DOMAIN out : out[i] = i
    <2> HIDE DEF out
    <2> QED
        BY <1>2 DEF Numbered
<1>4. Limited => due = IF request.early <= request.length THEN request.early ELSE request.length
    BY <1>1, MinOfTwo, Zenon DEF Limited
<1>5. due \in Nat /\ (has_body(request.method) /\ ~Limited => due = request.early)
    BY <1>1, <1>4 DEF Limited, NoLength
<1>6. Out <= due
    BY <1>1, <1>4, <1>5 DEF BodyInv, Limited
<1>7. ASSUME response.end \in {"none", "trailers"}
      PROVE  /\ Out = due
             /\ has_body(request.method) => request.early = due
             /\ response.end = "trailers" => request.late /\ has_body(request.method)
             /\ request.late /\ has_body(request.method) =>
                    response.end = "trailers" \/ "pending" \in causes
    BY <1>1, <1>4, <1>5, <1>6, <1>7 DEF BodyInv, Ended
<1>8. ASSUME Limited, body = "Data", Well PROVE Out + size_hint = request.length
    BY <1>1, <1>8 DEF BodyInv, InData, size_hint, Limited, NoLength
<1>9. ASSUME is_end_stream, Well PROVE Out = due
    <2>1. CASE body = "Empty"
        BY <2>1, <1>1, <1>5 DEF BodyInv
    <2>2. CASE body = "Trailers"
        BY <2>2, <1>1, <1>4, <1>5, <1>6 DEF BodyInv, InTrailers
    <2>3. CASE body = "Done"
        <3>1. frame.type \in {"none", "trailers"} \/ response.end \in {"none", "trailers"}
            BY <2>3, <1>9, BodyParts DEF BodyInv, Well
        <3>2. has_body(request.method) /\ Out = request.early
            BY <2>3, <3>1 DEF BodyInv, Ended
        <3> QED
            BY <3>2, <1>1, <1>4, <1>5, <1>6
    <2>4. CASE body = "Data" /\ remaining_data = 0
        <3>1. has_body(request.method) /\ Limited /\ Out = request.length
            BY <2>4, <1>1, <1>9 DEF BodyInv, InData, NoLength, Limited
        <3> QED
            BY <3>1, <1>1, <1>4, <1>5, <1>6 DEF BodyInv
    <2> QED
        BY <1>9, <2>1, <2>2, <2>3, <2>4 DEF is_end_stream, BodyInv, BodyTypeOK
<1>10. response.end = "err" => Excused
    BY DEF BodyInv, Well
<1>11. Well <=> response.end # "err" /\ frame # Error
    BY BodyParts DEF BodyInv, Well
<1> HIDE DEF out, due
<1> QED
    BY Zenon, <1>2, <1>3, <1>6, <1>7, <1>8, <1>9, <1>10, <1>11 DEF BodyIsFaithful, out, due, Limited, Excused

\* A request that was not polled yet.
LEMMA BodyInitInv == BodyInit => BodyInv
<1> SUFFICES ASSUME BodyInit PROVE BodyInv
    OBVIOUS
<1>1. PICK m \in Methods, n \in Lengths :
          /\ request = [method |-> m, length |-> n, sent |-> 0, early |-> 0, late |-> FALSE, over |-> FALSE]
          /\ body = IF has_body(m) THEN "Data" ELSE "Empty"
          /\ remaining_data = n
    BY Zenon DEF BodyInit
<1>2. /\ frames = <<>> /\ trailers = FALSE /\ frame = Idle /\ causes = {}
      /\ response = [bytes |-> <<>>, end |-> "open"]
    BY DEF BodyInit
<1>3. frame.type = "idle" /\ frame.bytes = <<>> /\ response.bytes = <<>> /\ response.end = "open"
    BY <1>2 DEF Idle
<1>4. BodyTypeOK
    <2>1. frame \in Frames({"data", "idle", "none", "err", "trailers"})
        BY <1>2 DEF Idle, Frames
    <2>2. request \in [method : Methods, length : Lengths, sent : Nat, early : Nat,
                       late : BOOLEAN, over : BOOLEAN]
        BY <1>1
    <2>3. response \in [bytes : Seq(Nat), end : {"open", "none", "trailers", "err"}]
        BY <1>2
    <2>4. frames \in Seq(Frames({"data", "trailers", "fin", "reset"}))
        BY <1>2
    <2> QED
        BY Zenon, <1>1, <1>2, <2>1, <2>2, <2>3, <2>4 DEF BodyTypeOK
<1>5. Out = 0
    BY <1>3 DEF Out
<1>6. LayoutAt(1)
    BY <1>1, <1>2, <1>5 DEF LayoutAt, Start
<1>7. body = "Data" => InData
    BY <1>1, <1>2, <1>3, <1>5, <1>6, BodyAssumption DEF InData, Layout, Limited, NoLength
<1>8. Numbered(response.bytes, 0) /\ Numbered(frame.bytes, Len(response.bytes))
    BY <1>3 DEF Numbered
<1> QED
    BY <1>1, <1>2, <1>3, <1>4, <1>5, <1>7, <1>8, BodyAssumption DEF BodyInv, Well, Limited, NoLength

\* What a frame behind the others does to the layout of those that wait.
LEMMA LayoutAppend ==
    ASSUME BodyTypeOK, Layout, Out' = Out, causes \subseteq causes', ~request.over,
           NEW f \in Frames({"data", "trailers", "fin", "reset"}), frames' = Append(frames, f),
           \/ /\ ~request.late /\ ~request'.late /\ ~request'.over
              /\ f.type = "data" /\ Len(f.bytes) > 0 /\ Numbered(f.bytes, request.early)
              /\ request'.early = request.early + Len(f.bytes)
           \/ ~request.late /\ request'.late /\ f.type = "trailers" /\ request'.early = request.early
           \/ ~request.late /\ ~request'.late /\ request'.over /\ f.type = "fin" /\ request'.early = request.early
           \/ request.late /\ request'.late /\ IsLate(f)' /\ request'.early = request.early
    PROVE  Layout'
<1>1. PICK t \in 1 .. Len(frames) + 1 : LayoutAt(t)
    BY DEF Layout
<1>2. /\ Len(frames) \in Nat /\ Len(frames') = Len(frames) + 1
      /\ \A i \in 1..Len(frames) : frames'[i] = frames[i]
      /\ frames'[Len(frames) + 1] = f
    BY DEF BodyTypeOK
<1>3. f.bytes \in Seq(Nat) /\ Len(f.bytes) \in Nat /\ request.early \in Nat
    BY FrameKinds, BodyParts
<1>4. ASSUME NEW i \in 1 .. Len(frames) + 1 PROVE Start(i)' = Start(i)
    BY <1>2, <1>4 DEF Start
<1>5. ASSUME NEW i \in 1 .. t - 1
      PROVE  /\ frames'[i].type = "data" /\ Len(frames'[i].bytes) > 0
             /\ Numbered(frames'[i].bytes, Start(i)')
    <2>1. i \in 1..Len(frames) /\ frames'[i] = frames[i] /\ Start(i)' = Start(i)
        BY <1>2, <1>4
    <2> QED
        BY <1>1, <2>1 DEF LayoutAt
<1>9. request.early <= request'.early /\ \A i \in 1 .. t : Start(i)' = Start(i) /\ Start(i) \in 0 .. request.early
    BY <1>1, <1>2, <1>3, <1>4 DEF LayoutAt
<1>6. CASE ~request.late /\ f.type = "data"
    <2>1. t = Len(frames) + 1 /\ Start(t) = request.early
        BY <1>1, <1>6 DEF LayoutAt
    <2>2. Start(t + 1)' = f.bytes[Len(f.bytes)]
        BY <1>2, <2>1 DEF Start
    <2>3. Start(t + 1)' = request'.early
        <3>1. Len(f.bytes) \in 1 .. Len(f.bytes) /\ Numbered(f.bytes, request.early)
            BY <1>3, <1>6
        <3>2. f.bytes[Len(f.bytes)] = request.early + Len(f.bytes)
            BY <3>1 DEF Numbered
        <3> QED
            BY <1>6, <2>2, <3>2
    <2>4. Start(t)' = request.early /\ frames'[t] = f
        BY <1>2, <1>4, <2>1
    <2>5. ASSUME NEW i \in 1 .. (t + 1) - 1
          PROVE  /\ frames'[i].type = "data" /\ Len(frames'[i].bytes) > 0
                 /\ Numbered(frames'[i].bytes, Start(i)')
        <3>1. CASE i = t
            BY <1>6, <2>4, <3>1
        <3>2. CASE i # t
            <4>1. i \in 1 .. t - 1
                BY <3>2
            <4> QED
                BY <1>5, <4>1
        <3> QED
            BY <3>1, <3>2
    <2>6. ASSUME NEW i \in 1 .. t + 1 PROVE Start(i)' \in 0 .. request'.early
        <3>1. CASE i = t + 1
            BY <1>3, <1>6, <2>3, <3>1, SMTT(20), Z3T(20)
        <3>2. CASE i # t + 1
            BY <1>3, <1>6, <1>9, <2>1, <3>2, SMTT(20), Z3T(20)
        <3> QED
            BY <3>1, <3>2
    <2>7. LayoutAt(t + 1)'
        BY <1>2, <1>6, <2>1, <2>3, <2>5, <2>6 DEF LayoutAt
    <2> QED
        BY <1>2, <2>1, <2>7 DEF Layout
<1>7. CASE ~request.late /\ f.type # "data"
    <2>1. t = Len(frames) + 1 /\ Start(t)' = request.early /\ frames'[t] = f
        BY <1>1, <1>2, <1>4, <1>7 DEF LayoutAt
    <2>2. LayoutAt(t)'
        BY <1>2, <1>5, <1>7, <1>9, <2>1 DEF LayoutAt
    <2> QED
        BY <1>2, <2>1, <2>2 DEF Layout
<1>8. CASE request.late
    <2>1. /\ t <= Len(frames) /\ frames[t].type = "trailers" /\ Start(t) = request.early
          /\ \A i \in t + 1 .. Len(frames) : IsLate(frames[i])
        BY <1>1, <1>8 DEF LayoutAt
    <2>2. frames'[t].type = "trailers" /\ Start(t)' = request'.early /\ request'.late
        BY <1>2, <1>4, <1>8, <2>1
    <2>3. ASSUME NEW i \in t + 1 .. Len(frames') PROVE IsLate(frames[i])'
        <3>1. CASE i = Len(frames) + 1
            BY <1>2, <1>8, <3>1 DEF IsLate
        <3>2. CASE i # Len(frames) + 1
            <4>1. i \in t + 1 .. Len(frames) /\ frames'[i] = frames[i]
                BY <1>2, <3>2
            <4> QED
                BY <2>1, <4>1 DEF IsLate
        <3> QED
            BY <3>1, <3>2
    <2>4. LayoutAt(t)'
        BY <1>2, <1>5, <1>8, <1>9, <2>1, <2>2, <2>3, SMTT(20), Z3T(20) DEF LayoutAt
    <2> QED
        BY <1>2, <2>1, <2>4 DEF Layout
<1> QED
    BY <1>6, <1>7, <1>8

\* Data that was read is delivered, and the next frame starts behind it.
LEMMA LayoutTail ==
    ASSUME BodyTypeOK, NEW t \in 2 .. Len(frames) + 1, LayoutAt(t), frames' = Tail(frames),
           Out' = Out + Len(frames[1].bytes), request' = request, causes' = causes
    PROVE  Layout'
<1>1. /\ Len(frames) \in Nat /\ Len(frames) >= 1 /\ Len(frames') = Len(frames) - 1
      /\ \A i \in 1 .. Len(frames) - 1 : frames'[i] = frames[i + 1]
    BY DEF BodyTypeOK
<1>2. Start(1)' = Start(2)
    <2>1. 1 \in 1 .. t - 1 /\ 1 \in 1 .. Len(frames)
        BY <1>1
    <2>2. Len(frames[1].bytes) > 0 /\ Numbered(frames[1].bytes, Start(1)) /\ Len(frames[1].bytes) \in Nat
        BY <2>1, FrameKinds, BodyParts, SMTT(20), Z3T(20) DEF LayoutAt
    <2>3. frames[1].bytes[Len(frames[1].bytes)] = Out + Len(frames[1].bytes)
        BY <2>2 DEF Numbered, Start
    <2> QED
        BY <2>3 DEF Start
<1>3. ASSUME NEW i \in 1 .. Len(frames) PROVE Start(i)' = Start(i + 1)
    <2>1. CASE i = 1
        BY <1>2, <2>1
    <2>2. CASE i # 1
        <3>1. i - 1 \in 1 .. Len(frames) - 1 /\ frames'[i - 1] = frames[i]
            BY <1>1, <2>2
        <3> QED
            BY <2>2, <3>1 DEF Start
    <2> QED
        BY <2>1, <2>2
<1>4. ASSUME NEW i \in 1 .. (t - 1) - 1
      PROVE  /\ frames'[i].type = "data" /\ Len(frames'[i].bytes) > 0
             /\ Numbered(frames'[i].bytes, Start(i)')
    <2>1. i + 1 \in 1 .. t - 1 /\ frames'[i] = frames[i + 1] /\ Start(i)' = Start(i + 1)
        BY <1>1, <1>3
    <2> QED
        BY <2>1 DEF LayoutAt
<1>5. Start(t - 1)' = request'.early
    BY <1>1, <1>3 DEF LayoutAt
<1>6. t <= Len(frames) => frames'[t - 1] = frames[t]
    BY <1>1
<1>7. ASSUME NEW i \in (t - 1) + 1 .. Len(frames'), \A j \in t + 1 .. Len(frames) : IsLate(frames[j])
      PROVE  IsLate(frames[i])'
    <2>1. i + 1 \in t + 1 .. Len(frames) /\ frames'[i] = frames[i + 1]
        BY <1>1
    <2> QED
        BY <1>7, <2>1 DEF IsLate
<1>8. ASSUME NEW i \in 1 .. t - 1 PROVE Start(i)' \in 0 .. request'.early
    <2>1. i + 1 \in 1 .. t /\ Start(i)' = Start(i + 1)
        BY <1>1, <1>3
    <2> QED
        BY <2>1, Zenon DEF LayoutAt
<1>9. \/ t - 1 = Len(frames') + 1 /\ ~request'.late /\ ~request'.over
      \/ t - 1 = Len(frames') /\ frames'[t - 1].type = "fin" /\ ~request'.late /\ request'.over
      \/ /\ t - 1 <= Len(frames') /\ frames'[t - 1].type = "trailers" /\ request'.late
         /\ \A i \in (t - 1) + 1 .. Len(frames') : IsLate(frames[i])'
    <2>1. CASE t = Len(frames) + 1 /\ ~request.late /\ ~request.over
        BY <1>1, <2>1
    <2>2. CASE t = Len(frames) /\ frames[t].type = "fin" /\ ~request.late /\ request.over
        BY <1>1, <1>6, <2>2
    <2>3. CASE /\ t <= Len(frames) /\ frames[t].type = "trailers" /\ request.late
               /\ \A i \in t + 1 .. Len(frames) : IsLate(frames[i])
        <3>1. \A i \in (t - 1) + 1 .. Len(frames') : IsLate(frames[i])'
            BY <1>7, <2>3
        <3> QED
            BY <1>1, <1>6, <2>3, <3>1
    <2> QED
        BY <2>1, <2>2, <2>3 DEF LayoutAt
<1>10. LayoutAt(t - 1)'
    BY Zenon, <1>4, <1>5, <1>8, <1>9 DEF LayoutAt
<1> QED
    BY <1>1, <1>10 DEF Layout

\* A client that sends a frame, the end or a reset changes nothing that was read.
LEMMA ClientStep ==
    ASSUME BodyInv, ClientFrames PROVE BodyInv'
<1> DEFINE T == {"data", "trailers", "fin", "reset"}
<1>1. /\ UNCHANGED <<trailers, body, remaining_data, frame, response>>
      /\ ~request.over /\ "reset" \notin causes /\ BodyTypeOK
    BY Zenon DEF ClientFrames, BodyInv
<1>2. Out' = Out /\ Well' = Well /\ Out \in Nat
    BY Zenon, <1>1, BodyParts DEF Out, Well
<1>3. /\ request \in [method : Methods, length : Lengths, sent : Nat, early : Nat,
                      late : BOOLEAN, over : BOOLEAN]
      /\ frames \in Seq(Frames(T)) /\ Len(frames) \in Nat
      /\ request.length \in Nat \cup {NoLength}
    BY <1>1, BodyParts DEF BodyTypeOK
\* the part every client step has in common
<1>4. ASSUME NEW f \in Frames(T), frames' = Append(frames, f), f.type # "reset",
             request' \in [method : Methods, length : Lengths, sent : Nat, early : Nat,
                           late : BOOLEAN, over : BOOLEAN],
             request'.method = request.method, request'.length = request.length,
             request.sent <= request'.sent, request.early <= request'.early,
             request'.early <= request'.sent, ~request'.late => request'.early = request'.sent,
             causes \subseteq causes', "reset" \notin causes',
             request.late => request'.late /\ request'.early = request.early,
             \/ /\ ~request.late /\ ~request'.late /\ ~request'.over
                /\ f.type = "data" /\ Len(f.bytes) > 0 /\ Numbered(f.bytes, request.early)
                /\ request'.early = request.early + Len(f.bytes)
             \/ ~request.late /\ request'.late /\ f.type = "trailers" /\ request'.early = request.early
             \/ ~request.late /\ ~request'.late /\ request'.over /\ f.type = "fin" /\ request'.early = request.early
             \/ request.late /\ request'.late /\ IsLate(f)' /\ request'.early = request.early
      PROVE  BodyInv'
    <2>1. /\ frames' \in Seq(Frames(T)) /\ Len(frames') = Len(frames) + 1
          /\ \A i \in 1..Len(frames) : frames'[i] = frames[i]
          /\ frames'[Len(frames) + 1] = f
        BY <1>3, <1>4, SMTT(20), Z3T(20)
    <2>2. BodyTypeOK'
        BY <1>1, <1>4, <2>1 DEF BodyTypeOK
    <2>3. Limited' = Limited
        BY <1>4 DEF Limited
    <2>4. ASSUME body = "Data", Well PROVE InData'
        <3>1. InData
            BY <2>4 DEF BodyInv
        <3>2. Layout'
            BY <1>1, <1>2, <1>4, <3>1, LayoutAppend DEF InData
        <3> QED
            BY <1>1, <1>2, <1>4, <2>3, <3>1, <3>2 DEF InData
    <2>5. ASSUME body = "Trailers" PROVE InTrailers'
        <3>1. InTrailers /\ request.late /\ trailers
            BY <1>1, <2>5 DEF BodyInv, InTrailers
        <3>2. \A i \in 1..Len(frames') : IsLate(frames[i])'
            <4>1. \A i \in 1..Len(frames) : IsLate(frames[i])'
                BY <1>4, <2>1, <3>1 DEF InTrailers, IsLate
            <4>2. IsLate(f)'
                BY <1>4, <3>1
            <4>3. ASSUME NEW i \in 1..Len(frames') PROVE IsLate(frames[i])'
                <5>1. i \in 1..Len(frames) \/ frames'[i] = f
                    BY <1>3, <2>1
                <5> QED
                    BY <4>1, <4>2, <5>1 DEF IsLate
            <4> QED
                BY <4>3
        <3> QED
            BY <1>1, <1>2, <1>4, <3>1, <3>2 DEF InTrailers
    <2>6. ASSUME NEW e, Ended(e), e \in {"none", "trailers"} PROVE Ended(e)'
        BY <1>1, <1>2, <1>4, <2>6 DEF Ended
    <2>7. \A i \in 1..Len(frames') : frames'[i].type # "reset"
        BY <1>1, <1>3, <1>4, <2>1 DEF BodyInv
    <2>8. Excused => Excused'
        BY <1>3, <1>4, <2>3 DEF Excused, Limited, NoLength
    <2>9. Out' <= request'.early /\ (Limited' => Out' <= request'.length)
        BY <1>2, <1>3, <1>4, <2>3 DEF BodyInv
    <2> QED
        BY <1>1, <1>2, <1>4, <2>2, <2>4, <2>5, <2>6, <2>7, <2>8, <2>9 DEF BodyInv
<1>5. ASSUME NEW n \in 1..MaxFrame,
             frames' = Append(frames, Data([i \in 1..n |-> request.sent + i])),
             request' = [request EXCEPT !.sent = @ + n, !.early = IF request.late THEN @ ELSE @ + n],
             causes' = IF request.late THEN causes \union {"late_data"} ELSE causes
      PROVE  BodyInv'
    <2>0. PICK f : f = Data([i \in 1..n |-> request.sent + i])
        OBVIOUS
    <2>1. n \in Nat /\ n > 0
        BY BodyAssumption
    <2>2. f \in Frames(T) /\ f.type = "data" /\ Len(f.bytes) = n /\ Numbered(f.bytes, request.sent)
        <3>1. [i \in 1..n |-> request.sent + i] \in Seq(Nat) /\ Len([i \in 1..n |-> request.sent + i]) = n
            <4>1. [i \in 1..n |-> request.sent + i] \in [1..n -> Nat]
                BY <1>3, <2>1
            <4> QED
                BY <2>1, <4>1
        <3> QED
            BY <2>0, <2>1, <3>1 DEF Data, Frames, Numbered
    <2>3. /\ request' \in [method : Methods, length : Lengths, sent : Nat, early : Nat,
                           late : BOOLEAN, over : BOOLEAN]
          /\ request'.method = request.method /\ request'.length = request.length
          /\ request'.late = request.late /\ request'.over = request.over
          /\ request'.sent = request.sent + n
          /\ request'.early = IF request.late THEN request.early ELSE request.early + n
        <3>1. request' = [request EXCEPT !.sent = @ + n, !.early = IF request.late THEN @ ELSE @ + n]
            BY <1>5, Zenon
        <3>2. request' = [method |-> request.method, length |-> request.length, sent |-> request.sent + n,
                          early |-> IF request.late THEN request.early ELSE request.early + n,
                          late |-> request.late, over |-> request.over]
            BY Zenon, <1>3, <3>1
        <3>3. (IF request.late THEN request.early ELSE request.early + n) \in Nat /\ request.sent + n \in Nat
            BY <1>3, <2>1
        <3> QED
            BY <1>3, <3>2, <3>3
    <2>4. request.late => IsLate(f)'
        <3>1. request.late => "late_data" \in causes'
            BY <1>5, Zenon
        <3> QED
            BY <2>2, <3>1 DEF IsLate
    <2>5. request.early <= request.sent /\ (~request.late => request.early = request.sent)
        BY DEF BodyInv
    <2>6. frames' = Append(frames, f)
        BY <1>5, <2>0, Zenon
    <2>7. causes \subseteq causes' /\ "reset" \notin causes'
        BY <1>1, <1>5
    <2>8. /\ request.sent <= request'.sent /\ request.early <= request'.early
          /\ request'.early <= request'.sent /\ (~request'.late => request'.early = request'.sent)
          /\ request.late => request'.late /\ request'.early = request.early
        BY <1>3, <2>1, <2>3, <2>5
    <2>9. \/ /\ ~request.late /\ ~request'.late /\ ~request'.over
             /\ f.type = "data" /\ Len(f.bytes) > 0 /\ Numbered(f.bytes, request.early)
             /\ request'.early = request.early + Len(f.bytes)
          \/ request.late /\ request'.late /\ IsLate(f)' /\ request'.early = request.early
        BY <1>1, <1>3, <2>1, <2>2, <2>3, <2>4, <2>5
    <2> QED
        BY <1>4, <2>2, <2>3, <2>6, <2>7, <2>8, <2>9
<1>6. ASSUME ~request.late, frames' = Append(frames, Trailers), UNCHANGED causes,
             request' = [request EXCEPT !.late = TRUE]
      PROVE  BodyInv'
    <2>1. Trailers \in Frames(T) /\ Trailers.type = "trailers"
        BY DEF Trailers, Frames
    <2>2. /\ request' \in [method : Methods, length : Lengths, sent : Nat, early : Nat,
                           late : BOOLEAN, over : BOOLEAN]
          /\ request'.method = request.method /\ request'.length = request.length
          /\ request'.late /\ request'.sent = request.sent /\ request'.early = request.early
        BY Zenon, <1>3, <1>6
    <2> QED
        BY <1>1, <1>3, <1>4, <1>6, <2>1, <2>2 DEF BodyInv
<1>7. ASSUME frames' = Append(frames, Fin), UNCHANGED causes, request' = [request EXCEPT !.over = TRUE]
      PROVE  BodyInv'
    <2>1. Fin \in Frames(T) /\ Fin.type = "fin" /\ IsLate(Fin)'
        BY DEF Fin, Frames, IsLate
    <2>2. /\ request' \in [method : Methods, length : Lengths, sent : Nat, early : Nat,
                           late : BOOLEAN, over : BOOLEAN]
          /\ request'.method = request.method /\ request'.length = request.length /\ request'.over
          /\ request'.late = request.late /\ request'.sent = request.sent /\ request'.early = request.early
        BY Zenon, <1>3, <1>7
    <2> QED
        BY <1>1, <1>3, <1>4, <1>7, <2>1, <2>2 DEF BodyInv
<1>8. ASSUME frames' = <<Reset>>, request' = [request EXCEPT !.over = TRUE], causes' = causes \union {"reset"}
      PROVE  BodyInv'
    <2>1. Reset \in Frames(T) /\ Reset.type = "reset"
        BY DEF Reset, Frames
    <2>2. /\ request' \in [method : Methods, length : Lengths, sent : Nat, early : Nat,
                           late : BOOLEAN, over : BOOLEAN]
          /\ request'.method = request.method /\ request'.length = request.length /\ request'.over
          /\ request'.late = request.late /\ request'.sent = request.sent /\ request'.early = request.early
        BY Zenon, <1>3, <1>8
    <2>3. frames' \in Seq(Frames(T)) /\ Len(frames') = 1 /\ frames'[1] = Reset
        BY <1>8, <2>1
    <2>4. BodyTypeOK'
        BY <1>1, <2>2, <2>3 DEF BodyTypeOK
    <2>5. body = "Data" /\ Well => InData'
        BY <1>1, <1>2, <1>8, <2>2 DEF BodyInv, InData, Limited
    <2>6. body = "Trailers" => InTrailers'
        BY <1>1, <1>2, <2>1, <2>2, <2>3 DEF BodyInv, InTrailers, IsLate
    <2>7. ASSUME NEW e, Ended(e) PROVE Ended(e)'
        BY <1>1, <1>2, <1>8, <2>2, <2>7 DEF Ended
    <2>8. Limited' = Limited /\ Excused'
        BY <1>8, <2>2 DEF Limited, Excused
    <2> QED
        BY <1>1, <1>2, <1>8, <2>1, <2>2, <2>3, <2>4, <2>5, <2>6, <2>7, <2>8 DEF BodyInv
<1> QED
    BY Zenon, <1>5, <1>6, <1>7, <1>8 DEF ClientFrames

\* Nothing more.
LEMMA ZeroMore == \A n \in Nat : n + 0 = n
OBVIOUS

\* What poll_recv_data returns, and what it leaves.
LEMMA PolledFrame ==
    ASSUME BodyTypeOK, RecvData
    PROVE  /\ Len(frames) >= 1 /\ Head(frames) = frames[1]
           /\ frames[1].type \in {"data", "trailers", "fin", "reset"}
           /\ Polled.type = "data" <=> frames[1].type = "data"
           /\ Polled = AtEnd <=> frames[1].type \in {"trailers", "fin"}
           /\ Polled = Error <=> frames[1].type = "reset"
           /\ frames[1].type = "data" => Polled = frames[1]
           /\ frames' \in Seq(Frames({"data", "trailers", "fin", "reset"}))
           /\ frames[1].type \in {"fin", "reset"} => frames' = frames
           /\ frames[1].type \in {"data", "trailers"} =>
                 /\ Len(frames') = Len(frames) - 1
                 /\ \A i \in 1 .. Len(frames) - 1 : frames'[i] = frames[i + 1]
           /\ trailers' = (trailers \/ frames[1].type = "trailers")
           /\ trailers' \in BOOLEAN
<1>1. frames \in Seq(Frames({"data", "trailers", "fin", "reset"})) /\ frames # <<>>
    BY DEF BodyTypeOK, RecvData
<1>2. Len(frames) >= 1 /\ Head(frames) = frames[1] /\ frames[1] \in Frames({"data", "trailers", "fin", "reset"})
    BY <1>1
<1>3. frames[1].type \in {"data", "trailers", "fin", "reset"} /\ frames[1].bytes \in Seq(Nat)
    BY <1>2, FrameKinds
<1>4. /\ frames[1].type \in {"trailers", "fin"} => Polled = AtEnd
      /\ frames[1].type = "reset" => Polled = Error
      /\ frames[1].type = "data" => Polled = frames[1]
    BY <1>2 DEF Polled
<1>5. AtEnd.type = "none" /\ Error.type = "err"
    BY DEF AtEnd, Error
<1>6. frames' = IF frames[1].type \in {"fin", "reset"} THEN frames ELSE Tail(frames)
    BY <1>2 DEF RecvData
<1>7. /\ Tail(frames) \in Seq(Frames({"data", "trailers", "fin", "reset"}))
      /\ Len(Tail(frames)) = Len(frames) - 1
      /\ \A i \in 1 .. Len(frames) - 1 : Tail(frames)[i] = frames[i + 1]
    BY <1>1
<1>8. trailers' = (trailers \/ frames[1].type = "trailers") /\ trailers' \in BOOLEAN
    BY <1>2, Zenon DEF RecvData, BodyTypeOK
<1> QED
    BY Zenon, <1>1, <1>2, <1>3, <1>4, <1>5, <1>6, <1>7, <1>8

\* poll_frame in State::Data.
LEMMA PollDataStep ==
    ASSUME BodyInv, PollData PROVE BodyInv'
<1> DEFINE T == {"data", "trailers", "fin", "reset"}
<1>1. /\ response.end = "open" /\ frame = Idle /\ body = "Data" /\ RecvData /\ BodyTypeOK
      /\ UNCHANGED <<request, response>>
    BY DEF PollData, Polling, BodyInv
<1>2. frame.type = "idle" /\ Len(frame.bytes) = 0 /\ Well
    BY <1>1, BodyParts DEF Well
<1>3. InData /\ has_body(request.method)
    BY <1>1, <1>2 DEF BodyInv
<1>4. /\ request.early \in Nat /\ request.sent \in Nat /\ request.length \in Nat \cup {NoLength}
      /\ Out \in Nat /\ Len(frames) \in Nat /\ Len(response.bytes) \in Nat
      /\ Out = Len(response.bytes)
    BY <1>1, <1>2, BodyParts DEF Out
<1>5. Limited' = Limited
    BY <1>1, SMTT(20) DEF Limited
<1>6. ASSUME frame' = Error, body' \in {"Done", "Data"}, Excused'
             , "reset" \in causes' <=> "reset" \in causes
      PROVE  BodyInv'
    <2>1. /\ frame'.type = "err" /\ frame'.bytes = <<>>
          /\ frame' \in Frames({"data", "idle", "none", "err", "trailers"})
        BY <1>6 DEF Error, Frames
    <2>2. BodyTypeOK'
        BY <1>1, <1>6, <2>1, PolledFrame DEF BodyTypeOK
    <2>3. Out' = Out /\ ~Well'
        <3>1. Len(frame'.bytes) = 0 /\ Len(response'.bytes) = Len(response.bytes)
            BY <1>1, <2>1
        <3> QED
            BY Zenon, <1>4, <2>1, <3>1, ZeroMore DEF Out, Well
    <2>4. Numbered(frame'.bytes, Len(response'.bytes)) /\ Numbered(response'.bytes, 0)
        BY <1>1, <2>1 DEF BodyInv, Numbered
    <2>5. "reset" \in causes' => Len(frames') = 1 /\ frames'[1].type = "reset" /\ request'.over
        BY <1>1, <1>6, PolledFrame DEF BodyInv
    <2>6. \A i \in 1..Len(frames') : frames'[i].type = "reset" => "reset" \in causes'
        <3>1. \A i \in 1..Len(frames') : \/ frames'[i] = frames[i] /\ i \in 1..Len(frames)
                                         \/ frames'[i] = frames[i + 1] /\ i + 1 \in 1..Len(frames)
            <4>1. CASE frames' = frames
                BY <4>1
            <4>2. CASE frames' # frames
                <5>1. /\ Len(frames') = Len(frames) - 1
                      /\ \A i \in 1 .. Len(frames) - 1 : frames'[i] = frames[i + 1]
                    BY <1>1, <4>2, PolledFrame
                <5> QED
                    BY <1>4, <5>1
            <4> QED
                BY <4>1, <4>2
        <3> QED
            BY <1>6, <3>1 DEF BodyInv
    <2>7. body' # "Empty" /\ body' # "Trailers" /\ (body' = "Done" => frame'.type # "data")
        BY <1>6, <2>1
    <2> QED
        BY <1>1, <1>3, <1>5, <1>6, <2>1, <2>2, <2>3, <2>4, <2>5, <2>6, <2>7 DEF BodyInv
<1>7. CASE frames[1].type = "data"
    <2>1. PICK n \in Nat : n = Len(frames[1].bytes)
        BY <1>1, PolledFrame, BodyParts, FrameKinds, SMTT(20), Z3T(20)
    <2>2. "reset" \notin causes
        BY <1>1, <1>7 DEF BodyInv
    <2>3. PICK t \in 1 .. Len(frames) + 1 : LayoutAt(t)
        BY <1>3, <2>2 DEF InData, Layout
    <2>4. t \in 2 .. Len(frames) + 1 /\ 1 \in 1 .. t - 1
        BY <1>1, <1>4, <1>7, <2>3, PolledFrame, SMTT(20) DEF LayoutAt
    <2>5. Numbered(frames[1].bytes, Out) /\ n > 0
        BY <2>1, <2>3, <2>4 DEF LayoutAt, Start
    <2>6. Out + n <= request.early
        <3>1. Start(2) = Out + n
            <4>1. n \in 1 .. Len(frames[1].bytes)
                BY <2>1, <2>5
            <4>2. frames[1].bytes[n] = Out + n
                BY <2>5, <4>1 DEF Numbered
            <4> QED
                BY <2>1, <4>2 DEF Start
        <3> QED
            BY <2>3, <2>4, <3>1 DEF LayoutAt
    <2>7. remaining_data = IF Limited THEN request.length - Out ELSE NoLength
        BY <1>3 DEF InData
    <2>8. Polled = frames[1] /\ Polled.type = "data" /\ Polled # AtEnd /\ Polled # Error
        BY <1>1, <1>7, PolledFrame
    <2>9. Exceeds(n) <=> Limited /\ Out + n > request.length
        <3>1. Limited => Out <= request.length /\ request.length \in Nat
            BY <1>4 DEF BodyInv, Limited
        <3> QED
            BY <1>4, <2>7, <3>1, SMTT(20), Z3T(20) DEF Exceeds, NoLength
    <2>10. CASE Exceeds(n)
        <3>1. frame' = Error /\ body' = "Done" /\ causes' = causes
            BY <2>1, <2>8, <2>10 DEF PollData
        <3>2. Limited' /\ request'.sent > request'.length
            BY <1>1, <1>4, <1>5, <2>6, <2>9, <2>10, SMTT(20), Z3T(20) DEF BodyInv, Limited, NoLength
        <3> QED
            BY <1>6, <3>1, <3>2 DEF Excused
    <2>11. CASE ~Exceeds(n) /\ frame' = Error /\ causes' = causes \union {"refused"}
        <3>1. body' = "Data"
            BY <1>1, <2>1, <2>8, <2>11 DEF PollData
        <3> QED
            BY <1>6, <2>11, <3>1 DEF Excused
    <2>12. CASE ~Exceeds(n) /\ frame' = Polled /\ causes' = causes
        <3>1. /\ body' = "Data"
              /\ remaining_data' = IF remaining_data = NoLength THEN NoLength ELSE remaining_data - n
            BY <1>1, <2>1, <2>8, <2>12 DEF PollData
        <3>2. frame' = frames[1] /\ frames[1] \in Frames(T)
            BY <1>1, <1>4, <2>4, <2>8, <2>12, BodyParts
        <3>3. frame' \in Frames({"data", "idle", "none", "err", "trailers"})
            BY <1>7, <3>2, Zenon DEF Frames
        <3>4. BodyTypeOK'
            BY <1>1, <3>1, <3>3, PolledFrame DEF BodyTypeOK
        <3>5. Out' = Out + n
            BY Zenon, <1>1, <1>4, <2>1, <3>2 DEF Out
        <3>6. Numbered(frame'.bytes, Len(response'.bytes))
            BY <1>1, <1>4, <2>5, <3>2
        <3>7. frames' = Tail(frames) /\ trailers' = trailers
            BY <1>1, <1>7, PolledFrame DEF RecvData, BodyTypeOK
        <3>8. Layout'
            BY <1>1, <2>1, <2>3, <2>4, <2>12, <3>5, <3>7, LayoutTail, Zenon
        <3>9. InData'
            BY <1>1, <1>3, <1>4, <1>5, <1>7, <2>7, <2>9, <2>12, <3>1, <3>2, <3>5, <3>7, <3>8, SMTT(20), Z3T(20)
            DEF InData, NoLength, Limited
        <3>10. \A i \in 1..Len(frames') : frames'[i].type # "reset"
            BY <1>1, <1>4, <1>7, <2>2, PolledFrame, SMTT(20), Z3T(20) DEF BodyInv
        <3>11. Out' <= request'.early /\ (Limited' => Out' <= request'.length)
            BY <1>1, <1>4, <1>5, <2>6, <2>9, <2>12, <3>5, SMTT(20) DEF Limited, NoLength
        <3>12. frame'.type = "data" /\ Well'
            BY <1>1, <1>7, <3>2 DEF Well
        <3> QED
            BY <1>1, <1>3, <2>2, <2>12, <3>1, <3>4, <3>6, <3>9, <3>10, <3>11, <3>12 DEF BodyInv
    <2> QED
        BY <2>1, <2>8, <2>10, <2>11, <2>12 DEF PollData, Tracked
<1>8. CASE frames[1].type \in {"trailers", "fin"}
    <2>1. Polled = AtEnd /\ Polled.type # "data" /\ Polled # Error
        BY <1>1, <1>8, PolledFrame
    <2>2. body' = "Trailers" /\ UNCHANGED <<remaining_data, frame, causes>>
        BY <2>1 DEF PollData
    <2>3. BodyTypeOK'
        BY <1>1, <2>2, PolledFrame DEF BodyTypeOK
    <2>4. "reset" \notin causes
        BY <1>1, <1>8 DEF BodyInv
    <2>5. PICK t \in 1 .. Len(frames) + 1 : LayoutAt(t)
        BY <1>3, <2>4 DEF InData, Layout
    <2>6. t = 1
        <3>1. 1 \notin 1 .. t - 1
            BY <1>8, <2>5, SMTT(20) DEF LayoutAt
        <3> QED
            BY <1>4, <3>1
    <2>7. Out = request.early /\ Out' = Out
        BY ZenonT(30), <1>1, <2>2, <2>5, <2>6 DEF LayoutAt, Start, Out
    <2>8. CASE frames[1].type = "fin"
        <3>1. Len(frames) = 1 /\ ~request.late /\ request.over
            BY <1>1, <1>4, <2>5, <2>6, <2>8, PolledFrame DEF LayoutAt
        <3>2. frames' = frames /\ ~trailers'
            BY Zenon, <1>1, <1>3, <2>8, PolledFrame DEF InData
        <3>3. InTrailers'
            BY <1>1, <1>2, <2>2, <2>7, <2>8, <3>1, <3>2, Zenon DEF InTrailers
        <3> QED
            BY <1>1, <1>2, <1>3, <1>5, <2>2, <2>3, <2>4, <2>7, <3>2, <3>3, Zenon DEF BodyInv, Well
    <2>9. CASE frames[1].type = "trailers"
        <3>1. request.late /\ \A i \in 2 .. Len(frames) : IsLate(frames[i])
            BY <1>1, <1>4, <2>5, <2>6, <2>9, PolledFrame DEF LayoutAt
        <3>2. /\ trailers' /\ Len(frames') = Len(frames) - 1 /\ Len(frames) >= 1
              /\ \A i \in 1 .. Len(frames) - 1 : frames'[i] = frames[i + 1]
            BY Zenon, <1>1, <2>9, PolledFrame
        <3>3. \A i \in 1 .. Len(frames') : i + 1 \in 2 .. Len(frames) /\ frames'[i] = frames[i + 1]
            BY <1>4, <3>2, SMTT(20), Z3T(20)
        <3>4. InTrailers'
            <4>1. \A i \in 1 .. Len(frames') : IsLate(frames[i])'
                BY <2>2, <3>1, <3>3 DEF IsLate
            <4> QED
                BY <1>1, <1>2, <2>2, <2>7, <3>1, <3>2, <4>1 DEF InTrailers
        <3>5. \A i \in 1 .. Len(frames') : frames'[i].type # "reset"
            BY <1>4, <2>4, <3>3, SMTT(20), Z3T(20) DEF BodyInv
        <3> QED
            BY <1>1, <1>2, <1>3, <1>5, <2>2, <2>3, <2>4, <2>7, <3>4, <3>5, Zenon DEF BodyInv, Well
    <2> QED
        BY <1>8, <2>8, <2>9
<1>9. CASE frames[1].type = "reset"
    <2>1. Polled = Error /\ Polled.type # "data" /\ Polled # AtEnd
        BY <1>1, <1>9, PolledFrame
    <2>2. frame' = Error /\ body' = "Done" /\ causes' = causes
        BY <2>1 DEF PollData
    <2>3. "reset" \in causes
        BY <1>1, <1>4, <1>9, PolledFrame DEF BodyInv
    <2> QED
        BY <1>6, <2>2, <2>3 DEF Excused
<1> QED
    BY <1>1, <1>7, <1>8, <1>9, PolledFrame

\* poll_frame in State::Trailers.
LEMMA PollTrailersStep ==
    ASSUME BodyInv, PollTrailers PROVE BodyInv'
<1>1. /\ response.end = "open" /\ frame = Idle /\ body = "Trailers" /\ RecvData /\ BodyTypeOK
      /\ UNCHANGED <<request, remaining_data, response>> /\ body' = "Done"
    BY DEF PollTrailers, Polling, BodyInv
<1>2. frame.type = "idle" /\ Len(frame.bytes) = 0
    BY <1>1, BodyParts
<1>3. InTrailers /\ has_body(request.method)
    BY <1>1 DEF BodyInv
<1>4. /\ Out \in Nat /\ Len(frames) \in Nat /\ Len(response.bytes) \in Nat
      /\ Out = Len(response.bytes)
    BY <1>1, <1>2, BodyParts DEF Out
<1>5. Limited' = Limited
    BY <1>1, Zenon DEF Limited
<1>6. ASSUME frame' \in Frames({"none", "err", "trailers"}), "reset" \in causes' <=> "reset" \in causes,
             frame'.type = "err" => Excused', frame'.type # "err" => Ended(frame.type)'
      PROVE  BodyInv'
    <2>1. frame'.type \in {"none", "err", "trailers"} /\ frame'.bytes = <<>>
        BY <1>6, FrameKinds
    <2>2. frame' \in Frames({"data", "idle", "none", "err", "trailers"})
        BY <1>6 DEF Frames
    <2>3. BodyTypeOK'
        BY <1>1, <2>2, PolledFrame DEF BodyTypeOK
    <2>4. Out' = Out
        <3>1. Len(frame'.bytes) = 0 /\ Len(response'.bytes) = Len(response.bytes)
            BY <1>1, <2>1
        <3> QED
            BY Zenon, <1>4, <3>1, ZeroMore DEF Out
    <2>5. Numbered(frame'.bytes, Len(response'.bytes)) /\ Numbered(response'.bytes, 0)
        BY <1>1, <2>1 DEF BodyInv, Numbered
    <2>6. "reset" \in causes' => Len(frames') = 1 /\ frames'[1].type = "reset" /\ request'.over
        BY <1>1, <1>6, PolledFrame DEF BodyInv
    <2>7. \A i \in 1..Len(frames') : frames'[i].type = "reset" => "reset" \in causes'
        <3>1. \A i \in 1..Len(frames') : \/ frames'[i] = frames[i] /\ i \in 1..Len(frames)
                                         \/ frames'[i] = frames[i + 1] /\ i + 1 \in 1..Len(frames)
            <4>1. CASE frames' = frames
                BY <4>1
            <4>2. CASE frames' # frames
                <5>1. /\ Len(frames') = Len(frames) - 1
                      /\ \A i \in 1 .. Len(frames) - 1 : frames'[i] = frames[i + 1]
                    BY <1>1, <4>2, PolledFrame
                <5> QED
                    BY <1>4, <5>1
            <4> QED
                BY <4>1, <4>2
        <3> QED
            BY <1>6, <3>1, Zenon DEF BodyInv
    <2>8. ~Well' => Excused'
        BY <1>1, <1>6 DEF Well
    <2> QED
        BY <1>1, <1>3, <1>5, <1>6, <2>1, <2>3, <2>4, <2>5, <2>6, <2>7, <2>8 DEF BodyInv
<1>7. ASSUME frame'.bytes = <<>>, NEW e \in {"none", "trailers"},
             e = "trailers" => request.late,
             e = "none" => IF request.late THEN "pending" \in causes' ELSE request.over
      PROVE  Ended(e)'
    <2>1. Len(frame'.bytes) = 0 /\ Len(response'.bytes) = Len(response.bytes)
        BY <1>1, <1>7
    <2>2. Out' = request'.early
        BY Zenon, <1>1, <1>3, <1>4, <2>1, ZeroMore DEF Out, InTrailers
    <2> QED
        BY <1>1, <1>3, <1>7, <2>2 DEF Ended
<1>8. CASE Polled # AtEnd
    <2>1. frame' = Error /\ causes' = causes
        BY <1>8 DEF PollTrailers
    <2>2. Error \in Frames({"none", "err", "trailers"}) /\ Error.type = "err"
        BY DEF Error, Frames
    <2>3. frames[1].type \in {"data", "reset"} /\ Len(frames) >= 1
        BY <1>1, <1>8, PolledFrame
    <2>4. causes \ {"pending"} # {}
        BY <1>3, <1>4, <2>3 DEF BodyInv, InTrailers, IsLate
    <2> QED
        BY <1>6, <2>1, <2>2, <2>4 DEF Excused
<1>9. CASE Polled = AtEnd /\ trailers /\ frame' = Trailers /\ causes' = causes
    <2>1. Trailers \in Frames({"none", "err", "trailers"}) /\ Trailers.type = "trailers" /\ Trailers.bytes = <<>>
        BY DEF Trailers, Frames
    <2>2. request.late
        BY <1>3, <1>9 DEF InTrailers
    <2> QED
        BY <1>6, <1>7, <1>9, <2>1, <2>2
<1>10. CASE Polled = AtEnd /\ trailers /\ frame' = Error /\ causes' = causes \union {"bad_trailers"}
    <2>1. Error \in Frames({"none", "err", "trailers"}) /\ Error.type = "err"
        BY DEF Error, Frames
    <2> QED
        BY <1>6, <1>10, <2>1 DEF Excused
<1>11. CASE /\ Polled = AtEnd /\ frame' = AtEnd
            /\ \/ ~trailers /\ causes' = causes
               \/ causes' = causes \union {"pending"}
    <2>1. "reset" \in causes' <=> "reset" \in causes
        BY <1>11
    <2>2. AtEnd \in Frames({"none", "err", "trailers"}) /\ AtEnd.type = "none" /\ AtEnd.bytes = <<>>
        BY DEF AtEnd, Frames
    <2>3. IF request.late THEN "pending" \in causes' ELSE request.over
        BY <1>3, <1>11 DEF InTrailers
    <2> QED
        BY <1>6, <1>7, <1>11, <2>1, <2>2, <2>3
<1> QED
    BY <1>8, <1>9, <1>10, <1>11 DEF PollTrailers

\* poll_frame of a body without data: it is at its end.
LEMMA PollDoneStep ==
    ASSUME BodyInv, PollDone PROVE BodyInv'
<1>1. /\ response.end = "open" /\ frame = Idle /\ body \in {"Done", "Empty"} /\ BodyTypeOK /\ frame' = AtEnd
      /\ UNCHANGED <<request, frames, trailers, body, remaining_data, response, causes>>
    BY DEF PollDone, Polling, BodyInv
<1>2. frame.type = "idle" /\ Len(frame.bytes) = 0
    BY <1>1, BodyParts, Zenon
<1>3. body = "Empty" /\ ~has_body(request.method)
    BY <1>1, <1>2 DEF BodyInv
<1>4. AtEnd \in Frames({"data", "idle", "none", "err", "trailers"}) /\ AtEnd.type = "none" /\ AtEnd.bytes = <<>>
    BY DEF AtEnd, Frames
<1>5. BodyTypeOK'
    BY <1>1, <1>4 DEF BodyTypeOK
<1>6. /\ Out \in Nat /\ Len(response.bytes) \in Nat /\ Out = Len(response.bytes)
    BY <1>1, <1>2, BodyParts DEF Out
<1>7. Out' = Out
    <2>1. Len(frame'.bytes) = 0 /\ Len(response'.bytes) = Len(response.bytes)
        BY <1>1, <1>4
    <2> QED
        BY Zenon, <1>6, <2>1, ZeroMore DEF Out
<1>8. Numbered(frame'.bytes, Len(response'.bytes)) /\ Numbered(response'.bytes, 0)
    BY <1>1, <1>4 DEF BodyInv, Numbered
<1>9. Ended(frame.type)' /\ Well' /\ Limited' = Limited
    BY <1>1, <1>3, <1>4 DEF Ended, Well, Limited
<1> QED
    BY <1>1, <1>3, <1>4, <1>5, <1>7, <1>8, <1>9 DEF BodyInv

\* copy_body.
LEMMA CopyBodyStep ==
    ASSUME BodyInv, CopyBody PROVE BodyInv'
<1>1. /\ response.end = "open" /\ frame.type # "idle" /\ BodyTypeOK /\ frame' = Idle
      /\ UNCHANGED <<request, frames, trailers, body, remaining_data>>
    BY BodyParts DEF CopyBody, BodyInv
<1>2. Idle \in Frames({"data", "idle", "none", "err", "trailers"}) /\ Idle.type = "idle" /\ Idle.bytes = <<>>
    BY DEF Idle, Frames
<1>3. /\ Out \in Nat /\ Len(frames) \in Nat /\ Len(response.bytes) \in Nat
      /\ frame.bytes \in Seq(Nat) /\ response.bytes \in Seq(Nat)
      /\ frame.type \in {"data", "idle", "none", "err", "trailers"}
      /\ response \in [bytes : Seq(Nat), end : {"open", "none", "trailers", "err"}]
      /\ frame.type # "data" => Len(frame.bytes) = 0
    BY <1>1, BodyParts DEF BodyTypeOK
<1>4. Limited' = Limited
    BY <1>1 DEF Limited
<1>5. Numbered(frame'.bytes, Len(response'.bytes)) /\ Len(frame'.bytes) = 0 /\ frame'.type = "idle"
    BY <1>1, <1>2 DEF Numbered
<1>6. ASSUME frame.type = "data", response' = [response EXCEPT !.bytes = @ \o frame.bytes], causes' = causes
      PROVE  BodyInv'
    <2>1. /\ response.bytes \o frame.bytes \in Seq(Nat)
          /\ Len(response.bytes \o frame.bytes) = Out
          /\ Numbered(response.bytes \o frame.bytes, 0)
        <3>1. Numbered(response.bytes, 0) /\ Numbered(frame.bytes, 0 + Len(response.bytes))
            BY <1>3 DEF BodyInv
        <3>2. response.bytes \in Seq(Nat) /\ frame.bytes \in Seq(Nat) /\ 0 \in Nat
            BY <1>3
        <3> QED
            BY <3>1, <3>2, NumberedConcat, Zenon DEF Out
    <2>2. /\ response'.bytes = response.bytes \o frame.bytes /\ response'.end = "open"
          /\ response' \in [bytes : Seq(Nat), end : {"open", "none", "trailers", "err"}]
        <3>1. response' = [bytes |-> response.bytes \o frame.bytes, end |-> response.end]
            BY Zenon, <1>3, <1>6
        <3> QED
            BY Zenon, <1>1, <2>1, <3>1
    <2>3. Out' = Out
        <3>1. Len(response'.bytes) = Out /\ Len(frame'.bytes) = 0
            BY <1>5, <2>1, <2>2, Zenon
        <3> QED
            BY <1>3, <3>1, ZeroMore DEF Out
    <2>4. BodyTypeOK'
        BY <1>1, <1>2, <2>2 DEF BodyTypeOK
    <2>5. body = "Data" /\ Well
        BY <1>1, <1>6, <1>3 DEF BodyInv, InTrailers, Well, BodyTypeOK
    <2>6. InData'
        <3>1. \A t \in 1 .. Len(frames) + 1 : LayoutAt(t) => LayoutAt(t)'
            BY <1>1, <1>6, <2>3 DEF LayoutAt, Start, IsLate
        <3>2. InData
            BY <2>5 DEF BodyInv
        <3> QED
            BY <1>1, <1>4, <1>5, <1>6, <2>2, <2>3, <3>1, <3>2 DEF InData, Layout
    <2>7. Numbered(response'.bytes, 0)
        BY <2>1, <2>2
    <2> QED
        BY <1>1, <1>4, <1>5, <1>6, <2>2, <2>3, <2>4, <2>5, <2>6, <2>7 DEF BodyInv, Well
<1>7. ASSUME NEW e \in {"none", "trailers", "err"}, response' = [response EXCEPT !.end = e],
             causes \subseteq causes', "reset" \in causes' <=> "reset" \in causes,
             e = "err" => Excused',
             e # "err" => frame.type = e
      PROVE  BodyInv'
    <2>1. /\ response'.bytes = response.bytes /\ response'.end = e
          /\ response' \in [bytes : Seq(Nat), end : {"open", "none", "trailers", "err"}]
        BY <1>3, <1>7, SMTT(20)
    <2>2. BodyTypeOK'
        BY <1>1, <1>2, <2>1 DEF BodyTypeOK
    <2>3. Len(response'.bytes) = Len(response.bytes) /\ Len(frame'.bytes) = 0 /\ Len(frame.bytes) \in Nat
        BY <1>3, <1>5, <2>1
    <2>4. Out' = Len(response.bytes)
        BY <1>3, <2>3, ZeroMore DEF Out
    <2>5. Out' \in Nat /\ Out' <= Out
        BY <1>1, <1>3, <2>3, <2>4 DEF Out, BodyTypeOK, Frames
    <2>6. frame.type # "data" => Out' = Out
        BY ZenonT(30), <1>3, <2>4, ZeroMore DEF Out
    <2>7. Out' <= request'.early /\ (Limited' => Out' <= request'.length)
        BY <1>1, <1>3, <1>4, <2>5, BodyParts, SMTT(20), Z3T(20) DEF BodyInv, Limited, NoLength
    <2>8. ASSUME e # "err" PROVE Ended(e)'
        BY <1>1, <1>7, <2>6, <2>8 DEF BodyInv, Ended
    <2>9. body # "Trailers"
        BY <1>1 DEF BodyInv, InTrailers
    <2>10. body = "Data" => e = "err"
        BY <1>1, <1>3, <1>7 DEF BodyInv, InData, Well
    <2>11. Numbered(response'.bytes, 0)
        BY <2>1 DEF BodyInv
    <2>12. ~has_body(request'.method) => Out' = 0
        BY <1>1, <2>5, <1>3 DEF BodyInv
    <2>13. ~Well' => Excused'
        BY <1>5, <1>7, <2>1 DEF Well
    <2> QED
        BY <1>1, <1>5, <1>7, <2>1, <2>2, <2>7, <2>8, <2>9, <2>10, <2>11, <2>12, <2>13 DEF BodyInv, Well
<1>8. CASE frame.type # "data" /\ response' = [response EXCEPT !.end = frame.type] /\ causes' = causes
    <2>1. frame.type = "err" => Excused
        BY DEF BodyInv, Well
    <2>2. Excused => Excused'
        BY <1>1, <1>4, <1>8 DEF Excused
    <2>3. PICK e : e = frame.type
        OBVIOUS
    <2> QED
        BY <1>1, <1>3, <1>7, <1>8, <2>1, <2>2, <2>3
<1>9. CASE response' = [response EXCEPT !.end = "err"] /\ causes' = causes \union {"send"}
    BY <1>7, <1>9 DEF Excused
<1> QED
    BY Zenon, <1>6, <1>8, <1>9 DEF CopyBody

\* Every step of the client, of poll_frame and of copy_body keeps the invariant.
LEMMA BodyStep == BodyInv /\ [BodyNext]_bodyVars => BodyInv'
<1> SUFFICES ASSUME BodyInv, [BodyNext]_bodyVars PROVE BodyInv'
    BY ZenonT(40)
<1>1. CASE UNCHANGED bodyVars
    <2>1. /\ request' = request /\ frames' = frames /\ trailers' = trailers /\ body' = body
          /\ remaining_data' = remaining_data /\ frame' = frame /\ response' = response
          /\ causes' = causes
        BY <1>1 DEF bodyVars
    <2>2. Out' = Out /\ Limited' = Limited /\ Well' = Well /\ Excused' = Excused
        BY <2>1, Zenon DEF Out, Limited, Well, Excused
    <2>3. Layout' = Layout
        <3>1. ASSUME NEW i PROVE Start(i)' = Start(i)
            BY <2>1, <2>2, ZenonT(30) DEF Start
        <3>2. ASSUME NEW t PROVE LayoutAt(t)' = LayoutAt(t)
            <4>1. ASSUME NEW f PROVE IsLate(f)' = IsLate(f)
                BY <2>1, Zenon DEF IsLate
            <4> QED
                BY <2>1, <3>1, <4>1, ZenonT(60) DEF LayoutAt
        <3> QED
            BY <2>1, <3>2, Zenon DEF Layout
    <2>4. InData' = InData /\ InTrailers' = InTrailers
        BY <2>1, <2>2, <2>3, Zenon DEF InData, InTrailers, IsLate
    <2>5. BodyTypeOK' = BodyTypeOK
        BY <2>1, Zenon DEF BodyTypeOK
    <2>6. Ended(frame.type)' = Ended(frame.type) /\ Ended(response.end)' = Ended(response.end)
        BY <2>1, <2>2, Zenon DEF Ended
    <2>7. (/\ Numbered(response.bytes, 0) /\ Numbered(frame.bytes, Len(response.bytes))
           /\ request.early <= request.sent /\ (~request.late => request.early = request.sent)
           /\ Out <= request.early /\ (Limited => Out <= request.length))'
        BY <2>1, <2>2, ZenonT(30) DEF BodyInv, Numbered
    <2>8. (/\ has_body(request.method) <=> body # "Empty"
           /\ ~has_body(request.method) => Out = 0 /\ frame.type \in {"idle", "none"}
           /\ "reset" \in causes => Len(frames) = 1 /\ frames[1].type = "reset" /\ request.over
           /\ \A i \in 1..Len(frames) : frames[i].type = "reset" => "reset" \in causes)'
        BY <2>1, <2>2, ZenonT(30) DEF BodyInv
    <2>9. (/\ body = "Data" /\ Well => InData
           /\ body = "Trailers" => InTrailers
           /\ body = "Done" => frame.type # "data" /\ (frame.type = "idle" <=> response.end # "open")
           /\ ~Well => Excused
           /\ frame.type \in {"none", "trailers"} => Ended(frame.type)
           /\ response.end \in {"none", "trailers"} => Ended(response.end)
           /\ response.end # "open" => frame.type = "idle")'
        BY <2>1, <2>2, <2>4, <2>6, ZenonT(30) DEF BodyInv
    <2> QED
        BY <2>5, <2>7, <2>8, <2>9 DEF BodyInv
<1> QED
    BY <1>1, ClientStep, PollDataStep, PollTrailersStep, PollDoneStep, CopyBodyStep DEF BodyNext

\* A response that copies the body of its request is that body, for every method,
\* Content-Length, size of a frame and length of a request.
THEOREM BodyCorrect == BodySpec => []BodyIsFaithful
BY BodyInitInv, BodyStep, BodyInvSays, PTL DEF BodySpec
=============================================================================
