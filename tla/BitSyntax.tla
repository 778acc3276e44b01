----------------------------- MODULE BitSyntax -----------------------------
(***************************************************************************)
(* Headers that are read bit by bit (crates/h264, h265, av1, aac, with the *)
(* BitReader and BitWriter of bytes-util and the codes of expgolomb and of *)
(* av1/src/obu/utils.rs), and the values of AMF0 (crates/amf0).            *)
(*                                                                         *)
(* A format is a list of steps.  One list writes the header, as the code   *)
(* or a standard has it, another one, the code's, reads it.  What is       *)
(* written are units [code, w, v]: a number of w bits, or a number in a    *)
(* variable-length code; a read that does not ask for the unit that was    *)
(* written has lost its place, and is torn.  Every name stands for the     *)
(* sequence of the values it was given, the last of which counts.  The     *)
(* name "" is dropped.                                                     *)
(***************************************************************************)
EXTENDS Integers, Sequences, SequencesExt, TLC

CONSTANTS
  Inputs,      \* the headers to write: [format, values, tail]
  Formats      \* by name, [write, read, escaped]

VARIABLES
  header,      \* the member of Inputs
  phase,       \* write, read, and then done, short, refused, panicked,
               \* torn or too_large
  todo,        \* the steps to take
  units,       \* what was written and not yet read
  bits,        \* the number of bits written, or that can still be read
  env,         \* the values of the names
  written      \* the values after the writing
headerVars == <<header, phase, todo, units, bits, env, written>>

---------------------------------------------------------------------------
(* Steps *)

U(n, w) == [op |-> "u", n |-> n, w |-> w]                      \* read_bits(w), read_u8, ...
V(n, of, w) == [op |-> "v", n |-> n, of |-> of, w |-> w]       \* as many bits as `of` says, and w
Bytes(n, of) == [op |-> "bytes", n |-> n, of |-> of]           \* as many bytes as `of` says
Slice(n, of) == [op |-> "slice", n |-> n, of |-> of]           \* the same, but panics at the end
Wrapped(n, w) == [op |-> "wrapped", n |-> n, w |-> w]          \* written as cast to w bits
Bool(n) == [op |-> "boolean", n |-> n, w |-> 8]                \* read_u8() > 0
Remaining(n) == [op |-> "rest", n |-> n]                       \* all the bytes that are left
Coded(code, n) == [op |-> code, n |-> n]
Ue(n) == Coded("ue", n)
Se(n) == Coded("se", n)
Leb128(n) == Coded("leb128", n)
Uvlc(n) == Coded("uvlc", n)
Scaling(size) == [op |-> "scaling", left |-> size, next |-> 8] \* a scaling list
Lit(w, v) == [op |-> "lit", w |-> w, v |-> v]                  \* a constant is written
Skip(w) == [op |-> "skip", w |-> w]                            \* seek_bits(w)
Let(n) == [op |-> "let", n |-> n]                              \* known to the writer
Expect(w, in) == [op |-> "expect", w |-> w, in |-> in]         \* read, or an error
Must(n, in) == [op |-> "must", n |-> n, in |-> in]
Never(n, in) == [op |-> "never", n |-> n, in |-> in]
More(n) == [op |-> "more", n |-> n]                            \* whether bytes are left
EndMark(n) == [op |-> "end", n |-> n]                          \* 0 at an end mark, which is taken
Match(n, arms) == [op |-> "match", n |-> n, arms |-> arms]     \* the arm of a value, or an error
Call(n) == [op |-> "call", n |-> n]                            \* another format
Set(n, v) == [op |-> "set", n |-> n, v |-> v]
Sum(n, of) == [op |-> "sum", n |-> n, of |-> of]
Bump(n) == [op |-> "bump", n |-> n]
If(n, in, steps) == [op |-> "if", n |-> n, in |-> in, steps |-> steps]
IfAt(n, index, in, steps) == [op |-> "if_at", n |-> n, of |-> index, in |-> in, steps |-> steps]
Times(n, more, steps) == [op |-> "times", n |-> n, w |-> more, steps |-> steps]
Again(left, steps) == [op |-> "again", left |-> left, steps |-> steps]

Flag(n, steps) == <<U(n, 1), If(n, {1}, steps)>>

Put(n, v) == IF n = "" THEN env
             ELSE IF n \in DOMAIN env THEN [env EXCEPT ![n] = Append(@, v)]
             ELSE (n :> <<v>>) @@ env
Value(n) == Last(env[n])

---------------------------------------------------------------------------
(* Codes *)

Log2(n) == CHOOSE k \in 0 .. 30 : 2 ^ k <= n /\ n < 2 ^ (k + 1)

\* write_exp_golomb: as many zeros as there are bits after the first one of
\* n + 1.  A signed number is the code of 0, 1, -1, 2, -2 and so on.
ExpGolomb(n) == 2 * Log2(n + 1) + 1
Signed(n) == IF n <= 0 THEN -n * 2 ELSE n * 2 - 1
Unsigned(code) == IF code % 2 = 0 THEN -(code \div 2) ELSE code \div 2 + 1

BitWidth(step, code) ==
  CASE step.op \in {"u", "wrapped", "boolean"} -> step.w
    [] step.op = "v" -> Value(step.of) + step.w
    [] step.op \in {"bytes", "slice"} -> 8 * Value(step.of)
    [] step.op = "leb128" -> 8 * (IF code = 0 THEN 1 ELSE Log2(code) \div 7 + 1)
    [] OTHER -> ExpGolomb(code)

Encoded(step, v) ==
  CASE step.op \in {"se", "scaling"} -> Signed(v)
    [] step.op = "wrapped" -> v % 2 ^ step.w
    [] OTHER -> v
Decoded(step, code) ==
  CASE step.op \in {"se", "scaling"} -> Unsigned(code)
    [] step.op = "boolean" -> IF code > 0 THEN 1 ELSE 0
    [] OTHER -> code

Plainly == {"u", "v", "bytes", "slice", "wrapped", "boolean"}
Code(step) ==
  CASE step.op \in Plainly -> "bits"
    [] step.op \in {"se", "scaling"} -> "se"
    [] step.op = "uvlc" -> "ue"
    [] OTHER -> step.op

FieldOps == Plainly \cup {"ue", "se", "leb128", "uvlc", "scaling"}
Name(step) == IF step.op = "scaling" THEN "" ELSE step.n

\* A scaling list goes on until the scale is 0.
NextScale(step, v) == (step.next + v + 256) % 256
After(step, v) ==
  IF step.op = "scaling" /\ step.left > 1 /\ NextScale(step, v) # 0
  THEN <<[step EXCEPT !.left = @ - 1, !.next = NextScale(step, v)]>> \o Tail(todo)
  ELSE Tail(todo)

---------------------------------------------------------------------------
(* Writing *)

HeaderInit ==
  /\ header \in Inputs
  /\ phase = "write" /\ todo = Formats[header.format].write
  /\ units = <<>> /\ bits = 0 /\ env = <<>> /\ written = <<>>

\* The next value of a name: 0 when none is given.
Given(n) ==
  LET k == (IF n \in DOMAIN env THEN Len(env[n]) ELSE 0) + 1
  IN  IF n \in DOMAIN header.values /\ k <= Len(header.values[n]) THEN header.values[n][k] ELSE 0

Emit(code, w, v) ==
  /\ units' = Append(units, [code |-> code, w |-> w, v |-> v])
  /\ bits' = bits + w

\* write_bits refuses a number that has more bits.
WriteField(step) ==
  /\ step.op \in FieldOps
  /\ LET v == Given(Name(step))
         w == BitWidth(step, Encoded(step, v))
     IN  IF step.op \in {"u", "v"} /\ w < 31 /\ v >= 2 ^ w
         THEN phase' = "too_large" /\ UNCHANGED <<todo, units, bits, env>>
         ELSE /\ Emit(Code(step), w, Encoded(step, v)) /\ env' = Put(Name(step), v)
              /\ todo' = After(step, v) /\ UNCHANGED phase

WriteRest(step) ==
  /\ step.op = "rest"
  /\ Emit("rest", 8 * Given(step.n), Given(step.n)) /\ env' = Put(step.n, Given(step.n))
  /\ todo' = Tail(todo) /\ UNCHANGED phase

WriteLit(step) ==
  /\ step.op = "lit"
  /\ Emit("bits", step.w, step.v)
  /\ todo' = Tail(todo) /\ UNCHANGED <<phase, env>>

WriteLet(step) ==
  /\ step.op = "let"
  /\ env' = Put(step.n, Given(step.n))
  /\ todo' = Tail(todo) /\ UNCHANGED <<phase, units, bits>>

---------------------------------------------------------------------------
(* Reading *)

Stop(why) == phase' = why /\ UNCHANGED <<todo, units, bits, env>>

\* Bits that are not there, and units other than the expected one.
Consume(w, code) ==
  IF bits < w THEN "short" ELSE IF Head(units).code # code THEN "torn" ELSE "read"

ReadField(step) ==
  /\ step.op \in FieldOps
  /\ IF units = <<>> THEN Stop("short")
     ELSE LET unit == Head(units)
              fits == Consume(unit.w, Code(step))
          IN  IF fits = "short" /\ step.op = "slice" THEN Stop("panicked")
              ELSE IF fits # "read" THEN Stop(fits)
              ELSE IF unit.w # BitWidth(step, unit.v) THEN Stop("torn")
              ELSE /\ units' = Tail(units) /\ bits' = bits - unit.w
                   /\ env' = Put(Name(step), Decoded(step, unit.v))
                   /\ todo' = After(step, Decoded(step, unit.v)) /\ UNCHANGED phase

ReadRest(step) ==
  /\ step.op = "rest"
  /\ IF units # <<>> /\ Head(units).code = "rest"
     THEN units' = Tail(units) /\ bits' = bits - Head(units).w /\ env' = Put(step.n, Head(units).v)
     ELSE env' = Put(step.n, 0) /\ UNCHANGED <<units, bits>>
  /\ todo' = Tail(todo) /\ UNCHANGED phase

\* One unit at a time.
ReadSkip(step) ==
  /\ step.op = "skip"
  /\ IF step.w = 0 THEN todo' = Tail(todo) /\ UNCHANGED <<phase, units, bits, env>>
     ELSE IF units = <<>> \/ bits < step.w THEN Stop("short")
     ELSE IF Head(units).w > step.w THEN Stop("torn")
     ELSE /\ units' = Tail(units) /\ bits' = bits - Head(units).w
          /\ todo' = <<Skip(step.w - Head(units).w)>> \o Tail(todo)
          /\ UNCHANGED <<phase, env>>

ReadExpect(step) ==
  /\ step.op = "expect"
  /\ IF units = <<>> \/ bits < step.w THEN Stop("short")
     ELSE IF Head(units).w # step.w THEN Stop("torn")
     ELSE IF Head(units).v \notin step.in THEN Stop("refused")
     ELSE /\ units' = Tail(units) /\ bits' = bits - step.w
          /\ todo' = Tail(todo) /\ UNCHANGED <<phase, env>>

ReadMore(step) ==
  /\ step.op = "more"
  /\ env' = Put(step.n, IF bits > 0 THEN 1 ELSE 0)
  /\ todo' = Tail(todo) /\ UNCHANGED <<phase, units, bits>>

\* The next three bytes, [w, v, n]: the n units that they are have w = 24 bits
\* and the value v.  Whoever wrote them, 00 00 09 is an end mark.
NextU24 ==
  FoldLeft(LAMBDA so, unit :
             IF so.w >= 24 THEN so
             ELSE IF so.w + unit.w > 24 THEN [so EXCEPT !.w = 25]
             ELSE [w |-> so.w + unit.w, v |-> so.v * 2 ^ unit.w + (unit.v % 2 ^ unit.w), n |-> so.n + 1],
           [w |-> 0, v |-> 0, n |-> 0], SubSeq(units, 1, IF Len(units) < 3 THEN Len(units) ELSE 3))

ReadEndMark(step) ==
  /\ step.op = "end"
  /\ IF bits >= 24 /\ NextU24.w = 24 /\ NextU24.v = 9
     THEN /\ units' = SubSeq(units, NextU24.n + 1, Len(units)) /\ bits' = bits - 24
          /\ env' = Put(step.n, 0)
     ELSE env' = Put(step.n, 1) /\ UNCHANGED <<units, bits>>
  /\ todo' = Tail(todo) /\ UNCHANGED phase

---------------------------------------------------------------------------
(* Control *)

Unless(ok, why) == phase' = IF ok THEN phase ELSE why

Branch(step) ==
  \/ /\ step.op = "if"
     /\ todo' = (IF Value(step.n) \in step.in THEN step.steps ELSE <<>>) \o Tail(todo)
  \/ /\ step.op = "if_at"
     /\ todo' = (IF env[step.n][Len(env[step.of])] \in step.in THEN step.steps ELSE <<>>)
                \o Tail(todo)
  \/ /\ step.op = "times"
     /\ todo' = <<Again((IF step.n = "" THEN 0 ELSE Value(step.n)) + step.w, step.steps)>>
                \o Tail(todo)
  \/ /\ step.op = "again"
     /\ todo' = IF step.left <= 0 THEN Tail(todo)
                ELSE step.steps \o <<Again(step.left - 1, step.steps)>> \o Tail(todo)

Jump(step) ==
  \/ /\ step.op = "match"
     /\ IF Value(step.n) \in DOMAIN step.arms
        THEN todo' = step.arms[Value(step.n)] \o Tail(todo) /\ UNCHANGED <<phase, units, bits, env>>
        ELSE Stop("refused")
  \/ /\ step.op = "call"
     /\ todo' = (IF phase = "write" THEN Formats[step.n].write ELSE Formats[step.n].read) \o Tail(todo)
     /\ UNCHANGED <<phase, units, bits, env>>

Control(step) ==
  \/ Jump(step)
  \/ Branch(step) /\ UNCHANGED <<phase, units, bits, env>>
  \/ /\ \/ step.op = "must" /\ Unless(Value(step.n) \in step.in, "refused")
        \/ step.op = "never" /\ Unless(Value(step.n) \notin step.in, "refused")
     /\ todo' = Tail(todo) /\ UNCHANGED <<units, bits, env>>
  \/ /\ \/ step.op = "set" /\ env' = Put(step.n, step.v)
        \/ step.op = "sum" /\ env' = Put(step.n, Value(step.of[1]) + Value(step.of[2]))
        \/ step.op = "bump" /\ env' = [env EXCEPT ![step.n][Len(env[step.n])] = @ + 1]
     /\ todo' = Tail(todo) /\ UNCHANGED <<phase, units, bits>>

---------------------------------------------------------------------------

\* A standard's writer puts a 3 before a byte up to 3 that follows two zeros.
Escape(payload) ==
  FoldLeft(LAMBDA so, byte :
             IF so.zeros = 2 /\ byte <= 3
             THEN [out |-> so.out \o <<3, byte>>, zeros |-> IF byte = 0 THEN 1 ELSE 0]
             ELSE [out |-> Append(so.out, byte), zeros |-> IF byte = 0 THEN so.zeros + 1 ELSE 0],
           [out |-> <<>>, zeros |-> 0], payload).out

\* The mutant of Unescape that leaves the 3 where it is.
UnescapeKeeping(data) ==
  LET from[i \in 1 .. Len(data) + 1] == IF i > Len(data) - 3 THEN <<>> ELSE <<data[i]>> \o from[i + 1]
  IN  from[1]

\* The code's loop takes it out again; it ends before the last three bytes.
Unescape(data) ==
  LET from[i \in 1 .. Len(data) + 1] ==
        IF i > Len(data) - 3 THEN <<>>
        ELSE IF data[i] = 0 /\ data[i + 1] = 0 /\ data[i + 2] = 3 THEN <<0, 0>> \o from[i + 3]
        ELSE <<data[i]>> \o from[i + 1]
  IN  from[1]

\* How many bytes are missing at the end of a payload, which is not a 0; -1 if
\* what is left is not the payload's.
Cut(payload) ==
  LET kept == Unescape(Escape(payload))
  IN  IF IsPrefix(kept, payload) THEN Len(payload) - Len(kept) ELSE -1
Payloads == {payload \in [1 .. 6 -> {0, 1, 3}] : payload[6] # 0}
Cuts == {Cut(payload) : payload \in Payloads}

\* The bytes that the reader gets.
Readable(cut) == 8 * ((bits + 7) \div 8 + header.tail - cut)

StartReading ==
  /\ phase = "write" /\ todo = <<>>
  /\ todo' = Formats[header.format].read
  /\ written' = env /\ env' = <<>>
  /\ \E cut \in IF Formats[header.format].escaped THEN Cuts ELSE {0} :
        phase' = (IF cut < 0 THEN "torn" ELSE "read") /\ bits' = Readable(cut)
  /\ UNCHANGED <<header, units>>

Finish ==
  /\ phase = "read" /\ todo = <<>>
  /\ phase' = "done"
  /\ UNCHANGED <<header, todo, units, bits, env, written>>

WriteStep ==
  /\ phase = "write" /\ todo # <<>>
  /\ \/ WriteField(Head(todo)) \/ WriteRest(Head(todo))
     \/ WriteLit(Head(todo)) \/ WriteLet(Head(todo)) \/ Control(Head(todo))
  /\ UNCHANGED <<header, written>>

ReadStep ==
  /\ phase = "read" /\ todo # <<>>
  /\ \/ ReadField(Head(todo)) \/ ReadRest(Head(todo)) \/ ReadSkip(Head(todo))
     \/ ReadExpect(Head(todo)) \/ ReadMore(Head(todo)) \/ ReadEndMark(Head(todo))
     \/ Control(Head(todo))
  /\ UNCHANGED <<header, written>>

HeaderNext == StartReading \/ Finish \/ WriteStep \/ ReadStep
============================================================================
