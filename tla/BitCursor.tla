----------------------------- MODULE BitCursor -----------------------------
(***************************************************************************)
(* What a reader of single bits promises: a position in the bits of some   *)
(* data, which a read moves by one and a seek by any number.  A bit is     *)
(* named by where it is in the data, so that a read shows which bit it     *)
(* returned.                                                               *)
(*                                                                         *)
(* The promise has a hole, which BitReader really has: a seek that fails   *)
(* because it would stop inside a byte after the end moves all the same,   *)
(* and the reader may be lost: it returns any bits until the next byte.    *)
(***************************************************************************)
EXTENDS Integers

CONSTANTS
  ByteCount,      \* the number of bytes
  Counts       \* the distances of seeks

VARIABLES
  pos,         \* the next bit
  lost,        \* a seek has failed in the middle of a byte
  out          \* what the last call returned
cursorVars == <<pos, lost, out>>

Bit(n) == <<"bit", n>>
At(n) == <<"at", n>>
Failed == <<"failed", 0>>

End == ByteCount * 8
DivCeil(n) == (n + 7) \div 8

CursorInit == pos = 0 /\ lost = FALSE /\ out = At(0)

Read ==
  /\ ~lost /\ pos < End
  /\ pos' = pos + 1 /\ out' = Bit(pos)
  /\ UNCHANGED lost

ReadAtEnd ==
  /\ ~lost /\ pos >= End
  /\ pos' = End /\ out' = Failed
  /\ UNCHANGED lost

ReadLost ==
  /\ lost
  /\ pos' = pos + 1 /\ lost' = (pos' % 8 # 0)
  /\ \E n \in -8 .. End : out' = Bit(n)

\* The rest of a byte is skipped.
Align == pos' = DivCeil(pos) * 8 /\ lost' = FALSE /\ UNCHANGED out

\* A seek tells where it has arrived, in bits or in bytes.
Arrive(n, told) == n >= 0 /\ pos' = n /\ lost' = FALSE /\ out' = At(told)
Outside(n) == n < 0 /\ out' = Failed /\ UNCHANGED <<pos, lost>>
Astray(n) ==
  /\ n > End /\ n % 8 # 0
  /\ pos' = End - 8 + (n % 8) /\ lost' \in BOOLEAN /\ out' = Failed

Lands(n) == n % 8 = 0 \/ n < End
SeekTo(n, told) == (Lands(n) /\ Arrive(n, told)) \/ Outside(n) \/ Astray(n)

Stay == out' = At(pos) /\ UNCHANGED <<pos, lost>>
SeekBits(count) == IF count = 0 THEN Stay ELSE SeekTo(pos + count, pos + count)
StayBytes == out' = At(DivCeil(pos)) /\ UNCHANGED <<pos, lost>>
SeekBytes(count) ==
  IF count = 0 THEN StayBytes ELSE SeekTo(pos + 8 * count, DivCeil(pos + 8 * count))
\* From the start or the end, to the beginning of a byte.  When there is no
\* such byte the rest of the current one is skipped.
NoByte(n) == n < 0 /\ pos' = DivCeil(pos) * 8 /\ lost' = FALSE /\ out' = Failed
SeekByte(n) == Arrive(n * 8, n) \/ NoByte(n)

CursorNext ==
  \/ Read \/ ReadAtEnd \/ ReadLost \/ Align
  \/ \E count \in Counts : \/ SeekBits(count) \/ SeekBytes(count)
                           \/ SeekByte(count) \/ SeekByte(ByteCount + count)

CursorSpec == CursorInit /\ [][CursorNext]_cursorVars
=============================================================================
