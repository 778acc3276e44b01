----------------------------- MODULE BitReader -----------------------------
(***************************************************************************)
(* BitReader<Cursor<..>> of crates/bytes-util (bit_read.rs): it holds the  *)
(* byte it is in the middle of, which the underlying cursor has already    *)
(* passed.  It implements BitCursor.                                       *)
(*                                                                         *)
(* Bytes are numbered from 1, and `current_byte` is the number of the byte *)
(* that is held: 0 is the zero byte it starts with.                        *)
(***************************************************************************)
EXTENDS Integers

CONSTANTS
  ByteCount,      \* the number of bytes; the code's position wraps when there is none
  Counts,      \* the distances of seeks
  Far          \* bound: how many bytes from the start a seek reaches

ASSUME BytesAssumption == ByteCount \in Nat \ {0} /\ Counts \subseteq Int /\ Far \in Nat

VARIABLES
  data,            \* the position of the underlying cursor, in bytes
  bit_pos, current_byte,
  told             \* what the last call returned
readerVars == <<data, bit_pos, current_byte, told>>

IsAligned == bit_pos = 0

BitStreamPosition == data * 8 + (IF IsAligned THEN 8 ELSE bit_pos) - 8

\* The byte that is held is not the one the cursor has just passed.
Stale == ~IsAligned /\ current_byte # data

Cursor == INSTANCE BitCursor
            WITH pos <- BitStreamPosition, lost <- Stale, out <- told

ReaderInit == data = 0 /\ bit_pos = 0 /\ current_byte = 0 /\ told = <<"at", 0>>

\* read_exact of one byte from position `from`: at the end it fails, and leaves
\* the cursor there.
UpdateByte(from) ==
  IF from < ByteCount THEN data' = from + 1 /\ current_byte' = from + 1
  ELSE data' = ByteCount /\ UNCHANGED current_byte

ReadBit ==
  \/ /\ IsAligned
     /\ UpdateByte(data)
     /\ \/ /\ data < ByteCount
           /\ told' = <<"bit", data * 8>> /\ bit_pos' = 1
        \/ /\ data >= ByteCount
           /\ told' = <<"failed", 0>> /\ UNCHANGED bit_pos
  \/ /\ ~IsAligned
     /\ told' = <<"bit", (current_byte - 1) * 8 + bit_pos>>
     /\ bit_pos' = (bit_pos + 1) % 8
     /\ UNCHANGED <<data, current_byte>>

ReaderAlign == bit_pos' = 0 /\ UNCHANGED <<data, current_byte, told>>

\* Rust's / and % by 8 round towards zero.
Quotient(n) == IF n >= 0 THEN n \div 8 ELSE -((-n) \div 8)
Remainder(n) == n - 8 * Quotient(n)

\* Mutant: a seek backwards forgets that it will move forward a byte.
ByteMoveForward(count) ==
  Quotient(bit_pos + count) - (IF IsAligned THEN 0 ELSE 1)

ByteMove(count) ==
  Quotient(bit_pos + count) - (IF IsAligned THEN 0 ELSE 1)
                            - (IF Remainder(bit_pos + count) < 0 THEN 1 ELSE 0)
BitMove(count) == (8 + Remainder(bit_pos + count)) % 8

\* seek_bits, for a count that is not 0: the bit position is set before the
\* byte it is in is read.  The answer is in units of `unit` bits.
Moved(count, unit) ==
  LET at == data + ByteMove(count)
  IN  /\ at <= Far
      /\ IF at < 0 THEN told' = <<"failed", 0>> /\ UNCHANGED <<data, bit_pos, current_byte>>
         ELSE /\ bit_pos' = BitMove(count)
              /\ IF BitMove(count) = 0 THEN data' = at /\ UNCHANGED current_byte
                 ELSE UpdateByte(at)
              /\ told' = IF BitMove(count) # 0 /\ at >= ByteCount THEN <<"failed", 0>>
                         ELSE <<"at", (at * 8 + BitMove(count) + unit - 1) \div unit>>

Told(n) == told' = <<"at", n>> /\ UNCHANGED <<data, bit_pos, current_byte>>

ReaderSeekBits(count) == IF count = 0 THEN Told(BitStreamPosition) ELSE Moved(count, 1)

\* The underlying cursor is moved, and the bits of the byte are forgotten.
SeekAligned(byte) ==
  /\ byte <= Far
  /\ bit_pos' = 0 /\ UNCHANGED current_byte
  /\ IF byte < 0 THEN told' = <<"failed", 0>> /\ UNCHANGED data
     ELSE data' = byte /\ told' = <<"at", byte>>

\* io::Seek::seek.
SeekCurrent(count) ==
  IF IsAligned THEN SeekAligned(data + count)
  ELSE IF count = 0 THEN Told((BitStreamPosition + 7) \div 8)
  ELSE Moved(8 * count, 8)
SeekStart(count) == count >= 0 /\ SeekAligned(count)
SeekEnd(count) == SeekAligned(ByteCount + count)

ReaderNext ==
  \/ ReadBit \/ ReaderAlign
  \/ \E count \in Counts : \/ ReaderSeekBits(count) \/ SeekCurrent(count)
                           \/ SeekStart(count) \/ SeekEnd(count)

ReaderSpec == ReaderInit /\ [][ReaderNext]_readerVars

---------------------------------------------------------------------------

\* A BitReader reads the bits of its data one after the other, from where it
\* was sent: the partly read byte it holds never shows, whatever sequence of
\* reads, alignments and seeks, forward and backward, over byte boundaries
\* and over the end (bit_read.rs read_bit, align, seek_bits, seek), but for
\* the failed seek described in BitCursor.
ReaderIsCursor == Cursor!CursorSpec
=============================================================================
