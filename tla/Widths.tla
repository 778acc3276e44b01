------------------------------ MODULE Widths ------------------------------
(***************************************************************************)
(* The integers of the media crates that have a width.  U32Max stands for  *)
(* the last value of a 32-bit time (2^32 - 1 in the code): a small one     *)
(* lets TLC reach it.                                                      *)
(***************************************************************************)
EXTENDS Integers

CONSTANT U32Max

ASSUME U32Assumption == U32Max \in Nat

I32Max == U32Max \div 2

\* Rust's `as` from a float: the nearest value of the range.
Saturate(x, low, high) == IF x < low THEN low ELSE IF x > high THEN high ELSE x

\* Rust's `as` from a wider integer to u32, and to i32.
Wrap32(x) == x % (U32Max + 1)
WrapI32(x) == Wrap32(x + I32Max + 1) - I32Max - 1

\* The unsigned reading of a 24-bit field, and the signed one.
U24(x) == x % 16777216
I24(x) == IF U24(x) < 8388608 THEN U24(x) ELSE U24(x) - 16777216
===========================================================================
