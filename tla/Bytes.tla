-------------------------------- MODULE Bytes --------------------------------
(***************************************************************************)
(* Bytes, the integers of C++ that the program squeezes into them, and     *)
(* their big-endian form (big_endian.h).  A string is a sequence of bytes. *)
(***************************************************************************)
EXTENDS Integers, Sequences

Byte == 0 .. 255

(* Conversion of an int to int8_t, or to a signed char: keep eight bits. *)
Int8(n) == ((n + 128) % 256) - 128

(* to_big_endian for a type of n bytes: the loop shifts the value by one   *)
(* byte at a time and takes the low byte of what is left.                  *)
ToBigEndian(value, n) ==
    LET shifted[i \in 0 .. n] == IF i = 0 THEN value ELSE shifted[i - 1] \div 256
    IN  [i \in 1 .. n |-> shifted[n - i] % 256]

(* from_big_endian, read from as many bytes as the type has. *)
FromBigEndian(bytes) ==
    LET value[i \in 0 .. Len(bytes)] ==
            IF i = 0 THEN 0 ELSE 256 * value[i - 1] + bytes[i]
    IN  value[Len(bytes)]

(* The same two functions for uint16_t. *)
Word(value) == <<(value \div 256) % 256, value % 256>>
WordValue(high, low) == 256 * high + low
=============================================================================
