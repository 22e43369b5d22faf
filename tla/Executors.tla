------------------------------ MODULE Executors ------------------------------
(***************************************************************************)
(* The encoding algorithms of the repository: ROT3, Mirror and Multiply41  *)
(* (..._encoder_executor.cpp), and Dummy, which the tests register         *)
(* (dummy_encoder_executor.h).  They work byte by byte.                    *)
(***************************************************************************)
EXTENDS Bytes

Algorithms == {"ROT3", "Mirror", "Multiply41", "Dummy"}

(* An encoder in which no algorithm has been selected. *)
Unselected == "unselected"
-----------------------------------------------------------------------------
(* ROT3 adds three within the range -128 .. 127 of char. *)

Rot3EncodeByte(b) ==
    LET c == Int8(b) + 3
    IN  (IF c >= 128 THEN c - 256 ELSE c) % 256

Rot3DecodeByte(b) ==
    LET c == Int8(b) - 3
    IN  (IF c < -128 THEN c + 256 ELSE c) % 256

Rot3Encode(s) == [i \in 1 .. Len(s) |-> Rot3EncodeByte(s[i])]
Rot3Decode(s) == [i \in 1 .. Len(s) |-> Rot3DecodeByte(s[i])]
-----------------------------------------------------------------------------
(* Mirror writes the number of decimal digits of a byte and, in two bytes, *)
(* the number with these digits reversed.                                  *)

Digits(value) ==
    LET left[i \in 0 .. 5] == IF i = 0 THEN value ELSE left[i - 1] \div 10
    IN  CHOOSE n \in 0 .. 5 : left[n] = 0 /\ \A i \in 0 .. n - 1 : left[i] > 0

(* The loop of mirror(), in the 16 bits of result. *)
Mirrored(value, digits) ==
    LET Step(state) ==
            [result |-> (10 * state.result + (state.value % 10)) % 2^16,
             value |-> state.value \div 10]
        after[i \in 0 .. digits] ==
            IF i = 0 THEN [result |-> 0, value |-> value] ELSE Step(after[i - 1])
    IN  after[digits].result

(* Mutant: the digits of the reversed number are counted. *)
MirrorEncodeByteCountsLate(b) ==
    <<Digits(Mirrored(b, Digits(b)))>> \o Word(Mirrored(b, Digits(b)))

MirrorEncodeByte(b) == <<Digits(b)>> \o Word(Mirrored(b, Digits(b)))

MirrorEncode(s) ==
    [i \in 1 .. 3 * Len(s) |->
        MirrorEncodeByte(s[(i + 2) \div 3])[((i - 1) % 3) + 1]]

(* A block that is cut off at the end of the string is dropped. *)
MirrorDecode(s) ==
    [i \in 1 .. Len(s) \div 3 |->
        Mirrored(WordValue(s[3 * i - 1], s[3 * i]), s[3 * i - 2]) % 256]
-----------------------------------------------------------------------------
(* Multiply41 writes the product in two bytes. *)

Multiply41Encode(s) ==
    [i \in 1 .. 2 * Len(s) |-> Word(41 * s[(i + 1) \div 2])[((i - 1) % 2) + 1]]

Multiply41Decode(s) ==
    [i \in 1 .. Len(s) \div 2 |->
        (WordValue(s[2 * i - 1], s[2 * i]) \div 41) % 256]
-----------------------------------------------------------------------------
(* Mutant: without an algorithm the text is sent as it is. *)
EncodeInClear(a, s) == CASE a = "ROT3" -> Rot3Encode(s)
                         [] a = "Mirror" -> MirrorEncode(s)
                         [] a = "Multiply41" -> Multiply41Encode(s)
                         [] a = "Dummy" -> s
                         [] a = Unselected -> s

(* MessageEncoder::encode and decode with algorithm a selected. *)
Encode(a, s) == CASE a = "ROT3" -> Rot3Encode(s)
                  [] a = "Mirror" -> MirrorEncode(s)
                  [] a = "Multiply41" -> Multiply41Encode(s)
                  [] a = "Dummy" -> s
                  [] a = Unselected -> <<>>

Decode(a, s) == CASE a = "ROT3" -> Rot3Decode(s)
                  [] a = "Mirror" -> MirrorDecode(s)
                  [] a = "Multiply41" -> Multiply41Decode(s)
                  [] a = "Dummy" -> s
                  [] a = Unselected -> <<>>
=============================================================================
