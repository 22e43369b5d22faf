------------------------------- MODULE MCCodec -------------------------------
(* Strings of up to five bytes: any of the tags and some other bytes, then *)
(* any byte at all (every command), then bytes at the ends of the ranges.  *)
EXTENDS Codec

Tags == {99, 101, 109}

TryLetters == <<Tags \cup {0, 255}, Byte, {0, 101, 255}, {0, 109, 255}, {7, 128}>>
=============================================================================
