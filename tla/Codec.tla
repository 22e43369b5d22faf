-------------------------------- MODULE Codec --------------------------------
(***************************************************************************)
(* MessageSerializer (message_serializer.cpp) and its composition with the *)
(* encoding algorithms, as both ends of a connection use it: serialize and *)
(* encode, then decode and deserialize.                                    *)
(*                                                                         *)
(* All of these are pure functions.  The behaviours of this module spell   *)
(* out every string that may arrive, one byte after the other, so that     *)
(* what the functions do is checked on each of them.                       *)
(***************************************************************************)
EXTENDS DeviceMessages, Executors, SequencesExt

CONSTANTS
    StampBytes,    \* bytes of a time stamp: 8 in the program
    Letters        \* bound: the bytes to try at each place of a string

ASSUME StampBytesAssumption == StampBytes \in Nat \ {0}
ASSUME LettersAssumption == Letters \in Seq(SUBSET Byte)

VARIABLE text    \* the string that has arrived
-----------------------------------------------------------------------------
(* The characters the serializer writes. *)
Char == [c |-> 99, e |-> 101, m |-> 109, o |-> 111, s |-> 115, t |-> 116]

ErrorChar == [NoSchedule |-> Char.s, NoTimestamp |-> Char.t, Obsolete |-> Char.o]

Serialize(message) ==
    CASE message.type = "Error" -> <<Char.e, ErrorChar[message.errorType]>>
      [] message.type = "Command" -> <<Char.c, message.command % 256>>
      [] message.type = "Meterage" ->
            <<Char.m>> \o ToBigEndian(message.timeStamp, StampBytes)
                       \o <<message.meterage>>

(* The readers of the three kinds of message, given the whole string. *)

ErrorIn(s) ==
    IF Len(s) < 2 \/ s[2] \notin Range(ErrorChar) THEN None
    ELSE MessageError(CHOOSE e \in ErrorTypes : ErrorChar[e] = s[2])

CommandIn(s) == IF Len(s) < 2 THEN None ELSE MessageCommand(s[2])

(* Mutant: it is not asked whether the last read has failed. *)
MeterageInUnchecked(s) ==
    IF Len(s) < 1 + StampBytes THEN None
    ELSE MessageMeterage(FromBigEndian(SubSeq(s, 2, 1 + StampBytes)),
                         IF Len(s) = 1 + StampBytes THEN 255 ELSE s[2 + StampBytes])

MeterageIn(s) ==
    IF Len(s) < 2 + StampBytes THEN None
    ELSE MessageMeterage(FromBigEndian(SubSeq(s, 2, 1 + StampBytes)),
                         s[2 + StampBytes])

(* The message given to the callback, None where deserialize is false. *)
Deserialize(s) ==
    CASE s = <<>> -> None
      [] s # <<>> /\ s[1] = Char.e -> ErrorIn(s)
      [] s # <<>> /\ s[1] = Char.c -> CommandIn(s)
      [] s # <<>> /\ s[1] = Char.m -> MeterageIn(s)
      [] OTHER -> None

(* What a sender puts on the wire, and what a receiver makes of a string. *)
Send(a, message) == Encode(a, Serialize(message))
Receive(a, s) == Deserialize(Decode(a, s))
-----------------------------------------------------------------------------
Init == text = <<>>

NextByte ==
    /\ Len(text) < Len(Letters)
    /\ \E b \in Letters[Len(text) + 1] : text' = Append(text, b)

Spec == Init /\ [][NextByte]_text
-----------------------------------------------------------------------------
(* The serializer reads nothing but what it writes: a string is accepted     *)
(* only if it starts with the serialized form of the message read from it,   *)
(* with no byte missing (message_serializer.cpp:66-110).                     *)
AcceptedWasSerialized ==
    LET message == Deserialize(text)
    IN  message # None => IsPrefix(Serialize(message), text)

(* Whatever text is encoded, bytes outside ASCII included, the same          *)
(* algorithm gives back (the encode and decode of each executor).            *)
ExecutorsInvert ==
    \A a \in Algorithms : Decode(a, Encode(a, text)) = text

(* A message arrives unharmed iff both ends have selected the same           *)
(* algorithm.  With two different ones, or with one end that has selected    *)
(* none, it is not taken for any message, let alone for another one          *)
(* (tests.cpp:229-254, message_encoder.cpp:32-51).                           *)
OnlySameAlgorithmIsUnderstood ==
    LET message == Deserialize(text)
    IN  message # None =>
          \A a, b \in Algorithms \cup {Unselected} :
             Receive(b, Send(a, message)) =
                IF a = b /\ a # Unselected THEN message ELSE None
=============================================================================
