----------------------------- MODULE CodecProofs -----------------------------
(***************************************************************************)
(* The codec, for strings of every length and for every length of a time   *)
(* stamp: each algorithm gives back what it has encoded, the serializer    *)
(* reads only what it writes, and two different algorithms do not          *)
(* understand each other.                                                  *)
(*                                                                         *)
(* The loops of the code are recursive functions here.  What such a        *)
(* function is (LoopExists) and what it computes is proved by induction    *)
(* over the natural numbers, in the form of the well-founded order on them *)
(* because the induction rule itself takes a predicate.                    *)
(***************************************************************************)
EXTENDS Codec, WellFoundedInduction, SequenceTheorems, TLAPS
-----------------------------------------------------------------------------
(* Induction over the natural numbers, for a set instead of a predicate. *)
LEMMA SetInduction ==
  ASSUME NEW S, 0 \in S, \A n \in Nat : n \in S => n + 1 \in S
  PROVE  \A n \in Nat : n \in S
<1> DEFINE T == Nat \ S
<1> SUFFICES ASSUME T # {} PROVE FALSE
  OBVIOUS
<1>1. PICK m \in T : \A k \in T : <<k, m>> \notin OpToRel(<, Nat)
  <2>1. T \subseteq Nat
    OBVIOUS
  <2> HIDE DEF T
  <2> QED BY <2>1, NatLessThanWellFounded, WFMin
<1>2. m - 1 \in Nat /\ m - 1 < m /\ (m - 1) + 1 = m
  OBVIOUS
<1>3. m - 1 \notin T
  BY <1>1, <1>2 DEF OpToRel
<1> QED BY <1>2, <1>3

(* What a loop computes that starts with x and turns v into h[i][v] in its  *)
(* i-th round: every recursive function of Bytes and Executors is one.      *)
Loops(n, D, x, h) ==
    {f \in [0 .. n -> D] : f[0] = x /\ \A i \in 1 .. n : f[i] = h[i][f[i - 1]]}

LEMMA LoopExists ==
  ASSUME NEW n \in Nat, NEW D, NEW x \in D, NEW h \in [1 .. n -> [D -> D]]
  PROVE  Loops(n, D, x, h) # {}
<1> DEFINE Is(f, m) == /\ f \in [0 .. m -> D]
                       /\ f[0] = x
                       /\ \A i \in 1 .. m : f[i] = h[i][f[i - 1]]
           S == {m \in Nat : m <= n => \E f : Is(f, m)}
<1>1. 0 \in S
  <2>1. Is([i \in 0 .. 0 |-> x], 0)
    OBVIOUS
  <2> QED BY <2>1
<1>2. ASSUME NEW m \in Nat, m \in S PROVE m + 1 \in S
  <2> SUFFICES ASSUME m + 1 <= n PROVE \E f : Is(f, m + 1)
    OBVIOUS
  <2>1. PICK g : Is(g, m)
    BY <1>2
  <2> DEFINE f == [i \in 0 .. m + 1 |-> IF i = m + 1 THEN h[m + 1][g[m]] ELSE g[i]]
  <2>2. m + 1 \in 1 .. n /\ g[m] \in D /\ g \in [0 .. m -> D] /\ g[0] = x
    BY <2>1
  <2>3. h[m + 1][g[m]] \in D
    BY <2>2
  <2>4. f \in [0 .. m + 1 -> D] /\ f[0] = x
    BY <2>2, <2>3
  <2>5. ASSUME NEW i \in 1 .. m + 1 PROVE f[i] = h[i][f[i - 1]]
    <3>1. CASE i = m + 1
      BY <3>1
    <3>2. CASE i # m + 1
      BY <3>2, <2>1
    <3> QED BY <3>1, <3>2
  <2> QED BY <2>4, <2>5
<1> HIDE DEF S
<1>3. n \in S
  BY <1>1, <1>2, SetInduction
<1>4. PICK f : Is(f, n)
  BY <1>3 DEF S
<1> QED BY <1>4 DEF Loops

LEMMA LoopStays ==
  ASSUME NEW n \in Nat, NEW D, NEW f, f[0] \in D,
         \A i \in 1 .. n : f[i - 1] \in D => f[i] \in D
  PROVE  \A i \in 0 .. n : f[i] \in D
<1> DEFINE S == {m \in Nat : m <= n => f[m] \in D}
<1>1. 0 \in S
  OBVIOUS
<1>2. ASSUME NEW m \in Nat, m \in S PROVE m + 1 \in S
  <2> SUFFICES ASSUME m + 1 <= n PROVE f[m + 1] \in D
    OBVIOUS
  <2>1. m + 1 \in 1 .. n /\ (m + 1) - 1 = m /\ f[m] \in D
    BY <1>2
  <2> QED BY <2>1
<1> HIDE DEF S
<1>3. \A m \in Nat : m \in S
  BY <1>1, <1>2, SetInduction
<1> QED BY <1>3 DEF S

(* The loops of to_big_endian and from_big_endian. *)
LEMMA ToBigEndianLoop ==
  ASSUME NEW value \in Nat, NEW n \in Nat
  PROVE  \E shifted :
           /\ shifted[0] = value
           /\ \A i \in 0 .. n : shifted[i] \in Nat
           /\ \A i \in 1 .. n : shifted[i] = shifted[i - 1] \div 256
           /\ ToBigEndian(value, n) = [i \in 1 .. n |-> shifted[n - i] % 256]
<1> DEFINE IsFn(f) == f = [i \in 0 .. n |-> IF i = 0 THEN value ELSE f[i - 1] \div 256]
           D == Nat
           h == [i \in 1 .. n |-> [v \in Nat |-> v \div 256]]
           shifted == CHOOSE f : IsFn(f)
<1>1. \A i \in 1 .. n : \A v \in D : h[i][v] = v \div 256
  OBVIOUS
<1>2. value \in D /\ h \in [1 .. n -> [D -> D]]
  OBVIOUS
<1> HIDE DEF h, D
<1>3. PICK f \in [0 .. n -> D] : f[0] = value /\ \A i \in 1 .. n : f[i] = h[i][f[i - 1]]
  <2>1. Loops(n, D, value, h) # {}
    BY <1>2, LoopExists
  <2> QED BY <2>1 DEF Loops
<1>4. ASSUME NEW i \in 0 .. n, i # 0 PROVE f[i] = f[i - 1] \div 256
  <2>1. i \in 1 .. n /\ i - 1 \in 0 .. n
    BY <1>4
  <2>2. f[i] = h[i][f[i - 1]] /\ f[i - 1] \in D
    BY <1>3, <2>1
  <2> QED BY <1>1, <2>1, <2>2
<1>5. IsFn(f)
  BY <1>3, <1>4
<1>6. IsFn(shifted)
  <2> HIDE DEF IsFn
  <2> QED BY <1>5, Zenon
<1>7. ToBigEndian(value, n) = [i \in 1 .. n |-> shifted[n - i] % 256]
  BY DEF ToBigEndian
<1> HIDE DEF shifted
<1>8. shifted[0] = value
  BY <1>6
<1>9. ASSUME NEW i \in 1 .. n PROVE shifted[i] = shifted[i - 1] \div 256
  BY <1>6
<1>10. \A i \in 0 .. n : shifted[i] \in D
  <2>1. \A v \in D : v \div 256 \in D
    BY DEF D
  <2>2. ASSUME NEW i \in 1 .. n, shifted[i - 1] \in D PROVE shifted[i] \in D
    <3>1. shifted[i] = shifted[i - 1] \div 256
      BY <1>9
    <3> QED BY <2>1, <2>2, <3>1, Zenon
  <2>3. shifted[0] \in D
    BY <1>2, <1>8
  <2> QED BY <2>2, <2>3, LoopStays, Zenon
<1> QED BY <1>7, <1>8, <1>9, <1>10 DEF D

LEMMA FromBigEndianLoop ==
  ASSUME NEW bytes \in Seq(Byte), NEW n, n = Len(bytes)
  PROVE  \E value :
           /\ value[0] = 0
           /\ \A i \in 0 .. n : value[i] \in Nat
           /\ \A i \in 1 .. n : value[i] = 256 * value[i - 1] + bytes[i]
           /\ FromBigEndian(bytes) = value[n]
<1> DEFINE IsFn(f) == f = [i \in 0 .. Len(bytes) |->
                             IF i = 0 THEN 0 ELSE 256 * f[i - 1] + bytes[i]]
           D == Nat
           h == [i \in 1 .. n |-> [v \in Nat |-> 256 * v + bytes[i]]]
           value == CHOOSE f : IsFn(f)
<1>1. n \in Nat /\ \A i \in 1 .. n : bytes[i] \in Nat
  <2>1. n \in Nat /\ \A i \in 1 .. n : bytes[i] \in Byte
    OBVIOUS
  <2>2. Byte \subseteq Nat
    BY DEF Byte
  <2> QED BY <2>1, <2>2
<1>2. \A i \in 1 .. n : \A v \in D : h[i][v] = 256 * v + bytes[i] /\ 256 * v + bytes[i] \in D
  BY <1>1
<1>3. 0 \in D /\ h \in [1 .. n -> [D -> D]]
  BY <1>1
<1> HIDE DEF h, D
<1>4. PICK f \in [0 .. n -> D] : f[0] = 0 /\ \A i \in 1 .. n : f[i] = h[i][f[i - 1]]
  <2> DEFINE x == 0
  <2>1. x \in D
    BY <1>3
  <2> HIDE DEF x
  <2>2. Loops(n, D, x, h) # {}
    BY <1>1, <1>3, <2>1, LoopExists
  <2> QED BY <2>2 DEF Loops, x
<1>5. ASSUME NEW i \in 0 .. n, i # 0 PROVE f[i] = 256 * f[i - 1] + bytes[i]
  <2>1. i \in 1 .. n /\ i - 1 \in 0 .. n
    BY <1>1, <1>5
  <2>2. f[i] = h[i][f[i - 1]] /\ f[i - 1] \in D
    BY <1>4, <2>1
  <2> QED BY <1>2, <2>1, <2>2
<1>6. IsFn(f)
  BY <1>4, <1>5
<1>7. IsFn(value)
  BY <1>6
<1>8. FromBigEndian(bytes) = value[n]
  BY DEF FromBigEndian
<1> HIDE DEF value
<1>9. value[0] = 0
  BY <1>1, <1>7
<1>10. ASSUME NEW i \in 1 .. n PROVE value[i] = 256 * value[i - 1] + bytes[i]
  BY <1>1, <1>7
<1>11. \A i \in 0 .. n : value[i] \in D
  <2>1. ASSUME NEW i \in 1 .. n, value[i - 1] \in D PROVE value[i] \in D
    <3>1. value[i] = 256 * value[i - 1] + bytes[i]
      BY <1>10
    <3>2. 256 * value[i - 1] + bytes[i] \in D
      BY <1>1, <2>1 DEF D
    <3> QED BY <3>1, <3>2
  <2>2. value[0] \in D
    BY <1>3, <1>9
  <2> QED BY <1>1, <2>1, <2>2, LoopStays, Zenon
<1> QED BY <1>8, <1>9, <1>10, <1>11 DEF D

LEMMA LowByte ==
  ASSUME NEW v \in Nat, NEW b \in Byte, NEW k \in Nat, k = 256 * v + b
  PROVE  k % 256 = b
BY DEF Byte

(* to_big_endian is the inverse of from_big_endian (big_endian.h). *)
LEMMA BigEndianInverts ==
  ASSUME NEW bytes \in Seq(Byte), NEW n, n = Len(bytes)
  PROVE  /\ FromBigEndian(bytes) \in Nat
         /\ ToBigEndian(FromBigEndian(bytes), n) = bytes
<1>1. n \in Nat /\ \A i \in 1 .. n : bytes[i] \in Byte
  OBVIOUS
<1>2. PICK value : /\ value[0] = 0
                   /\ \A i \in 0 .. n : value[i] \in Nat
                   /\ \A i \in 1 .. n : value[i] = 256 * value[i - 1] + bytes[i]
                   /\ FromBigEndian(bytes) = value[n]
  BY FromBigEndianLoop
<1>3. FromBigEndian(bytes) \in Nat
  BY <1>1, <1>2
<1>4. PICK shifted : /\ shifted[0] = FromBigEndian(bytes)
                     /\ \A i \in 0 .. n : shifted[i] \in Nat
                     /\ \A i \in 1 .. n : shifted[i] = shifted[i - 1] \div 256
                     /\ ToBigEndian(FromBigEndian(bytes), n) =
                           [i \in 1 .. n |-> shifted[n - i] % 256]
  BY <1>1, <1>3, ToBigEndianLoop
<1> DEFINE S == {m \in Nat : m <= n => shifted[m] = value[n - m]}
<1>5. \A m \in Nat : m \in S
  <2>1. 0 \in S
    BY <1>1, <1>2, <1>4
  <2>2. ASSUME NEW m \in Nat, m \in S PROVE m + 1 \in S
    <3> SUFFICES ASSUME m + 1 <= n PROVE shifted[m + 1] = value[n - (m + 1)]
      OBVIOUS
    <3>1. /\ m + 1 \in 1 .. n /\ (m + 1) - 1 = m /\ m <= n
          /\ n - m \in 1 .. n /\ (n - m) - 1 = n - (m + 1) /\ n - (m + 1) \in 0 .. n
      BY <1>1
    <3>2. shifted[m + 1] = shifted[m] \div 256 /\ shifted[m] = value[n - m]
      BY <1>4, <2>2, <3>1
    <3>3. value[n - m] = 256 * value[n - (m + 1)] + bytes[n - m]
      BY <1>2, <3>1
    <3>4. value[n - (m + 1)] \in Nat /\ bytes[n - m] \in Byte
      BY <1>1, <1>2, <3>1
    <3>5. (256 * value[n - (m + 1)] + bytes[n - m]) \div 256 = value[n - (m + 1)]
      <4> DEFINE v == value[n - (m + 1)]
                 b == bytes[n - m]
      <4>1. v \in Nat /\ b \in Byte
        BY <3>4
      <4> HIDE DEF v, b
      <4>2. (256 * v + b) \div 256 = v
        BY <4>1 DEF Byte
      <4> QED BY <4>2 DEF v, b
    <3> QED BY <3>2, <3>3, <3>5
  <2> HIDE DEF S
  <2> QED BY <2>1, <2>2, SetInduction
<1>6. ASSUME NEW i \in 1 .. n PROVE shifted[n - i] % 256 = bytes[i]
  <2>1. n - i \in Nat /\ n - i <= n /\ n - (n - i) = i /\ i - 1 \in 0 .. n
    BY <1>1
  <2>2. shifted[n - i] = value[i]
    BY <1>5, <2>1
  <2>3. value[i] = 256 * value[i - 1] + bytes[i]
    BY <1>2
  <2>4. value[i - 1] \in Nat /\ bytes[i] \in Byte
    BY <1>1, <1>2, <2>1
  <2>5. (256 * value[i - 1] + bytes[i]) % 256 = bytes[i]
    <3> DEFINE v == value[i - 1]
               b == bytes[i]
               k == 256 * v + b
    <3>1. v \in Nat /\ b \in Byte
      BY <2>4
    <3> HIDE DEF v, b
    <3>2. k = 256 * v + b /\ k \in Nat
      BY <3>1 DEF Byte
    <3> HIDE DEF k
    <3>3. k % 256 = b
      BY <3>1, <3>2, LowByte
    <3> QED BY <3>3 DEF v, b, k
  <2> QED BY <2>2, <2>3, <2>5
<1>7. ToBigEndian(FromBigEndian(bytes), n) = [i \in 1 .. n |-> bytes[i]]
  BY <1>4, <1>6
<1> QED BY <1>3, <1>7
-----------------------------------------------------------------------------
(* A byte survives ROT3: adding and subtracting three both wrap around     *)
(* within the 256 values of char.                                          *)
LEMMA Rot3Byte ==
    ASSUME NEW b \in Byte
    PROVE  /\ Rot3EncodeByte(b) \in Byte
           /\ Rot3DecodeByte(Rot3EncodeByte(b)) = b
<1>1. CASE b < 125
  <2>1. Rot3EncodeByte(b) = b + 3
    BY <1>1 DEF Byte, Int8, Rot3EncodeByte
  <2>2. Rot3DecodeByte(b + 3) = b
    BY <1>1 DEF Byte, Int8, Rot3DecodeByte
  <2> QED BY <1>1, <2>1, <2>2 DEF Byte
<1>2. CASE b >= 125 /\ b < 128
  <2>1. Rot3EncodeByte(b) = b + 3
    BY <1>2 DEF Byte, Int8, Rot3EncodeByte
  <2>2. Rot3DecodeByte(b + 3) = b
    BY <1>2 DEF Byte, Int8, Rot3DecodeByte
  <2> QED BY <1>2, <2>1, <2>2 DEF Byte
<1>3. CASE b >= 128
  <2>1. Rot3EncodeByte(b) = (b + 3) % 256
    BY <1>3 DEF Byte, Int8, Rot3EncodeByte
  <2>2. Rot3DecodeByte((b + 3) % 256) = b
    BY <1>3 DEF Byte, Int8, Rot3DecodeByte
  <2>3. (b + 3) % 256 \in Byte
    BY DEF Byte
  <2> QED BY <2>1, <2>2, <2>3
<1> QED BY <1>1, <1>2, <1>3 DEF Byte

(* ROT3 gives back every string (rot3_encoder_executor.cpp:17-68). *)
THEOREM Rot3Inverts ==
    \A s \in Seq(Byte) : Rot3Decode(Rot3Encode(s)) = s
<1> SUFFICES ASSUME NEW s \in Seq(Byte) PROVE Rot3Decode(Rot3Encode(s)) = s
  OBVIOUS
<1> DEFINE e == Rot3Encode(s)
<1>1. e \in Seq(Byte) /\ Len(e) = Len(s)
  BY Rot3Byte DEF Rot3Encode
<1>2. ASSUME NEW i \in 1 .. Len(s) PROVE Rot3DecodeByte(e[i]) = s[i]
  BY Rot3Byte DEF Rot3Encode
<1>3. Rot3Decode(e) = [i \in 1 .. Len(s) |-> Rot3DecodeByte(e[i])]
  BY <1>1 DEF Rot3Decode
<1> HIDE DEF e
<1>4. Rot3Decode(e) = [i \in 1 .. Len(s) |-> s[i]]
  BY <1>2, <1>3
<1> QED BY <1>4 DEF e

(* The product of a byte and 41 fits into two bytes, from which it is read *)
(* again.                                                                  *)
LEMMA ProductInWord ==
    ASSUME NEW b \in Byte
    PROVE  (WordValue(Word(41 * b)[1], Word(41 * b)[2]) \div 41) % 256 = b
<1>1. ((41 * b) \div 256) % 256 = (41 * b) \div 256
  BY DEF Byte
<1>2. 256 * ((41 * b) \div 256) + ((41 * b) % 256) = 41 * b
  BY DEF Byte
<1>3. (41 * b) \div 41 = b /\ b % 256 = b
  BY DEF Byte
<1> QED BY <1>1, <1>2, <1>3 DEF Word, WordValue

(* Multiply41 gives back every string (multiply41_encoder_executor.cpp). *)
THEOREM Multiply41Inverts ==
    \A s \in Seq(Byte) : Multiply41Decode(Multiply41Encode(s)) = s
<1> SUFFICES ASSUME NEW s \in Seq(Byte)
             PROVE  Multiply41Decode(Multiply41Encode(s)) = s
  OBVIOUS
<1> DEFINE e == Multiply41Encode(s)
<1>1. Len(e) = 2 * Len(s)
  BY DEF Multiply41Encode
<1>2. ASSUME NEW i \in 1 .. Len(s)
      PROVE  /\ e[2 * i - 1] = Word(41 * s[i])[1]
             /\ e[2 * i] = Word(41 * s[i])[2]
  <2>1. /\ 2 * i - 1 \in 1 .. 2 * Len(s)
        /\ ((2 * i - 1) + 1) \div 2 = i
        /\ (((2 * i - 1) - 1) % 2) + 1 = 1
    OBVIOUS
  <2>2. /\ 2 * i \in 1 .. 2 * Len(s)
        /\ ((2 * i) + 1) \div 2 = i
        /\ (((2 * i) - 1) % 2) + 1 = 2
    OBVIOUS
  <2> QED BY <2>1, <2>2 DEF Multiply41Encode
<1>3. Multiply41Decode(e) =
        [i \in 1 .. Len(s) |-> (WordValue(e[2 * i - 1], e[2 * i]) \div 41) % 256]
  <2>1. Len(e) \div 2 = Len(s)
    BY <1>1
  <2> QED BY <2>1 DEF Multiply41Decode
<1> HIDE DEF e
<1>4. ASSUME NEW i \in 1 .. Len(s)
      PROVE  (WordValue(e[2 * i - 1], e[2 * i]) \div 41) % 256 = s[i]
  BY <1>2, ProductInWord
<1>5. Multiply41Decode(e) = [i \in 1 .. Len(s) |-> s[i]]
  BY <1>3, <1>4
<1> QED BY <1>5 DEF e

-----------------------------------------------------------------------------
(* The loops of Mirror. *)
LEMMA DigitsLoop ==
  ASSUME NEW b \in Byte
  PROVE  Digits(b) = IF b = 0 THEN 0 ELSE IF b < 10 THEN 1 ELSE IF b < 100 THEN 2 ELSE 3
<1> DEFINE IsFn(f) == f = [i \in 0 .. 5 |-> IF i = 0 THEN b ELSE f[i - 1] \div 10]
           left == CHOOSE f : IsFn(f)
           witness == [i \in 0 .. 5 |-> IF i = 0 THEN b
                                        ELSE IF i = 1 THEN b \div 10
                                        ELSE IF i = 2 THEN (b \div 10) \div 10
                                        ELSE IF i = 3 THEN ((b \div 10) \div 10) \div 10
                                        ELSE IF i = 4 THEN (((b \div 10) \div 10) \div 10) \div 10
                                        ELSE ((((b \div 10) \div 10) \div 10) \div 10) \div 10]
<1>1. IsFn(witness)
  <2> SUFFICES ASSUME NEW i \in 0 .. 5
               PROVE  witness[i] = IF i = 0 THEN b ELSE witness[i - 1] \div 10
    OBVIOUS
  <2> QED BY i \in {0, 1, 2, 3, 4, 5}
<1>2. IsFn(left)
  BY <1>1
<1>3. Digits(b) = CHOOSE n \in 0 .. 5 : left[n] = 0 /\ \A i \in 0 .. n - 1 : left[i] > 0
  BY DEF Digits
<1> HIDE DEF left
<1>4. /\ left[0] = b /\ left[1] = b \div 10
      /\ left[2] = (b \div 10) \div 10 /\ left[3] = ((b \div 10) \div 10) \div 10
  BY <1>2
<1> DEFINE k == IF b = 0 THEN 0 ELSE IF b < 10 THEN 1 ELSE IF b < 100 THEN 2 ELSE 3
<1>5. k \in 0 .. 5 /\ left[k] = 0 /\ \A i \in 0 .. k - 1 : left[i] > 0
  BY <1>4 DEF Byte
<1>6. ASSUME NEW n \in 0 .. 5, left[n] = 0, \A i \in 0 .. n - 1 : left[i] > 0 PROVE n = k
  <2>1. ~(n < k) /\ ~(k < n)
    BY <1>5, <1>6
  <2> QED BY <1>5, <2>1
<1> HIDE DEF k
<1>7. Digits(b) = k
  BY <1>3, <1>5, <1>6
<1> QED BY <1>7 DEF k

MirrorState == [result : Nat, value : Nat]

MirrorStep(state) == [result |-> (10 * state.result + (state.value % 10)) % 2^16,
                      value |-> state.value \div 10]

LEMMA TwoToThe16 == 2^16 = 65536
  BY SMT

LEMMA MirrorStepType ==
  ASSUME NEW v \in MirrorState
  PROVE  /\ MirrorStep(v) \in MirrorState
         /\ MirrorStep(v).result = (10 * v.result + (v.value % 10)) % 65536
         /\ MirrorStep(v).value = v.value \div 10
<1>1. v.result \in Nat /\ v.value \in Nat
  BY DEF MirrorState
<1>2. 10 * v.result + (v.value % 10) \in Nat /\ v.value \div 10 \in Nat
  BY <1>1
<1>3. MirrorStep(v) = [result |-> (10 * v.result + (v.value % 10)) % 65536,
                       value |-> v.value \div 10]
  BY TwoToThe16 DEF MirrorStep
<1>4. \A r \in Nat : r % 65536 \in Nat
  OBVIOUS
<1> QED BY <1>2, <1>3, <1>4 DEF MirrorState

LEMMA MirroredLoop ==
  ASSUME NEW number \in Nat, NEW digits \in Nat
  PROVE  \E after :
           /\ after[0] = [result |-> 0, value |-> number]
           /\ \A i \in 0 .. digits : after[i] \in MirrorState
           /\ \A i \in 1 .. digits : after[i] = MirrorStep(after[i - 1])
           /\ Mirrored(number, digits) = after[digits].result
<1> DEFINE Step(state) == [result |-> (10 * state.result + (state.value % 10)) % 2^16,
                           value |-> state.value \div 10]
           IsFn(f) == f = [i \in 0 .. digits |->
                             IF i = 0 THEN [result |-> 0, value |-> number] ELSE Step(f[i - 1])]
           x == [result |-> 0, value |-> number]
           h == [i \in 1 .. digits |-> [v \in MirrorState |-> MirrorStep(v)]]
           after == CHOOSE f : IsFn(f)
<1>1. Mirrored(number, digits) = after[digits].result
  BY DEF Mirrored
<1>2. ASSUME NEW v PROVE Step(v) = MirrorStep(v)
  BY DEF MirrorStep
<1> HIDE DEF Step
<1>3. x \in MirrorState
  BY DEF MirrorState
<1>4. h \in [1 .. digits -> [MirrorState -> MirrorState]]
  BY MirrorStepType
<1>5. PICK f \in [0 .. digits -> MirrorState] :
         f[0] = x /\ \A i \in 1 .. digits : f[i] = h[i][f[i - 1]]
  <2> HIDE DEF x, h
  <2>1. Loops(digits, MirrorState, x, h) # {}
    BY <1>3, <1>4, LoopExists
  <2> QED BY <2>1 DEF Loops
<1>6. ASSUME NEW i \in 0 .. digits, i # 0 PROVE f[i] = Step(f[i - 1])
  <2>1. i \in 1 .. digits /\ i - 1 \in 0 .. digits
    BY <1>6
  <2>2. f[i] = h[i][f[i - 1]] /\ f[i - 1] \in MirrorState
    BY <1>5, <2>1
  <2>3. h[i][f[i - 1]] = MirrorStep(f[i - 1])
    BY <2>1, <2>2
  <2> QED BY <1>2, <2>2, <2>3
<1>7. IsFn(f)
  BY <1>5, <1>6
<1>8. IsFn(after)
  BY <1>7
<1> HIDE DEF after
<1>9. after[0] = x
  BY <1>8
<1>10. ASSUME NEW i \in 1 .. digits PROVE after[i] = MirrorStep(after[i - 1])
  BY <1>2, <1>8
<1>11. \A i \in 0 .. digits : after[i] \in MirrorState
  <2>1. ASSUME NEW i \in 1 .. digits, after[i - 1] \in MirrorState
        PROVE  after[i] \in MirrorState
    BY <1>10, <2>1, MirrorStepType
  <2>2. after[0] \in MirrorState
    BY <1>3, <1>9
  <2> QED BY <2>1, <2>2, LoopStays, Zenon
<1> QED BY <1>1, <1>9, <1>10, <1>11

(* The reversed number, for the numbers of digits a byte may have. *)
LEMMA MirroredDigits ==
  ASSUME NEW number \in Nat
  PROVE  /\ Mirrored(number, 0) = 0
         /\ Mirrored(number, 1) = number % 10
         /\ Mirrored(number, 2) = 10 * (number % 10) + ((number \div 10) % 10)
         /\ Mirrored(number, 3) = 100 * (number % 10) + 10 * ((number \div 10) % 10)
                                   + (((number \div 10) \div 10) % 10)
<1> DEFINE State(r, v) == [result |-> r, value |-> v]
           v1 == number \div 10
           v2 == v1 \div 10
           r0 == 0
           r1 == 10 * r0 + (number % 10)
           r2 == 10 * r1 + (v1 % 10)
           r3 == 10 * r2 + (v2 % 10)
           x0 == State(r0, number)
           x1 == MirrorStep(x0)
           x2 == MirrorStep(x1)
           x3 == MirrorStep(x2)
<1>1. ASSUME NEW r \in 0 .. 99, NEW v \in Nat
      PROVE  MirrorStep(State(r, v)) = State(10 * r + (v % 10), v \div 10)
  <2>1. MirrorStep(State(r, v)) = State((10 * r + (v % 10)) % 65536, v \div 10)
    BY TwoToThe16 DEF MirrorStep
  <2>2. (10 * r + (v % 10)) % 65536 = 10 * r + (v % 10)
    OBVIOUS
  <2> QED BY <2>1, <2>2
<1> HIDE DEF State
<1>2. v1 \in Nat /\ v2 \in Nat /\ r0 \in 0 .. 99 /\ r1 \in 0 .. 99 /\ r2 \in 0 .. 99
  OBVIOUS
<1>3. x1 = State(r1, v1)
  <2> HIDE DEF r0
  <2>1. MirrorStep(State(r0, number)) = State(10 * r0 + (number % 10), number \div 10)
    BY <1>1, <1>2
  <2> QED BY <2>1
<1>4. x2 = State(r2, v2)
  <2> HIDE DEF r1, v1
  <2>1. MirrorStep(State(r1, v1)) = State(10 * r1 + (v1 % 10), v1 \div 10)
    BY <1>1, <1>2
  <2> HIDE DEF x1
  <2> QED BY <1>3, <2>1
<1>5. x3 = State(r3, v2 \div 10)
  <2> HIDE DEF r2, v2
  <2>1. MirrorStep(State(r2, v2)) = State(10 * r2 + (v2 % 10), v2 \div 10)
    BY <1>1, <1>2
  <2> HIDE DEF x2
  <2> QED BY <1>4, <2>1
<1>6. /\ Mirrored(number, 0) = x0.result
      /\ Mirrored(number, 1) = x1.result
      /\ Mirrored(number, 2) = x2.result
      /\ Mirrored(number, 3) = x3.result
  <2>1. ASSUME NEW digits \in 0 .. 3
        PROVE  \E after :
                 /\ after[0] = x0
                 /\ \A i \in 1 .. digits : after[i] = MirrorStep(after[i - 1])
                 /\ Mirrored(number, digits) = after[digits].result
    <3>1. digits \in Nat
      OBVIOUS
    <3>2. PICK after :
             /\ after[0] = [result |-> 0, value |-> number]
             /\ \A i \in 0 .. digits : after[i] \in MirrorState
             /\ \A i \in 1 .. digits : after[i] = MirrorStep(after[i - 1])
             /\ Mirrored(number, digits) = after[digits].result
      BY <3>1, MirroredLoop
    <3> QED BY <3>2 DEF State
  <2> HIDE DEF x0
  <2>2. Mirrored(number, 0) = x0.result
    BY <2>1
  <2>3. Mirrored(number, 1) = x1.result
    <3>1. PICK after : /\ after[0] = x0
                       /\ \A i \in 1 .. 1 : after[i] = MirrorStep(after[i - 1])
                       /\ Mirrored(number, 1) = after[1].result
      BY <2>1
    <3> QED BY <3>1
  <2>4. Mirrored(number, 2) = x2.result
    <3>1. PICK after : /\ after[0] = x0
                       /\ \A i \in 1 .. 2 : after[i] = MirrorStep(after[i - 1])
                       /\ Mirrored(number, 2) = after[2].result
      BY <2>1
    <3>2. after[1] = MirrorStep(after[0]) /\ after[2] = MirrorStep(after[1])
      BY <3>1
    <3> QED BY <3>1, <3>2
  <2>5. Mirrored(number, 3) = x3.result
    <3>1. PICK after : /\ after[0] = x0
                       /\ \A i \in 1 .. 3 : after[i] = MirrorStep(after[i - 1])
                       /\ Mirrored(number, 3) = after[3].result
      BY <2>1
    <3>2. /\ after[1] = MirrorStep(after[0]) /\ after[2] = MirrorStep(after[1])
          /\ after[3] = MirrorStep(after[2])
      BY <3>1
    <3> QED BY <3>1, <3>2
  <2> QED BY <2>2, <2>3, <2>4, <2>5
<1> HIDE DEF x0, x1, x2, x3
<1>7. x0 = State(r0, number)
  BY DEF x0
<1>8. /\ Mirrored(number, 0) = 0 /\ Mirrored(number, 1) = r1
      /\ Mirrored(number, 2) = r2 /\ Mirrored(number, 3) = r3
  <2> HIDE DEF r1, r2, r3
  <2> QED BY <1>3, <1>4, <1>5, <1>6, <1>7 DEF State
<1> QED BY <1>8

(* A byte survives Mirror: its reversed number keeps its leading zeros,      *)
(* because the number of digits is sent along.                               *)
LEMMA MirrorByte ==
  ASSUME NEW b \in Byte, NEW m, m = Mirrored(b, Digits(b))
  PROVE  /\ Digits(b) \in 0 .. 3
         /\ Word(m) \in Seq(Byte) /\ Len(Word(m)) = 2
         /\ Mirrored(WordValue(Word(m)[1], Word(m)[2]), Digits(b)) % 256 = b
<1>1. Digits(b) = IF b = 0 THEN 0 ELSE IF b < 10 THEN 1 ELSE IF b < 100 THEN 2 ELSE 3
  BY DigitsLoop
<1>2. b \in Nat /\ b < 256
  BY DEF Byte
<1> DEFINE x == b % 10
           y == (b \div 10) % 10
           z == ((b \div 10) \div 10) % 10
<1>3. /\ x \in 0 .. 9 /\ y \in 0 .. 9 /\ z \in 0 .. 9
      /\ b = 100 * z + 10 * y + x
      /\ b < 10 => z = 0 /\ y = 0
      /\ b < 100 => z = 0
  BY <1>2
<1>4. m = IF b = 0 THEN 0 ELSE IF b < 10 THEN x ELSE IF b < 100 THEN 10 * x + y
          ELSE 100 * x + 10 * y + z
  BY <1>1, <1>2, MirroredDigits
<1> HIDE DEF x, y, z
<1>5. m \in 0 .. 999
  BY <1>3, <1>4
<1>6. WordValue(Word(m)[1], Word(m)[2]) = m /\ Word(m) \in Seq(Byte) /\ Len(Word(m)) = 2
  <2> DEFINE hi == m \div 256
             lo == m % 256
  <2>1. hi \in 0 .. 3 /\ lo \in 0 .. 255 /\ 256 * hi + lo = m
    <3>1. m \in Nat /\ m < 1000
      BY <1>5
    <3>2. \A n \in Nat : n < 1000 => n \div 256 \in 0 .. 3
      OBVIOUS
    <3>3. \A n \in Nat : n % 256 \in 0 .. 255 /\ 256 * (n \div 256) + (n % 256) = n
      OBVIOUS
    <3> QED BY <3>1, <3>2, <3>3
  <2>2. Word(m) = <<hi % 256, lo>>
    BY DEF Word
  <2> HIDE DEF hi, lo
  <2>3. hi % 256 = hi
    BY <2>1
  <2>4. Word(m) = <<hi, lo>>
    BY <2>2, <2>3
  <2>5. hi \in Byte /\ lo \in Byte
    BY <2>1 DEF Byte
  <2>6. Word(m) \in Seq(Byte) /\ Len(Word(m)) = 2 /\ Word(m)[1] = hi /\ Word(m)[2] = lo
    BY <2>4, <2>5
  <2> QED BY <2>1, <2>6 DEF WordValue
<1>7. Mirrored(m, Digits(b)) = b
  <2>1. /\ Mirrored(m, 0) = 0
        /\ Mirrored(m, 1) = m % 10
        /\ Mirrored(m, 2) = 10 * (m % 10) + ((m \div 10) % 10)
        /\ Mirrored(m, 3) = 100 * (m % 10) + 10 * ((m \div 10) % 10)
                            + (((m \div 10) \div 10) % 10)
    <3>1. m \in Nat
      BY <1>5
    <3> QED BY <3>1, MirroredDigits
  <2>2. CASE b < 10
    BY <1>1, <1>3, <1>4, <2>1, <2>2
  <2>3. CASE b >= 10 /\ b < 100
    <3>1. m = 10 * x + y /\ Digits(b) = 2
      BY <1>1, <1>2, <1>4, <2>3
    <3>2. m % 10 = y /\ (m \div 10) % 10 = x
      BY <1>3, <3>1
    <3> QED BY <1>3, <2>1, <2>3, <3>1, <3>2
  <2>4. CASE b >= 100
    <3>1. m = 100 * x + 10 * y + z /\ Digits(b) = 3
      BY <1>1, <1>2, <1>4, <2>4
    <3>2. m % 10 = z /\ (m \div 10) % 10 = y /\ ((m \div 10) \div 10) % 10 = x
      BY <1>3, <3>1
    <3> QED BY <1>3, <2>1, <3>1, <3>2
  <2> QED BY <1>2, <2>2, <2>3, <2>4
<1>8. b % 256 = b /\ Digits(b) \in 0 .. 3
  BY <1>1, <1>2
<1> QED BY <1>6, <1>7, <1>8

LEMMA OneThenTwo ==
  ASSUME NEW d, NEW x, NEW y
  PROVE  <<d>> \o <<x, y>> = <<d, x, y>>
<1> DEFINE D == {d, x, y}
           s == <<d>>
           t == <<x, y>>
           u == <<d, x, y>>
<1>1. s \in Seq(D) /\ t \in Seq(D) /\ u \in Seq(D)
  OBVIOUS
<1>2. Len(s) = 1 /\ Len(t) = 2 /\ Len(u) = 3
  OBVIOUS
<1>3. u[1] = s[1] /\ u[2] = t[1] /\ u[3] = t[2]
  OBVIOUS
<1> HIDE DEF D, s, t, u
<1>4. /\ s \o t \in Seq(D)
      /\ Len(s \o t) = Len(s) + Len(t)
      /\ \A i \in 1 .. Len(s) + Len(t) :
            (s \o t)[i] = IF i <= Len(s) THEN s[i] ELSE t[i - Len(s)]
  BY <1>1, ConcatProperties
<1>5. Len(s \o t) = Len(u) /\ \A i \in 1 .. Len(s \o t) : (s \o t)[i] = u[i]
  <2>1. Len(s \o t) = Len(u) /\ Len(u) = 3
    BY <1>2, <1>4
  <2>2. (s \o t)[1] = s[1] /\ (s \o t)[2] = t[1] /\ (s \o t)[3] = t[2]
    BY <1>2, <1>4
  <2> QED BY <1>3, <2>1, <2>2
<1>6. s \o t = u
  BY <1>1, <1>4, <1>5, SeqEqual
<1> QED BY <1>6 DEF s, t, u

(* Mirror gives back every string (mirror_encoder_executor.cpp). *)
THEOREM MirrorInverts ==
    \A s \in Seq(Byte) : MirrorDecode(MirrorEncode(s)) = s
<1> SUFFICES ASSUME NEW s \in Seq(Byte) PROVE MirrorDecode(MirrorEncode(s)) = s
  OBVIOUS
<1> DEFINE e == MirrorEncode(s)
<1>1. Len(e) = 3 * Len(s) /\ Len(s) \in Nat
  BY DEF MirrorEncode
<1>2. ASSUME NEW i \in 1 .. Len(s)
      PROVE  /\ e[3 * i - 2] = Digits(s[i])
             /\ e[3 * i - 1] = Word(Mirrored(s[i], Digits(s[i])))[1]
             /\ e[3 * i] = Word(Mirrored(s[i], Digits(s[i])))[2]
  <2>1. /\ 3 * i - 2 \in 1 .. 3 * Len(s) /\ 3 * i - 1 \in 1 .. 3 * Len(s)
        /\ 3 * i \in 1 .. 3 * Len(s)
        /\ ((3 * i - 2) + 2) \div 3 = i /\ (((3 * i - 2) - 1) % 3) + 1 = 1
        /\ ((3 * i - 1) + 2) \div 3 = i /\ (((3 * i - 1) - 1) % 3) + 1 = 2
        /\ ((3 * i) + 2) \div 3 = i /\ (((3 * i) - 1) % 3) + 1 = 3
    BY <1>1
  <2>2. /\ e[3 * i - 2] = MirrorEncodeByte(s[i])[1]
        /\ e[3 * i - 1] = MirrorEncodeByte(s[i])[2]
        /\ e[3 * i] = MirrorEncodeByte(s[i])[3]
    BY <2>1 DEF MirrorEncode
  <2> DEFINE w == Word(Mirrored(s[i], Digits(s[i])))
  <2>3. MirrorEncodeByte(s[i]) = <<Digits(s[i])>> \o w
    BY DEF MirrorEncodeByte
  <2>4. w \in Seq(Byte) /\ Len(w) = 2
    BY MirrorByte
  <2> HIDE DEF w
  <2>5. w = <<w[1], w[2]>>
    BY <2>4
  <2>6. MirrorEncodeByte(s[i]) = <<Digits(s[i]), w[1], w[2]>>
    <3>1. <<Digits(s[i])>> \o <<w[1], w[2]>> = <<Digits(s[i]), w[1], w[2]>>
      BY OneThenTwo
    <3> QED BY <2>3, <2>5, <3>1, Zenon
  <2> QED BY <2>2, <2>6 DEF w
<1>3. MirrorDecode(e) =
        [i \in 1 .. Len(s) |-> Mirrored(WordValue(e[3 * i - 1], e[3 * i]), e[3 * i - 2]) % 256]
  <2>1. Len(e) \div 3 = Len(s)
    BY <1>1
  <2> QED BY <2>1 DEF MirrorDecode
<1> HIDE DEF e
<1>4. ASSUME NEW i \in 1 .. Len(s)
      PROVE  Mirrored(WordValue(e[3 * i - 1], e[3 * i]), e[3 * i - 2]) % 256 = s[i]
  BY <1>2, MirrorByte
<1>5. MirrorDecode(e) = [i \in 1 .. Len(s) |-> s[i]]
  BY <1>3, <1>4
<1> QED BY <1>5 DEF e

(* A number of digits that no byte has turns every number into zero: the     *)
(* loop goes on multiplying by ten, in sixteen bits of which eight are kept. *)
LEMMA MirroredTooFar ==
  ASSUME NEW number \in Nat, number < 65536, NEW digits \in Nat, digits >= 13
  PROVE  Mirrored(number, digits) % 256 = 0
<1>1. PICK after : /\ after[0] = [result |-> 0, value |-> number]
                   /\ \A i \in 0 .. digits : after[i] \in MirrorState
                   /\ \A i \in 1 .. digits : after[i] = MirrorStep(after[i - 1])
                   /\ Mirrored(number, digits) = after[digits].result
  BY MirroredLoop
<1> DEFINE r(i) == after[i].result
           v(i) == after[i].value
<1>2. \A i \in 0 .. digits : r(i) \in Nat /\ v(i) \in Nat
  BY <1>1 DEF MirrorState
<1>3. ASSUME NEW i \in Nat, i + 1 <= digits
      PROVE  r(i + 1) = (10 * r(i) + (v(i) % 10)) % 65536 /\ v(i + 1) = v(i) \div 10
  <2>1. i + 1 \in 1 .. digits /\ (i + 1) - 1 = i /\ i \in 0 .. digits
    BY <1>3
  <2>2. after[i + 1] = MirrorStep(after[i]) /\ after[i] \in MirrorState
    BY <1>1, <2>1
  <2> QED BY <2>2, MirrorStepType
<1>4. v(0) = number /\ Mirrored(number, digits) = r(digits)
  BY <1>1
<1> HIDE DEF r, v
<1>5. v(5) = 0
  <2>1. v(1) = v(0) \div 10 /\ v(2) = v(1) \div 10 /\ v(3) = v(2) \div 10
        /\ v(4) = v(3) \div 10 /\ v(5) = v(4) \div 10
    BY <1>3
  <2> QED BY <1>4, <2>1
<1> DEFINE S == {m \in Nat : 5 + m <= digits => v(5 + m) = 0}
<1>6. \A m \in Nat : m \in S
  <2>1. 0 \in S
    BY <1>5
  <2>2. ASSUME NEW m \in Nat, m \in S PROVE m + 1 \in S
    BY <1>3, <2>2
  <2> HIDE DEF S
  <2> QED BY <2>1, <2>2, SetInduction
<1>7. ASSUME NEW i \in Nat, i >= 5, i + 1 <= digits PROVE r(i + 1) = (10 * r(i)) % 65536
  <2>1. i - 5 \in S /\ 5 + (i - 5) = i
    BY <1>6, <1>7
  <2>2. v(i) = 0
    BY <1>7, <2>1
  <2>3. r(i) \in Nat
    BY <1>2, <1>7
  <2> QED BY <1>3, <1>7, <2>2, <2>3
<1>8. /\ r(6) % 2 = 0 /\ r(7) % 4 = 0 /\ r(8) % 8 = 0 /\ r(9) % 16 = 0
      /\ r(10) % 32 = 0 /\ r(11) % 64 = 0 /\ r(12) % 128 = 0 /\ r(13) % 256 = 0
  <2>1. /\ r(5) \in Nat /\ r(6) \in Nat /\ r(7) \in Nat /\ r(8) \in Nat /\ r(9) \in Nat
        /\ r(10) \in Nat /\ r(11) \in Nat /\ r(12) \in Nat
    BY <1>2
  <2>2. /\ r(6) = (10 * r(5)) % 65536 /\ r(7) = (10 * r(6)) % 65536
        /\ r(8) = (10 * r(7)) % 65536 /\ r(9) = (10 * r(8)) % 65536
        /\ r(10) = (10 * r(9)) % 65536 /\ r(11) = (10 * r(10)) % 65536
        /\ r(12) = (10 * r(11)) % 65536 /\ r(13) = (10 * r(12)) % 65536
    BY <1>7
  <2>3. ASSUME NEW x \in Nat
        PROVE  /\ ((10 * x) % 65536) % 2 = 0
               /\ x % 2 = 0 => ((10 * x) % 65536) % 4 = 0
               /\ x % 4 = 0 => ((10 * x) % 65536) % 8 = 0
               /\ x % 8 = 0 => ((10 * x) % 65536) % 16 = 0
               /\ x % 16 = 0 => ((10 * x) % 65536) % 32 = 0
               /\ x % 32 = 0 => ((10 * x) % 65536) % 64 = 0
               /\ x % 64 = 0 => ((10 * x) % 65536) % 128 = 0
               /\ x % 128 = 0 => ((10 * x) % 65536) % 256 = 0
    OBVIOUS
  <2>4. r(6) % 2 = 0
    BY <2>1, <2>2, <2>3
  <2>5. r(7) % 4 = 0
    BY <2>1, <2>2, <2>3, <2>4
  <2>6. r(8) % 8 = 0
    BY <2>1, <2>2, <2>3, <2>5
  <2>7. r(9) % 16 = 0
    BY <2>1, <2>2, <2>3, <2>6
  <2>8. r(10) % 32 = 0
    BY <2>1, <2>2, <2>3, <2>7
  <2>9. r(11) % 64 = 0
    <3>1. ((10 * r(10)) % 65536) % 64 = 0
      BY <2>1, <2>3, <2>8
    <3> QED BY <2>2, <3>1
  <2>10. r(12) % 128 = 0
    BY <2>1, <2>2, <2>3, <2>9
  <2>11. r(13) % 256 = 0
    BY <2>1, <2>2, <2>3, <2>10
  <2> QED BY <2>4, <2>5, <2>6, <2>7, <2>8, <2>9, <2>10, <2>11
<1> DEFINE T == {m \in Nat : 13 + m <= digits => r(13 + m) % 256 = 0}
<1>9. \A m \in Nat : m \in T
  <2>1. 0 \in T
    BY <1>8
  <2>2. ASSUME NEW m \in Nat, m \in T PROVE m + 1 \in T
    <3> SUFFICES ASSUME 13 + (m + 1) <= digits PROVE r(13 + (m + 1)) % 256 = 0
      OBVIOUS
    <3>1. r(13 + m) % 256 = 0 /\ r(13 + m) \in Nat
      BY <1>2, <2>2
    <3>2. r(13 + (m + 1)) = (10 * r(13 + m)) % 65536
      BY <1>7
    <3>3. \A x \in Nat : x % 256 = 0 => ((10 * x) % 65536) % 256 = 0
      OBVIOUS
    <3> QED BY <3>1, <3>2, <3>3
  <2> HIDE DEF T
  <2> QED BY <2>1, <2>2, SetInduction
<1>10. digits - 13 \in T /\ 13 + (digits - 13) = digits
  BY <1>9
<1>11. r(digits) % 256 = 0
  BY <1>10
<1> QED BY <1>4, <1>11
-----------------------------------------------------------------------------
(* What deserialize reads and what it refuses. *)

LEMMA Tags ==
    /\ Char.c = 99 /\ Char.e = 101 /\ Char.m = 109
    /\ Char.o = 111 /\ Char.s = 115 /\ Char.t = 116
  BY DEF Char

LEMMA Refused ==
  ASSUME NEW y,
         y # <<>> => /\ y[1] \notin {99, 101}
                     /\ y[1] = 109 => Len(y) < 2 + StampBytes
  PROVE  Deserialize(y) = None
  BY Tags DEF Deserialize, MeterageIn

LEMMA Int8Kept ==
  ASSUME NEW b \in Byte
  PROVE  Int8(b) % 256 = b
  BY DEF Byte, Int8

LEMMA ErrorChars ==
  ASSUME NEW b \in Range(ErrorChar),
         NEW e, e = CHOOSE x \in ErrorTypes : ErrorChar[x] = b
  PROVE  e \in ErrorTypes /\ ErrorChar[e] = b
<1>1. DOMAIN ErrorChar = ErrorTypes
  BY DEF ErrorChar, ErrorTypes
<1>2. \E x \in ErrorTypes : ErrorChar[x] = b
  BY <1>1 DEF Range
<1> QED BY <1>2

(* An accepted string starts with the serialized form of its message, which  *)
(* is read as the same message.                                              *)
LEMMA Accepted ==
  ASSUME NEW s \in Seq(Byte), Deserialize(s) # None,
         NEW w, w = Serialize(Deserialize(s))
  PROVE  /\ w \in Seq(Byte)
         /\ Len(w) <= Len(s) /\ w = SubSeq(s, 1, Len(w))
         /\ Deserialize(w) = Deserialize(s)
         /\ \/ w[1] \in {99, 101} /\ Len(w) = 2
            \/ w[1] = 109 /\ Len(w) = 2 + StampBytes
<1>1. s # <<>> /\ Len(s) \in Nat /\ s[1] \in {99, 101, 109}
  BY Tags DEF Deserialize
<1>2. ASSUME NEW n \in Nat, n >= 2, n <= Len(s), w = SubSeq(s, 1, n)
      PROVE  /\ w \in Seq(Byte) /\ Len(w) = n /\ \A i \in 1 .. n : w[i] = s[i]
             /\ w # <<>> /\ w[1] = s[1] /\ w[2] = s[2]
  <2>1. \A i \in 1 .. n : s[i] \in Byte
    BY <1>2
  <2>2. /\ SubSeq(s, 1, n) \in Seq(Byte)
        /\ Len(SubSeq(s, 1, n)) = n
        /\ \A i \in 1 .. n : SubSeq(s, 1, n)[i] = s[i]
    <3>1. /\ SubSeq(s, 1, n) \in Seq(Byte)
          /\ Len(SubSeq(s, 1, n)) = IF 1 <= n THEN n - 1 + 1 ELSE 0
          /\ \A i \in 1 .. n - 1 + 1 : SubSeq(s, 1, n)[i] = s[1 + i - 1]
      BY <2>1, SubSeqProperties
    <3> QED BY <1>2, <3>1
  <2> QED BY <1>2, <2>2
<1>3. CASE s[1] = 101
  <2>1. Deserialize(s) = ErrorIn(s)
    BY <1>1, <1>3, Tags DEF Deserialize
  <2> DEFINE e == CHOOSE x \in ErrorTypes : ErrorChar[x] = s[2]
  <2>2. Len(s) >= 2 /\ s[2] \in Range(ErrorChar) /\ Deserialize(s) = MessageError(e)
    BY <1>1, <2>1 DEF ErrorIn
  <2>3. e \in ErrorTypes /\ ErrorChar[e] = s[2]
    BY <2>2, ErrorChars
  <2> HIDE DEF e
  <2>4. w = <<101, s[2]>>
    BY <2>2, <2>3, Tags DEF Serialize, MessageError
  <2>5. w = SubSeq(s, 1, 2)
    BY <1>3, <2>2, <2>4
  <2>6. /\ w \in Seq(Byte) /\ Len(w) = 2 /\ w # <<>> /\ w[1] = 101 /\ w[2] = s[2]
    BY <1>2, <1>3, <2>2, <2>5
  <2>7. Deserialize(w) = ErrorIn(w)
    BY <2>6, Tags DEF Deserialize
  <2>8. ErrorIn(w) = ErrorIn(s)
    <3> DEFINE Named(b) == MessageError(CHOOSE x \in ErrorTypes : ErrorChar[x] = b)
    <3>1. ErrorIn(s) = Named(s[2])
      BY <1>1, <2>2 DEF ErrorIn
    <3>2. ErrorIn(w) = Named(w[2])
      <4>1. w[2] \in Range(ErrorChar)
        BY <2>2, <2>6, Zenon
      <4>2. ~ (Len(w) < 2)
        BY <2>6
      <4> QED BY <4>1, <4>2 DEF ErrorIn
    <3> HIDE DEF Named
    <3> QED BY <2>6, <3>1, <3>2
  <2> QED BY <2>1, <2>2, <2>5, <2>6, <2>7, <2>8
<1>4. CASE s[1] = 99
  <2>1. Deserialize(s) = CommandIn(s)
    BY <1>1, <1>4, Tags DEF Deserialize
  <2>2. Len(s) >= 2 /\ Deserialize(s) = MessageCommand(s[2])
    BY <1>1, <2>1 DEF CommandIn
  <2>3. Int8(s[2]) % 256 = s[2]
    <3>1. s[2] \in Byte
      BY <2>2
    <3> QED BY <3>1, Int8Kept
  <2>4. w = <<99, s[2]>>
    BY <2>2, <2>3, Tags DEF Serialize, MessageCommand
  <2>5. w = SubSeq(s, 1, 2)
    BY <1>4, <2>2, <2>4
  <2>6. /\ w \in Seq(Byte) /\ Len(w) = 2 /\ w # <<>> /\ w[1] = 99 /\ w[2] = s[2]
    BY <1>2, <1>4, <2>2, <2>5
  <2>7. Deserialize(w) = CommandIn(w)
    BY <2>6, Tags DEF Deserialize
  <2>8. CommandIn(w) = CommandIn(s)
    BY <1>1, <2>2, <2>6 DEF CommandIn
  <2> QED BY <2>1, <2>2, <2>5, <2>6, <2>7, <2>8
<1>5. CASE s[1] = 109
  <2>1. Deserialize(s) = MeterageIn(s)
    BY <1>1, <1>5, Tags DEF Deserialize
  <2> DEFINE n == 2 + StampBytes
             body == SubSeq(s, 2, 1 + StampBytes)
             t == FromBigEndian(body)
  <2>2. n \in Nat /\ n >= 3 /\ 1 + StampBytes = n - 1 /\ 2 + StampBytes = n
        /\ StampBytes = n - 2 /\ StampBytes \in Nat
    BY StampBytesAssumption
  <2>3. Len(s) >= n /\ Deserialize(s) = MessageMeterage(t, s[n])
    BY <1>1, <2>1, <2>2 DEF MeterageIn
  <2>4. body \in Seq(Byte) /\ Len(body) = n - 2 /\ \A i \in 1 .. n - 2 : body[i] = s[i + 1]
    <3>1. \A i \in 2 .. 1 + StampBytes : s[i] \in Byte
      BY <1>1, <2>2, <2>3
    <3>2. /\ body \in Seq(Byte)
          /\ Len(body) = IF 2 <= 1 + StampBytes THEN (1 + StampBytes) - 2 + 1 ELSE 0
          /\ \A i \in 1 .. (1 + StampBytes) - 2 + 1 : body[i] = s[2 + i - 1]
      BY <2>2, <3>1, SubSeqProperties
    <3> QED BY <2>2, <3>2
  <2>5. ToBigEndian(t, StampBytes) = body
    BY <2>2, <2>4, BigEndianInverts
  <2> DEFINE l == <<s[n]>>
             h == <<109>>
  <2>6. w = h \o body \o l
    <3> HIDE DEF t, body
    <3> DEFINE message == MessageMeterage(t, s[n])
    <3>1. message.type = "Meterage" /\ message.timeStamp = t /\ message.meterage = s[n]
      BY DEF MessageMeterage
    <3> HIDE DEF message
    <3>2. Serialize(message) = <<Char.m>> \o ToBigEndian(t, StampBytes) \o <<s[n]>>
      BY <3>1 DEF Serialize
    <3>3. w = <<Char.m>> \o body \o <<s[n]>>
      BY <2>3, <2>5, <3>2 DEF message
    <3> QED BY <3>3, Tags, Zenon
  <2>7. h \in Seq(Byte) /\ Len(h) = 1 /\ h[1] = 109 /\ l \in Seq(Byte) /\ Len(l) = 1 /\ l[1] = s[n]
    <3>1. s[n] \in Byte
      BY <1>1, <2>2, <2>3
    <3>2. 109 \in Byte
      BY DEF Byte
    <3> QED BY <3>1, <3>2
  <2>8. w = SubSeq(s, 1, n)
    <3> DEFINE hb == h \o body
               p == SubSeq(s, 1, n)
    <3> HIDE DEF l, h, body
    <3>1. /\ hb \in Seq(Byte) /\ Len(hb) = 1 + (n - 2)
          /\ \A i \in 1 .. 1 + (n - 2) : hb[i] = IF i <= 1 THEN h[i] ELSE body[i - 1]
      <4>1. /\ h \o body \in Seq(Byte)
            /\ Len(h \o body) = Len(h) + Len(body)
            /\ \A i \in 1 .. Len(h) + Len(body) :
                  (h \o body)[i] = IF i <= Len(h) THEN h[i] ELSE body[i - Len(h)]
        <5>1. h \in Seq(Byte) /\ body \in Seq(Byte)
          BY <2>4, <2>7
        <5> QED BY <5>1, ConcatProperties
      <4> QED BY <2>4, <2>7, <4>1
    <3>2. \A i \in 1 .. n - 1 : hb[i] = s[i]
      BY <1>5, <2>2, <2>4, <2>7, <3>1
    <3> HIDE DEF hb
    <3>3. /\ hb \o l \in Seq(Byte) /\ Len(hb \o l) = (1 + (n - 2)) + 1
          /\ \A i \in 1 .. (1 + (n - 2)) + 1 :
                (hb \o l)[i] = IF i <= 1 + (n - 2) THEN hb[i] ELSE l[i - (1 + (n - 2))]
      <4>1. /\ hb \o l \in Seq(Byte)
            /\ Len(hb \o l) = Len(hb) + Len(l)
            /\ \A i \in 1 .. Len(hb) + Len(l) :
                  (hb \o l)[i] = IF i <= Len(hb) THEN hb[i] ELSE l[i - Len(hb)]
        <5>1. hb \in Seq(Byte) /\ l \in Seq(Byte)
          BY <2>7, <3>1
        <5> QED BY <5>1, ConcatProperties
      <4> QED BY <2>7, <3>1, <4>1
    <3>4. \A i \in 1 .. n : (hb \o l)[i] = s[i]
      BY <2>2, <2>7, <3>2, <3>3
    <3>5. p \in Seq(Byte) /\ Len(p) = n /\ \A i \in 1 .. n : p[i] = s[i]
      <4>1. \A i \in 1 .. n : s[i] \in Byte
        BY <1>1, <2>2, <2>3
      <4>2. /\ p \in Seq(Byte)
            /\ Len(p) = IF 1 <= n THEN n - 1 + 1 ELSE 0
            /\ \A i \in 1 .. n - 1 + 1 : p[i] = s[1 + i - 1]
        BY <2>2, <4>1, SubSeqProperties
      <4> QED BY <2>2, <4>2
    <3>6. Len(hb \o l) = n
      BY <2>2, <3>3
    <3>7. w = hb \o l
      BY <2>6 DEF hb
    <3> HIDE DEF p
    <3>8. hb \o l = p
      <4>1. Len(hb \o l) = Len(p) /\ \A i \in 1 .. Len(hb \o l) : (hb \o l)[i] = p[i]
        BY <3>4, <3>5, <3>6
      <4> QED BY <3>3, <3>5, <4>1, SeqEqual
    <3> QED BY <3>7, <3>8 DEF p
  <2> HIDE DEF n, l, h
  <2>9. w \in Seq(Byte) /\ Len(w) = n /\ w # <<>> /\ w[1] = 109 /\ \A i \in 1 .. n : w[i] = s[i]
    BY <1>2, <1>5, <2>2, <2>3, <2>8
  <2>10. Deserialize(w) = MeterageIn(w)
    BY <2>9, Tags DEF Deserialize
  <2> DEFINE bodyOfW == SubSeq(w, 2, 1 + StampBytes)
  <2>11. bodyOfW = body
    <3>1. \A i \in 2 .. 1 + StampBytes : w[i] \in Byte
      BY <2>2, <2>9
    <3>2. /\ bodyOfW \in Seq(Byte)
          /\ Len(bodyOfW) = IF 2 <= 1 + StampBytes THEN (1 + StampBytes) - 2 + 1 ELSE 0
          /\ \A i \in 1 .. (1 + StampBytes) - 2 + 1 : bodyOfW[i] = w[2 + i - 1]
      BY <2>2, <3>1, SubSeqProperties
    <3>3. Len(bodyOfW) = n - 2 /\ \A i \in 1 .. n - 2 : bodyOfW[i] = w[i + 1]
      BY <2>2, <3>2
    <3> HIDE DEF bodyOfW, body
    <3>4. Len(bodyOfW) = Len(body) /\ \A i \in 1 .. Len(bodyOfW) : bodyOfW[i] = body[i]
      <4>1. Len(bodyOfW) = Len(body)
        BY <2>4, <3>3
      <4>2. ASSUME NEW i \in 1 .. n - 2 PROVE bodyOfW[i] = body[i]
        <5>1. i + 1 \in 1 .. n
          BY <2>2
        <5> QED BY <2>4, <2>9, <3>3, <5>1
      <4> QED BY <3>3, <4>1, <4>2
    <3> QED BY <2>4, <3>2, <3>4, SeqEqual
  <2>12. Deserialize(w) = MessageMeterage(t, s[n])
    <3>1. MeterageIn(w) = MessageMeterage(FromBigEndian(bodyOfW), w[n])
      BY <2>2, <2>9 DEF MeterageIn
    <3>2. w[n] = s[n]
      BY <2>2, <2>9
    <3> HIDE DEF bodyOfW, body
    <3> QED BY <2>10, <2>11, <3>1, <3>2, Zenon
  <2> QED BY <2>2, <2>3, <2>8, <2>9, <2>12
<1> QED BY <1>1, <1>3, <1>4, <1>5

(* The string that has arrived is one of bytes. *)
TextIsBytes == text \in Seq(Byte)

LEMMA TextStaysBytes == Spec => []TextIsBytes
<1>1. Init => TextIsBytes
  BY DEF Init, TextIsBytes
<1>2. TextIsBytes /\ [NextByte]_text => TextIsBytes'
  <2> SUFFICES ASSUME TextIsBytes, NextByte PROVE TextIsBytes'
    BY DEF TextIsBytes
  <2>1. PICK b \in Letters[Len(text) + 1] : text' = Append(text, b)
    BY DEF NextByte
  <2>2. Len(text) + 1 \in 1 .. Len(Letters)
    BY LettersAssumption DEF NextByte, TextIsBytes
  <2>3. b \in Byte
    BY <2>2, LettersAssumption
  <2> QED BY <2>1, <2>3 DEF TextIsBytes
<1> QED BY <1>1, <1>2, PTL DEF Spec

(* The serializer reads nothing but what it writes                           *)
(* (message_serializer.cpp:66-110).                                          *)
THEOREM AcceptedIsSerialized == Spec => []AcceptedWasSerialized
<1>1. TextIsBytes => AcceptedWasSerialized
  <2> SUFFICES ASSUME TextIsBytes, Deserialize(text) # None
               PROVE  IsPrefix(Serialize(Deserialize(text)), text)
    BY DEF AcceptedWasSerialized
  <2> DEFINE w == Serialize(Deserialize(text))
  <2>1. w \in Seq(Byte) /\ Len(w) <= Len(text) /\ w = SubSeq(text, 1, Len(w))
    BY Accepted DEF TextIsBytes
  <2> HIDE DEF w
  <2>2. SubSeq(w, 1, Len(w)) = w
    BY <2>1, SubSeqFull
  <2> QED BY <2>1, <2>2 DEF IsPrefix, w
<1> QED BY <1>1, TextStaysBytes, PTL

(* The case distinctions of encode and decode. *)
LEMMA Encodings ==
  ASSUME NEW x
  PROVE  /\ Encode("ROT3", x) = Rot3Encode(x)
         /\ Encode("Mirror", x) = MirrorEncode(x)
         /\ Encode("Multiply41", x) = Multiply41Encode(x)
         /\ Encode("Dummy", x) = x
         /\ Encode(Unselected, x) = <<>>
<1>1. Encode("ROT3", x) = Rot3Encode(x)
  BY Zenon DEF Encode, Unselected
<1>2. Encode("Mirror", x) = MirrorEncode(x)
  BY Zenon DEF Encode, Unselected
<1>3. Encode("Multiply41", x) = Multiply41Encode(x)
  BY Zenon DEF Encode, Unselected
<1>4. Encode("Dummy", x) = x
  BY Zenon DEF Encode, Unselected
<1>5. Encode(Unselected, x) = <<>>
  BY Zenon DEF Encode, Unselected
<1> QED BY <1>1, <1>2, <1>3, <1>4, <1>5

LEMMA Decodings ==
  ASSUME NEW x
  PROVE  /\ Decode("ROT3", x) = Rot3Decode(x)
         /\ Decode("Mirror", x) = MirrorDecode(x)
         /\ Decode("Multiply41", x) = Multiply41Decode(x)
         /\ Decode("Dummy", x) = x
         /\ Decode(Unselected, x) = <<>>
<1>1. Decode("ROT3", x) = Rot3Decode(x)
  BY Zenon DEF Decode, Unselected
<1>2. Decode("Mirror", x) = MirrorDecode(x)
  BY Zenon DEF Decode, Unselected
<1>3. Decode("Multiply41", x) = Multiply41Decode(x)
  BY Zenon DEF Decode, Unselected
<1>4. Decode("Dummy", x) = x
  BY Zenon DEF Decode, Unselected
<1>5. Decode(Unselected, x) = <<>>
  BY Zenon DEF Decode, Unselected
<1> QED BY <1>1, <1>2, <1>3, <1>4, <1>5

LEMMA AlgorithmInverts ==
  ASSUME NEW s \in Seq(Byte), NEW a \in Algorithms
  PROVE  Decode(a, Encode(a, s)) = s
<1>1. CASE a = "ROT3"
  <2>1. Decode(a, Encode(a, s)) = Rot3Decode(Rot3Encode(s))
    BY <1>1, Encodings, Decodings
  <2> QED BY <2>1, Rot3Inverts
<1>2. CASE a = "Mirror"
  <2>1. Decode(a, Encode(a, s)) = MirrorDecode(MirrorEncode(s))
    BY <1>2, Encodings, Decodings
  <2> QED BY <2>1, MirrorInverts
<1>3. CASE a = "Multiply41"
  <2>1. Decode(a, Encode(a, s)) = Multiply41Decode(Multiply41Encode(s))
    BY <1>3, Encodings, Decodings
  <2> QED BY <2>1, Multiply41Inverts
<1>4. CASE a = "Dummy"
  BY <1>4, Encodings, Decodings
<1> QED BY <1>1, <1>2, <1>3, <1>4 DEF Algorithms

(* The same algorithm gives back whatever text it has encoded.               *)
THEOREM AllExecutorsInvert == Spec => []ExecutorsInvert
<1>1. TextIsBytes => ExecutorsInvert
  <2> SUFFICES ASSUME TextIsBytes, NEW a \in Algorithms
               PROVE  Decode(a, Encode(a, text)) = text
    BY DEF ExecutorsInvert
  <2> QED BY AlgorithmInverts DEF TextIsBytes
<1> QED BY <1>1, TextStaysBytes, PTL
-----------------------------------------------------------------------------
(* What a stranger makes of a message.  The first byte of a serialized       *)
(* message is one of three; so is, after the encoding, the first byte of     *)
(* what is sent, and decoding with another algorithm never leads back to one *)
(* of the three, but once: Multiply41 may read the first two bytes of a      *)
(* command in clear as the tag of a meterage, with nothing after it.         *)
FirstBytes(a) == CASE a = "ROT3" -> {102, 104, 112}
                   [] a = "Mirror" -> {2, 3}
                   [] a = "Multiply41" -> {15, 16, 17}
                   [] a = "Dummy" -> {99, 101, 109}

LEMMA Rot3Firsts ==
  /\ Rot3EncodeByte(99) = 102 /\ Rot3EncodeByte(101) = 104 /\ Rot3EncodeByte(109) = 112
  /\ Rot3DecodeByte(2) = 255 /\ Rot3DecodeByte(3) = 0
  /\ Rot3DecodeByte(15) = 12 /\ Rot3DecodeByte(16) = 13 /\ Rot3DecodeByte(17) = 14
  /\ Rot3DecodeByte(99) = 96 /\ Rot3DecodeByte(101) = 98 /\ Rot3DecodeByte(109) = 106
<1>1. ASSUME NEW b \in 0 .. 124 PROVE Rot3EncodeByte(b) = b + 3
  BY DEF Rot3EncodeByte, Int8
<1>2. ASSUME NEW b \in 3 .. 127 PROVE Rot3DecodeByte(b) = b - 3
  BY DEF Rot3DecodeByte, Int8
<1>3. ASSUME NEW b \in 0 .. 2 PROVE Rot3DecodeByte(b) = b + 253
  BY DEF Rot3DecodeByte, Int8
<1> QED BY <1>1, <1>2, <1>3

LEMMA WordIsBytes ==
  \A n \in Nat : /\ Word(n) = <<(n \div 256) % 256, n % 256>>
                 /\ Word(n)[1] = (n \div 256) % 256 /\ Word(n)[1] \in Byte
                 /\ Word(n)[2] = n % 256 /\ Word(n)[2] \in Byte
<1> TAKE n \in Nat
<1>1. (n \div 256) % 256 \in 0 .. 255 /\ n % 256 \in 0 .. 255
  <2>1. n \div 256 \in Nat
    OBVIOUS
  <2>2. \A k \in Nat : k % 256 \in 0 .. 255
    OBVIOUS
  <2> QED BY <2>1, <2>2
<1> QED BY <1>1 DEF Word, Byte

LEMMA WordBytes == \A n \in Nat : Word(n)[1] \in Byte /\ Word(n)[2] \in Byte
<1> TAKE n \in Nat
<1> DEFINE hi == (n \div 256) % 256
           lo == n % 256
<1>1. Word(n)[1] = hi /\ hi \in Byte /\ Word(n)[2] = lo /\ lo \in Byte
  BY WordIsBytes
<1> HIDE DEF hi, lo
<1> QED BY <1>1

(* The start of what is sent. *)
LEMMA SentStart ==
  ASSUME NEW w \in Seq(Byte), Len(w) >= 2, w[1] \in {99, 101, 109},
         NEW a \in Algorithms, NEW x, x = Encode(a, w)
  PROVE  /\ Len(x) \in Nat /\ Len(x) >= 2
         /\ x[1] \in FirstBytes(a) /\ x[2] \in Byte /\ (Len(x) >= 3 => x[3] \in Byte)
<1>1. Len(w) \in Nat /\ w[1] \in Byte /\ w[2] \in Byte /\ (Len(w) >= 3 => w[3] \in Byte)
  OBVIOUS
<1>2. \A b \in Byte : b \in Nat /\ 41 * b \in Nat
  BY DEF Byte
<1>3. CASE a = "ROT3"
  <2>1. x = Rot3Encode(w) /\ FirstBytes(a) = {102, 104, 112}
    BY <1>3, Encodings DEF FirstBytes
  <2>2. /\ Len(x) = Len(w) /\ x[1] = Rot3EncodeByte(w[1]) /\ x[2] = Rot3EncodeByte(w[2])
        /\ Len(w) >= 3 => x[3] = Rot3EncodeByte(w[3])
    BY <1>1, <2>1 DEF Rot3Encode
  <2> QED BY <1>1, <2>1, <2>2, Rot3Byte, Rot3Firsts
<1>4. CASE a = "Mirror"
  <2>1. x = MirrorEncode(w) /\ FirstBytes(a) = {2, 3}
    BY <1>4, Encodings DEF FirstBytes
  <2>2. /\ Len(x) = 3 * Len(w)
        /\ x[1] = MirrorEncodeByte(w[1])[1] /\ x[2] = MirrorEncodeByte(w[1])[2]
        /\ x[3] = MirrorEncodeByte(w[1])[3]
    BY <1>1, <2>1 DEF MirrorEncode
  <2> DEFINE v == Word(Mirrored(w[1], Digits(w[1])))
  <2>3. v \in Seq(Byte) /\ Len(v) = 2
    BY <1>1, MirrorByte
  <2>4. MirrorEncodeByte(w[1]) = <<Digits(w[1]), v[1], v[2]>>
    <3>1. MirrorEncodeByte(w[1]) = <<Digits(w[1])>> \o v
      BY DEF MirrorEncodeByte
    <3> HIDE DEF v
    <3>2. v = <<v[1], v[2]>>
      BY <2>3
    <3>3. <<Digits(w[1])>> \o <<v[1], v[2]>> = <<Digits(w[1]), v[1], v[2]>>
      BY OneThenTwo
    <3> QED BY <3>1, <3>2, <3>3, Zenon
  <2> HIDE DEF v
  <2>5. v[1] \in Byte /\ v[2] \in Byte
    <3>1. 1 \in 1 .. Len(v) /\ 2 \in 1 .. Len(v)
      BY <2>3
    <3>2. v \in Seq(Byte)
      BY <2>3
    <3>3. \A i \in 1 .. Len(v) : v[i] \in Byte
      BY <3>2, ElementOfSeq
    <3> QED BY <3>1, <3>3, Zenon
  <2>6. Digits(w[1]) \in {2, 3}
    <3>1. Digits(w[1]) = IF w[1] = 0 THEN 0 ELSE IF w[1] < 10 THEN 1
                         ELSE IF w[1] < 100 THEN 2 ELSE 3
      BY <1>1, DigitsLoop
    <3> QED BY <3>1
  <2>7. x[1] = Digits(w[1]) /\ x[2] = v[1] /\ x[3] = v[2]
    BY <2>2, <2>4
  <2> QED BY <1>1, <2>1, <2>2, <2>5, <2>6, <2>7
<1>5. CASE a = "Multiply41"
  <2>1. x = Multiply41Encode(w) /\ FirstBytes(a) = {15, 16, 17}
    BY <1>5, Encodings DEF FirstBytes
  <2>2. /\ Len(x) = 2 * Len(w)
        /\ x[1] = Word(41 * w[1])[1] /\ x[2] = Word(41 * w[1])[2]
        /\ x[3] = Word(41 * w[2])[1]
    <3>1. /\ 1 \in 1 .. 2 * Len(w) /\ 2 \in 1 .. 2 * Len(w) /\ 3 \in 1 .. 2 * Len(w)
          /\ (1 + 1) \div 2 = 1 /\ ((1 - 1) % 2) + 1 = 1
          /\ (2 + 1) \div 2 = 1 /\ ((2 - 1) % 2) + 1 = 2
          /\ (3 + 1) \div 2 = 2 /\ ((3 - 1) % 2) + 1 = 1
      BY <1>1
    <3>2. x = [i \in 1 .. 2 * Len(w) |-> Word(41 * w[(i + 1) \div 2])[((i - 1) % 2) + 1]]
      BY <2>1 DEF Multiply41Encode
    <3>3. Len(x) = 2 * Len(w)
      BY <1>1, <3>2
    <3>4. x[1] = Word(41 * w[(1 + 1) \div 2])[((1 - 1) % 2) + 1]
      BY <3>1, <3>2, Zenon
    <3>5. x[2] = Word(41 * w[(2 + 1) \div 2])[((2 - 1) % 2) + 1]
      BY <3>1, <3>2, Zenon
    <3>6. x[3] = Word(41 * w[(3 + 1) \div 2])[((3 - 1) % 2) + 1]
      BY <3>1, <3>2, Zenon
    <3> QED BY <3>1, <3>3, <3>4, <3>5, <3>6
  <2> DEFINE m == 41 * w[1]
             n == 41 * w[2]
  <2>3. m \in Nat /\ n \in Nat
    BY <1>1, <1>2
  <2>4. (m \div 256) % 256 \in {15, 16, 17}
    OBVIOUS
  <2>5. /\ Word(m)[1] = (m \div 256) % 256
        /\ Word(m)[2] \in Byte /\ Word(n)[1] \in Byte
    <3> HIDE DEF m, n
    <3>1. Word(m)[2] \in Byte /\ Word(n)[1] \in Byte
      BY <2>3, WordBytes
    <3>2. Word(m) = <<(m \div 256) % 256, m % 256>>
      BY <2>3 DEF Word
    <3> QED BY <3>1, <3>2
  <2> QED BY <1>1, <2>1, <2>2, <2>4, <2>5
<1>6. CASE a = "Dummy"
  <2>1. x = w /\ FirstBytes(a) = {99, 101, 109}
    BY <1>6, Encodings DEF FirstBytes
  <2> QED BY <1>1, <2>1
<1> QED BY <1>3, <1>4, <1>5, <1>6 DEF Algorithms

(* The start of what is made of it. *)
LEMMA ReceivedStart ==
  ASSUME NEW x, Len(x) \in Nat, Len(x) >= 2
  PROVE  /\ Rot3Decode(x)[1] = Rot3DecodeByte(x[1])
         /\ Multiply41Decode(x)[1] = ((256 * x[1] + x[2]) \div 41) % 256
         /\ Len(Multiply41Decode(x)) = Len(x) \div 2
         /\ Len(x) = 2 => MirrorDecode(x) = <<>>
         /\ Len(x) >= 3 => MirrorDecode(x)[1] = Mirrored(256 * x[2] + x[3], x[1]) % 256
<1>1. Rot3Decode(x)[1] = Rot3DecodeByte(x[1])
  BY DEF Rot3Decode
<1>2. /\ Multiply41Decode(x)[1] = ((256 * x[1] + x[2]) \div 41) % 256
      /\ Len(Multiply41Decode(x)) = Len(x) \div 2
  <2>1. Len(x) \div 2 \in Nat /\ Len(x) \div 2 >= 1
    OBVIOUS
  <2> QED BY <2>1 DEF Multiply41Decode, WordValue
<1>3. ASSUME Len(x) = 2 PROVE MirrorDecode(x) = <<>>
  <2>1. Len(x) \div 3 = 0
    BY <1>3
  <2> QED BY <2>1 DEF MirrorDecode
<1>4. ASSUME Len(x) >= 3
      PROVE  MirrorDecode(x)[1] = Mirrored(256 * x[2] + x[3], x[1]) % 256
  <2>1. Len(x) \div 3 \in Nat /\ Len(x) \div 3 >= 1
    BY <1>4
  <2> QED BY <2>1 DEF MirrorDecode, WordValue
<1> QED BY <1>1, <1>2, <1>3, <1>4

LEMMA Strangers ==
  ASSUME NEW w \in Seq(Byte),
         \/ w[1] \in {99, 101} /\ Len(w) = 2
         \/ w[1] = 109 /\ Len(w) = 2 + StampBytes,
         NEW a \in Algorithms \cup {Unselected}, NEW b \in Algorithms \cup {Unselected},
         ~ (a = b /\ a # Unselected)
  PROVE  Deserialize(Decode(b, Encode(a, w))) = None
<1> DEFINE x == Encode(a, w)
           y == Decode(b, x)
<1> SUFFICES y # <<>> => y[1] \notin {99, 101} /\ (y[1] = 109 => Len(y) < 2 + StampBytes)
  BY Refused
<1>1. CASE b = Unselected
  BY <1>1, Decodings
<1>2. CASE a = Unselected
  <2>1. x = <<>>
    BY <1>2, Encodings
  <2>2. Rot3Decode(<<>>) = <<>> /\ MirrorDecode(<<>>) = <<>> /\ Multiply41Decode(<<>>) = <<>>
    <3>1. Len(<<>>) = 0 /\ 0 \div 3 = 0 /\ 0 \div 2 = 0
      OBVIOUS
    <3> QED BY <3>1 DEF Rot3Decode, MirrorDecode, Multiply41Decode
  <2>3. y = <<>>
    BY <2>1, <2>2, Decodings DEF Algorithms
  <2> QED BY <2>3
<1>3. CASE a \in Algorithms /\ b \in Algorithms
  <2>1. a # b
    BY <1>3 DEF Algorithms, Unselected
  <2>2. Len(w) \in Nat /\ Len(w) >= 2 /\ w[1] \in {99, 101, 109}
    <3>1. Len(w) \in Nat
      OBVIOUS
    <3>2. StampBytes \in Nat /\ 2 + StampBytes >= 2
      BY StampBytesAssumption
    <3> QED BY <3>1, <3>2
  <2>3. /\ Len(x) \in Nat /\ Len(x) >= 2
        /\ x[1] \in FirstBytes(a) /\ x[2] \in Byte /\ (Len(x) >= 3 => x[3] \in Byte)
    BY <1>3, <2>2, SentStart
  <2>4. x[1] \in {102, 104, 112, 2, 3, 15, 16, 17, 99, 101, 109}
        /\ (a # "Dummy" => x[1] \in {102, 104, 112, 2, 3, 15, 16, 17})
        /\ (a # "Mirror" => x[1] >= 13)
        /\ (a # "ROT3" => x[1] \in {2, 3, 15, 16, 17, 99, 101, 109})
        /\ (a # "Multiply41" => x[1] \in {102, 104, 112, 2, 3, 99, 101, 109})
    <3>1. /\ FirstBytes("ROT3") = {102, 104, 112} /\ FirstBytes("Mirror") = {2, 3}
          /\ FirstBytes("Multiply41") = {15, 16, 17}
          /\ FirstBytes("Dummy") = {99, 101, 109}
      BY DEF FirstBytes
    <3> QED BY <1>3, <2>3, <3>1 DEF Algorithms
  <2>5. a = "Dummy" => x = w
    BY Encodings
  <2> HIDE DEF x
  <2>6. x[2] \in 0 .. 255 /\ (Len(x) >= 3 => x[3] \in 0 .. 255)
    BY <2>3 DEF Byte
  <2>7. CASE b = "Dummy"
    <3>1. y = x
      BY <2>7, Decodings
    <3> QED BY <2>1, <2>4, <2>7, <3>1
  <2>8. CASE b = "ROT3"
    <3>1. y[1] = Rot3DecodeByte(x[1])
      <4>1. y = Rot3Decode(x)
        BY <2>8, Decodings
      <4> QED BY <2>3, <4>1, ReceivedStart
    <3>2. y[1] \notin {99, 101, 109}
      BY <2>1, <2>4, <2>8, <3>1, Rot3Firsts
    <3> QED BY <3>2
  <2>9. CASE b = "Mirror"
    <3>1. y = MirrorDecode(x)
      BY <2>9, Decodings
    <3>2. CASE Len(x) = 2
      <4>1. y = <<>>
        BY <2>3, <3>1, <3>2, ReceivedStart
      <4> QED BY <4>1
    <3>3. CASE Len(x) >= 3
      <4> DEFINE n == 256 * x[2] + x[3]
                 d == x[1]
      <4>1. y[1] = Mirrored(n, d) % 256
        BY <2>3, <3>1, <3>3, ReceivedStart
      <4>2. n \in Nat /\ n < 65536 /\ d \in Nat /\ d >= 13
        <5>1. ASSUME NEW k \in 0 .. 255, NEW l \in 0 .. 255
              PROVE  256 * k + l \in Nat /\ 256 * k + l < 65536
          OBVIOUS
        <5>2. n \in Nat /\ n < 65536
          <6> DEFINE k == x[2]
                     l == x[3]
          <6>1. k \in 0 .. 255 /\ l \in 0 .. 255
            BY <2>6, <3>3
          <6>2. n = 256 * k + l
            OBVIOUS
          <6> HIDE DEF k, l, n
          <6> QED BY <5>1, <6>1, <6>2
        <5>3. d \in Nat /\ d >= 13
          BY <2>1, <2>4, <2>9
        <5> QED BY <5>2, <5>3
      <4> HIDE DEF n, d
      <4>3. Mirrored(n, d) % 256 = 0
        BY <4>2, MirroredTooFar
      <4>4. y[1] = 0
        BY <4>1, <4>3
      <4> HIDE DEF y
      <4> QED BY <4>4
    <3>4. Len(x) = 2 \/ Len(x) >= 3
      <4>1. \A n \in Nat : n >= 2 => n = 2 \/ n >= 3
        OBVIOUS
      <4>2. Len(x) \in Nat /\ Len(x) >= 2
        BY <2>3
      <4> QED BY <4>1, <4>2, Zenon
    <3> QED BY <3>2, <3>3, <3>4
  <2>10. CASE b = "Multiply41"
    <3>1. /\ y[1] = ((256 * x[1] + x[2]) \div 41) % 256
          /\ Len(y) = Len(x) \div 2
      <4>1. y = Multiply41Decode(x)
        BY <2>10, Decodings
      <4> QED BY <2>3, <4>1, ReceivedStart
    <3> HIDE DEF y
    <3>2. x[1] \in {102, 104, 112, 2, 3, 99, 101, 109}
      BY <2>1, <2>4, <2>10
    <3>3. CASE x[1] # 99
      <4>1. ASSUME NEW k \in {102, 104, 112, 2, 3, 101, 109}, NEW l \in 0 .. 255
            PROVE  ((256 * k + l) \div 41) % 256 \notin {99, 101, 109}
        OBVIOUS
      <4>2. y[1] \notin {99, 101, 109}
        <5>1. x[1] \in {102, 104, 112, 2, 3, 101, 109} /\ x[2] \in 0 .. 255
          BY <2>6, <3>2, <3>3
        <5>2. ((256 * x[1] + x[2]) \div 41) % 256 \notin {99, 101, 109}
          <6> DEFINE k == x[1]
                     l == x[2]
          <6>1. k \in {102, 104, 112, 2, 3, 101, 109} /\ l \in 0 .. 255
            BY <5>1
          <6> HIDE DEF k, l
          <6>2. ((256 * k + l) \div 41) % 256 \notin {99, 101, 109}
            BY <4>1, <6>1
          <6> QED BY <6>2 DEF k, l
        <5> QED BY <3>1, <5>2
      <4> QED BY <4>2
    <3>4. CASE x[1] = 99
      <4>1. a = "Dummy"
        <5>1. /\ FirstBytes("ROT3") = {102, 104, 112} /\ FirstBytes("Mirror") = {2, 3}
              /\ FirstBytes("Multiply41") = {15, 16, 17}
          BY DEF FirstBytes
        <5> QED BY <1>3, <2>3, <3>4, <5>1 DEF Algorithms
      <4>2. Len(x) = 2
        BY <2>5, <3>4, <4>1
      <4>3. ASSUME NEW l \in 0 .. 255
            PROVE  ((256 * 99 + l) \div 41) % 256 \notin {99, 101}
        OBVIOUS
      <4>4. y[1] \notin {99, 101}
        <5>1. ((256 * 99 + x[2]) \div 41) % 256 \notin {99, 101}
          <6> DEFINE l == x[2]
          <6>1. l \in 0 .. 255
            BY <2>6
          <6> HIDE DEF l
          <6>2. ((256 * 99 + l) \div 41) % 256 \notin {99, 101}
            BY <4>3, <6>1
          <6> QED BY <6>2 DEF l
        <5>2. y[1] = ((256 * 99 + x[2]) \div 41) % 256
          BY <3>1, <3>4
        <5> QED BY <5>1, <5>2
      <4>5. Len(y) = 1
        BY <3>1, <4>2
      <4> QED BY <4>4, <4>5, StampBytesAssumption
    <3> QED BY <3>3, <3>4
  <2> QED BY <1>3, <2>7, <2>8, <2>9, <2>10 DEF Algorithms
<1> QED BY <1>1, <1>2, <1>3

(* A message arrives unharmed iff both ends have selected the same           *)
(* algorithm; otherwise it is taken for no message at all                    *)
(* (message_encoder.cpp:32-51).                                              *)
THEOREM StrangersUnderstandNothing == Spec => []OnlySameAlgorithmIsUnderstood
<1>1. TextIsBytes => OnlySameAlgorithmIsUnderstood
  <2> DEFINE message == Deserialize(text)
             w == Serialize(message)
  <2> SUFFICES ASSUME TextIsBytes, message # None,
                      NEW a \in Algorithms \cup {Unselected},
                      NEW b \in Algorithms \cup {Unselected}
               PROVE  Receive(b, Send(a, message)) =
                         IF a = b /\ a # Unselected THEN message ELSE None
    BY DEF OnlySameAlgorithmIsUnderstood
  <2>1. /\ w \in Seq(Byte)
        /\ Deserialize(w) = message
        /\ \/ w[1] \in {99, 101} /\ Len(w) = 2
           \/ w[1] = 109 /\ Len(w) = 2 + StampBytes
    BY Accepted DEF TextIsBytes
  <2>2. Receive(b, Send(a, message)) = Deserialize(Decode(b, Encode(a, w)))
    BY DEF Receive, Send
  <2> HIDE DEF w, message
  <2>3. CASE a = b /\ a # Unselected
    <3>1. Decode(b, Encode(a, w)) = w
      BY <2>1, <2>3, AlgorithmInverts
    <3> QED BY <2>1, <2>2, <2>3, <3>1
  <2>4. CASE ~ (a = b /\ a # Unselected)
    <3>1. Deserialize(Decode(b, Encode(a, w))) = None
      BY <2>1, <2>4, Strangers
    <3> QED BY <2>2, <2>4, <3>1
  <2> QED BY <2>3, <2>4
<1> QED BY <1>1, TextStaysBytes, PTL
=============================================================================
