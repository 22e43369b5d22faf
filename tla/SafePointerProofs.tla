-------------------------- MODULE SafePointerProofs ---------------------------
(***************************************************************************)
(* The counted blocks of SafeObjectPointer are never deleted too early or  *)
(* too late, and implement WeakPointers, for every finite set of objects   *)
(* and pointers.                                                           *)
(*                                                                         *)
(* In every step one holder h lets go of the block it refers to and takes  *)
(* another one (either may be Null).  Repointed says what this does to the *)
(* number of holders of each block; JoinEffect and DetachEffect say what   *)
(* is done to the counters meanwhile.                                      *)
(***************************************************************************)
EXTENDS SafePointer, FiniteSetTheorems, TLAPS

PointerInv == TypeOK /\ CountsExact /\ BlocksKnowObjects

(* The holders of a block, and their number. *)
HoldersOf(b) == {h \in Holders : sharedData[h] = b}
Count(b) == Cardinality(HoldersOf(b))
-----------------------------------------------------------------------------
LEMMA CountedHolders ==
    ASSUME PointerInv, NEW b \in Blocks
    PROVE  Referring(b) = HoldersOf(b)
BY KindsDiffer DEF PointerInv, TypeOK, BlocksKnowObjects, Referring, HoldersOf, Holders

LEMMA HoldersFinite == \A S \in SUBSET Holders : IsFiniteSet(S) /\ Cardinality(S) \in Nat
BY HoldersAssumption, FS_Subset, FS_CardinalityType DEF Holders

LEMMA Repointed ==
    ASSUME TypeOK, NEW h \in Holders, NEW y,
           sharedData' = [sharedData EXCEPT ![h] = y]
    PROVE  \A b \in Blocks :
              /\ Count(b) \in Nat
              /\ b = sharedData[h] => Count(b) > 0
              /\ b = sharedData[h] /\ b # y => Count(b)' = Count(b) - 1
              /\ b # sharedData[h] /\ b = y => Count(b)' = Count(b) + 1
              /\ (b = sharedData[h] <=> b = y) => Count(b)' = Count(b)
<1> TAKE b \in Blocks
<1>1. /\ sharedData'[h] = y
      /\ \A g \in Holders : g # h => sharedData'[g] = sharedData[g]
  BY DEF TypeOK
<1>2. IsFiniteSet(HoldersOf(b)) /\ Count(b) \in Nat
  BY HoldersFinite DEF HoldersOf, Count
<1>3. h \in HoldersOf(b) <=> b = sharedData[h]
  BY DEF HoldersOf
<1>4. b = sharedData[h] => Count(b) > 0
  <2>1. b = sharedData[h] => HoldersOf(b) # {}
    BY <1>3
  <2>2. HoldersOf(b) # {} => Cardinality(HoldersOf(b)) # 0
    BY <1>2, FS_EmptySet
  <2> QED BY <1>2, <2>1, <2>2 DEF Count
<1>5. CASE b = sharedData[h] /\ b # y
  <2>1. HoldersOf(b)' = HoldersOf(b) \ {h}
    BY <1>1, <1>5 DEF HoldersOf
  <2>2. Cardinality(HoldersOf(b) \ {h}) = Cardinality(HoldersOf(b)) - 1
    BY <1>2, <1>3, <1>5, FS_RemoveElement
  <2> QED BY <1>2, <1>4, <1>5, <2>1, <2>2 DEF Count
<1>6. CASE b # sharedData[h] /\ b = y
  <2>1. HoldersOf(b)' = HoldersOf(b) \cup {h}
    BY <1>1, <1>6 DEF HoldersOf
  <2>2. Cardinality(HoldersOf(b) \cup {h}) = Cardinality(HoldersOf(b)) + 1
    BY <1>2, <1>3, <1>6, FS_AddElement
  <2> QED BY <1>2, <1>6, <2>1, <2>2 DEF Count
<1>7. CASE b = sharedData[h] <=> b = y
  <2>1. HoldersOf(b)' = HoldersOf(b)
    BY <1>1, <1>7 DEF HoldersOf
  <2> QED BY <1>2, <1>4, <1>7, <2>1 DEF Count
<1> QED BY <1>5, <1>6, <1>7
-----------------------------------------------------------------------------
LEMMA JoinEffect ==
    ASSUME NEW S, Null \notin S, NEW m \in [S -> Contents], NEW b \in S \cup {Null}
    PROVE  /\ Join(m, b) \in [S -> Contents]
           /\ \A c \in S :
                /\ Join(m, b)[c].object = m[c].object
                /\ Join(m, b)[c].refCounter = m[c].refCounter + (IF c = b THEN 1 ELSE 0)
<1>1. CASE b = Null
  BY <1>1 DEF Join, Contents
<1>2. CASE b # Null
  <2>1. Join(m, b) = [m EXCEPT ![b] = [m[b] EXCEPT !.refCounter = @ + 1]]
    BY <1>2 DEF Join
  <2>2. m[b] \in Contents
    BY <1>2
  <2>3. [m[b] EXCEPT !.refCounter = @ + 1] \in Contents
    BY <2>2 DEF Contents
  <2>4. Join(m, b) \in [S -> Contents]
    BY <2>1, <2>3
  <2>5. /\ Join(m, b)[b] = [m[b] EXCEPT !.refCounter = @ + 1]
        /\ \A c \in S : c # b => Join(m, b)[c] = m[c]
    BY <1>2, <2>1
  <2>6. \A c \in S : m[c].refCounter \in Nat
    BY DEF Contents
  <2>7. /\ Join(m, b)[b].object = m[b].object
        /\ Join(m, b)[b].refCounter = m[b].refCounter + 1
    BY <2>2, <2>5 DEF Contents
  <2>8. ASSUME NEW c \in S
        PROVE  /\ Join(m, b)[c].object = m[c].object
               /\ Join(m, b)[c].refCounter = m[c].refCounter + (IF c = b THEN 1 ELSE 0)
    <3>1. CASE c = b
      BY <2>7, <3>1
    <3>2. CASE c # b
      <4>1. Join(m, b)[c] = m[c]
        BY <2>5, <3>2
      <4> QED BY <2>6, <3>2, <4>1
    <3> QED BY <3>1, <3>2
  <2> QED BY <2>4, <2>8
<1> QED BY <1>1, <1>2

(* The blocks of S that detaching from block b leaves. *)
Left(S, m, b) == {c \in S : c = b => m[c].refCounter # 1}

LEMMA DetachEffect ==
    ASSUME NEW S, Null \notin S, NEW m \in [S -> Contents], NEW b \in S \cup {Null},
           b # Null => m[b].refCounter > 0
    PROVE  /\ Detach(m, b) \in [Left(S, m, b) -> Contents]
           /\ \A c \in Left(S, m, b) :
                /\ Detach(m, b)[c].object = m[c].object
                /\ Detach(m, b)[c].refCounter = m[c].refCounter - (IF c = b THEN 1 ELSE 0)
<1> DEFINE T == Left(S, m, b)
<1> USE DEF Left
<1>0. \A c \in S : m[c] \in Contents /\ m[c].refCounter \in Nat
  BY DEF Contents
<1>1. CASE b = Null
  <2>1. Detach(m, b) = m /\ T = S
    BY <1>1 DEF Detach
  <2> QED BY <1>0, <1>1, <2>1
<1>2. CASE b # Null /\ m[b].refCounter = 1
  <2>1. Detach(m, b) = [c \in S \ {b} |-> m[c]]
    BY <1>2 DEF Detach
  <2>2. T = S \ {b}
    BY <1>2
  <2> QED BY <1>0, <2>1, <2>2
<1>3. CASE b # Null /\ m[b].refCounter # 1
  <2>1. Detach(m, b) = [m EXCEPT ![b] = [m[b] EXCEPT !.refCounter = @ - 1]]
    BY <1>3 DEF Detach
  <2>2. m[b].refCounter - 1 \in Nat
    BY <1>0, <1>3
  <2>3. /\ [m[b] EXCEPT !.refCounter = @ - 1] \in Contents
        /\ [m[b] EXCEPT !.refCounter = @ - 1].object = m[b].object
        /\ [m[b] EXCEPT !.refCounter = @ - 1].refCounter = m[b].refCounter - 1
    BY <1>0, <1>3, <2>2 DEF Contents
  <2>4. T = S
    BY <1>3
  <2>5. /\ Detach(m, b) \in [S -> Contents]
        /\ Detach(m, b)[b] = [m[b] EXCEPT !.refCounter = @ - 1]
        /\ \A c \in S : c # b => Detach(m, b)[c] = m[c]
    BY <1>3, <2>1, <2>3
  <2>6. ASSUME NEW c \in T
        PROVE  /\ Detach(m, b)[c].object = m[c].object
               /\ Detach(m, b)[c].refCounter = m[c].refCounter - (IF c = b THEN 1 ELSE 0)
    <3>1. CASE c = b
      BY <2>3, <2>5, <3>1
    <3>2. CASE c # b
      <4>1. Detach(m, b)[c] = m[c]
        BY <2>4, <2>5, <3>2
      <4> QED BY <1>0, <2>4, <3>2, <4>1
    <3> QED BY <3>1, <3>2
  <2> QED BY <2>4, <2>5, <2>6
<1> QED BY <1>1, <1>2, <1>3
-----------------------------------------------------------------------------
HeldIsCounted == \A b \in Blocks, h \in Holders : sharedData[h] = b => Count(b) > 0

LEMMA HeldIsCountedAlways == HeldIsCounted
<1> SUFFICES ASSUME NEW b \in Blocks, NEW h \in Holders, sharedData[h] = b
             PROVE  Count(b) > 0
  BY DEF HeldIsCounted
<1>1. IsFiniteSet(HoldersOf(b)) /\ Count(b) \in Nat /\ h \in HoldersOf(b)
  BY HoldersFinite DEF HoldersOf, Count
<1>2. Cardinality(HoldersOf(b)) # 0
  BY <1>1, FS_EmptySet
<1> QED BY <1>1, <1>2 DEF Count

LEMMA HeldIsCountedNext == HeldIsCounted'
BY HeldIsCountedAlways, PTL

(* Holder h goes from its block to block y, in memory m, which may differ    *)
(* from the present one in what the blocks say of their objects.             *)
LEMMA Moved ==
    ASSUME PointerInv, NEW h \in Holders, NEW y \in Allocated \cup {Null},
           NEW m \in [Allocated -> Contents],
           \A b \in Allocated : m[b].refCounter = memory[b].refCounter,
           sharedData' = [sharedData EXCEPT ![h] = y],
           memory' = Detach(Join(m, y), sharedData[h])
    PROVE  /\ memory' \in [Allocated' -> Contents]
           /\ Allocated' \subseteq Allocated
           /\ \A b \in Allocated' : /\ memory'[b].object = m[b].object
                                    /\ memory'[b].refCounter = Count(b)'
                                    /\ memory'[b].refCounter > 0
           /\ \A g \in Holders : sharedData'[g] \in Allocated' \cup {Null}
<1> DEFINE x == sharedData[h]
           j == Join(m, y)
<1>1. /\ Allocated \subseteq Blocks /\ Null \notin Allocated
      /\ \A g \in Holders : sharedData[g] \in Allocated \cup {Null}
  BY KindsDiffer DEF PointerInv, TypeOK, CountsExact, BlocksKnowObjects
<1>2. \A b \in Allocated : /\ memory[b].refCounter = Count(b) /\ Count(b) \in Nat
                           /\ Count(b) > 0
  BY <1>1, CountedHolders, Repointed DEF PointerInv, CountsExact, Count
<1>3. \A b \in Blocks :
              /\ b = x /\ b # y => Count(b)' = Count(b) - 1
              /\ b # x /\ b = y => Count(b)' = Count(b) + 1
              /\ (b = x <=> b = y) => Count(b)' = Count(b)
  BY Repointed DEF PointerInv
<1>4. /\ j \in [Allocated -> Contents]
      /\ \A c \in Allocated :
           /\ j[c].object = m[c].object
           /\ j[c].refCounter = Count(c) + (IF c = y THEN 1 ELSE 0)
  <2>1. /\ j \in [Allocated -> Contents]
        /\ \A c \in Allocated :
             /\ j[c].object = m[c].object
             /\ j[c].refCounter = m[c].refCounter + (IF c = y THEN 1 ELSE 0)
    BY <1>1, JoinEffect
  <2> QED BY <1>2, <2>1
<1>5. x \in Allocated \cup {Null} /\ (x # Null => j[x].refCounter > 0)
  BY <1>1, <1>2, <1>4
<1> DEFINE T == Left(Allocated, j, x)
<1>6. /\ memory' \in [T -> Contents]
      /\ \A c \in T :
           /\ memory'[c].object = j[c].object
           /\ memory'[c].refCounter = j[c].refCounter - (IF c = x THEN 1 ELSE 0)
  <2>1. memory' = Detach(j, x)
    OBVIOUS
  <2>2. j \in [Allocated -> Contents]
    BY <1>4
  <2> HIDE DEF j, x
  <2>3. /\ Detach(j, x) \in [T -> Contents]
        /\ \A c \in T :
             /\ Detach(j, x)[c].object = j[c].object
             /\ Detach(j, x)[c].refCounter = j[c].refCounter - (IF c = x THEN 1 ELSE 0)
    <3>1. /\ Null \notin Allocated /\ x \in Allocated \cup {Null}
          /\ x # Null => j[x].refCounter > 0
      BY <1>1, <1>5
    <3> QED BY <2>2, <3>1, DetachEffect
  <2> QED BY <2>1, <2>3
<1>7. Allocated' = T
  BY <1>6 DEF Allocated
<1>8. \A b \in T : memory'[b].refCounter = Count(b)' /\ Count(b)' > 0
  <2> TAKE b \in T
  <2>1. b \in Allocated /\ b \in Blocks
    BY <1>1 DEF Left
  <2>2. Count(b) \in Nat /\ Count(b) > 0
    BY <1>2, <2>1
  <2>3. /\ memory'[b].refCounter = j[b].refCounter - (IF b = x THEN 1 ELSE 0)
        /\ j[b].refCounter = Count(b) + (IF b = y THEN 1 ELSE 0)
        /\ b = x => j[b].refCounter # 1
    BY <1>4, <1>6, <2>1 DEF Left
  <2> HIDE DEF x, j
  <2> QED BY <1>3, <2>1, <2>2, <2>3
<1>9. ASSUME NEW b \in Allocated, b \notin T PROVE Count(b)' = 0
  <2>1. /\ b = x /\ b \in Blocks /\ Count(b) \in Nat
        /\ Count(b) + (IF b = y THEN 1 ELSE 0) = 1 /\ Count(b) > 0
    BY <1>1, <1>2, <1>4, <1>9 DEF Left
  <2>2. b # y /\ Count(b) = 1
    BY <2>1
  <2> QED BY <1>3, <2>1, <2>2
<1>10. ASSUME NEW g \in Holders PROVE sharedData'[g] \in T \cup {Null}
  <2>1. sharedData'[g] = IF g = h THEN y ELSE sharedData[g]
    BY DEF PointerInv, TypeOK
  <2>2. sharedData'[g] \in Allocated \cup {Null}
    BY <1>1, <2>1
  <2>3. ASSUME NEW b \in Allocated, sharedData'[g] = b PROVE b \in T
    <3>1. Count(b)' > 0
      BY <1>1, <2>3, HeldIsCountedNext DEF HeldIsCounted
    <3> HIDE DEF T
    <3> QED BY <1>9, <3>1
  <2> HIDE DEF T
  <2> QED BY <2>2, <2>3
<1> QED BY <1>1, <1>4, <1>6, <1>7, <1>8, <1>10 DEF Left
-----------------------------------------------------------------------------
(* The invariant follows from what Moved says of the counters, once it is    *)
(* known which holders exist.                                                *)
LEMMA CountsFollow ==
    ASSUME TypeOK', BlocksKnowObjects',
           \A b \in Allocated' : /\ memory'[b].refCounter = Count(b)'
                                 /\ memory'[b].refCounter > 0,
           \A g \in Holders : sharedData'[g] \in Allocated' \cup {Null}
    PROVE  CountsExact'
<1>1. ASSUME NEW b \in Allocated' PROVE Referring(b)' = HoldersOf(b)'
  BY <1>1, KindsDiffer DEF TypeOK, BlocksKnowObjects, Referring, HoldersOf, Holders
<1>2. objects' \cup pointers' \subseteq Holders
  BY DEF TypeOK, Holders
<1> QED BY <1>1, <1>2 DEF CountsExact, Count

(* What a pointer p that goes to block y leaves true, and what it answers.   *)
LEMMA PointerMoves ==
    ASSUME PointerInv, NEW p \in Pointers, NEW y \in Allocated \cup {Null},
           objects' = objects, pointers' \in SUBSET Pointers,
           pointers \ {p} \subseteq pointers', p \notin pointers' => y = Null,
           sharedData' = [sharedData EXCEPT ![p] = y],
           memory' = Detach(Join(memory, y), sharedData[p])
    PROVE  /\ PointerInv'
           /\ Target' = [Target EXCEPT ![p] = IF y = Null THEN Null
                                              ELSE memory[y].object]
<1>1. /\ memory \in [Allocated -> Contents] /\ p \in Holders
      /\ Allocated \subseteq Blocks /\ Null \notin Allocated
      /\ sharedData \in [Holders -> Blocks \cup {Null}]
      /\ \A h \in Holders : sharedData[h] \in Allocated \cup {Null}
  BY KindsDiffer DEF PointerInv, TypeOK, CountsExact, BlocksKnowObjects, Holders
<1>2. /\ memory' \in [Allocated' -> Contents]
      /\ Allocated' \subseteq Allocated
      /\ \A b \in Allocated' : /\ memory'[b].object = memory[b].object
                               /\ memory'[b].refCounter = Count(b)'
                               /\ memory'[b].refCounter > 0
      /\ \A g \in Holders : sharedData'[g] \in Allocated' \cup {Null}
  BY <1>1, Moved
<1>3. /\ sharedData' \in [Holders -> Blocks \cup {Null}]
      /\ sharedData'[p] = y
      /\ \A g \in Holders : g # p => sharedData'[g] = sharedData[g]
  BY <1>1
<1>4. TypeOK'
  BY <1>1, <1>2, <1>3 DEF PointerInv, TypeOK
<1>5. BlocksKnowObjects'
  <2>1. ASSUME NEW o \in objects
        PROVE  sharedData'[o] \in Allocated' /\ memory'[sharedData'[o]].object = o
    <3>1. o \in Holders /\ o # p
      BY KindsDiffer DEF PointerInv, TypeOK, Holders
    <3>2. /\ sharedData'[o] = sharedData[o] /\ sharedData[o] \in Allocated
          /\ memory[sharedData[o]].object = o
      BY <1>3, <3>1 DEF PointerInv, BlocksKnowObjects
    <3>3. sharedData[o] \in Allocated'
      BY <1>1, <1>2, <3>1, <3>2
    <3> QED BY <1>2, <3>2, <3>3
  <2>2. ASSUME NEW b \in Allocated', memory'[b].object # Null
        PROVE  memory'[b].object \in objects /\ sharedData'[memory'[b].object] = b
    <3>1. /\ memory'[b].object = memory[b].object /\ b \in Allocated
      BY <1>2, <2>2
    <3>2. memory[b].object \in objects /\ sharedData[memory[b].object] = b
      BY <2>2, <3>1 DEF PointerInv, BlocksKnowObjects
    <3>3. memory[b].object \in Holders /\ memory[b].object # p
      BY <3>2, KindsDiffer DEF PointerInv, TypeOK, Holders
    <3> QED BY <1>3, <3>1, <3>2, <3>3
  <2>3. ASSUME NEW h \in Holders \ (objects \cup pointers') PROVE sharedData'[h] = Null
    BY <1>3 DEF PointerInv, BlocksKnowObjects
  <2> QED BY <2>1, <2>2, <2>3 DEF BlocksKnowObjects
<1>6. CountsExact'
  BY <1>2, <1>4, <1>5, CountsFollow
<1>7. ASSUME NEW q \in Pointers
      PROVE  Target'[q] = [Target EXCEPT ![p] = IF y = Null THEN Null
                                                ELSE memory[y].object][q]
  <2>0. q \in Holders
    BY DEF Holders
  <2>1. Target'[q] = IF sharedData'[q] = Null THEN Null ELSE memory'[sharedData'[q]].object
    BY DEF Target, Data
  <2>2. Target[q] = IF sharedData[q] = Null THEN Null ELSE memory[sharedData[q]].object
    BY DEF Target, Data
  <2>3. [Target EXCEPT ![p] = IF y = Null THEN Null ELSE memory[y].object][q] =
        IF q = p THEN (IF y = Null THEN Null ELSE memory[y].object) ELSE Target[q]
    BY DEF Target
  <2>4. sharedData'[q] # Null =>
           memory'[sharedData'[q]].object = memory[sharedData'[q]].object
    BY <1>2, <2>0
  <2> QED BY <1>3, <2>0, <2>1, <2>2, <2>3, <2>4
<1>8. Target' = [Target EXCEPT ![p] = IF y = Null THEN Null ELSE memory[y].object]
  <2>1. Target' = [q \in Pointers |-> Target'[q]]
    BY DEF Target
  <2>2. [Target EXCEPT ![p] = IF y = Null THEN Null ELSE memory[y].object] =
        [q \in Pointers |->
           [Target EXCEPT ![p] = IF y = Null THEN Null ELSE memory[y].object][q]]
    BY DEF Target
  <2> QED BY <1>7, <2>1, <2>2
<1> QED BY <1>4, <1>5, <1>6, <1>8 DEF PointerInv

(* A block that is not Null and answers an object is that object's block.    *)
LEMMA DataIsObject ==
    ASSUME PointerInv, NEW q \in Pointers, Data(q) # Null
    PROVE  /\ Data(q) \in objects
           /\ sharedData[Data(q)] = sharedData[q]
           /\ sharedData[q] \in Allocated
           /\ memory[sharedData[q]].object = Data(q)
<1>1. sharedData[q] # Null /\ Data(q) = memory[sharedData[q]].object /\ q \in Holders
  BY DEF Data, Holders
<1>2. sharedData[q] \in Allocated
  BY <1>1 DEF PointerInv, CountsExact, BlocksKnowObjects
<1> QED BY <1>1, <1>2 DEF PointerInv, BlocksKnowObjects
-----------------------------------------------------------------------------
(* One lemma for each action: it keeps the invariant, and is a step of       *)
(* WeakPointers.                                                             *)
LEMMA PointerPoints ==
    ASSUME PointerInv, NEW p \in Pointers, NEW y \in Allocated \cup {Null},
           objects' = objects, pointers' \in SUBSET Pointers,
           pointers \ {p} \subseteq pointers', p \notin pointers' => y = Null,
           sharedData' = [sharedData EXCEPT ![p] = y],
           memory' = Detach(Join(memory, y), sharedData[p])
    PROVE  PointerInv' /\ Weak!Next
<1> DEFINE o == IF y = Null THEN Null ELSE memory[y].object
<1>1. PointerInv' /\ Target' = [Target EXCEPT ![p] = o]
  BY PointerMoves
<1>2. o \in objects \cup {Null}
  BY DEF PointerInv, BlocksKnowObjects
<1>3. o \in Objects \cup {Null}
  BY <1>2 DEF PointerInv, TypeOK
<1>4. Weak!Point(p, o)
  <2> HIDE DEF o
  <2> QED BY <1>1, <1>2 DEF Weak!Point
<1> QED BY <1>1, <1>3, <1>4 DEF Weak!Next

LEMMA NewPointerStep ==
    ASSUME PointerInv, NEW p \in Pointers, NEW o \in Objects \cup {Null}, NewPointer(p, o)
    PROVE  PointerInv' /\ Weak!Next
<1> DEFINE y == IF o = Null THEN Null ELSE sharedData[o]
<1>1. y \in Allocated \cup {Null}
  BY DEF NewPointer, PointerInv, BlocksKnowObjects
<1>2. sharedData[p] = Null
  BY KindsDiffer DEF NewPointer, PointerInv, TypeOK, BlocksKnowObjects, Holders
<1>3. memory' = Detach(Join(memory, y), sharedData[p])
  BY <1>2 DEF NewPointer, Detach
<1>4. /\ sharedData' = [sharedData EXCEPT ![p] = y] /\ objects' = objects
      /\ pointers' = pointers \cup {p} /\ pointers' \in SUBSET Pointers
  BY DEF NewPointer, PointerInv, TypeOK
<1> HIDE DEF y
<1> QED BY <1>1, <1>3, <1>4, PointerPoints

LEMMA CopyPointerStep ==
    ASSUME PointerInv, NEW p \in Pointers, NEW q \in Pointers, CopyPointer(p, q)
    PROVE  PointerInv' /\ Weak!Next
<1> DEFINE y == sharedData[Data(q)]
<1>1. y \in Allocated \cup {Null}
  BY DataIsObject DEF CopyPointer
<1>2. sharedData[p] = Null
  BY KindsDiffer DEF CopyPointer, PointerInv, TypeOK, BlocksKnowObjects, Holders
<1>3. memory' = Detach(Join(memory, y), sharedData[p])
  BY <1>2 DEF CopyPointer, Detach
<1>4. /\ sharedData' = [sharedData EXCEPT ![p] = y] /\ objects' = objects
      /\ pointers' = pointers \cup {p} /\ pointers' \in SUBSET Pointers
  BY DEF CopyPointer, PointerInv, TypeOK
<1> HIDE DEF y
<1> QED BY <1>1, <1>3, <1>4, PointerPoints

LEMMA AssignStep ==
    ASSUME PointerInv, NEW p \in Pointers, NEW q \in Pointers, Assign(p, q)
    PROVE  PointerInv' /\ Weak!Next
<1> DEFINE y == sharedData[Data(q)]
<1>1. y \in Allocated \cup {Null}
  BY DataIsObject DEF Assign
<1>2. /\ memory' = Detach(Join(memory, y), sharedData[p])
      /\ sharedData' = [sharedData EXCEPT ![p] = y] /\ objects' = objects
      /\ pointers' = pointers /\ p \in pointers /\ pointers' \in SUBSET Pointers
  BY DEF Assign, PointerInv, TypeOK
<1> HIDE DEF y
<1> QED BY <1>1, <1>2, PointerPoints

LEMMA DeletePointerStep ==
    ASSUME PointerInv, NEW p \in Pointers, DeletePointer(p)
    PROVE  PointerInv' /\ Weak!Next
<1>1. memory' = Detach(Join(memory, Null), sharedData[p])
  BY DEF DeletePointer, Join
<1>2. /\ sharedData' = [sharedData EXCEPT ![p] = Null] /\ objects' = objects
      /\ pointers' = pointers \ {p} /\ pointers' \in SUBSET Pointers
  BY DEF DeletePointer, PointerInv, TypeOK
<1> QED BY <1>1, <1>2, PointerPoints

LEMMA DeleteObjectStep ==
    ASSUME PointerInv, NEW o \in Objects, DeleteObject(o)
    PROVE  PointerInv' /\ Weak!Next
<1> DEFINE x == sharedData[o]
           m == [memory EXCEPT ![x].object = Null]
<1>1. /\ memory \in [Allocated -> Contents] /\ o \in Holders /\ o \in objects
      /\ Allocated \subseteq Blocks /\ Null \notin Allocated
      /\ sharedData \in [Holders -> Blocks \cup {Null}]
      /\ \A h \in Holders : sharedData[h] \in Allocated \cup {Null}
      /\ x \in Allocated /\ memory[x].object = o
  BY KindsDiffer
     DEF DeleteObject, PointerInv, TypeOK, CountsExact, BlocksKnowObjects, Holders
<1>2. /\ m \in [Allocated -> Contents]
      /\ m[x].object = Null
      /\ \A b \in Allocated : m[b].refCounter = memory[b].refCounter
      /\ \A b \in Allocated : b # x => m[b] = memory[b]
  <2>1. m = [memory EXCEPT ![x] = [memory[x] EXCEPT !.object = Null]]
    OBVIOUS
  <2>2. memory[x] \in Contents
    BY <1>1
  <2> HIDE DEF x, m
  <2>3. /\ [memory[x] EXCEPT !.object = Null] \in Contents
        /\ [memory[x] EXCEPT !.object = Null].object = Null
        /\ [memory[x] EXCEPT !.object = Null].refCounter = memory[x].refCounter
    BY <2>2 DEF Contents
  <2>4. /\ m[x] = [memory[x] EXCEPT !.object = Null]
        /\ \A b \in Allocated : b # x => m[b] = memory[b]
    BY <1>1, <2>1
  <2>5. m \in [Allocated -> Contents]
    BY <1>1, <2>1, <2>3
  <2> QED BY <2>3, <2>4, <2>5
<1>3. /\ memory' = Detach(Join(m, Null), sharedData[o])
      /\ sharedData' = [sharedData EXCEPT ![o] = Null]
      /\ objects' = objects \ {o} /\ pointers' = pointers
  BY DEF DeleteObject, Join
<1> HIDE DEF m
<1>4. /\ memory' \in [Allocated' -> Contents]
      /\ Allocated' \subseteq Allocated
      /\ \A b \in Allocated' : /\ memory'[b].object = m[b].object
                               /\ memory'[b].refCounter = Count(b)'
                               /\ memory'[b].refCounter > 0
      /\ \A g \in Holders : sharedData'[g] \in Allocated' \cup {Null}
  BY <1>1, <1>2, <1>3, Moved
<1>5. /\ sharedData' \in [Holders -> Blocks \cup {Null}]
      /\ sharedData'[o] = Null
      /\ \A g \in Holders : g # o => sharedData'[g] = sharedData[g]
  BY <1>1, <1>3
<1>6. TypeOK'
  BY <1>1, <1>3, <1>4, <1>5 DEF PointerInv, TypeOK
<1>7. BlocksKnowObjects'
  <2>1. ASSUME NEW a \in objects'
        PROVE  sharedData'[a] \in Allocated' /\ memory'[sharedData'[a]].object = a
    <3>1. a \in Holders /\ a # o /\ a \in objects /\ a # Null
      BY <1>3, KindsDiffer DEF PointerInv, TypeOK, Holders
    <3>2. /\ sharedData'[a] = sharedData[a] /\ sharedData[a] \in Allocated
          /\ memory[sharedData[a]].object = a
      BY <1>5, <3>1 DEF PointerInv, BlocksKnowObjects
    <3>3. sharedData[a] \in Allocated' /\ sharedData[a] # x
      BY <1>1, <1>4, <3>1, <3>2
    <3>4. m[sharedData[a]] = memory[sharedData[a]]
      BY <1>2, <3>2, <3>3
    <3> QED BY <1>4, <3>2, <3>3, <3>4
  <2>2. ASSUME NEW b \in Allocated', memory'[b].object # Null
        PROVE  memory'[b].object \in objects' /\ sharedData'[memory'[b].object] = b
    <3>1. memory'[b].object = m[b].object /\ b \in Allocated /\ b # x
      BY <1>2, <1>4, <2>2
    <3>2. memory'[b].object = memory[b].object
      BY <1>2, <3>1
    <3>3. memory[b].object \in objects /\ sharedData[memory[b].object] = b
      BY <2>2, <3>1, <3>2 DEF PointerInv, BlocksKnowObjects
    <3>4. memory[b].object \in Holders /\ memory[b].object # o
      BY <3>1, <3>3 DEF PointerInv, TypeOK, Holders
    <3> QED BY <1>3, <1>5, <3>2, <3>3, <3>4
  <2>3. ASSUME NEW h \in Holders \ (objects' \cup pointers') PROVE sharedData'[h] = Null
    BY <1>3, <1>5 DEF PointerInv, BlocksKnowObjects
  <2> QED BY <2>1, <2>2, <2>3 DEF BlocksKnowObjects
<1>8. CountsExact'
  BY <1>4, <1>6, <1>7, CountsFollow
<1>9. Target' = [p \in Pointers |-> IF Target[p] = o THEN Null ELSE Target[p]]
  <2>1. ASSUME NEW p \in Pointers
        PROVE  Data(p)' = IF Data(p) = o THEN Null ELSE Data(p)
    <3>1. p \in Holders /\ p # o /\ sharedData'[p] = sharedData[p] /\ o # Null
      BY <1>5, KindsDiffer DEF Holders
    <3>2. CASE sharedData[p] = Null
      BY <3>1, <3>2 DEF Data
    <3>3. CASE sharedData[p] # Null
      <4>1. sharedData[p] \in Allocated' /\ sharedData[p] \in Allocated
        BY <1>1, <1>4, <3>1, <3>3
      <4>2. Data(p)' = m[sharedData[p]].object /\ Data(p) = memory[sharedData[p]].object
        BY <1>4, <3>1, <3>3, <4>1 DEF Data
      <4>3. memory[sharedData[p]].object = o <=> sharedData[p] = x
        BY <1>1, <3>1, <4>1 DEF PointerInv, BlocksKnowObjects
      <4> QED BY <1>2, <4>1, <4>2, <4>3
    <3> QED BY <3>2, <3>3
  <2>2. Target' = [p \in Pointers |-> Data(p)']
    BY DEF Target
  <2>3. \A p \in Pointers : Target[p] = Data(p)
    BY DEF Target
  <2> QED BY <2>1, <2>2, <2>3
<1>10. Weak!Delete(o)
  BY <1>1, <1>3, <1>9 DEF Weak!Delete
<1> QED BY <1>6, <1>7, <1>8, <1>10 DEF PointerInv, Weak!Next
LEMMA NewObjectStep ==
    ASSUME PointerInv, NEW o \in Objects, NEW b \in Blocks, NewObject(o, b)
    PROVE  PointerInv' /\ Weak!Next
<1>1. /\ memory \in [Allocated -> Contents] /\ o \in Holders
      /\ o \notin objects /\ o # Null /\ b \notin Allocated /\ b # Null
      /\ Allocated \subseteq Blocks /\ Null \notin Allocated
      /\ sharedData \in [Holders -> Blocks \cup {Null}]
      /\ \A h \in Holders : sharedData[h] \in Allocated \cup {Null}
      /\ sharedData[o] = Null
  BY KindsDiffer
     DEF NewObject, PointerInv, TypeOK, CountsExact, BlocksKnowObjects, Holders
<1> DEFINE fresh == [object |-> o, refCounter |-> 1]
<1>2. /\ sharedData' = [sharedData EXCEPT ![o] = b]
      /\ memory' = [c \in Allocated \cup {b} |-> IF c = b THEN fresh ELSE memory[c]]
      /\ objects' = objects \cup {o} /\ pointers' = pointers
  BY DEF NewObject
<1>3. /\ fresh \in Contents /\ fresh.object = o /\ fresh.refCounter = 1
  BY DEF Contents
<1> HIDE DEF fresh
<1>4. /\ Allocated' = Allocated \cup {b}
      /\ memory' \in [Allocated' -> Contents]
      /\ memory'[b] = fresh
      /\ \A c \in Allocated : memory'[c] = memory[c]
  <2>1. Allocated' = Allocated \cup {b}
    BY <1>2 DEF Allocated
  <2> HIDE DEF Allocated
  <2> QED BY <1>1, <1>2, <1>3, <2>1
<1>5. /\ sharedData' \in [Holders -> Blocks \cup {Null}]
      /\ sharedData'[o] = b
      /\ \A g \in Holders : g # o => sharedData'[g] = sharedData[g]
  BY <1>1, <1>2
<1>6. TypeOK'
  BY <1>1, <1>2, <1>4, <1>5 DEF PointerInv, TypeOK
<1>7. BlocksKnowObjects'
  <2>1. ASSUME NEW a \in objects'
        PROVE  sharedData'[a] \in Allocated' /\ memory'[sharedData'[a]].object = a
    <3>1. CASE a = o
      BY <1>3, <1>4, <1>5, <3>1
    <3>2. CASE a # o
      <4>1. a \in objects /\ a \in Holders
        BY <1>2, <3>2 DEF PointerInv, TypeOK, Holders
      <4>2. /\ sharedData[a] \in Allocated /\ memory[sharedData[a]].object = a
            /\ sharedData'[a] = sharedData[a]
        BY <1>5, <3>2, <4>1 DEF PointerInv, BlocksKnowObjects
      <4> QED BY <1>4, <4>2
    <3> QED BY <3>1, <3>2
  <2>2. ASSUME NEW c \in Allocated', memory'[c].object # Null
        PROVE  memory'[c].object \in objects' /\ sharedData'[memory'[c].object] = c
    <3>1. CASE c = b
      BY <1>2, <1>3, <1>4, <1>5, <3>1
    <3>2. CASE c # b
      <4>1. c \in Allocated /\ memory'[c] = memory[c]
        BY <1>4, <3>2
      <4>2. memory[c].object \in objects /\ sharedData[memory[c].object] = c
        BY <2>2, <4>1 DEF PointerInv, BlocksKnowObjects
      <4>3. memory[c].object \in Holders /\ memory[c].object # o
        BY <1>1, <4>2 DEF PointerInv, TypeOK, Holders
      <4> QED BY <1>2, <1>5, <4>1, <4>2, <4>3
    <3> QED BY <3>1, <3>2
  <2>3. ASSUME NEW h \in Holders \ (objects' \cup pointers') PROVE sharedData'[h] = Null
    BY <1>2, <1>5 DEF PointerInv, BlocksKnowObjects
  <2> QED BY <2>1, <2>2, <2>3 DEF BlocksKnowObjects
<1>8. ASSUME NEW c \in Allocated'
      PROVE  memory'[c].refCounter = Count(c)' /\ memory'[c].refCounter > 0
  <2>1. c \in Blocks
    BY <1>1, <1>4
  <2>2. CASE c = b
    <3>1. HoldersOf(c) = {}
      BY <1>1, <2>2 DEF HoldersOf
    <3>2. Count(c) = 0
      BY <3>1, FS_EmptySet DEF Count
    <3>3. Count(c)' = Count(c) + 1
      BY <1>1, <1>2, <2>1, <2>2, Repointed DEF PointerInv
    <3> QED BY <1>3, <1>4, <2>2, <3>2, <3>3
  <2>3. CASE c # b
    <3>1. c \in Allocated /\ memory'[c] = memory[c] /\ c # sharedData[o]
      BY <1>1, <1>4, <2>3
    <3>2. memory[c].refCounter = Count(c) /\ memory[c].refCounter > 0
      BY <2>1, <3>1, CountedHolders DEF PointerInv, CountsExact, Count
    <3>3. c = sharedData[o] <=> c = b
      BY <2>3, <3>1
    <3>4. TypeOK /\ o \in Holders /\ sharedData' = [sharedData EXCEPT ![o] = b]
      BY <1>1, <1>2 DEF PointerInv
    <3>5. Count(c)' = Count(c)
      BY <2>1, <3>3, <3>4, Repointed
    <3> QED BY <3>1, <3>2, <3>5
  <2> QED BY <2>2, <2>3
<1>9. \A g \in Holders : sharedData'[g] \in Allocated' \cup {Null}
  BY <1>1, <1>4, <1>5
<1>10. CountsExact'
  BY <1>6, <1>7, <1>8, <1>9, CountsFollow
<1>11. Target' = Target
  <2>1. ASSUME NEW p \in Pointers PROVE Data(p)' = Data(p)
    <3>1. p \in Holders /\ sharedData'[p] = sharedData[p]
      BY <1>5, KindsDiffer DEF Holders
    <3>2. sharedData[p] # Null => memory'[sharedData[p]] = memory[sharedData[p]]
      BY <1>1, <1>4, <3>1
    <3> QED BY <3>1, <3>2 DEF Data
  <2>2. Target' = [p \in Pointers |-> Data(p)'] /\ Target = [p \in Pointers |-> Data(p)]
    BY DEF Target
  <2> QED BY <2>1, <2>2
<1>12. Weak!Create(o)
  BY <1>1, <1>2, <1>11 DEF Weak!Create
<1> QED BY <1>6, <1>7, <1>10, <1>12 DEF PointerInv, Weak!Next
-----------------------------------------------------------------------------
LEMMA InitStep == Init => PointerInv /\ Weak!Init
<1> SUFFICES ASSUME Init PROVE PointerInv /\ Weak!Init
  OBVIOUS
<1>1. Allocated = {} /\ objects = {} /\ pointers = {}
      /\ sharedData = [h \in Holders |-> Null] /\ memory = [b \in {} |-> 0]
  BY DEF Init, Allocated
<1>2. TypeOK
  BY <1>1 DEF TypeOK, Allocated
<1>3. CountsExact /\ BlocksKnowObjects
  BY <1>1 DEF CountsExact, BlocksKnowObjects
<1>4. Weak!Init
  BY <1>1 DEF Weak!Init, Target, Data, Holders
<1> QED BY <1>2, <1>3, <1>4 DEF PointerInv

LEMMA NextStep ==
    PointerInv /\ [Next]_vars => PointerInv' /\ [Weak!Next]_(Weak!weakVars)
<1> SUFFICES ASSUME PointerInv, [Next]_vars
             PROVE  PointerInv' /\ [Weak!Next]_(Weak!weakVars)
  OBVIOUS
<1>1. ASSUME NEW o \in Objects, DeleteObject(o) PROVE PointerInv' /\ Weak!Next
  BY <1>1, DeleteObjectStep
<1>2. ASSUME NEW o \in Objects, NEW b \in Blocks, NewObject(o, b)
      PROVE  PointerInv' /\ Weak!Next
  BY <1>2, NewObjectStep
<1>3. ASSUME NEW p \in Pointers, DeletePointer(p) PROVE PointerInv' /\ Weak!Next
  BY <1>3, DeletePointerStep
<1>4. ASSUME NEW p \in Pointers, NEW o \in Objects \cup {Null}, NewPointer(p, o)
      PROVE  PointerInv' /\ Weak!Next
  BY <1>4, NewPointerStep
<1>5. ASSUME NEW p \in Pointers, NEW q \in Pointers, CopyPointer(p, q)
      PROVE  PointerInv' /\ Weak!Next
  BY <1>5, CopyPointerStep
<1>6. ASSUME NEW p \in Pointers, NEW q \in Pointers, Assign(p, q)
      PROVE  PointerInv' /\ Weak!Next
  BY <1>6, AssignStep
<1>7. CASE UNCHANGED vars
  <2>1. PointerInv'
    <3>1. UNCHANGED <<objects, pointers, sharedData, memory>> /\ Allocated' = Allocated
      BY <1>7 DEF vars, Allocated
    <3>2. TypeOK' /\ BlocksKnowObjects'
      BY <3>1 DEF PointerInv, TypeOK, BlocksKnowObjects
    <3>3. \A b : Referring(b)' = Referring(b)
      BY <3>1 DEF Referring
    <3>4. CountsExact'
      BY <3>1, <3>3 DEF PointerInv, CountsExact
    <3> QED BY <3>2, <3>4 DEF PointerInv
  <2>2. UNCHANGED Weak!weakVars
    BY <1>7 DEF vars, Weak!weakVars, Target, Data
  <2> QED BY <2>1, <2>2
<1> QED BY <1>1, <1>2, <1>3, <1>4, <1>5, <1>6, <1>7 DEF Next

LEMMA Invariant == Spec => []PointerInv
<1>1. PointerInv /\ [Next]_vars => PointerInv'
  BY NextStep
<1>2. Init => PointerInv
  BY InitStep
<1> QED BY <1>1, <1>2, PTL DEF Spec

(* No block is deleted while somebody refers to it, and none stays behind    *)
(* when nobody does, whatever is created, copied and deleted.                *)
THEOREM BlocksCounted == Spec => []CountsExact
<1>1. PointerInv => CountsExact
  BY DEF PointerInv
<1> QED BY <1>1, Invariant, PTL

(* Every pointer answers its object until that is deleted and null from then *)
(* on, also when another object is created at the same address.              *)
THEOREM PointersAreWeak == Spec => RefinesWeakPointers
<1>1. Init => Weak!Init
  BY InitStep
<1>2. PointerInv /\ [Next]_vars => [Weak!Next]_(Weak!weakVars)
  BY NextStep
<1> QED BY <1>1, <1>2, Invariant, PTL DEF Spec, RefinesWeakPointers, Weak!Spec
=============================================================================
