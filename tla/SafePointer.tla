----------------------------- MODULE SafePointer ------------------------------
(***************************************************************************)
(* Object and SafeObjectPointer (servermock/object.{h,cpp}): an object and *)
(* the pointers at it share a block with the object's address and a count  *)
(* of those that refer to the block.                                       *)
(*                                                                         *)
(* Objects, pointers and blocks are addresses, used again after a delete.  *)
(* To copy a pointer that answers null dereferences null (object.cpp:47);  *)
(* callers copy only pointers they have just made of an object, as         *)
(* connectionchannel.cpp:68 does, so Copy and Assign have that guard.      *)
(***************************************************************************)
EXTENDS Naturals, FiniteSets

CONSTANTS
    Objects,      \* objects of classes derived from Object
    Pointers,     \* objects of class SafeObjectPointer
    Blocks,       \* objects of struct SharedData
    Null          \* null pointer

ASSUME HoldersAssumption == IsFiniteSet(Objects \cup Pointers)
ASSUME KindsDiffer == Objects \cap Pointers = {} /\ Null \notin Objects \cup Blocks

VARIABLES
    objects,        \* the objects that exist
    pointers,       \* the pointers that exist
    sharedData,     \* SharedDataHolder::m_sharedData of both
    memory          \* the blocks that are allocated, with their contents

vars == <<objects, pointers, sharedData, memory>>

Holders == Objects \cup Pointers
Allocated == DOMAIN memory

Contents == [object : Objects \cup {Null}, refCounter : Nat]

TypeOK ==
    /\ objects \subseteq Objects
    /\ pointers \subseteq Pointers
    /\ sharedData \in [Holders -> Blocks \cup {Null}]
    /\ Allocated \subseteq Blocks
    /\ memory \in [Allocated -> Contents]
-----------------------------------------------------------------------------
(* The effect of join and detach on the blocks. *)

Join(m, b) ==
    IF b = Null THEN m ELSE [m EXCEPT ![b].refCounter = @ + 1]

Detach(m, b) ==
    IF b = Null THEN m
    ELSE IF m[b].refCounter = 1 THEN [c \in DOMAIN m \ {b} |-> m[c]]
    ELSE [m EXCEPT ![b].refCounter = @ - 1]

(* SafeObjectPointer::data. *)
Data(p) == IF sharedData[p] = Null THEN Null ELSE memory[sharedData[p]].object
-----------------------------------------------------------------------------
Init ==
    /\ objects = {}
    /\ pointers = {}
    /\ sharedData = [h \in Holders |-> Null]
    /\ memory = [b \in {} |-> 0]

(* A block from the heap, and the object as the first that refers to it. *)
NewObject(o, b) ==
    /\ o \notin objects
    /\ b \notin Allocated
    /\ objects' = objects \cup {o}
    /\ sharedData' = [sharedData EXCEPT ![o] = b]
    /\ memory' = [c \in Allocated \cup {b} |->
                    IF c = b THEN [object |-> o, refCounter |-> 1] ELSE memory[c]]
    /\ UNCHANGED pointers

(* Mutant: the block is not told. *)
DeleteObjectQuietly(o) ==
    /\ o \in objects
    /\ objects' = objects \ {o}
    /\ memory' = Detach(memory, sharedData[o])
    /\ sharedData' = [sharedData EXCEPT ![o] = Null]
    /\ UNCHANGED pointers

DeleteObject(o) ==
    /\ o \in objects
    /\ objects' = objects \ {o}
    /\ memory' = Detach([memory EXCEPT ![sharedData[o]].object = Null], sharedData[o])
    /\ sharedData' = [sharedData EXCEPT ![o] = Null]
    /\ UNCHANGED pointers

(* The constructor from Object*, with an object or with the null default. *)
NewPointer(p, o) ==
    /\ p \notin pointers
    /\ o \in objects \cup {Null}
    /\ LET b == IF o = Null THEN Null ELSE sharedData[o]
       IN  /\ memory' = Join(memory, b)
           /\ sharedData' = [sharedData EXCEPT ![p] = b]
    /\ pointers' = pointers \cup {p}
    /\ UNCHANGED objects

(* The copy constructor joins the block of the object, found through it. *)
CopyPointer(p, q) ==
    /\ p \notin pointers
    /\ q \in pointers
    /\ Data(q) # Null
    /\ memory' = Join(memory, sharedData[Data(q)])
    /\ sharedData' = [sharedData EXCEPT ![p] = sharedData[Data(q)]]
    /\ pointers' = pointers \cup {p}
    /\ UNCHANGED objects

(* Mutant: the swapped copy is not destroyed. *)
AssignKeepsOld(p, q) ==
    /\ p \in pointers
    /\ q \in pointers \ {p}
    /\ Data(q) # Null
    /\ memory' = Join(memory, sharedData[Data(q)])
    /\ sharedData' = [sharedData EXCEPT ![p] = sharedData[Data(q)]]
    /\ UNCHANGED <<objects, pointers>>

(* operator=: make a copy, swap the blocks, and destroy the copy. *)
Assign(p, q) ==
    /\ p \in pointers
    /\ q \in pointers \ {p}
    /\ Data(q) # Null
    /\ memory' = Detach(Join(memory, sharedData[Data(q)]), sharedData[p])
    /\ sharedData' = [sharedData EXCEPT ![p] = sharedData[Data(q)]]
    /\ UNCHANGED <<objects, pointers>>

DeletePointer(p) ==
    /\ p \in pointers
    /\ pointers' = pointers \ {p}
    /\ memory' = Detach(memory, sharedData[p])
    /\ sharedData' = [sharedData EXCEPT ![p] = Null]
    /\ UNCHANGED objects

Next ==
    \/ \E o \in Objects : DeleteObject(o) \/ \E b \in Blocks : NewObject(o, b)
    \/ \E p \in Pointers :
          \/ DeletePointer(p)
          \/ \E o \in Objects \cup {Null} : NewPointer(p, o)
          \/ \E q \in Pointers : CopyPointer(p, q) \/ Assign(p, q)

Spec == Init /\ [][Next]_vars
-----------------------------------------------------------------------------
(* The objects and pointers that refer to block b. *)
Referring(b) == {h \in objects \cup pointers : sharedData[h] = b}

(* The count of every block is right: no block is deleted while somebody     *)
(* refers to it, and none stays behind (object.cpp:5-22).                    *)
CountsExact ==
    /\ \A h \in objects \cup pointers : sharedData[h] \in Allocated \cup {Null}
    /\ \A b \in Allocated : /\ memory[b].refCounter = Cardinality(Referring(b))
                            /\ memory[b].refCounter > 0

(* An object exists iff its block says so, and nothing that does not exist   *)
(* refers to a block (object.cpp:24-36).                                     *)
BlocksKnowObjects ==
    /\ \A o \in objects : /\ sharedData[o] \in Allocated
                          /\ memory[sharedData[o]].object = o
    /\ \A b \in Allocated : memory[b].object # Null =>
          memory[b].object \in objects /\ sharedData[memory[b].object] = b
    /\ \A h \in Holders \ (objects \cup pointers) : sharedData[h] = Null

Target == [p \in Pointers |-> Data(p)]

Weak == INSTANCE WeakPointers WITH target <- Target

(* With counted blocks the pointers are what object.h promises: null as soon *)
(* as their object is deleted, and never another object at its address.      *)
RefinesWeakPointers == Weak!Spec
=============================================================================
