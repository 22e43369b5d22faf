----------------------------- MODULE WeakPointers -----------------------------
(***************************************************************************)
(* What the comments of object.h promise: a SafeObjectPointer points at    *)
(* the object it was made for, and answers null once that object has been  *)
(* deleted, whatever is created at the same address afterwards.            *)
(***************************************************************************)
CONSTANTS Objects, Pointers, Null

VARIABLES
    objects,     \* the objects that exist
    target       \* what each pointer answers

weakVars == <<objects, target>>
-----------------------------------------------------------------------------
Init == objects = {} /\ target = [p \in Pointers |-> Null]

Create(o) == /\ o \notin objects
             /\ objects' = objects \cup {o}
             /\ UNCHANGED target

Delete(o) == /\ o \in objects
             /\ objects' = objects \ {o}
             /\ target' = [p \in Pointers |-> IF target[p] = o THEN Null ELSE target[p]]

Point(p, o) == /\ o \in objects \cup {Null}
               /\ target' = [target EXCEPT ![p] = o]
               /\ UNCHANGED objects

Next == \/ \E o \in Objects : Create(o) \/ Delete(o)
        \/ \E p \in Pointers, o \in Objects \cup {Null} : Point(p, o)

Spec == Init /\ [][Next]_weakVars
=============================================================================
