---------------------------- MODULE MCSafePointer -----------------------------
(* Two addresses of objects and three pointers.  A block outlives its      *)
(* object while a pointer refers to it: up to five blocks at a time.       *)
EXTENDS SafePointer, TLC

CONSTANTS o1, o2, p1, p2, p3, b1, b2, b3, b4, b5

TwoObjects == {o1, o2}
ThreePointers == {p1, p2, p3}
FiveBlocks == {b1, b2, b3, b4, b5}

Symmetric == Permutations(FiveBlocks)
=============================================================================
