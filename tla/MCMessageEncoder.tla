--------------------------- MODULE MCMessageEncoder ---------------------------
(* The built-in algorithms and one more, with two executors for each name, *)
(* so that each may be replaced and its address used again.                *)
EXTENDS MessageEncoder

CONSTANTS rot1, rot2, mirror1, mirror2, multiply1, multiply2, dummy1, dummy2

AllExecutors == {rot1, rot2, mirror1, mirror2, multiply1, multiply2, dummy1, dummy2}

Name(e) == CASE e \in {rot1, rot2} -> "ROT3"
             [] e \in {mirror1, mirror2} -> "Mirror"
             [] e \in {multiply1, multiply2} -> "Multiply41"
             [] e \in {dummy1, dummy2} -> "Dummy"

NameFunction == [e \in AllExecutors |-> Name(e)]
AllNames == {"ROT3", "Mirror", "Multiply41", "Dummy"}
Constructed == <<rot1, mirror1, multiply1>>
=============================================================================
