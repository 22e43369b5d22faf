--------------------------- MODULE EncoderRegistry ---------------------------
(***************************************************************************)
(* What MessageEncoder promises (README.md section 6 of the repository),   *)
(* without pointers: at most one implementation for each name, and the     *)
(* choice of a name, which registering an implementation never changes.    *)
(***************************************************************************)
EXTENDS Naturals

CONSTANTS Names, Executors, NameOf, BuiltIn, None

VARIABLES
    implementation,    \* [Names -> the executor registered for it, or None]
    selected           \* the name selected last, or None

registryVars == <<implementation, selected>>

Empty == [n \in Names |-> None]

Defaults ==
    [n \in Names |-> IF \E i \in DOMAIN BuiltIn : NameOf[BuiltIn[i]] = n
                     THEN CHOOSE e \in Executors :
                            NameOf[e] = n /\ \E i \in DOMAIN BuiltIn : BuiltIn[i] = e
                     ELSE None]
-----------------------------------------------------------------------------
Init == implementation = Empty /\ selected = None

Create == /\ implementation = Empty
          /\ implementation' = Defaults
          /\ UNCHANGED selected

Register(e) == /\ implementation # Empty
               /\ implementation' = [implementation EXCEPT ![NameOf[e]] = e]
               /\ UNCHANGED selected

Select(n) == /\ implementation[n] # None
             /\ selected' = n
             /\ UNCHANGED implementation

Discard == /\ implementation' = Empty
           /\ selected' = None

Next == \/ Create
        \/ \E e \in Executors : Register(e)
        \/ \E n \in Names : Select(n)
        \/ Discard

Spec == Init /\ [][Next]_registryVars
=============================================================================
