------------------------- MODULE MessageEncoderProofs -------------------------
(***************************************************************************)
(* MessageEncoder owns its executors and implements EncoderRegistry, for   *)
(* every set of names and executors.  The inductive invariant is the       *)
(* conjunction of the three invariants of the module.                      *)
(***************************************************************************)
EXTENDS MessageEncoder, TLAPS

EncoderInv == TypeOK /\ OwnedOnce /\ NamesUnique

-----------------------------------------------------------------------------
LEMMA InitInv == Init => EncoderInv
BY DEF Init, EncoderInv, TypeOK, OwnedOnce, NamesUnique, Range

LEMMA ConstructInv == EncoderInv /\ Construct => EncoderInv'
<1> SUFFICES ASSUME EncoderInv, Construct PROVE EncoderInv'
  OBVIOUS
<1>1. executors = <<>> /\ alive = {} /\ current = None
  BY DEF EncoderInv, TypeOK, OwnedOnce, Construct, Exists, Range
<1>2. executors' = BuiltIn /\ alive' = Range(BuiltIn) /\ current' = None
  BY <1>1 DEF Construct
<1>3. TypeOK'
  BY <1>2, BuiltInAssumption DEF TypeOK, Range
<1>4. OwnedOnce'
  BY <1>2, BuiltInAssumption DEF OwnedOnce, Range
<1>5. NamesUnique'
  BY <1>2, BuiltInAssumption DEF NamesUnique
<1> QED BY <1>3, <1>4, <1>5 DEF EncoderInv

LEMMA DestructInv == EncoderInv /\ Destruct => EncoderInv'
BY DEF EncoderInv, TypeOK, OwnedOnce, NamesUnique, Destruct, Range

LEMMA AppendInv ==
    ASSUME EncoderInv, NEW e \in Executors, e \notin alive, AppendExecutor(e)
    PROVE  EncoderInv'
<1> DEFINE n == Len(executors)
<1>1. /\ executors' = Append(executors, e) /\ executors' \in Seq(Executors)
      /\ Len(executors') = n + 1 /\ n \in Nat
      /\ executors'[n + 1] = e
      /\ \A i \in 1 .. n : executors'[i] = executors[i]
  BY DEF EncoderInv, TypeOK, AppendExecutor
<1>2. TypeOK'
  BY <1>1 DEF EncoderInv, TypeOK, AppendExecutor
<1>3. Range(executors') = Range(executors) \cup {e}
  BY <1>1 DEF EncoderInv, TypeOK, Range
<1>4. \A i \in 1 .. n : executors[i] # e /\ NameOf[executors[i]] # NameOf[e]
  BY DEF EncoderInv, TypeOK, OwnedOnce, AppendExecutor, Registered, Range
<1>5. OwnedOnce'
  <2>1. alive' = Range(executors')
    BY <1>3 DEF EncoderInv, OwnedOnce, AppendExecutor
  <2>2. \A i, j \in 1 .. Len(executors') : executors'[i] = executors'[j] => i = j
    BY <1>1, <1>4 DEF EncoderInv, OwnedOnce
  <2>3. current' # None => current' \in Range(executors')
    BY <1>3 DEF EncoderInv, OwnedOnce, AppendExecutor
  <2> QED BY <2>1, <2>2, <2>3 DEF OwnedOnce
<1>6. NamesUnique'
  BY <1>1, <1>4 DEF EncoderInv, NamesUnique
<1> QED BY <1>2, <1>5, <1>6 DEF EncoderInv

LEMMA ReplaceInv ==
    ASSUME EncoderInv, NEW e \in Executors, e \notin alive, ReplaceExecutor(e)
    PROVE  EncoderInv'
<1>1. PICK k \in 1 .. Len(executors) :
         /\ NameOf[executors[k]] = NameOf[e]
         /\ current' = IF current = executors[k] THEN e ELSE current
         /\ alive' = (alive \cup {e}) \ {executors[k]}
         /\ executors' = [executors EXCEPT ![k] = e]
  BY DEF ReplaceExecutor, IsFirst
<1>2. /\ executors' \in Seq(Executors) /\ Len(executors') = Len(executors)
      /\ DOMAIN executors = 1 .. Len(executors)
      /\ DOMAIN executors' = 1 .. Len(executors)
      /\ executors'[k] = e
      /\ \A i \in 1 .. Len(executors) : i # k => executors'[i] = executors[i]
  BY <1>1 DEF EncoderInv, TypeOK
<1>3. /\ \A i \in 1 .. Len(executors) : executors[i] # e
      /\ \A i, j \in 1 .. Len(executors) : executors[i] = executors[j] => i = j
  BY <1>2 DEF EncoderInv, OwnedOnce, Range
<1>4. Range(executors') = (Range(executors) \cup {e}) \ {executors[k]}
  BY <1>2, <1>3 DEF Range
<1>5. TypeOK'
  BY <1>1, <1>2 DEF EncoderInv, TypeOK
<1>6. OwnedOnce'
  <2>1. alive' = Range(executors')
    BY <1>1, <1>4 DEF EncoderInv, OwnedOnce
  <2>2. \A i, j \in 1 .. Len(executors') : executors'[i] = executors'[j] => i = j
    BY <1>2, <1>3
  <2>3. current' # None => current' \in Range(executors')
    BY <1>1, <1>4 DEF EncoderInv, OwnedOnce
  <2> QED BY <2>1, <2>2, <2>3 DEF OwnedOnce
<1>7. NamesUnique'
  BY <1>1, <1>2 DEF EncoderInv, NamesUnique
<1> QED BY <1>5, <1>6, <1>7 DEF EncoderInv

LEMMA SelectInv == ASSUME NEW n \in Names, EncoderInv, SelectExecutor(n)
                   PROVE  EncoderInv'
BY DEF EncoderInv, TypeOK, OwnedOnce, NamesUnique, SelectExecutor, IsFirst, Range

LEMMA NextInv == EncoderInv /\ [Next]_vars => EncoderInv'
<1> SUFFICES ASSUME EncoderInv, [Next]_vars PROVE EncoderInv'
  OBVIOUS
<1>1. CASE Construct
  BY <1>1, ConstructInv
<1>2. CASE Destruct
  BY <1>2, DestructInv
<1>3. ASSUME NEW e \in Executors, AddExecutor(e) PROVE EncoderInv'
  BY <1>3, AppendInv, ReplaceInv DEF AddExecutor
<1>4. ASSUME NEW n \in Names, SelectExecutor(n) PROVE EncoderInv'
  BY <1>4, SelectInv
<1>5. CASE UNCHANGED vars
  BY <1>5 DEF vars, EncoderInv, TypeOK, OwnedOnce, NamesUnique
<1> QED BY <1>1, <1>2, <1>3, <1>4, <1>5 DEF Next

LEMMA Invariant == Spec => []EncoderInv
BY InitInv, NextInv, PTL DEF Spec

(* Whatever is registered, replaced and selected in whatever order, every    *)
(* executor is deleted exactly once and the selected one exists.             *)
THEOREM ExecutorsOwnedOnce == Spec => []OwnedOnce
<1>1. EncoderInv => OwnedOnce
  BY DEF EncoderInv
<1> QED BY <1>1, Invariant, PTL
-----------------------------------------------------------------------------
(***************************************************************************)
(* The refinement.  As names are unique, the executor found for a name is  *)
(* the one that has it, wherever it stands in the list.                    *)
(***************************************************************************)
Finds ==
    /\ Implementation \in [Names -> Executors \cup {None}]
    /\ \A i \in 1 .. Len(executors) :
          Implementation[NameOf[executors[i]]] = executors[i]
    /\ \A n \in Names : ~Registered(n) => Implementation[n] = None

LEMMA ImplementationFinds == EncoderInv => Finds
<1> SUFFICES ASSUME EncoderInv PROVE Finds
  OBVIOUS
<1>1. ASSUME NEW n \in Names, Registered(n)
      PROVE  \E i \in 1 .. Len(executors) :
               /\ NameOf[executors[i]] = n
               /\ Implementation[n] = executors[i]
  BY <1>1 DEF Registered, Implementation
<1>2. ASSUME NEW n \in Names, ~Registered(n) PROVE Implementation[n] = None
  BY <1>2 DEF Implementation
<1>3. \A i \in 1 .. Len(executors) : executors[i] \in Executors
  BY DEF EncoderInv, TypeOK
<1>4. Implementation \in [Names -> Executors \cup {None}]
  <2>1. Implementation = [n \in Names |-> Implementation[n]]
    BY DEF Implementation
  <2>2. \A n \in Names : Implementation[n] \in Executors \cup {None}
    BY <1>1, <1>2, <1>3
  <2> QED BY <2>1, <2>2
<1>5. ASSUME NEW i \in 1 .. Len(executors)
      PROVE  Implementation[NameOf[executors[i]]] = executors[i]
  <2>1. NameOf[executors[i]] \in Names /\ Registered(NameOf[executors[i]])
    BY <1>3, NameOfAssumption DEF Registered
  <2>2. PICK j \in 1 .. Len(executors) :
          /\ NameOf[executors[j]] = NameOf[executors[i]]
          /\ Implementation[NameOf[executors[i]]] = executors[j]
    BY <1>1, <2>1
  <2>3. j = i
    BY <2>2 DEF EncoderInv, NamesUnique
  <2> QED BY <2>2, <2>3
<1> QED BY <1>2, <1>4, <1>5 DEF Finds


LEMMA BothFind == EncoderInv /\ [Next]_vars => Finds /\ Finds'
BY NextInv, ImplementationFinds, PTL

LEMMA NonEmpty == EncoderInv /\ Finds /\ Exists => Implementation # Registry!Empty
<1> SUFFICES ASSUME EncoderInv, Finds, Exists PROVE Implementation # Registry!Empty
  OBVIOUS
<1>1. 1 \in 1 .. Len(executors) /\ executors[1] \in Executors
  BY DEF EncoderInv, TypeOK, Exists
<1>2. NameOf[executors[1]] \in Names /\ Implementation[NameOf[executors[1]]] = executors[1]
  BY <1>1, NameOfAssumption DEF Finds
<1>3. Registry!Empty[NameOf[executors[1]]] = None
  BY <1>2 DEF Registry!Empty
<1> QED BY <1>1, <1>2, <1>3, NoneAssumption

LEMMA EmptyList == Finds /\ ~Exists => Implementation = Registry!Empty
<1> SUFFICES ASSUME Finds, ~Exists PROVE Implementation = Registry!Empty
  OBVIOUS
<1>1. \A n \in Names : ~Registered(n)
  BY DEF Exists, Registered
<1>2. Implementation = [n \in Names |-> Implementation[n]]
  BY DEF Finds
<1> QED BY <1>1, <1>2 DEF Finds, Registry!Empty

(* Appending and replacing have the same effect on the names. *)
LEMMA AddRegisters ==
    ASSUME EncoderInv, Finds, Finds', NEW e \in Executors, AddExecutor(e)
    PROVE  Registry!Register(e)
<1>1. Implementation # Registry!Empty
  BY NonEmpty DEF AddExecutor
<1>2. /\ \E k \in 1 .. Len(executors') : executors'[k] = e
      /\ \A i \in 1 .. Len(executors) :
            NameOf[executors[i]] # NameOf[e] =>
               \E j \in 1 .. Len(executors') : executors'[j] = executors[i]
      /\ \A j \in 1 .. Len(executors') :
            executors'[j] = e \/ \E i \in 1 .. Len(executors) : executors[i] = executors'[j]
  <2>1. CASE AppendExecutor(e)
    <3>1. /\ Len(executors') = Len(executors) + 1 /\ Len(executors) \in Nat
          /\ executors'[Len(executors) + 1] = e
          /\ \A i \in 1 .. Len(executors) : executors'[i] = executors[i]
      BY <2>1 DEF EncoderInv, TypeOK, AppendExecutor
    <3> QED BY <3>1
  <2>2. CASE ReplaceExecutor(e)
    <3>1. PICK k \in 1 .. Len(executors) :
             NameOf[executors[k]] = NameOf[e] /\ executors' = [executors EXCEPT ![k] = e]
      BY <2>2 DEF ReplaceExecutor, IsFirst
    <3>2. /\ Len(executors') = Len(executors)
          /\ executors'[k] = e
          /\ \A i \in 1 .. Len(executors) : i # k => executors'[i] = executors[i]
      BY <3>1 DEF EncoderInv, TypeOK
    <3> QED BY <3>1, <3>2
  <2> QED BY <2>1, <2>2 DEF AddExecutor
<1>3. NameOf[e] \in Names
  BY NameOfAssumption
<1>4. ASSUME NEW n \in Names
      PROVE  Implementation'[n] = [Implementation EXCEPT ![NameOf[e]] = e][n]
  <2>1. CASE n = NameOf[e]
    BY <1>2, <1>3, <2>1 DEF Finds
  <2>2. CASE n # NameOf[e] /\ Registered(n)
    <3>1. PICK i \in 1 .. Len(executors) : NameOf[executors[i]] = n
      BY <2>2 DEF Registered
    <3>2. PICK j \in 1 .. Len(executors') : executors'[j] = executors[i]
      BY <1>2, <2>2, <3>1
    <3>3. Implementation'[n] = executors[i] /\ Implementation[n] = executors[i]
      BY <3>1, <3>2 DEF Finds
    <3> QED BY <2>2, <3>3 DEF Finds
  <2>3. CASE n # NameOf[e] /\ ~Registered(n)
    <3>1. ~(\E j \in 1 .. Len(executors') : NameOf[executors'[j]] = n)
      BY <1>2, <2>3 DEF Registered
    <3>2. Implementation'[n] = None /\ Implementation[n] = None
      BY <2>3, <3>1 DEF Finds, Registered
    <3> QED BY <2>3, <3>2 DEF Finds
  <2> QED BY <2>1, <2>2, <2>3
<1>5. Implementation' = [Implementation EXCEPT ![NameOf[e]] = e]
  <2>1. Implementation' = [n \in Names |-> Implementation'[n]]
    BY DEF Finds
  <2>2. [Implementation EXCEPT ![NameOf[e]] = e] =
        [n \in Names |-> [Implementation EXCEPT ![NameOf[e]] = e][n]]
    BY DEF Finds
  <2> QED BY <1>4, <2>1, <2>2
<1>6. Selected' = Selected
  <2>1. CASE AppendExecutor(e)
    BY <2>1 DEF AppendExecutor, Selected
  <2>2. CASE ReplaceExecutor(e)
    BY <2>2, NoneAssumption DEF ReplaceExecutor, IsFirst, Selected, EncoderInv, TypeOK
  <2> QED BY <2>1, <2>2 DEF AddExecutor
<1> QED BY <1>1, <1>5, <1>6 DEF Registry!Register

LEMMA SelectSelects ==
    ASSUME EncoderInv, Finds, Finds', NEW n \in Names, SelectExecutor(n)
    PROVE  Registry!Select(n)
<1>1. PICK i \in 1 .. Len(executors) :
        /\ NameOf[executors[i]] = n
        /\ current' = executors[i]
        /\ UNCHANGED <<executors, alive>>
  BY DEF SelectExecutor, IsFirst
<1>2. executors[i] \in Executors /\ executors[i] # None
  BY NoneAssumption DEF EncoderInv, TypeOK
<1>3. Implementation[n] # None
  BY <1>1, <1>2 DEF Finds
<1>4. Selected' = n
  BY <1>1, <1>2 DEF Selected
<1>5. Implementation' = Implementation
  BY <1>1 DEF Implementation, Registered
<1> QED BY <1>3, <1>4, <1>5 DEF Registry!Select

LEMMA ConstructCreates ==
    ASSUME EncoderInv, Finds, Finds', Construct
    PROVE  Registry!Create
<1>1. Implementation = Registry!Empty
  BY EmptyList DEF Construct
<1>2. executors' = BuiltIn /\ Selected' = Selected
  BY DEF Construct, Selected
<1>3. /\ BuiltIn \in Seq(Executors) /\ DOMAIN BuiltIn = 1 .. Len(BuiltIn)
      /\ \A i \in 1 .. Len(BuiltIn) : BuiltIn[i] \in Executors
  BY BuiltInAssumption
<1>4. ASSUME NEW n \in Names PROVE Implementation'[n] = Registry!Defaults[n]
  <2>1. CASE \E i \in 1 .. Len(BuiltIn) : NameOf[BuiltIn[i]] = n
    <3>1. PICK i \in 1 .. Len(BuiltIn) : NameOf[BuiltIn[i]] = n
      BY <2>1
    <3>2. Implementation'[n] = BuiltIn[i]
      BY <1>2, <3>1 DEF Finds
    <3>3. \A f \in Executors :
            (NameOf[f] = n /\ \E j \in DOMAIN BuiltIn : BuiltIn[j] = f) <=> f = BuiltIn[i]
      BY <1>3, <3>1, BuiltInAssumption
    <3>4. Registry!Defaults[n] = BuiltIn[i]
      BY <1>3, <2>1, <3>1, <3>3 DEF Registry!Defaults
    <3> QED BY <3>2, <3>4
  <2>2. CASE ~\E i \in 1 .. Len(BuiltIn) : NameOf[BuiltIn[i]] = n
    BY <1>2, <1>3, <2>2 DEF Finds, Registered, Registry!Defaults
  <2> QED BY <2>1, <2>2
<1>5. Implementation' = Registry!Defaults
  <2>1. Implementation' = [n \in Names |-> Implementation'[n]]
    BY DEF Finds
  <2>2. Registry!Defaults = [n \in Names |-> Registry!Defaults[n]]
    BY DEF Registry!Defaults
  <2> QED BY <1>4, <2>1, <2>2
<1> QED BY <1>1, <1>2, <1>5 DEF Registry!Create

LEMMA DestructDiscards ==
    ASSUME EncoderInv, Finds, Finds', Destruct
    PROVE  Registry!Discard
<1>1. executors' = <<>> /\ Selected' = None
  BY DEF Destruct, Selected
<1>2. \A n \in Names : ~(Registered(n)')
  BY <1>1 DEF Registered
<1>3. Implementation' = [n \in Names |-> Implementation'[n]]
  BY DEF Finds
<1>4. Implementation' = Registry!Empty
  BY <1>2, <1>3 DEF Finds, Registry!Empty
<1> QED BY <1>1, <1>4 DEF Registry!Discard

LEMMA InitRefines == Init => Registry!Init
BY DEF Init, Registry!Init, Registry!Empty, Implementation, Registered, Selected

LEMMA NextRefines ==
    EncoderInv /\ [Next]_vars => [Registry!Next]_(Registry!registryVars)
<1> SUFFICES ASSUME EncoderInv, [Next]_vars
             PROVE  [Registry!Next]_(Registry!registryVars)
  OBVIOUS
<1>0. Finds /\ Finds'
  BY BothFind
<1>1. CASE Construct
  BY <1>0, <1>1, ConstructCreates DEF Registry!Next
<1>2. CASE Destruct
  BY <1>0, <1>2, DestructDiscards DEF Registry!Next
<1>3. CASE \E e \in Executors : AddExecutor(e)
  BY <1>0, <1>3, AddRegisters DEF Registry!Next
<1>4. CASE \E n \in Names : SelectExecutor(n)
  BY <1>0, <1>4, SelectSelects DEF Registry!Next
<1>5. CASE UNCHANGED vars
  BY <1>5 DEF vars, Registry!registryVars, Implementation, Registered, Selected
<1> QED BY <1>1, <1>2, <1>3, <1>4, <1>5 DEF Next

(* The list of raw pointers implements the promise about names, for all      *)
(* names, executors and built-in lists.                                      *)
THEOREM EncoderImplementsRegistry == Spec => RefinesRegistry
<1> QED BY Invariant, InitRefines, NextRefines, PTL
          DEF Spec, RefinesRegistry, Registry!Spec
=============================================================================
