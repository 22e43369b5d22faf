---------------------------- MODULE MessageEncoder ----------------------------
(***************************************************************************)
(* class MessageEncoder (message_encoder.{h,cpp}): owns a list of          *)
(* executors through raw pointers and points at the selected one.          *)
(*                                                                         *)
(* An executor passed to add_executor belongs to the encoder from then on: *)
(* the caller makes a new one for each call, possibly at the address of    *)
(* one that was deleted.  Executors are identified with their addresses.   *)
(* What the executors do to a message is in the module Executors.          *)
(***************************************************************************)
EXTENDS Naturals, Sequences, Functions

CONSTANTS
    Names,        \* names of algorithms
    Executors,    \* objects of classes derived from BaseEncoderExecutor
    NameOf,       \* what name() answers
    BuiltIn,      \* the executors the constructor adds, in this order
    None          \* null pointer

ASSUME NameOfAssumption == NameOf \in [Executors -> Names]
ASSUME BuiltInAssumption ==
    /\ BuiltIn \in Seq(Executors)
    /\ BuiltIn # <<>>
    /\ \A i, j \in 1 .. Len(BuiltIn) :
          NameOf[BuiltIn[i]] = NameOf[BuiltIn[j]] => i = j
ASSUME NoneAssumption == None \notin Executors \cup Names

VARIABLES
    executors,    \* MessageEncoder::m_executors; empty: there is no encoder
    current,      \* MessageEncoder::m_current_executor
    alive         \* the executors that have been made and not deleted

vars == <<executors, current, alive>>

Exists == executors # <<>>
-----------------------------------------------------------------------------
Init == executors = <<>> /\ current = None /\ alive = {}

(* The constructor: three executors, none selected. *)
Construct ==
    /\ ~Exists
    /\ \A i \in 1 .. Len(BuiltIn) : BuiltIn[i] \notin alive
    /\ executors' = BuiltIn
    /\ alive' = alive \cup Range(BuiltIn)
    /\ UNCHANGED current

(* The destructor deletes every executor of the list. *)
Destruct ==
    /\ Exists
    /\ alive' = alive \ Range(executors)
    /\ executors' = <<>>
    /\ current' = None

Registered(n) == \E i \in 1 .. Len(executors) : NameOf[executors[i]] = n

(* Position of the first executor with name n. *)
IsFirst(i, n) ==
    /\ i \in 1 .. Len(executors)
    /\ NameOf[executors[i]] = n
    /\ \A j \in 1 .. i - 1 : NameOf[executors[j]] # n

AppendExecutor(e) ==
    /\ ~Registered(NameOf[e])
    /\ executors' = Append(executors, e)
    /\ alive' = alive \cup {e}
    /\ UNCHANGED current

(* Mutant: the selection is not moved to the new executor. *)
ReplaceExecutorDangling(e) ==
    \E i \in 1 .. Len(executors) :
        /\ IsFirst(i, NameOf[e])
        /\ alive' = (alive \cup {e}) \ {executors[i]}
        /\ executors' = [executors EXCEPT ![i] = e]
        /\ UNCHANGED current

(* An executor with a name in use takes the place of the old one, also as  *)
(* the selected one; the old one is deleted.                               *)
ReplaceExecutor(e) ==
    \E i \in 1 .. Len(executors) :
        /\ IsFirst(i, NameOf[e])
        /\ current' = IF current = executors[i] THEN e ELSE current
        /\ alive' = (alive \cup {e}) \ {executors[i]}
        /\ executors' = [executors EXCEPT ![i] = e]

AddExecutor(e) ==
    /\ Exists
    /\ e \notin alive
    /\ AppendExecutor(e) \/ ReplaceExecutor(e)

(* Mutant: a name that is not registered clears the selection. *)
SelectExecutorClears(n) ==
    \/ \E i \in 1 .. Len(executors) :
          /\ IsFirst(i, n)
          /\ current' = executors[i]
          /\ UNCHANGED <<executors, alive>>
    \/ /\ ~Registered(n)
       /\ current' = None
       /\ UNCHANGED <<executors, alive>>

(* A name that is not registered changes nothing. *)
SelectExecutor(n) ==
    \E i \in 1 .. Len(executors) :
        /\ IsFirst(i, n)
        /\ current' = executors[i]
        /\ UNCHANGED <<executors, alive>>

Next == \/ Construct
        \/ Destruct
        \/ \E e \in Executors : AddExecutor(e)
        \/ \E n \in Names : SelectExecutor(n)

Spec == Init /\ [][Next]_vars
-----------------------------------------------------------------------------
(* The list and the pointers have their types. *)
TypeOK ==
    /\ executors \in Seq(Executors)
    /\ current \in Executors \cup {None}
    /\ alive \subseteq Executors

(* Every executor is deleted exactly once: those that exist are those in the *)
(* list, none is there twice, and the selected one, through which encode and *)
(* decode call, is one of them (message_encoder.cpp:23-29, 70-96).           *)
OwnedOnce ==
    /\ alive = Range(executors)
    /\ \A i, j \in 1 .. Len(executors) : executors[i] = executors[j] => i = j
    /\ current # None => current \in Range(executors)

(* Each name has one executor, so that select_executor and the replacement   *)
(* never have a choice (message_encoder.cpp:54-67, 77-91).                   *)
NamesUnique ==
    \A i, j \in 1 .. Len(executors) :
        NameOf[executors[i]] = NameOf[executors[j]] => i = j

(* The executor that select_executor would find for each name, and the     *)
(* name of the selected one.                                               *)
Implementation ==
    [n \in Names |->
        IF Registered(n)
        THEN executors[CHOOSE i \in 1 .. Len(executors) : NameOf[executors[i]] = n]
        ELSE None]

Selected == IF current = None THEN None ELSE NameOf[current]

Registry == INSTANCE EncoderRegistry
              WITH implementation <- Implementation, selected <- Selected

(* The list of pointers implements the promise: one implementation for each  *)
(* name, and registering never changes which name is selected, whatever is   *)
(* replaced or deleted underneath.                                           *)
RefinesRegistry == Registry!Spec
=============================================================================
