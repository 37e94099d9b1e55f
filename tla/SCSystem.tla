------------------------------ MODULE SCSystem ------------------------------
(***************************************************************************)
(* The sequentially consistent storage under the statements that reach it   *)
(* (Interpreter::visit of LoadNode, StoreNode, FenceNode, CasNode, FaiNode):*)
(* what the buffering storages are measured against when every access is    *)
(* SEQ_CST.  SCStorageSubsystem looks neither at the thread nor at the      *)
(* mode, and inherits a flush that does nothing, so neither appears here.   *)
(*                                                                          *)
(* "answer" is the value the last statement was given, <<>> if none.        *)
(***************************************************************************)
EXTENDS SCStorage, Integers

CONSTANTS Locations,
          Operands    \* what registers hold: values to store, to add, to compare

VARIABLES storage, answer

vars == <<storage, answer>>

Init == storage = New /\ answer = <<>>

Load(l) == answer' = <<Read(storage, l)>> /\ UNCHANGED storage

Store(l, v) == storage' = Write(storage, l, v) /\ answer' = <<>>

FenceStatement == answer' = <<>> /\ UNCHANGED storage

Cas(l, expected, desired) ==
  /\ Read(storage, l) = expected
  /\ storage' = Write(storage, l, desired)
  /\ answer' = <<expected>>

CasFails(l, expected) ==
  /\ Read(storage, l) # expected
  /\ answer' = <<Read(storage, l)>>
  /\ UNCHANGED storage

Fai(l, increment) ==
  /\ storage' = Write(storage, l, Read(storage, l) + increment)
  /\ answer' = <<Read(storage, l)>>

Next ==
  \/ FenceStatement
  \/ \E l \in Locations :
       \/ Load(l)
       \/ \E v \in Operands :
            \/ Store(l, v)
            \/ Fai(l, v)
            \/ CasFails(l, v)
            \/ \E e \in Operands \cup {0} : Cas(l, e, v)

Spec == Init /\ [][Next]_vars

=============================================================================
