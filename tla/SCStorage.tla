------------------------------ MODULE SCStorage ------------------------------
(***************************************************************************)
(* The sequentially consistent storage as a value and the operations of     *)
(* SCStorageSubsystem on it (storage-subsystem/sc): a map [memory], read    *)
(* and written at once.  Fences do nothing.                                 *)
(***************************************************************************)
EXTENDS Maps

New == [memory |-> EmptyMap]

Read(s, l) == At(s.memory, l, 0)

Write(s, l, v) == [s EXCEPT !.memory = Put(@, l, v)]

=============================================================================
