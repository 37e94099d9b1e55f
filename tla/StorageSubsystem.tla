-------------------------- MODULE StorageSubsystem --------------------------
(***************************************************************************)
(* The interface StorageSubsystem: which operation a call reaches in each   *)
(* of the four implementations, among them the defaults of the base class   *)
(* (flush and flush(int) do nothing, no epsilon transitions, prepare_thread *)
(* does nothing).  "mm" is the memory model main.cpp instantiates the       *)
(* interpreter with.                                                        *)
(***************************************************************************)
EXTENDS MemoryOrder

SC  == INSTANCE SCStorage
TSO == INSTANCE TSOStorage
PSO == INSTANCE PSOStorage
SRA == INSTANCE SRAStorage

New(mm) == CASE mm = "sc"  -> SC!New
             [] mm = "tso" -> TSO!New
             [] mm = "pso" -> PSO!New
             [] mm = "sra" -> SRA!New

\* The value read and the storage after it: only SRA's read changes it.
Read(mm, s, t, l, m) ==
  CASE mm = "sc"  -> [value |-> SC!Read(s, l), storage |-> s]
    [] mm = "tso" -> [value |-> TSO!Read(s, t, l), storage |-> s]
    [] mm = "pso" -> [value |-> PSO!Read(s, t, l), storage |-> s]
    [] mm = "sra" -> SRA!Read(s, t, l, m)

Write(mm, s, t, l, v, m) ==
  CASE mm = "sc"  -> SC!Write(s, l, v)
    [] mm = "tso" -> TSO!Write(s, t, l, v, m)
    [] mm = "pso" -> PSO!Write(s, t, l, v, m)
    [] mm = "sra" -> SRA!Write(s, t, l, v, m)

\* SRA's fence throws instead of returning a storage.
FenceThrows(mm) == mm = "sra"

Fence(mm, s, t, m) ==
  CASE mm = "tso" -> TSO!Fence(s, t, m)
    [] mm = "pso" -> PSO!Fence(s, t, m)
    [] OTHER -> s

\* Mutant of FlushThread: flush() is called for flush(int).
FlushEveryThread(mm, s, t) ==
  IF mm = "tso" THEN CHOOSE flushed \in TSO!FlushAll(s) : TRUE ELSE s

\* flush(int): only TSO overrides it.
FlushThread(mm, s, t) == IF mm = "tso" THEN TSO!FlushBuffer(s, t) ELSE s

\* flush(): the possible results, over the traversal orders of a hash map.
FlushAll(mm, s) ==
  CASE mm = "tso" -> TSO!FlushAll(s)
    [] mm = "pso" -> PSO!FlushAll(s)
    [] OTHER -> {s}

\* Mutant of HasEps: SRA's is not an override of the base class's.
HasEpsDefault(mm, s, t) ==
  CASE mm = "tso" -> TSO!HasEps(s, t)
    [] mm = "pso" -> PSO!HasEps(s, t)
    [] OTHER -> FALSE

HasEps(mm, s, t) ==
  CASE mm = "sc"  -> FALSE
    [] mm = "tso" -> TSO!HasEps(s, t)
    [] mm = "pso" -> PSO!HasEps(s, t)
    [] mm = "sra" -> SRA!HasEps(s, t)

EpsStorages(mm, s, t) ==
  CASE mm = "sc"  -> {}
    [] mm = "tso" -> TSO!EpsStorages(s, t)
    [] mm = "pso" -> PSO!EpsStorages(s, t)
    [] mm = "sra" -> SRA!EpsStorages(s, t)

PrepareThread(mm, s, t) == IF mm = "sra" THEN SRA!PrepareThread(s, t) ELSE s

=============================================================================
