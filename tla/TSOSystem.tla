------------------------------ MODULE TSOSystem ------------------------------
(***************************************************************************)
(* The total-store-order storage under threads that call it in any order:   *)
(* every statement that reaches storage (Interpreter::visit of LoadNode,    *)
(* StoreNode, FenceNode, CasNode, FaiNode) and the epsilon transition of    *)
(* each thread.  The final flush() is not a thread's step: the modules of   *)
(* the interpreters take it.                                                *)
(*                                                                          *)
(* "history" and "answer" are history variables: what StoreOrder promises.  *)
(***************************************************************************)
EXTENDS TSOStorage, MemoryOrder, StoreHistory

CONSTANTS Threads, Locations,
          Values,      \* bound: the integers that may occur
          Operands,    \* what registers hold: values to store, to add, to compare
          Modes,       \* the access modes that occur
          MaxStores    \* bound: the stores in a behaviour

ASSUME ConstantsAssumption ==
  /\ Values \subseteq Int
  /\ Operands \subseteq Values
  /\ 0 \in Values
  /\ Modes \subseteq MemoryOrders

VARIABLES storage, history, answer

vars == <<storage, history, answer>>

Init ==
  /\ storage = New
  /\ history = NewHistory(Threads)
  /\ answer = [strong |-> FALSE, value |-> <<>>]

----------------------------------------------------------------------------
(* The history variables. *)

Answers(m, value) == answer' = [strong |-> m = "SEQ_CST", value |-> value]

\* The history h after thread t issued a store with mode m.
Stored(h, t, l, v, m) ==
  IF m = "SEQ_CST" THEN Drain(Issue(h, t, l, v), t) ELSE Issue(h, t, l, v)

WithinBound ==
  SumFunction([t \in Threads |-> Len(history.stores[t])]) < MaxStores

----------------------------------------------------------------------------
(* One action per statement that reaches storage. *)

Load(t, l, m) ==
  /\ Answers(m, <<Read(storage, t, l)>>)
  /\ UNCHANGED <<storage, history>>

Store(t, l, v, m) ==
  /\ WithinBound
  /\ storage' = Write(storage, t, l, v, m)
  /\ history' = Stored(history, t, l, v, m)
  /\ Answers(m, <<>>)

FenceStatement(t, m) ==
  /\ storage' = Fence(storage, t, m)
  /\ history' = IF m = "SEQ_CST" THEN Drain(history, t) ELSE history
  /\ Answers(m, <<>>)

\* CAS: flush(t), read, and write when the value read is the expected one.
Cas(t, l, expected, desired, m) ==
  LET drained == FlushBuffer(storage, t)
      actual  == Read(drained, t, l)
  IN  /\ actual = expected
      /\ WithinBound
      /\ storage' = Write(drained, t, l, desired, m)
      /\ history' = Stored(Drain(history, t), t, l, desired, m)
      /\ Answers(m, <<actual>>)

CasFails(t, l, expected, m) ==
  LET drained == FlushBuffer(storage, t)
      actual  == Read(drained, t, l)
  IN  /\ actual # expected
      /\ storage' = drained
      /\ history' = Drain(history, t)
      /\ Answers(m, <<actual>>)

\* FAI: flush(t), read, and write the sum.
Fai(t, l, increment, m) ==
  LET drained  == FlushBuffer(storage, t)
      previous == Read(drained, t, l)
  IN  /\ WithinBound /\ previous + increment \in Values
      /\ storage' = Write(drained, t, l, previous + increment, m)
      /\ history' = Stored(Drain(history, t), t, l, previous + increment, m)
      /\ Answers(m, <<previous>>)

\* The epsilon transition: the code's side is Propagate, the history's the
\* commit of the oldest store pending.
Epsilon(t) ==
  /\ HasEps(storage, t)
  /\ storage' \in EpsStorages(storage, t)
  /\ history' = Commit(history, t, Oldest(Pending(history, t)))
  /\ Answers("RLX", <<>>)

Next ==
  \E t \in Threads :
    \/ Epsilon(t)
    \/ \E m \in Modes :
         \/ FenceStatement(t, m)
         \/ \E l \in Locations :
              \/ Load(t, l, m)
              \/ \E v \in Operands :
                   \/ Store(t, l, v, m)
                   \/ Fai(t, l, v, m)
                   \/ CasFails(t, l, v, m)
                   \/ \E e \in Operands \cup {0} : Cas(t, l, e, v, m)

Spec == Init /\ [][Next]_vars

----------------------------------------------------------------------------
(* Properties *)

Entry == [loc : Locations, val : Values]

\* The queue of thread t, empty when the code holds none.
Buffer(t) == At(storage.buffers, t, <<>>)

\* Type correctness.  A queue that exists is never empty: propagate pops its
\* front without a check in a release build (the assert at
\* tso-storage-subsystem.cpp:144), and has_eps_transitions relies on it.
TypeOK ==
  /\ DOMAIN storage.memory \subseteq Locations
  /\ \A l \in DOMAIN storage.memory : storage.memory[l] \in Values
  /\ DOMAIN storage.buffers \subseteq Threads
  /\ \A t \in DOMAIN storage.buffers :
       storage.buffers[t] \in Seq(Entry) /\ storage.buffers[t] # <<>>

\* Stores leave in program order: what thread t still has buffered is exactly
\* the end of what it has stored, entry by entry; the stores before it are in
\* effect, at times that never decrease along the program.
ProgramOrderKept ==
  \A t \in Threads :
    LET issued    == history.stores[t]
        committed == Len(issued) - Len(Buffer(t))
    IN  /\ committed >= 0
        /\ \A k \in 1..Len(Buffer(t)) :
             /\ issued[committed + k].at = 0
             /\ Buffer(t)[k].loc = issued[committed + k].loc
             /\ Buffer(t)[k].val = issued[committed + k].val
        /\ \A i \in 1..committed : issued[i].at > 0
        /\ \A i, j \in 1..committed : i < j => issued[i].at <= issued[j].at

\* Memory holds, for each location, the store that took effect last, whoever
\* made it and whether propagate or a flush carried it there.
MemoryHoldsLatest ==
  \A l \in Locations : At(storage.memory, l, 0) = LatestValue(history, l)

\* A total store order explains every value a thread is given; a SEQ_CST store,
\* fence or read-modify-write that writes leaves nothing of its thread pending;
\* and a SEQ_CST read-modify-write is atomic.
Promise == INSTANCE StoreOrder WITH SameLocationOnly <- FALSE

ImplementsTotalStoreOrder == Promise!Spec

=============================================================================
