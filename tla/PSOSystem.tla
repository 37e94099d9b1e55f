------------------------------ MODULE PSOSystem ------------------------------
(***************************************************************************)
(* The partial-store-order storage under threads that call it in any order: *)
(* the counterpart of TSOSystem, with a queue per location, and without the *)
(* flush of the thread that CAS and FAI ask for.                            *)
(***************************************************************************)
EXTENDS PSOStorage, MemoryOrder, StoreHistory

CONSTANTS Threads, Locations,
          Values,      \* bound: the integers that may occur
          Operands,    \* what registers hold: values to store, to add, to compare
          Modes,       \* the access modes that occur
          MaxStores    \* bound: the stores in a behaviour

ASSUME ConstantsAssumption ==
  /\ Values \subseteq Int
  /\ Operands \subseteq Values
  /\ 0 \in Values
  /\ Modes \subseteq MemoryOrders

VARIABLES storage, history, answer

vars == <<storage, history, answer>>

Init ==
  /\ storage = New
  /\ history = NewHistory(Threads)
  /\ answer = [strong |-> FALSE, value |-> <<>>]

----------------------------------------------------------------------------
(* The history variables. *)

Answers(m, value) == answer' = [strong |-> m = "SEQ_CST", value |-> value]

Stored(h, t, l, v, m) ==
  IF m = "SEQ_CST" THEN Drain(Issue(h, t, l, v), t) ELSE Issue(h, t, l, v)

WithinBound ==
  SumFunction([t \in Threads |-> Len(history.stores[t])]) < MaxStores

----------------------------------------------------------------------------
(* One action per statement that reaches storage. *)

Load(t, l, m) ==
  /\ Answers(m, <<Read(storage, t, l)>>)
  /\ UNCHANGED <<storage, history>>

Store(t, l, v, m) ==
  /\ WithinBound
  /\ storage' = Write(storage, t, l, v, m)
  /\ history' = Stored(history, t, l, v, m)
  /\ Answers(m, <<>>)

FenceStatement(t, m) ==
  /\ storage' = Fence(storage, t, m)
  /\ history' = IF m = "SEQ_CST" THEN Drain(history, t) ELSE history
  /\ Answers(m, <<>>)

\* CAS reads through the thread's own buffer and writes behind it.
Cas(t, l, expected, desired, m) ==
  /\ WithinBound
  /\ Read(storage, t, l) = expected
  /\ storage' = Write(storage, t, l, desired, m)
  /\ history' = Stored(history, t, l, desired, m)
  /\ Answers(m, <<expected>>)

CasFails(t, l, expected, m) ==
  /\ Read(storage, t, l) # expected
  /\ Answers(m, <<Read(storage, t, l)>>)
  /\ UNCHANGED <<storage, history>>

Fai(t, l, increment, m) ==
  LET previous == Read(storage, t, l)
  IN  /\ WithinBound /\ previous + increment \in Values
      /\ storage' = Write(storage, t, l, previous + increment, m)
      /\ history' = Stored(history, t, l, previous + increment, m)
      /\ Answers(m, <<previous>>)

\* The epsilon transition chosen for l: the history commits the oldest store
\* pending for l.
Epsilon(t, l) ==
  /\ l \in DOMAIN Queues(storage, t)
  /\ storage' = Propagate(storage, t, l)
  /\ history' = Commit(history, t, Oldest(PendingTo(history, t, l)))
  /\ Answers("RLX", <<>>)

Next ==
  \E t \in Threads :
    \/ \E l \in Locations : Epsilon(t, l)
    \/ \E m \in Modes :
         \/ FenceStatement(t, m)
         \/ \E l \in Locations :
              \/ Load(t, l, m)
              \/ \E v \in Operands :
                   \/ Store(t, l, v, m)
                   \/ Fai(t, l, v, m)
                   \/ CasFails(t, l, v, m)
                   \/ \E e \in Operands \cup {0} : Cas(t, l, e, v, m)

Spec == Init /\ [][Next]_vars

----------------------------------------------------------------------------
(* Properties *)

\* Type correctness.  No queue is empty and no thread without queues is kept:
\* flush_buffer takes q.back() unchecked (its assert, pso-storage-subsystem.cpp
\* line 183, tests a string literal), and has_eps_transitions promises at least
\* one successor to interpreters that draw a random one.
TypeOK ==
  /\ DOMAIN storage.memory \subseteq Locations
  /\ \A l \in DOMAIN storage.memory : storage.memory[l] \in Values
  /\ DOMAIN storage.buffers \subseteq Threads
  /\ \A t \in DOMAIN storage.buffers :
       /\ storage.buffers[t] # EmptyMap
       /\ DOMAIN storage.buffers[t] \subseteq Locations
       /\ \A l \in DOMAIN storage.buffers[t] :
            storage.buffers[t][l] \in Seq(Values) /\ storage.buffers[t][l] # <<>>

\* Coherence: the queue of a location is the pending stores of its thread to
\* it, in program order, and they are newer than all those in effect, whose
\* times never decrease along the program.
LocationOrderKept ==
  \A t \in Threads, l \in Locations :
    LET stores  == history.stores[t]
        pending == PendingTo(history, t, l)
        settled == {i \in DOMAIN stores : stores[i].loc = l /\ stores[i].at > 0}
        q       == At(Queues(storage, t), l, <<>>)
    IN  /\ \E place \in [DOMAIN q -> pending] :
             /\ \A i \in pending : \E k \in DOMAIN q : place[k] = i
             /\ \A k \in DOMAIN q : stores[place[k]].val = q[k]
             /\ \A j, k \in DOMAIN q : j < k => place[j] < place[k]
        /\ \A i \in settled, j \in pending : i < j
        /\ \A i, j \in settled : i < j => stores[i].at <= stores[j].at

\* Memory holds, for each location, the store that took effect last.
MemoryHoldsLatest ==
  \A l \in Locations : At(storage.memory, l, 0) = LatestValue(history, l)

\* A partial store order explains every value a thread is given; a SEQ_CST
\* store, fence or read-modify-write that writes leaves nothing of its thread
\* pending; and a SEQ_CST read-modify-write that writes is atomic although its
\* thread is not drained first.
Promise == INSTANCE StoreOrder WITH SameLocationOnly <- TRUE

ImplementsPartialStoreOrder == Promise!Spec

=============================================================================
