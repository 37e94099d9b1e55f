----------------------------- MODULE PSOStorage -----------------------------
(***************************************************************************)
(* The partial-store-order storage as a value and the operations of         *)
(* PSOStorageSubsystem on it (storage-subsystem/pso).                       *)
(*                                                                          *)
(* A storage is a record                                                    *)
(*   memory  : location -> value, for the locations written so far;         *)
(*   buffers : thread -> (location -> queue of values, oldest first), for   *)
(*             the threads and locations that have a queue.                 *)
(* The class does not override StorageSubsystem::flush(int): a thread's     *)
(* flush before CAS and FAI does nothing here.                              *)
(***************************************************************************)
EXTENDS Integers, SequencesExt, Maps

New == [memory |-> EmptyMap, buffers |-> EmptyMap]

\* has_eps_transitions and get_propagate_locations: presence in the maps.
HasEps(s, t) == t \in DOMAIN s.buffers

Queues(s, t) == At(s.buffers, t, EmptyMap)

\* Mutant of Read: the front of the queue instead of its back.
ReadOldest(s, t, l) ==
  LET own == At(Queues(s, t), l, <<>>)
  IN  IF own # <<>> THEN Head(own) ELSE At(s.memory, l, 0)

\* read: the thread's own newest value for l, else memory, else 0.
Read(s, t, l) ==
  LET own == At(Queues(s, t), l, <<>>)
  IN  IF own # <<>> THEN Last(own) ELSE At(s.memory, l, 0)

\* Mutant of Propagate: a thread stays in the map without queues.
PropagateKeepsThread(s, t, l) ==
  LET q == s.buffers[t][l]
  IN  [memory  |-> Put(s.memory, l, Head(q)),
       buffers |-> Put(s.buffers, t, IF Len(q) = 1 THEN Erase(s.buffers[t], l)
                                                   ELSE Put(s.buffers[t], l, Tail(q)))]

\* propagate: the oldest value of one queue reaches memory; an empty queue is
\* erased, and so is a thread without queues.  Nothing happens without a queue.
Propagate(s, t, l) ==
  LET q    == Queues(s, t)[l]
      left == IF Len(q) = 1 THEN Erase(Queues(s, t), l)
                            ELSE Put(Queues(s, t), l, Tail(q))
  IN  IF l \notin DOMAIN Queues(s, t) THEN s
      ELSE [memory  |-> Put(s.memory, l, Head(q)),
            buffers |-> IF left = EmptyMap THEN Erase(s.buffers, t)
                                           ELSE Put(s.buffers, t, left)]

\* Mutant of FlushBuffer: the oldest value of every queue stays in memory.
FlushKeepsOldest(s, t) ==
  LET queues == Queues(s, t)
  IN  [memory  |-> [l \in DOMAIN s.memory \cup DOMAIN queues |->
                      IF l \in DOMAIN queues THEN Head(queues[l]) ELSE s.memory[l]],
       buffers |-> Erase(s.buffers, t)]

\* flush_buffer: the newest value of every queue reaches memory.
FlushBuffer(s, t) ==
  LET queues == Queues(s, t)
  IN  [memory  |-> [l \in DOMAIN s.memory \cup DOMAIN queues |->
                      IF l \in DOMAIN queues THEN Last(queues[l]) ELSE s.memory[l]],
       buffers |-> Erase(s.buffers, t)]

\* Mutant of Enqueue: push_front.
EnqueueAtFront(s, t, l, v) ==
  [s EXCEPT !.buffers =
     Put(@, t, Put(Queues(s, t), l, <<v>> \o At(Queues(s, t), l, <<>>)))]

Enqueue(s, t, l, v) ==
  [s EXCEPT !.buffers =
     Put(@, t, Put(Queues(s, t), l, Append(At(Queues(s, t), l, <<>>), v)))]

\* write and fence: only SEQ_CST drains the buffers.
Write(s, t, l, v, m) ==
  LET queued == Enqueue(s, t, l, v)
  IN  IF m = "SEQ_CST" THEN FlushBuffer(queued, t) ELSE queued

Fence(s, t, m) == IF m = "SEQ_CST" THEN FlushBuffer(s, t) ELSE s

\* get_eps_transitions: one successor per location with a queue.
EpsStorages(s, t) == {Propagate(s, t, l) : l \in DOMAIN Queues(s, t)}

\* flush(): every thread, in the order the unordered_map yields them.
FlushAll(s) ==
  {FoldLeft(FlushBuffer, s, order) : order \in SetToSeqs(DOMAIN s.buffers)}

=============================================================================
