----------------------------- MODULE TSOStorage -----------------------------
(***************************************************************************)
(* The total-store-order storage as a value and the operations of           *)
(* TSOStorageSubsystem on it (storage-subsystem/tso).                       *)
(*                                                                          *)
(* A storage is a record                                                    *)
(*   memory  : location -> value, for the locations written so far;         *)
(*   buffers : thread -> queue of [loc, val], oldest first, for the threads *)
(*             that have a queue (m_store_buffers.count(thread)).           *)
(* The operations are functions of the storage, not actions, because        *)
(* Interpreter::visit(CasNode) and visit(FaiNode) run several of them in    *)
(* one step.                                                                *)
(***************************************************************************)
EXTENDS Integers, SequencesExt, FiniteSetsExt, Maps

New == [memory |-> EmptyMap, buffers |-> EmptyMap]

\* has_eps_transitions: the presence of the queue, not its length.
HasEps(s, t) == t \in DOMAIN s.buffers

\* The positions of l in queue q.
StoresTo(q, l) == {i \in DOMAIN q : q[i].loc = l}

----------------------------------------------------------------------------

\* read: the thread's own newest store to l, else memory, else 0.
Read(s, t, l) ==
  LET own == StoresTo(At(s.buffers, t, <<>>), l)
  IN  IF own # {} THEN s.buffers[t][Max(own)].val ELSE At(s.memory, l, 0)

\* Mutants of Propagate: the newest store goes first; an empty queue stays.
PropagateNewest(s, t) ==
  LET q == s.buffers[t]
  IN  [memory  |-> Put(s.memory, Last(q).loc, Last(q).val),
       buffers |-> IF Len(q) = 1 THEN Erase(s.buffers, t)
                                 ELSE Put(s.buffers, t, Front(q))]

PropagateKeepsQueue(s, t) ==
  LET q == s.buffers[t]
  IN  [memory  |-> Put(s.memory, q[1].loc, q[1].val),
       buffers |-> Put(s.buffers, t, Tail(q))]

\* propagate: the oldest store reaches memory; an empty queue is erased.
Propagate(s, t) ==
  LET q == s.buffers[t]
  IN  [memory  |-> Put(s.memory, q[1].loc, q[1].val),
       buffers |-> IF Len(q) = 1 THEN Erase(s.buffers, t)
                                 ELSE Put(s.buffers, t, Tail(q))]

\* Mutant of FlushBuffer: the queue is emptied from its newest end.
FlushNewestFirst(s, t) ==
  IF ~HasEps(s, t) THEN s
  ELSE LET q == s.buffers[t]
       IN  [memory  |-> [l \in DOMAIN s.memory \cup {q[i].loc : i \in DOMAIN q} |->
                           IF StoresTo(q, l) # {} THEN q[Min(StoresTo(q, l))].val
                                                  ELSE s.memory[l]],
            buffers |-> Erase(s.buffers, t)]

\* flush_buffer: the whole queue reaches memory in order, so that the newest
\* store to each location stays, and the queue is erased.
FlushBuffer(s, t) ==
  IF ~HasEps(s, t) THEN s
  ELSE LET q == s.buffers[t]
       IN  [memory  |-> [l \in DOMAIN s.memory \cup {q[i].loc : i \in DOMAIN q}
                           |-> Read(s, t, l)],
            buffers |-> Erase(s.buffers, t)]

Enqueue(s, t, l, v) ==
  [s EXCEPT !.buffers = Put(@, t, Append(At(@, t, <<>>), [loc |-> l, val |-> v]))]

\* Mutant of Write: SEQ_CST is taken for a mode like the others.
WriteNeverFlushes(s, t, l, v, m) == Enqueue(s, t, l, v)

\* write and fence: only SEQ_CST drains the buffer.
Write(s, t, l, v, m) ==
  LET queued == Enqueue(s, t, l, v)
  IN  IF m = "SEQ_CST" THEN FlushBuffer(queued, t) ELSE queued

Fence(s, t, m) == IF m = "SEQ_CST" THEN FlushBuffer(s, t) ELSE s

\* get_eps_transitions
EpsStorages(s, t) == IF HasEps(s, t) THEN {Propagate(s, t)} ELSE {}

\* Mutant of FlushAll: flush() is not overridden.
FlushAllDefault(s) == {s}

\* flush(): every buffer, in the order the unordered_map yields the threads.
FlushAll(s) ==
  {FoldLeft(FlushBuffer, s, order) : order \in SetToSeqs(DOMAIN s.buffers)}

=============================================================================
