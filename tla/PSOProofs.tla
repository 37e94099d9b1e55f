------------------------------ MODULE PSOProofs ------------------------------
(***************************************************************************)
(* Proofs about PSOSystem, for any threads, locations, values and modes.    *)
(***************************************************************************)
EXTENDS PSOSystem, HistoryProofs

----------------------------------------------------------------------------
(* Storage: what each operation keeps and does to the queues. *)

QueueOf(s, t, l) == At(Queues(s, t), l, <<>>)

StorageOK(s) ==
  /\ s = [memory |-> s.memory, buffers |-> s.buffers]
  /\ DOMAIN s.memory \subseteq Locations
  /\ \A l \in DOMAIN s.memory : s.memory[l] \in Values
  /\ DOMAIN s.buffers \subseteq Threads
  /\ \A t \in DOMAIN s.buffers :
       /\ DOMAIN s.buffers[t] # {}
       /\ DOMAIN s.buffers[t] \subseteq Locations
       /\ \A l \in DOMAIN s.buffers[t] :
            s.buffers[t][l] \in Seq(Values) /\ s.buffers[t][l] # <<>>

LEMMA NewOK == StorageOK(New)
BY DEF StorageOK, New, EmptyMap

LEMMA QueueType ==
  ASSUME NEW s, StorageOK(s), NEW t, NEW l
  PROVE  /\ QueueOf(s, t, l) \in Seq(Values)
         /\ DOMAIN Queues(s, t) \subseteq Locations
         /\ l \in DOMAIN Queues(s, t) <=> QueueOf(s, t, l) # <<>>
         /\ l \in DOMAIN Queues(s, t) => QueueOf(s, t, l) = Queues(s, t)[l]
<1>1. DOMAIN EmptyMap = {}
  BY DEF EmptyMap
<1>2. /\ DOMAIN Queues(s, t) \subseteq Locations
      /\ \A k \in DOMAIN Queues(s, t) :
           Queues(s, t)[k] \in Seq(Values) /\ Queues(s, t)[k] # <<>>
  BY <1>1 DEF Queues, At, StorageOK
<1>3. <<>> \in Seq(Values)
  BY EmptySeq
<1> QED
  BY <1>2, <1>3 DEF QueueOf, At

LEMMA LastOf ==
  ASSUME NEW S, NEW q \in Seq(S), q # <<>>
  PROVE  Len(q) \in Nat /\ Len(q) \in 1..Len(q) /\ Last(q) = q[Len(q)] /\ Last(q) \in S
<1>1. Len(q) \in Nat \ {0}
  BY EmptySeq
<1>2. q[Len(q)] \in S
  BY <1>1, ElementOfSeq
<1> QED
  BY <1>1, <1>2 DEF Last

LEMMA ReadType ==
  ASSUME NEW s, StorageOK(s), NEW t, NEW l
  PROVE  Read(s, t, l) \in Values
<1>1. QueueOf(s, t, l) \in Seq(Values)
  BY QueueType
<1>2. At(s.memory, l, 0) \in Values
  BY ConstantsAssumption DEF At, StorageOK
<1> QED
  BY <1>1, <1>2, LastOf DEF Read, QueueOf

MemoryOK(memory) ==
  DOMAIN memory \subseteq Locations /\ \A l \in DOMAIN memory : memory[l] \in Values

QueuesOK(queues) ==
  /\ DOMAIN queues # {} /\ DOMAIN queues \subseteq Locations
  /\ \A l \in DOMAIN queues : queues[l] \in Seq(Values) /\ queues[l] # <<>>

\* A map with other queues for one thread.
LEMMA SetQueuesOK ==
  ASSUME NEW s, StorageOK(s), NEW t \in Threads, NEW memory,
         MemoryOK(memory), NEW queues, QueuesOK(queues),
         NEW s2, s2 = [memory |-> memory, buffers |-> Put(s.buffers, t, queues)]
  PROVE  /\ StorageOK(s2)
         /\ Queues(s2, t) = queues
         /\ \A u : u # t => Queues(s2, u) = Queues(s, u)
<1>1. s2.memory = memory /\ s2.buffers = Put(s.buffers, t, queues)
  OBVIOUS
<1>2. DOMAIN s2.buffers = DOMAIN s.buffers \cup {t}
  BY <1>1 DEF Put
<1>3. \A u \in DOMAIN s2.buffers : s2.buffers[u] = IF u = t THEN queues ELSE s.buffers[u]
  BY <1>1 DEF Put
<1>4. StorageOK(s2)
  BY <1>1, <1>2, <1>3 DEF StorageOK, MemoryOK, QueuesOK
<1> QED
  BY <1>2, <1>3, <1>4 DEF Queues, At

LEMMA EraseQueuesOK ==
  ASSUME NEW s, StorageOK(s), NEW t \in Threads, NEW memory,
         DOMAIN memory \subseteq Locations, \A l \in DOMAIN memory : memory[l] \in Values,
         NEW s2, s2 = [memory |-> memory, buffers |-> Erase(s.buffers, t)]
  PROVE  /\ StorageOK(s2)
         /\ Queues(s2, t) = EmptyMap
         /\ \A u : u # t => Queues(s2, u) = Queues(s, u)
<1>1. s2.memory = memory /\ s2.buffers = Erase(s.buffers, t)
  OBVIOUS
<1>2. /\ DOMAIN s2.buffers = DOMAIN s.buffers \ {t}
      /\ \A u \in DOMAIN s2.buffers : s2.buffers[u] = s.buffers[u]
  BY <1>1 DEF Erase
<1>3. StorageOK(s2)
  BY <1>1, <1>2 DEF StorageOK
<1> QED
  BY <1>2, <1>3 DEF Queues, At

LEMMA EnqueueOK ==
  ASSUME NEW s, StorageOK(s),
         NEW t \in Threads, NEW l \in Locations, NEW v \in Values
  PROVE  /\ StorageOK(Enqueue(s, t, l, v))
         /\ Enqueue(s, t, l, v).memory = s.memory
         /\ QueueOf(Enqueue(s, t, l, v), t, l) = Append(QueueOf(s, t, l), v)
         /\ \A u, k : u # t \/ k # l => QueueOf(Enqueue(s, t, l, v), u, k) = QueueOf(s, u, k)
<1> DEFINE q      == Append(QueueOf(s, t, l), v)
           queues == Put(Queues(s, t), l, q)
           s2     == Enqueue(s, t, l, v)
<1>1. q \in Seq(Values) /\ q # <<>>
  BY QueueType, AppendProperties
<1>2. s2 = [memory |-> s.memory, buffers |-> Put(s.buffers, t, queues)]
  BY DEF Enqueue, QueueOf, StorageOK
<1> HIDE DEF q
<1>3. /\ DOMAIN queues = DOMAIN Queues(s, t) \cup {l}
      /\ \A k \in DOMAIN queues : queues[k] = IF k = l THEN q ELSE Queues(s, t)[k]
  BY DEF Put
<1>4. DOMAIN queues # {} /\ DOMAIN queues \subseteq Locations
  BY <1>3, QueueType
<1>5. \A k \in DOMAIN queues : queues[k] \in Seq(Values) /\ queues[k] # <<>>
  BY <1>1, <1>3, QueueType
<1> HIDE DEF queues, s2
<1>6. /\ StorageOK(s2) /\ Queues(s2, t) = queues
      /\ \A u : u # t => Queues(s2, u) = Queues(s, u)
  <2>1. MemoryOK(s.memory) /\ QueuesOK(queues)
    BY <1>4, <1>5 DEF StorageOK, MemoryOK, QueuesOK
  <2> QED
    BY <1>2, <2>1, SetQueuesOK
<1>7. s2.memory = s.memory
  BY <1>2
<1>8. QueueOf(s2, t, l) = q
  BY <1>3, <1>6 DEF QueueOf, At
<1>9. \A u, k : u # t \/ k # l => QueueOf(s2, u, k) = QueueOf(s, u, k)
  BY <1>3, <1>6 DEF QueueOf, At
<1> QED
  BY <1>6, <1>7, <1>8, <1>9 DEF s2, q

LEMMA FlushBufferOK ==
  ASSUME NEW s, StorageOK(s), NEW t \in Threads
  PROVE  /\ StorageOK(FlushBuffer(s, t))
         /\ \A k : QueueOf(FlushBuffer(s, t), t, k) = <<>>
         /\ \A u, k : u # t => QueueOf(FlushBuffer(s, t), u, k) = QueueOf(s, u, k)
         /\ \A l \in Locations : At(FlushBuffer(s, t).memory, l, 0) = Read(s, t, l)
<1> DEFINE queues == Queues(s, t)
           memory == [l \in DOMAIN s.memory \cup DOMAIN queues |->
                        IF l \in DOMAIN queues THEN Last(queues[l]) ELSE s.memory[l]]
           s2     == FlushBuffer(s, t)
<1>1. s2 = [memory |-> memory, buffers |-> Erase(s.buffers, t)]
  BY DEF FlushBuffer
<1>2. \A l : Read(s, t, l) = IF l \in DOMAIN queues THEN Last(queues[l]) ELSE At(s.memory, l, 0)
  BY QueueType DEF Read, QueueOf
<1>3. \A l \in DOMAIN memory : memory[l] = Read(s, t, l)
  BY <1>2 DEF At
<1>4. DOMAIN memory \subseteq Locations
  BY QueueType DEF StorageOK
<1>5. \A l : At(memory, l, 0) = Read(s, t, l)
  BY <1>2 DEF At
<1> HIDE DEF memory, s2
<1>6. /\ StorageOK(s2) /\ Queues(s2, t) = EmptyMap
      /\ \A u : u # t => Queues(s2, u) = Queues(s, u)
  BY <1>1, <1>3, <1>4, ReadType, EraseQueuesOK
<1>7. s2.memory = memory
  BY <1>1
<1>8. \A k : QueueOf(s2, t, k) = <<>>
  BY <1>6 DEF QueueOf, At, EmptyMap
<1>9. \A u, k : u # t => QueueOf(s2, u, k) = QueueOf(s, u, k)
  BY <1>6 DEF QueueOf
<1> QED
  BY <1>5, <1>6, <1>7, <1>8, <1>9 DEF s2

LEMMA PropagateOK ==
  ASSUME NEW s, StorageOK(s), NEW t \in Threads, NEW l \in DOMAIN Queues(s, t)
  PROVE  /\ StorageOK(Propagate(s, t, l))
         /\ QueueOf(Propagate(s, t, l), t, l) = Tail(QueueOf(s, t, l))
         /\ \A u, k : u # t \/ k # l => QueueOf(Propagate(s, t, l), u, k) = QueueOf(s, u, k)
         /\ \A k : At(Propagate(s, t, l).memory, k, 0) =
                     IF k = l THEN QueueOf(s, t, l)[1] ELSE At(s.memory, k, 0)
<1> DEFINE q      == QueueOf(s, t, l)
           left   == IF Len(q) = 1 THEN Erase(Queues(s, t), l)
                                   ELSE Put(Queues(s, t), l, Tail(q))
           memory == Put(s.memory, l, Head(q))
           s2     == Propagate(s, t, l)
<1>1. q \in Seq(Values) /\ q # <<>> /\ q = Queues(s, t)[l] /\ l \in Locations
  BY QueueType
<1>2. Len(q) \in Nat \ {0}
  BY <1>1, EmptySeq
<1>3. Head(q) = q[1] /\ Head(q) \in Values /\ Tail(q) \in Seq(Values) /\ Len(Tail(q)) = Len(q) - 1
  BY <1>1, HeadTailProperties
<1>4. Tail(q) = <<>> <=> Len(q) = 1
  <2>1. Len(Tail(q)) = 0 <=> Tail(q) = <<>>
    BY <1>3, EmptySeq
  <2> QED
    BY <1>2, <1>3, <2>1
<1>5. s2 = [memory  |-> memory,
            buffers |-> IF left = EmptyMap THEN Erase(s.buffers, t)
                                           ELSE Put(s.buffers, t, left)]
  BY <1>1 DEF Propagate
<1> HIDE DEF q
<1>6. /\ DOMAIN left = IF Len(q) = 1 THEN DOMAIN Queues(s, t) \ {l} ELSE DOMAIN Queues(s, t)
      /\ \A k \in DOMAIN left : left[k] = IF k = l THEN Tail(q) ELSE Queues(s, t)[k]
  BY DEF Erase, Put
<1>7. left = EmptyMap <=> DOMAIN left = {}
  BY DEF Erase, Put, EmptyMap
<1> HIDE DEF left
<1>8. /\ DOMAIN left \subseteq Locations
      /\ \A k \in DOMAIN left : left[k] \in Seq(Values) /\ left[k] # <<>>
  <2>1. DOMAIN left \subseteq Locations
    BY <1>6, QueueType
  <2>2. ASSUME NEW k \in DOMAIN left, k = l
        PROVE  left[k] \in Seq(Values) /\ left[k] # <<>>
    BY <1>3, <1>4, <1>6, <2>2
  <2>3. ASSUME NEW k \in DOMAIN left, k # l
        PROVE  left[k] \in Seq(Values) /\ left[k] # <<>>
    <3>1. k \in DOMAIN Queues(s, t) /\ left[k] = Queues(s, t)[k]
      BY <1>6, <2>3
    <3>2. Queues(s, t)[k] \in Seq(Values) /\ Queues(s, t)[k] # <<>>
      BY <3>1, QueueType
    <3> QED
      BY <3>1, <3>2
  <2> QED
    BY <2>1, <2>2, <2>3
<1>9. /\ DOMAIN memory \subseteq Locations
      /\ \A k \in DOMAIN memory : memory[k] \in Values
      /\ \A k : At(memory, k, 0) = IF k = l THEN q[1] ELSE At(s.memory, k, 0)
  BY <1>1, <1>3 DEF Put, At, StorageOK
<1> HIDE DEF memory, s2
<1>10. /\ StorageOK(s2)
       /\ \A k : At(Queues(s2, t), k, <<>>) = At(left, k, <<>>)
       /\ \A u : u # t => Queues(s2, u) = Queues(s, u)
  <2>1. CASE left = EmptyMap
    <3>1. s2 = [memory |-> memory, buffers |-> Erase(s.buffers, t)]
      BY <1>5, <2>1
    <3> QED
      BY <3>1, <2>1, <1>9, EraseQueuesOK
  <2>2. CASE left # EmptyMap
    <3>1. s2 = [memory |-> memory, buffers |-> Put(s.buffers, t, left)]
      BY <1>5, <2>2
    <3>2. DOMAIN left # {}
      BY <1>7, <2>2
    <3>3. /\ StorageOK(s2) /\ Queues(s2, t) = left
          /\ \A u : u # t => Queues(s2, u) = Queues(s, u)
      <4>1. MemoryOK(memory) /\ QueuesOK(left)
        BY <1>8, <1>9, <3>2 DEF MemoryOK, QueuesOK
      <4> QED
        BY <3>1, <4>1, SetQueuesOK
    <3> QED
      BY <3>3
  <2> QED
    BY <2>1, <2>2
<1>11. At(left, l, <<>>) = Tail(q)
  BY <1>4, <1>6 DEF At
<1>12. \A k : k # l => At(left, k, <<>>) = At(Queues(s, t), k, <<>>)
  BY <1>6 DEF At
<1>13. QueueOf(s2, t, l) = Tail(q)
  BY <1>10, <1>11 DEF QueueOf
<1>14. \A u, k : u # t \/ k # l => QueueOf(s2, u, k) = QueueOf(s, u, k)
  BY <1>10, <1>12 DEF QueueOf
<1>15. s2.memory = memory
  BY <1>5
<1> QED
  BY <1>9, <1>10, <1>13, <1>14, <1>15 DEF q, s2

----------------------------------------------------------------------------
(* A queue is what its thread has pending for a location, in program order. *)

StoredEntry == StoredBy(Locations, Values)

PendingIn(issued, l) == {i \in 1..Len(issued) : issued[i].loc = l /\ issued[i].at = 0}

IsPlace(place, q, issued, l) ==
  /\ place \in [1..Len(q) -> PendingIn(issued, l)]
  /\ \A i \in PendingIn(issued, l) : \E k \in 1..Len(q) : place[k] = i
  /\ \A k \in 1..Len(q) : issued[place[k]].val = q[k]
  /\ \A j, k \in 1..Len(q) : j < k => place[j] < place[k]

Follows(q, issued, l) == \E place : IsPlace(place, q, issued, l)

\* Of the stores to l, those in effect come first, in the order of their times.
Ordered(issued, l) ==
  \A i, j \in 1..Len(issued) :
    issued[i].loc = l /\ issued[j].loc = l =>
      /\ issued[i].at > 0 /\ issued[j].at = 0 => i < j
      /\ i < j /\ issued[i].at > 0 /\ issued[j].at > 0 => issued[i].at <= issued[j].at

\* issued2 is issued with a pending store of v to l behind it.
Added(issued, issued2, l, v) ==
  /\ Len(issued) \in Nat /\ Len(issued2) = Len(issued) + 1
  /\ \A i \in 1..Len(issued) : issued2[i] = issued[i] /\ issued[i].at \in Nat
  /\ issued2[Len(issued) + 1] = [loc |-> l, val |-> v, at |-> 0]
  /\ PendingIn(issued2, l) = PendingIn(issued, l) \cup {Len(issued) + 1}

LEMMA AppendHas ==
  ASSUME NEW issued \in Seq(StoredEntry), NEW l \in Locations, NEW v \in Values,
         NEW issued2, issued2 = Append(issued, [loc |-> l, val |-> v, at |-> 0])
  PROVE  Added(issued, issued2, l, v)
<1> DEFINE e == [loc |-> l, val |-> v, at |-> 0]
           n == Len(issued)
<1>1. e \in StoredEntry
  BY DEF StoredEntry, StoredBy
<1>2. n \in Nat /\ Len(issued2) = n + 1
  BY <1>1, AppendProperties, LenProperties
<1>3. /\ \A i \in 1..n : issued2[i] = issued[i]
      /\ issued2[n + 1] = e
  BY <1>1, AppendProperties
<1>4. ASSUME NEW i \in 1..n
      PROVE  issued[i].at \in Nat
  <2>1. issued[i] \in StoredEntry
    BY ElementOfSeq
  <2> QED
    BY <2>1 DEF StoredEntry, StoredBy
<1>5. 1..Len(issued2) = (1..n) \cup {n + 1} /\ n + 1 \notin 1..n
  BY <1>2
<1> HIDE DEF n
<1>6. PendingIn(issued2, l) = PendingIn(issued, l) \cup {n + 1}
  BY <1>3, <1>5 DEF PendingIn, n
<1> QED
  BY <1>2, <1>3, <1>4, <1>6 DEF n, Added

LEMMA AppendOrdered ==
  ASSUME NEW issued \in Seq(StoredEntry), NEW l \in Locations, NEW v \in Values,
         NEW issued2, Added(issued, issued2, l, v),
         NEW k, Ordered(issued, k)
  PROVE  Ordered(issued2, k)
<1> SUFFICES ASSUME NEW i \in 1..Len(issued2), NEW j \in 1..Len(issued2),
                    issued2[i].loc = k, issued2[j].loc = k
             PROVE  /\ issued2[i].at > 0 /\ issued2[j].at = 0 => i < j
                    /\ i < j /\ issued2[i].at > 0 /\ issued2[j].at > 0 =>
                         issued2[i].at <= issued2[j].at
  BY DEF Ordered
<1>1. /\ Len(issued) \in Nat /\ Len(issued2) = Len(issued) + 1
      /\ \A x \in 1..Len(issued) : issued2[x] = issued[x]
      /\ issued2[Len(issued) + 1].at = 0
  BY DEF Added
<1>2. CASE i \in 1..Len(issued) /\ j \in 1..Len(issued)
  BY <1>1, <1>2 DEF Ordered
<1>3. CASE i = Len(issued) + 1 \/ j = Len(issued) + 1
  BY <1>1, <1>3
<1> QED
  BY <1>1, <1>2, <1>3

LEMMA AppendElsewhere ==
  ASSUME NEW issued \in Seq(StoredEntry), NEW l \in Locations, NEW v \in Values,
         NEW issued2, Added(issued, issued2, l, v),
         NEW k, k # l, NEW q, Follows(q, issued, k)
  PROVE  Follows(q, issued2, k)
<1>1. PICK place : IsPlace(place, q, issued, k)
  BY DEF Follows
<1>2. PendingIn(issued2, k) = PendingIn(issued, k)
  <2>1. /\ Len(issued) \in Nat /\ Len(issued2) = Len(issued) + 1
        /\ \A i \in 1..Len(issued) : issued2[i] = issued[i]
    BY DEF Added
  <2>2. issued2[Len(issued) + 1] = [loc |-> l, val |-> v, at |-> 0]
    BY DEF Added
  <2> QED
    BY <2>1, <2>2 DEF PendingIn
<1>3. \A i \in PendingIn(issued, k) : issued2[i] = issued[i]
  BY DEF Added, PendingIn
<1>4. IsPlace(place, q, issued2, k)
  BY <1>1, <1>2, <1>3 DEF IsPlace
<1> QED
  BY <1>4 DEF Follows

LEMMA AppendFollows ==
  ASSUME NEW issued \in Seq(StoredEntry), NEW l \in Locations, NEW v \in Values,
         NEW issued2, Added(issued, issued2, l, v),
         NEW q \in Seq(Values), Follows(q, issued, l)
  PROVE  Follows(Append(q, v), issued2, l)
<1> DEFINE n  == Len(issued)
           m  == Len(q)
           q2 == Append(q, v)
<1>1. PICK place : IsPlace(place, q, issued, l)
  BY DEF Follows
<1>2. /\ n \in Nat /\ issued2[n + 1].val = v
      /\ \A i \in 1..n : issued2[i] = issued[i]
      /\ PendingIn(issued2, l) = PendingIn(issued, l) \cup {n + 1}
  <2>1. n \in Nat /\ \A i \in 1..n : issued2[i] = issued[i]
    BY DEF Added
  <2>2. issued2[n + 1] = [loc |-> l, val |-> v, at |-> 0]
    BY DEF Added
  <2>3. PendingIn(issued2, l) = PendingIn(issued, l) \cup {n + 1}
    BY DEF Added
  <2> QED
    BY <2>1, <2>2, <2>3
<1>3. /\ m \in Nat /\ Len(q2) = m + 1 /\ q2[m + 1] = v
      /\ \A k \in 1..m : q2[k] = q[k]
  BY AppendProperties, LenProperties
<1>4. PendingIn(issued, l) \subseteq 1..n
  BY DEF PendingIn
<1> DEFINE place2 == [k \in 1..(m + 1) |-> IF k = m + 1 THEN n + 1 ELSE place[k]]
<1> HIDE DEF n, m, q2
<1>5. 1..(m + 1) = (1..m) \cup {m + 1} /\ m + 1 \notin 1..m
  BY <1>3
<1>6. \A k \in 1..m : place2[k] = place[k] /\ place[k] \in PendingIn(issued, l) /\ place[k] \in 1..n
  BY <1>1, <1>4, <1>5 DEF IsPlace, m
<1>7. place2[m + 1] = n + 1
  BY <1>5
<1>8. place2 \in [1..(m + 1) -> PendingIn(issued2, l)]
  BY <1>2, <1>5, <1>6, <1>7
<1> HIDE DEF place2
<1>9. \A i \in PendingIn(issued2, l) : \E k \in 1..(m + 1) : place2[k] = i
  <2>1. \A i \in PendingIn(issued, l) : \E k \in 1..m : place[k] = i
    BY <1>1 DEF IsPlace, m
  <2> QED
    BY <1>2, <1>5, <1>6, <1>7, <2>1
<1>10. \A k \in 1..(m + 1) : issued2[place2[k]].val = q2[k]
  <2>1. \A k \in 1..m : issued[place[k]].val = q[k]
    BY <1>1 DEF IsPlace, m
  <2>2. ASSUME NEW k \in 1..m
        PROVE  issued2[place2[k]].val = q2[k]
    <3>1. place2[k] = place[k] /\ q2[k] = q[k]
      BY <1>3, <1>6
    <3>2. issued2[place[k]] = issued[place[k]]
      BY <1>2, <1>6
    <3> QED
      BY <2>1, <3>1, <3>2
  <2>3. issued2[place2[m + 1]].val = q2[m + 1]
    BY <1>2, <1>3, <1>7
  <2> QED
    BY <1>5, <2>2, <2>3
<1>11. ASSUME NEW j \in 1..(m + 1), NEW k \in 1..(m + 1), j < k
       PROVE  place2[j] < place2[k]
  <2>1. j \in 1..m
    BY <1>3, <1>11
  <2>2. CASE k = m + 1
    BY <1>2, <1>6, <1>7, <2>1, <2>2
  <2>3. CASE k \in 1..m
    <3>1. place[j] < place[k]
      BY <1>1, <1>11, <2>1, <2>3 DEF IsPlace, m
    <3> QED
      BY <1>6, <2>1, <2>3, <3>1
  <2> QED
    BY <1>5, <2>2, <2>3
<1>12. IsPlace(place2, q2, issued2, l)
  BY <1>3, <1>8, <1>9, <1>10, <1>11 DEF IsPlace
<1> QED
  BY <1>12 DEF Follows, q2

LEMMA NothingPending ==
  ASSUME NEW issued, NEW l, PendingIn(issued, l) = {}
  PROVE  Follows(<<>>, issued, l)
<1> DEFINE place == [k \in 1..0 |-> 0]
<1>1. Len(<<>>) = 0 /\ 1..0 = {}
  BY EmptySeq
<1>2. IsPlace(place, <<>>, issued, l)
  BY <1>1 DEF IsPlace
<1> QED
  BY <1>2 DEF Follows

\* What is in effect was settled no later than the clock.
BoundedBy(issued, clock) ==
  \A i \in 1..Len(issued) : issued[i].at \in Nat /\ issued[i].at <= clock

\* Committing all that is pending, or the oldest of one location, keeps order.
LEMMA CommitOrdered ==
  ASSUME NEW issued \in Seq(StoredEntry), NEW clock \in Nat, BoundedBy(issued, clock),
         NEW I, I \subseteq 1..Len(issued), \A i \in I : issued[i].at = 0,
         NEW after, Committed(issued, I, clock + 1, after),
         NEW l, Ordered(issued, l),
         \A i \in PendingIn(issued, l) \cap I, j \in PendingIn(issued, l) \ I : i < j
  PROVE  Ordered(after, l)
<1> SUFFICES ASSUME NEW i \in 1..Len(after), NEW j \in 1..Len(after),
                    after[i].loc = l, after[j].loc = l
             PROVE  /\ after[i].at > 0 /\ after[j].at = 0 => i < j
                    /\ i < j /\ after[i].at > 0 /\ after[j].at > 0 => after[i].at <= after[j].at
  BY DEF Ordered
<1>1. /\ i \in 1..Len(issued) /\ j \in 1..Len(issued) /\ Len(issued) \in Nat
      /\ issued[i].loc = l /\ issued[j].loc = l
      /\ after[i].at = IF i \in I THEN clock + 1 ELSE issued[i].at
      /\ after[j].at = IF j \in I THEN clock + 1 ELSE issued[j].at
  BY LenProperties DEF Committed
<1>2. /\ issued[i].at \in Nat /\ issued[i].at <= clock
      /\ issued[j].at \in Nat /\ issued[j].at <= clock
  BY <1>1 DEF BoundedBy
<1>3. /\ issued[i].at > 0 /\ issued[j].at = 0 => i < j
      /\ i < j /\ issued[i].at > 0 /\ issued[j].at > 0 => issued[i].at <= issued[j].at
      /\ issued[j].at > 0 /\ issued[i].at = 0 => j < i
  BY <1>1 DEF Ordered
<1>4. CASE i \in I /\ j \notin I
  <2>1. issued[j].at = 0 => i < j
    BY <1>1, <1>4 DEF PendingIn
  <2>2. issued[j].at > 0 => j < i
    BY <1>3, <1>4
  <2> QED
    BY <1>1, <1>2, <1>4, <2>1, <2>2
<1>5. CASE i \in I /\ j \in I
  BY <1>1, <1>5
<1>6. CASE i \notin I /\ j \in I
  <2>1. issued[j].at = 0
    BY <1>6
  <2> QED
    BY <1>1, <1>2, <1>3, <1>6, <2>1
<1>7. CASE i \notin I /\ j \notin I
  BY <1>1, <1>2, <1>3, <1>7
<1> QED
  BY <1>4, <1>5, <1>6, <1>7

LEMMA CommitPending ==
  ASSUME NEW issued \in Seq(StoredEntry), NEW clock \in Nat,
         NEW I, NEW after, Committed(issued, I, clock + 1, after), NEW l
  PROVE  PendingIn(after, l) = PendingIn(issued, l) \ I
BY DEF PendingIn, Committed

LEMMA CommitElsewhere ==
  ASSUME NEW issued \in Seq(StoredEntry), NEW clock \in Nat,
         NEW I, NEW after, Committed(issued, I, clock + 1, after),
         NEW l, PendingIn(issued, l) \cap I = {}, NEW q, Follows(q, issued, l)
  PROVE  Follows(q, after, l)
<1>1. PICK place : IsPlace(place, q, issued, l)
  BY DEF Follows
<1>2. PendingIn(after, l) = PendingIn(issued, l)
  <2>1. PendingIn(after, l) = PendingIn(issued, l) \ I
    BY CommitPending
  <2> QED
    BY <2>1
<1>3. \A i \in PendingIn(issued, l) : after[i].val = issued[i].val
  BY DEF PendingIn, Committed
<1>4. IsPlace(place, q, after, l)
  BY <1>1, <1>2, <1>3 DEF IsPlace
<1> QED
  BY <1>4 DEF Follows

\* The front of a queue is the oldest store pending for its location.
LEMMA FrontIsOldest ==
  ASSUME NEW issued \in Seq(StoredEntry), NEW l, NEW q \in Seq(Values), q # <<>>,
         NEW place, IsPlace(place, q, issued, l)
  PROVE  /\ Oldest(PendingIn(issued, l)) = {place[1]}
         /\ place[1] \in PendingIn(issued, l)
         /\ issued[place[1]].val = q[1]
         /\ \A j \in PendingIn(issued, l) : j # place[1] => place[1] < j
<1>1. Len(q) \in Nat /\ 1 \in 1..Len(q)
  BY EmptySeq, LenProperties
<1>2. place[1] \in PendingIn(issued, l) /\ issued[place[1]].val = q[1]
  BY <1>1 DEF IsPlace
<1>3. ASSUME NEW j \in PendingIn(issued, l), j # place[1]
      PROVE  place[1] < j
  <2>1. PICK k \in 1..Len(q) : place[k] = j
    BY DEF IsPlace
  <2>2. 1 < k
    BY <1>1, <1>3, <2>1
  <2> QED
    BY <1>1, <2>1, <2>2 DEF IsPlace
<1>4. PendingIn(issued, l) \subseteq Int
  BY LenProperties DEF PendingIn
<1>5. Oldest(PendingIn(issued, l)) = {place[1]}
  BY <1>2, <1>3, <1>4 DEF Oldest
<1> QED
  BY <1>2, <1>3, <1>5

LEMMA CommitFront ==
  ASSUME NEW issued \in Seq(StoredEntry), NEW clock \in Nat, NEW l,
         NEW q \in Seq(Values), q # <<>>,
         NEW place, IsPlace(place, q, issued, l),
         NEW after, Committed(issued, {place[1]}, clock + 1, after)
  PROVE  Follows(Tail(q), after, l)
<1> DEFINE m      == Len(q) - 1
           p      == Tail(q)
           place2 == [k \in 1..m |-> place[k + 1]]
<1>1. /\ m \in Nat /\ Len(p) = m
      /\ \A k \in 1..m : p[k] = q[k + 1]
      /\ \A k \in 1..m : k + 1 \in 1..Len(q) /\ k + 1 # 1
      /\ \A k \in 1..Len(q) : k = 1 \/ (k - 1 \in 1..m /\ k = (k - 1) + 1)
      /\ 1 \in 1..Len(q)
  <2>1. Len(q) \in Nat \ {0}
    BY EmptySeq, LenProperties
  <2>2. Len(p) = m /\ \A k \in 1..m : p[k] = q[k + 1]
    BY <2>1, HeadTailProperties
  <2> QED
    BY <2>1, <2>2
<1>2. PendingIn(after, l) = PendingIn(issued, l) \ {place[1]}
  BY CommitPending
<1>3. \A i \in PendingIn(issued, l) : after[i].val = issued[i].val /\ i \in Int
  BY LenProperties DEF PendingIn, Committed
<1> HIDE DEF m, p
<1>4. \A k \in 1..m : place2[k] = place[k + 1] /\ place[k + 1] \in PendingIn(issued, l)
  BY <1>1 DEF IsPlace
<1>5. \A k \in 1..m : place[k + 1] # place[1]
  <2> SUFFICES ASSUME NEW k \in 1..m PROVE place[k + 1] # place[1]
    OBVIOUS
  <2>1. 1 < k + 1
    BY <1>1
  <2>2. place[1] < place[k + 1]
    BY <1>1, <2>1 DEF IsPlace
  <2>3. place[1] \in Int
    BY <1>1, <1>3 DEF IsPlace
  <2> QED
    BY <2>2, <2>3
<1>6. place2 \in [1..m -> PendingIn(after, l)]
  BY <1>2, <1>4, <1>5
<1> HIDE DEF place2
<1>7. ASSUME NEW i \in PendingIn(after, l)
      PROVE  \E k \in 1..m : place2[k] = i
  <2>1. PICK k \in 1..Len(q) : place[k] = i
    BY <1>2 DEF IsPlace
  <2>2. k # 1
    BY <1>2, <2>1
  <2>3. k - 1 \in 1..m /\ place2[k - 1] = i
    BY <1>1, <1>4, <2>1, <2>2
  <2> QED
    BY <2>3
<1>8. ASSUME NEW k \in 1..m
      PROVE  after[place2[k]].val = p[k]
  <2>1. place2[k] = place[k + 1] /\ after[place[k + 1]].val = issued[place[k + 1]].val
    BY <1>3, <1>4
  <2>2. issued[place[k + 1]].val = q[k + 1] /\ p[k] = q[k + 1]
    BY <1>1 DEF IsPlace
  <2> QED
    BY <2>1, <2>2
<1>9. ASSUME NEW j \in 1..m, NEW k \in 1..m, j < k
      PROVE  place2[j] < place2[k]
  <2>1. j + 1 < k + 1 /\ j + 1 \in 1..Len(q) /\ k + 1 \in 1..Len(q)
    BY <1>1, <1>9
  <2>2. place[j + 1] < place[k + 1]
    BY <2>1 DEF IsPlace
  <2> QED
    BY <1>4, <2>2
<1>10. IsPlace(place2, p, after, l)
  BY <1>1, <1>6, <1>7, <1>8, <1>9 DEF IsPlace
<1> QED
  BY <1>10 DEF Follows, p

----------------------------------------------------------------------------
(* The queues and the history together. *)

HistoryOK(h) == h \in Histories(Threads, Locations, Values)

QueuesAre(s, h) ==
  \A t \in Threads, l \in Locations :
    Follows(QueueOf(s, t, l), h.stores[t], l) /\ Ordered(h.stores[t], l)

MemoryIs(s, h) == \A l \in Locations : LatestIs(h, l, At(s.memory, l, 0))

Consistent(s, h) ==
  StorageOK(s) /\ HistoryOK(h) /\ TimesBounded(h) /\ QueuesAre(s, h) /\ MemoryIs(s, h)

LEMMA PendingIs ==
  ASSUME NEW h, HistoryOK(h), NEW t \in Threads
  PROVE  /\ h.stores[t] \in Seq(StoredEntry) /\ h.clock \in Nat
         /\ DOMAIN h.stores[t] = 1..Len(h.stores[t])
         /\ \A i \in 1..Len(h.stores[t]) : h.stores[t][i].at \in Nat
         /\ Pending(h, t) = {i \in 1..Len(h.stores[t]) : h.stores[t][i].at = 0}
         /\ \A l : PendingTo(h, t, l) = PendingIn(h.stores[t], l)
<1>1. /\ h.stores[t] \in Seq(StoredEntry) /\ h.clock \in Nat
      /\ DOMAIN h.stores[t] = 1..Len(h.stores[t])
      /\ \A i \in 1..Len(h.stores[t]) : h.stores[t][i].at \in Nat
  BY HistoryStores DEF HistoryOK, StoredEntry
<1>2. Pending(h, t) = {i \in 1..Len(h.stores[t]) : h.stores[t][i].at = 0}
  BY <1>1 DEF Pending
<1>3. \A l : PendingTo(h, t, l) = PendingIn(h.stores[t], l)
  BY <1>2 DEF PendingTo, PendingIn
<1> QED
  BY <1>1, <1>2, <1>3

LEMMA TimesAre ==
  ASSUME NEW h, HistoryOK(h), TimesBounded(h), NEW t \in Threads
  PROVE  BoundedBy(h.stores[t], h.clock)
<1>1. t \in DOMAIN h.stores
  BY HistoryStores DEF HistoryOK
<1> QED
  BY <1>1, PendingIs DEF TimesBounded, BoundedBy

LEMMA IssueAdds ==
  ASSUME NEW h, HistoryOK(h), NEW t \in Threads, NEW l \in Locations, NEW v \in Values
  PROVE  /\ HistoryOK(Issue(h, t, l, v)) /\ Issue(h, t, l, v).clock = h.clock
         /\ Added(h.stores[t], Issue(h, t, l, v).stores[t], l, v)
         /\ \A u \in Threads : u # t => Issue(h, t, l, v).stores[u] = h.stores[u]
<1>1. /\ HistoryOK(Issue(h, t, l, v)) /\ Issue(h, t, l, v).clock = h.clock
      /\ Issue(h, t, l, v).stores[t] =
           Append(h.stores[t], [loc |-> l, val |-> v, at |-> 0])
      /\ \A u \in Threads : u # t => Issue(h, t, l, v).stores[u] = h.stores[u]
  BY HistoryIssue DEF HistoryOK
<1>2. h.stores[t] \in Seq(StoredEntry)
  BY PendingIs
<1> QED
  BY <1>1, <1>2, AppendHas

LEMMA IssueBounded ==
  ASSUME NEW h, HistoryOK(h), TimesBounded(h),
         NEW t \in Threads, NEW l \in Locations, NEW v \in Values
  PROVE  TimesBounded(Issue(h, t, l, v))
<1> DEFINE h2 == Issue(h, t, l, v)
<1>1. /\ h2 \in Histories(Threads, Locations, Values) /\ h2.clock = h.clock
      /\ Added(h.stores[t], h2.stores[t], l, v)
      /\ \A u \in Threads : u # t => h2.stores[u] = h.stores[u]
  BY IssueAdds DEF HistoryOK
<1>2. h.stores[t] \in Seq(StoredEntry) /\ h.clock \in Nat
  BY PendingIs
<1>3. /\ Len(h2.stores[t]) = Len(h.stores[t]) + 1 /\ Len(h.stores[t]) \in Nat
      /\ \A i \in 1..Len(h.stores[t]) : h2.stores[t][i] = h.stores[t][i]
      /\ h2.stores[t][Len(h.stores[t]) + 1].at = 0
  BY <1>1 DEF Added
<1>4. DOMAIN h2.stores = Threads
  BY <1>1, HistoryStores
<1> HIDE DEF h2
<1>5. ASSUME NEW u \in Threads, NEW i \in 1..Len(h2.stores[u])
      PROVE  h2.stores[u][i].at <= h2.clock
  <2>1. BoundedBy(h.stores[u], h.clock)
    BY TimesAre
  <2>2. CASE u # t
    BY <1>1, <1>5, <2>1, <2>2 DEF BoundedBy
  <2>3. CASE u = t /\ i \in 1..Len(h.stores[t])
    BY <1>1, <1>3, <2>1, <2>3 DEF BoundedBy
  <2>4. CASE u = t /\ i = Len(h.stores[t]) + 1
    BY <1>1, <1>2, <1>3, <2>4
  <2> QED
    BY <1>3, <1>5, <2>2, <2>3, <2>4
<1>6. TimesBounded(h2)
  BY <1>4, <1>5 DEF TimesBounded
<1> QED
  BY <1>6 DEF h2

LEMMA CommitBounded ==
  ASSUME NEW h, HistoryOK(h), TimesBounded(h), NEW t \in Threads, NEW I, I # {}
  PROVE  TimesBounded(Commit(h, t, I))
<1> DEFINE h2 == Commit(h, t, I)
<1>1. /\ h2 \in Histories(Threads, Locations, Values) /\ h2.clock = h.clock + 1
      /\ Committed(h.stores[t], I, h.clock + 1, h2.stores[t])
      /\ \A u \in Threads : u # t => h2.stores[u] = h.stores[u]
  BY HistoryCommit DEF HistoryOK
<1>2. DOMAIN h2.stores = Threads
  BY <1>1, HistoryStores
<1> HIDE DEF h2
<1>3. ASSUME NEW u \in Threads, NEW i \in 1..Len(h2.stores[u])
      PROVE  h2.stores[u][i].at <= h2.clock
  <2>1. BoundedBy(h.stores[u], h.clock) /\ h.clock \in Nat
    BY TimesAre, PendingIs
  <2>2. CASE u # t
    BY <1>1, <1>3, <2>1, <2>2 DEF BoundedBy
  <2>3. CASE u = t
    BY <1>1, <1>3, <2>1, <2>3 DEF BoundedBy, Committed
  <2> QED
    BY <2>2, <2>3
<1>4. TimesBounded(h2)
  BY <1>2, <1>3 DEF TimesBounded
<1> QED
  BY <1>4 DEF h2

\* A thread reads its newest pending store to a location, memory without one.
LEMMA ReadIsNewest ==
  ASSUME NEW s, NEW h, Consistent(s, h), NEW t \in Threads, NEW l \in Locations
  PROVE  Sees(h, t, l, At(s.memory, l, 0), Read(s, t, l))
<1> DEFINE q      == QueueOf(s, t, l)
           issued == h.stores[t]
<1>1. StorageOK(s) /\ HistoryOK(h) /\ Follows(q, issued, l)
  BY DEF Consistent, QueuesAre
<1>2. q \in Seq(Values)
  BY <1>1, QueueType
<1>3. /\ Pending(h, t) = {i \in 1..Len(issued) : issued[i].at = 0}
      /\ issued \in Seq(StoredEntry)
  BY <1>1, PendingIs
<1>4. PICK place : IsPlace(place, q, issued, l)
  BY <1>1 DEF Follows
<1>5. Read(s, t, l) = IF q # <<>> THEN Last(q) ELSE At(s.memory, l, 0)
  BY DEF Read, QueueOf
<1> HIDE DEF q
<1>6. CASE q = <<>>
  <2>1. Len(q) = 0
    BY <1>6, EmptySeq
  <2>2. PendingIn(issued, l) = {}
    BY <1>4, <2>1 DEF IsPlace
  <2> QED
    BY <1>3, <1>5, <1>6, <2>2 DEF PendingIn, Sees
<1>7. CASE q # <<>>
  <2>1. Len(q) \in Nat /\ Len(q) \in 1..Len(q) /\ Last(q) = q[Len(q)]
    BY <1>2, <1>7, LastOf
  <2>2. PICK i \in PendingIn(issued, l) : i = place[Len(q)]
    BY <1>4, <2>1 DEF IsPlace
  <2>3. issued[i].val = Read(s, t, l)
    BY <1>4, <1>5, <1>7, <2>1, <2>2 DEF IsPlace
  <2>4. ASSUME NEW j \in PendingIn(issued, l)
        PROVE  j <= i
    <3>1. PICK k \in 1..Len(q) : place[k] = j
      BY <1>4 DEF IsPlace
    <3>2. CASE k = Len(q)
      <4>1. j = i /\ i \in Int
        BY <2>2, <3>1, <3>2, LenProperties DEF PendingIn
      <4> QED
        BY <4>1
    <3>3. CASE k # Len(q)
      <4>1. k < Len(q)
        BY <2>1, <3>3
      <4>2. j < i
        BY <1>4, <2>1, <2>2, <3>1, <4>1 DEF IsPlace
      <4>3. j \in Int /\ i \in Int
        BY LenProperties DEF PendingIn
      <4> QED
        BY <4>2, <4>3
    <3> QED
      BY <3>2, <3>3
  <2>5. /\ i \in Pending(h, t) /\ issued[i].loc = l
        /\ \A j \in Pending(h, t) : issued[j].loc = l => j <= i
    BY <1>3, <2>4 DEF PendingIn
  <2> QED
    BY <2>3, <2>5 DEF Sees
<1> QED
  BY <1>6, <1>7

----------------------------------------------------------------------------
(* Every operation keeps them together. *)

LEMMA EnqueueKeeps ==
  ASSUME NEW s, NEW h, Consistent(s, h),
         NEW t \in Threads, NEW l \in Locations, NEW v \in Values
  PROVE  Consistent(Enqueue(s, t, l, v), Issue(h, t, l, v))
<1> DEFINE s2 == Enqueue(s, t, l, v)
           h2 == Issue(h, t, l, v)
<1>1. StorageOK(s) /\ HistoryOK(h) /\ TimesBounded(h)
  BY DEF Consistent
<1>2. /\ StorageOK(s2) /\ s2.memory = s.memory
      /\ QueueOf(s2, t, l) = Append(QueueOf(s, t, l), v)
      /\ \A u, k : u # t \/ k # l => QueueOf(s2, u, k) = QueueOf(s, u, k)
  BY <1>1, EnqueueOK
<1>3. /\ HistoryOK(h2)
      /\ Added(h.stores[t], h2.stores[t], l, v)
      /\ \A u \in Threads : u # t => h2.stores[u] = h.stores[u]
  BY <1>1, IssueAdds
<1>4. TimesBounded(h2)
  BY <1>1, IssueBounded
<1>5. \A k \in Locations : LatestIs(h2, k, At(s.memory, k, 0))
  BY <1>1, IssueLatest DEF Consistent, MemoryIs, HistoryOK
<1> HIDE DEF s2, h2
<1>6. ASSUME NEW u \in Threads, NEW k \in Locations
      PROVE  Follows(QueueOf(s2, u, k), h2.stores[u], k) /\ Ordered(h2.stores[u], k)
  <2>1. Follows(QueueOf(s, u, k), h.stores[u], k) /\ Ordered(h.stores[u], k)
    BY DEF Consistent, QueuesAre
  <2>2. h.stores[u] \in Seq(StoredEntry)
    BY <1>1, PendingIs
  <2>3. CASE u # t
    BY <1>2, <1>3, <2>1, <2>3
  <2>4. CASE u = t
    <3>1. Ordered(h2.stores[u], k)
      BY <1>3, <2>1, <2>2, <2>4, AppendOrdered
    <3>2. CASE k = l
      <4>1. QueueOf(s, t, l) \in Seq(Values)
        BY <1>1, QueueType
      <4>2. Follows(Append(QueueOf(s, t, l), v), h2.stores[t], l)
        BY <1>3, <2>1, <2>2, <2>4, <3>2, <4>1, AppendFollows
      <4> QED
        BY <1>2, <2>4, <3>1, <3>2, <4>2
    <3>3. CASE k # l
      <4>1. PICK q : q = QueueOf(s, t, k)
        OBVIOUS
      <4>2. Follows(q, h.stores[t], k) /\ h.stores[t] \in Seq(StoredEntry)
        BY <2>1, <2>2, <2>4, <4>1
      <4>3. Follows(q, h2.stores[t], k)
        BY <1>3, <3>3, <4>2, AppendElsewhere
      <4> QED
        BY <1>2, <2>4, <3>1, <3>3, <4>1, <4>3
    <3> QED
      BY <3>2, <3>3
  <2> QED
    BY <2>3, <2>4
<1>7. Consistent(s2, h2)
  BY <1>2, <1>3, <1>4, <1>5, <1>6 DEF Consistent, QueuesAre, MemoryIs
<1> QED
  BY <1>7 DEF s2, h2

LEMMA FlushKeeps ==
  ASSUME NEW s, NEW h, Consistent(s, h), NEW t \in Threads
  PROVE  Consistent(FlushBuffer(s, t), Drain(h, t))
<1> DEFINE s2 == FlushBuffer(s, t)
           h2 == Drain(h, t)
           I  == Pending(h, t)
<1>1. StorageOK(s) /\ HistoryOK(h) /\ TimesBounded(h)
  BY DEF Consistent
<1>2. /\ StorageOK(s2)
      /\ \A k : QueueOf(s2, t, k) = <<>>
      /\ \A u, k : u # t => QueueOf(s2, u, k) = QueueOf(s, u, k)
      /\ \A l \in Locations : At(s2.memory, l, 0) = Read(s, t, l)
  BY <1>1, FlushBufferOK
<1>3. /\ h.stores[t] \in Seq(StoredEntry) /\ h.clock \in Nat
      /\ I = {i \in 1..Len(h.stores[t]) : h.stores[t][i].at = 0}
  BY <1>1, PendingIs
<1>4. ASSUME NEW l \in Locations
      PROVE  LatestIs(h2, l, At(s2.memory, l, 0))
  <2>1. LatestIs(h, l, At(s.memory, l, 0))
    BY DEF Consistent, MemoryIs
  <2>2. Sees(h, t, l, At(s.memory, l, 0), Read(s, t, l))
    BY ReadIsNewest
  <2>3. LatestIs(Drain(h, t), l, Read(s, t, l))
    BY <1>1, <2>1, <2>2, DrainLatest DEF HistoryOK
  <2> QED
    BY <1>2, <2>3
<1>5. h2 = Commit(h, t, I)
  BY DEF Drain
<1> HIDE DEF s2, h2, I
<1>6. /\ HistoryOK(h2) /\ TimesBounded(h2)
      /\ \A u \in Threads : u # t => h2.stores[u] = h.stores[u]
      /\ \A l \in Locations : PendingIn(h2.stores[t], l) = {} /\ Ordered(h2.stores[t], l)
  <2>1. CASE I = {}
    <3>1. h2 = h
      BY <1>5, <2>1 DEF Commit
    <3>2. \A l : PendingIn(h.stores[t], l) = {}
      BY <1>3, <2>1 DEF PendingIn
    <3> QED
      BY <1>1, <3>1, <3>2 DEF Consistent, QueuesAre
  <2>2. CASE I # {}
    <3>1. /\ HistoryOK(h2)
          /\ Committed(h.stores[t], I, h.clock + 1, h2.stores[t])
          /\ \A u \in Threads : u # t => h2.stores[u] = h.stores[u]
      BY <1>1, <1>5, <2>2, HistoryCommit DEF HistoryOK
    <3>2. TimesBounded(h2)
      BY <1>1, <1>5, <2>2, CommitBounded
    <3>3. BoundedBy(h.stores[t], h.clock)
      BY <1>1, TimesAre
    <3>4. ASSUME NEW l \in Locations
          PROVE  PendingIn(h2.stores[t], l) = {} /\ Ordered(h2.stores[t], l)
      <4>1. PendingIn(h.stores[t], l) \ I = {}
        BY <1>3 DEF PendingIn
      <4>2. PendingIn(h2.stores[t], l) = {}
        BY <1>3, <3>1, <4>1, CommitPending
      <4>3. Ordered(h.stores[t], l)
        BY DEF Consistent, QueuesAre
      <4>4. I \subseteq 1..Len(h.stores[t]) /\ \A i \in I : h.stores[t][i].at = 0
        BY <1>3
      <4>5. Ordered(h2.stores[t], l)
        BY <1>3, <3>1, <3>3, <4>1, <4>3, <4>4, CommitOrdered
      <4> QED
        BY <4>2, <4>5
    <3> QED
      BY <3>1, <3>2, <3>4
  <2> QED
    BY <2>1, <2>2
<1>7. ASSUME NEW u \in Threads, NEW k \in Locations
      PROVE  Follows(QueueOf(s2, u, k), h2.stores[u], k) /\ Ordered(h2.stores[u], k)
  <2>1. CASE u = t
    BY <1>2, <1>6, <2>1, NothingPending
  <2>2. CASE u # t
    <3>1. Follows(QueueOf(s, u, k), h.stores[u], k) /\ Ordered(h.stores[u], k)
      BY DEF Consistent, QueuesAre
    <3> QED
      BY <1>2, <1>6, <2>2, <3>1
  <2> QED
    BY <2>1, <2>2
<1>8. Consistent(s2, h2)
  BY <1>2, <1>4, <1>6, <1>7 DEF Consistent, QueuesAre, MemoryIs
<1> QED
  BY <1>8 DEF s2, h2

LEMMA PropagateKeeps ==
  ASSUME NEW s, NEW h, Consistent(s, h),
         NEW t \in Threads, NEW l \in DOMAIN Queues(s, t)
  PROVE  /\ Consistent(Propagate(s, t, l), Commit(h, t, Oldest(PendingTo(h, t, l))))
         /\ \E i \in PendingTo(h, t, l) :
              /\ Oldest(PendingTo(h, t, l)) = {i}
              /\ \A j \in PendingTo(h, t, l) : ~(j < i)
<1> DEFINE q  == QueueOf(s, t, l)
           s2 == Propagate(s, t, l)
<1>1. StorageOK(s) /\ HistoryOK(h) /\ TimesBounded(h)
  BY DEF Consistent
<1>2. q \in Seq(Values) /\ q # <<>> /\ l \in Locations
  BY <1>1, QueueType
<1>3. /\ StorageOK(s2) /\ QueueOf(s2, t, l) = Tail(q)
      /\ \A u, k : u # t \/ k # l => QueueOf(s2, u, k) = QueueOf(s, u, k)
      /\ \A k : At(s2.memory, k, 0) = IF k = l THEN q[1] ELSE At(s.memory, k, 0)
  BY <1>1, PropagateOK
<1>4. /\ h.stores[t] \in Seq(StoredEntry) /\ h.clock \in Nat
      /\ PendingTo(h, t, l) = PendingIn(h.stores[t], l)
  BY <1>1, PendingIs
<1>5. PICK place : IsPlace(place, q, h.stores[t], l)
  BY <1>2 DEF Consistent, QueuesAre, Follows
<1>6. PICK i : i = place[1]
  OBVIOUS
<1>7. /\ Oldest(PendingIn(h.stores[t], l)) = {i}
      /\ i \in PendingIn(h.stores[t], l)
      /\ h.stores[t][i].val = q[1]
      /\ \A j \in PendingIn(h.stores[t], l) : j # i => i < j
  BY <1>2, <1>4, <1>5, <1>6, FrontIsOldest
<1>8. i \in 1..Len(h.stores[t]) /\ h.stores[t][i].at = 0 /\ h.stores[t][i].loc = l /\ i \in Int
  BY <1>7, LenProperties DEF PendingIn
<1> DEFINE h2 == Commit(h, t, {i})
<1> HIDE DEF s2, q
<1>9. /\ HistoryOK(h2)
      /\ Committed(h.stores[t], {i}, h.clock + 1, h2.stores[t])
      /\ \A u \in Threads : u # t => h2.stores[u] = h.stores[u]
  BY <1>1, HistoryCommit DEF HistoryOK
<1>10. TimesBounded(h2)
  BY <1>1, CommitBounded
<1>11. ASSUME NEW k \in Locations
       PROVE  LatestIs(h2, k, At(s2.memory, k, 0))
  <2>1. LatestIs(h, k, At(s.memory, k, 0))
    BY DEF Consistent, MemoryIs
  <2>2. {i} \subseteq 1..Len(h.stores[t]) /\ i <= i /\ \A j \in {i} : h.stores[t][j].at = 0
    BY <1>8
  <2>3. PICK w : w = At(s2.memory, k, 0)
    OBVIOUS
  <2>4. \/ w = At(s.memory, k, 0) /\ \A j \in {i} : h.stores[t][j].loc # k
        \/ \E j \in {i} : /\ h.stores[t][j].loc = k /\ h.stores[t][j].val = w
                          /\ \A x \in {i} : h.stores[t][x].loc = k => x <= j
    BY <1>3, <1>7, <1>8, <2>2, <2>3
  <2>5. LatestIs(Commit(h, t, {i}), k, w)
    BY <1>1, <2>1, <2>2, <2>4, CommitLatest DEF HistoryOK
  <2> QED
    BY <2>3, <2>5
<1> HIDE DEF h2
<1>12. ASSUME NEW u \in Threads, NEW k \in Locations
       PROVE  Follows(QueueOf(s2, u, k), h2.stores[u], k) /\ Ordered(h2.stores[u], k)
  <2>1. Follows(QueueOf(s, u, k), h.stores[u], k) /\ Ordered(h.stores[u], k)
    BY DEF Consistent, QueuesAre
  <2>2. CASE u # t
    BY <1>3, <1>9, <2>1, <2>2
  <2>3. CASE u = t
    <3>1. BoundedBy(h.stores[t], h.clock)
      BY <1>1, TimesAre
    <3>2. {i} \subseteq 1..Len(h.stores[t]) /\ \A j \in {i} : h.stores[t][j].at = 0
      BY <1>8
    <3>3. \A x \in PendingIn(h.stores[t], k) \cap {i}, y \in PendingIn(h.stores[t], k) \ {i} : x < y
      BY <1>7, <1>8 DEF PendingIn
    <3>4. Ordered(h2.stores[t], k)
      BY <1>4, <1>9, <2>1, <2>3, <3>1, <3>2, <3>3, CommitOrdered
    <3>5. CASE k = l
      <4>1. Follows(Tail(q), h2.stores[t], l)
        BY <1>2, <1>4, <1>5, <1>6, <1>9, CommitFront
      <4> QED
        BY <1>3, <2>3, <3>4, <3>5, <4>1
    <3>6. CASE k # l
      <4>1. PendingIn(h.stores[t], k) \cap {i} = {}
        BY <1>8, <3>6 DEF PendingIn
      <4>2. Follows(QueueOf(s, t, k), h2.stores[t], k)
        BY <1>4, <1>9, <2>1, <2>3, <4>1, CommitElsewhere
      <4> QED
        BY <1>3, <2>3, <3>4, <3>6, <4>2
    <3> QED
      BY <3>5, <3>6
  <2> QED
    BY <2>2, <2>3
<1>13. Consistent(s2, h2)
  BY <1>3, <1>9, <1>10, <1>11, <1>12 DEF Consistent, QueuesAre, MemoryIs
<1>14. \A j \in PendingIn(h.stores[t], l) : ~(j < i)
  <2>1. PendingIn(h.stores[t], l) \subseteq Int
    BY LenProperties DEF PendingIn
  <2> QED
    BY <1>7, <1>8, <2>1
<1> QED
  BY <1>4, <1>7, <1>13, <1>14 DEF s2, h2

LEMMA WriteKeeps ==
  ASSUME NEW s, NEW h, Consistent(s, h),
         NEW t \in Threads, NEW l \in Locations, NEW v \in Values, NEW m
  PROVE  Consistent(Write(s, t, l, v, m), Stored(h, t, l, v, m))
<1>1. Consistent(Enqueue(s, t, l, v), Issue(h, t, l, v))
  BY EnqueueKeeps
<1>2. CASE m = "SEQ_CST"
  BY <1>1, <1>2, FlushKeeps DEF Write, Stored
<1>3. CASE m # "SEQ_CST"
  BY <1>1, <1>3 DEF Write, Stored
<1> QED
  BY <1>2, <1>3

----------------------------------------------------------------------------
(* The inductive invariant and what follows from it. *)

IInv == Consistent(storage, history)

LEMMA InitIInv == Init => IInv
<1> SUFFICES ASSUME Init PROVE IInv
  OBVIOUS
<1>1. StorageOK(storage) /\ storage.memory = EmptyMap /\ storage.buffers = EmptyMap
  BY NewOK DEF Init, New
<1>2. /\ history = [stores |-> [t \in Threads |-> <<>>], clock |-> 0]
      /\ DOMAIN history.stores = Threads
      /\ \A u \in Threads : history.stores[u] = <<>>
  BY DEF Init, NewHistory
<1>3. Len(<<>>) = 0 /\ 1..0 = {} /\ <<>> \in Seq(StoredBy(Locations, Values))
  BY EmptySeq
<1>4. HistoryOK(history)
  BY <1>2, <1>3 DEF HistoryOK, Histories
<1>5. TimesBounded(history)
  BY <1>2, <1>3 DEF TimesBounded
<1>6. ASSUME NEW t \in Threads, NEW l \in Locations
      PROVE  Follows(QueueOf(storage, t, l), history.stores[t], l) /\ Ordered(history.stores[t], l)
  <2>1. QueueOf(storage, t, l) = <<>>
    BY <1>1 DEF QueueOf, Queues, At, EmptyMap
  <2>2. PendingIn(<<>>, l) = {} /\ Ordered(<<>>, l)
    BY <1>3 DEF PendingIn, Ordered
  <2> QED
    BY <1>2, <2>1, <2>2, NothingPending
<1>7. MemoryIs(storage, history)
  <2>1. \A l, u, i : ~CommittedAt(history, l, u, i)
    BY <1>2, <1>3 DEF CommittedAt
  <2>2. \A l : At(storage.memory, l, 0) = 0
    BY <1>1 DEF EmptyMap, At
  <2> QED
    BY <2>1, <2>2 DEF MemoryIs, LatestIs
<1> QED
  BY <1>1, <1>4, <1>5, <1>6, <1>7 DEF IInv, Consistent, QueuesAre

LEMMA NextIInv == IInv /\ [Next]_vars => IInv'
<1> SUFFICES ASSUME IInv, [Next]_vars PROVE IInv'
  OBVIOUS
<1>1. Consistent(storage, history) /\ StorageOK(storage)
  BY DEF IInv, Consistent
<1>2. CASE UNCHANGED vars
  BY <1>1, <1>2 DEF IInv, vars
<1>3. ASSUME NEW t \in Threads, NEW l \in Locations, Epsilon(t, l)
      PROVE  IInv'
  BY <1>1, <1>3, PropagateKeeps DEF Epsilon, IInv
<1>4. ASSUME NEW t \in Threads, NEW m, FenceStatement(t, m)
      PROVE  IInv'
  BY <1>1, <1>4, FlushKeeps DEF FenceStatement, Fence, IInv
<1>5. ASSUME NEW t \in Threads, NEW l \in Locations, NEW m, Load(t, l, m)
      PROVE  IInv'
  BY <1>1, <1>5 DEF Load, IInv
<1>6. ASSUME NEW t \in Threads, NEW l \in Locations, NEW v \in Operands, NEW m,
             Store(t, l, v, m)
      PROVE  IInv'
  BY <1>1, <1>6, WriteKeeps, ConstantsAssumption DEF Store, IInv
<1>7. ASSUME NEW t \in Threads, NEW l \in Locations, NEW v \in Operands, NEW e, NEW m,
             Cas(t, l, e, v, m)
      PROVE  IInv'
  BY <1>1, <1>7, WriteKeeps, ConstantsAssumption DEF Cas, IInv
<1>8. ASSUME NEW t \in Threads, NEW l \in Locations, NEW e, NEW m, CasFails(t, l, e, m)
      PROVE  IInv'
  BY <1>1, <1>8 DEF CasFails, IInv
<1>9. ASSUME NEW t \in Threads, NEW l \in Locations, NEW v \in Operands, NEW m,
             Fai(t, l, v, m)
      PROVE  IInv'
  BY <1>1, <1>9, WriteKeeps DEF Fai, IInv
<1> QED
  BY <1>2, <1>3, <1>4, <1>5, <1>6, <1>7, <1>8, <1>9 DEF Next

LEMMA StorageTyped == IInv => TypeOK
<1> SUFFICES ASSUME IInv PROVE TypeOK
  OBVIOUS
<1>1. StorageOK(storage)
  BY DEF IInv, Consistent
<1>2. DOMAIN EmptyMap = {}
  BY DEF EmptyMap
<1> QED
  BY <1>1, <1>2 DEF TypeOK, StorageOK

\* No operation leaves an empty queue or a thread without queues behind, so
\* that flush_buffer finds a back and every epsilon transition a successor.
THEOREM TypeCorrectness == Spec => []TypeOK
BY InitIInv, NextIInv, StorageTyped, PTL DEF Spec

LEMMA OrderInQueues == IInv => LocationOrderKept
<1> SUFFICES ASSUME IInv, NEW t \in Threads, NEW l \in Locations
             PROVE  LET stores  == history.stores[t]
                        pending == PendingTo(history, t, l)
                        settled == {i \in DOMAIN stores : stores[i].loc = l /\ stores[i].at > 0}
                        q       == At(Queues(storage, t), l, <<>>)
                    IN  /\ \E place \in [DOMAIN q -> pending] :
                             /\ \A i \in pending : \E k \in DOMAIN q : place[k] = i
                             /\ \A k \in DOMAIN q : stores[place[k]].val = q[k]
                             /\ \A j, k \in DOMAIN q : j < k => place[j] < place[k]
                        /\ \A i \in settled, j \in pending : i < j
                        /\ \A i, j \in settled : i < j => stores[i].at <= stores[j].at
  BY DEF LocationOrderKept
<1> DEFINE stores  == history.stores[t]
           pending == PendingTo(history, t, l)
           settled == {i \in DOMAIN stores : stores[i].loc = l /\ stores[i].at > 0}
           q       == QueueOf(storage, t, l)
<1>1. /\ StorageOK(storage) /\ HistoryOK(history)
      /\ Follows(q, stores, l) /\ Ordered(stores, l)
  BY DEF IInv, Consistent, QueuesAre
<1>2. DOMAIN q = 1..Len(q)
  BY <1>1, QueueType, LenProperties
<1>3. pending = PendingIn(stores, l) /\ DOMAIN stores = 1..Len(stores)
  BY <1>1, PendingIs
<1>4. PICK place : IsPlace(place, q, stores, l)
  BY <1>1 DEF Follows
<1> HIDE DEF q, stores, pending
<1>5. /\ place \in [DOMAIN q -> pending]
      /\ \A i \in pending : \E k \in DOMAIN q : place[k] = i
      /\ \A k \in DOMAIN q : stores[place[k]].val = q[k]
      /\ \A j, k \in DOMAIN q : j < k => place[j] < place[k]
  BY <1>2, <1>3, <1>4 DEF IsPlace
<1>6. \A i \in settled, j \in pending : i < j
  BY <1>1, <1>3 DEF Ordered, PendingIn
<1>7. \A i, j \in settled : i < j => stores[i].at <= stores[j].at
  BY <1>1, <1>3 DEF Ordered
<1> QED
  BY <1>5, <1>6, <1>7 DEF q, stores, pending, QueueOf

\* Per location, the stores of a thread wait and take effect in program order.
THEOREM LocationOrder == Spec => []LocationOrderKept
BY InitIInv, NextIInv, OrderInQueues, PTL DEF Spec

LEMMA LatestInMemory == IInv => MemoryHoldsLatest
BY LatestValueIs DEF IInv, MemoryIs, Consistent, HistoryOK, MemoryHoldsLatest

\* Memory holds the store that took effect last at every location, whether
\* propagate or the drain of a SEQ_CST access carried it there.
THEOREM LatestStore == Spec => []MemoryHoldsLatest
BY InitIInv, NextIInv, LatestInMemory, PTL DEF Spec

----------------------------------------------------------------------------
(* The partial store order that the storage implements. *)

LEMMA ReadIsVisible ==
  ASSUME NEW s, NEW h, Consistent(s, h), NEW t \in Threads, NEW l \in Locations
  PROVE  VisibleValue(h, t, l) = Read(s, t, l)
<1>1. h \in Histories(Threads, Locations, Values) /\ LatestIs(h, l, At(s.memory, l, 0))
  BY DEF Consistent, HistoryOK, MemoryIs
<1>2. Sees(h, t, l, At(s.memory, l, 0), Read(s, t, l))
  BY ReadIsNewest
<1> QED
  BY <1>1, <1>2, VisibleValueIs

\* The promise has its own instance of the vocabulary of histories.
LEMMA SameVocabulary ==
  ASSUME NEW h, NEW t, NEW l
  PROVE  /\ Promise!Pending(h, t) = Pending(h, t)
         /\ Promise!Drain(h, t) = Drain(h, t)
         /\ Promise!LatestValue(h, l) = LatestValue(h, l)
         /\ Promise!VisibleValue(h, t, l) = VisibleValue(h, t, l)
         /\ \A v : Promise!Issue(h, t, l, v) = Issue(h, t, l, v)
         /\ \A I : Promise!Commit(h, t, I) = Commit(h, t, I)
<1>1. Promise!Pending(h, t) = Pending(h, t)
  BY DEF Promise!Pending, Pending
<1>2. \A I : Promise!Commit(h, t, I) = Commit(h, t, I)
  BY DEF Promise!Commit, Commit
<1>3. Promise!Drain(h, t) = Drain(h, t)
  BY <1>1, <1>2 DEF Promise!Drain, Drain
<1>4. Promise!CommittedTo(h, l) = CommittedTo(h, l)
  BY DEF Promise!CommittedTo, CommittedTo
<1>5. Promise!LatestValue(h, l) = LatestValue(h, l)
  BY <1>4 DEF Promise!LatestValue, LatestValue, Promise!Later, Later
<1>6. Promise!PendingTo(h, t, l) = PendingTo(h, t, l)
  BY <1>1 DEF Promise!PendingTo, PendingTo
<1>7. \A I : Promise!Newest(I) = Newest(I)
  BY DEF Promise!Newest, Newest
<1>8. Promise!VisibleValue(h, t, l) = VisibleValue(h, t, l)
  BY <1>5, <1>6, <1>7 DEF Promise!VisibleValue, VisibleValue
<1>9. \A v : Promise!Issue(h, t, l, v) = Issue(h, t, l, v)
  BY DEF Promise!Issue, Issue
<1> QED
  BY <1>1, <1>2, <1>3, <1>5, <1>8, <1>9

LEMMA AnswersIs ==
  ASSUME NEW m, NEW value, Answers(m, value)
  PROVE  /\ m = "SEQ_CST" => answer' = [strong |-> TRUE, value |-> value]
         /\ m # "SEQ_CST" => answer' = [strong |-> FALSE, value |-> value]
BY DEF Answers

\* A cas that writes and a fai.  Nothing is drained before, but what the thread
\* reads is what memory would hold if it were.
LEMMA RmwStep ==
  ASSUME IInv, NEW t \in Threads, NEW l \in Locations, NEW v \in Values, NEW m,
         history' = Stored(history, t, l, v, m),
         Answers(m, <<Read(storage, t, l)>>)
  PROVE  Promise!WeakRmw(t, l, v) \/ Promise!StrongRmw(t, l, v)
<1>1. Consistent(storage, history)
  BY DEF IInv
<1>2. CASE m = "SEQ_CST"
  <2>1. Consistent(FlushBuffer(storage, t), Drain(history, t))
    BY <1>1, FlushKeeps
  <2>2. At(FlushBuffer(storage, t).memory, l, 0) = Read(storage, t, l)
    BY <1>1, FlushBufferOK DEF Consistent
  <2>3. LatestValue(Drain(history, t), l) = Read(storage, t, l)
    BY <2>1, <2>2, LatestValueIs DEF Consistent, MemoryIs, HistoryOK
  <2>4. history' = Drain(Issue(history, t, l, v), t)
    BY <1>2 DEF Stored
  <2>5. answer' = [strong |-> TRUE, value |-> <<LatestValue(Drain(history, t), l)>>]
    BY <1>2, <2>3, AnswersIs
  <2>6. Promise!StrongRmw(t, l, v)
    <3>1. history' = Promise!Drain(Promise!Issue(history, t, l, v), t)
      BY <2>4, SameVocabulary
    <3>2. answer' = Promise!Answer(TRUE, <<Promise!LatestValue(Promise!Drain(history, t), l)>>)
      BY <2>5, SameVocabulary DEF Promise!Answer
    <3> QED
      BY <3>1, <3>2 DEF Promise!StrongRmw
  <2> QED
    BY <2>6
<1>3. CASE m # "SEQ_CST"
  <2>1. VisibleValue(history, t, l) = Read(storage, t, l)
    BY <1>1, ReadIsVisible
  <2>2. history' = Issue(history, t, l, v)
    BY <1>3 DEF Stored
  <2>3. answer' = [strong |-> FALSE, value |-> <<VisibleValue(history, t, l)>>]
    BY <1>3, <2>1, AnswersIs
  <2>4. Promise!WeakRmw(t, l, v)
    BY <2>2, <2>3, SameVocabulary DEF Promise!WeakRmw, Promise!Answer
  <2> QED
    BY <2>4
<1> QED
  BY <1>2, <1>3

LEMMA StoreStep ==
  ASSUME NEW t \in Threads, NEW l \in Locations, NEW v \in Values, NEW m,
         history' = Stored(history, t, l, v, m), Answers(m, <<>>)
  PROVE  \E strong \in BOOLEAN : Promise!Store(t, l, v, strong)
<1>1. CASE m = "SEQ_CST"
  <2>1. Promise!Store(t, l, v, TRUE)
    BY <1>1, AnswersIs, SameVocabulary DEF Stored, Promise!Store, Promise!Answer
  <2> QED
    BY <2>1
<1>2. CASE m # "SEQ_CST"
  <2>1. Promise!Store(t, l, v, FALSE)
    BY <1>2, AnswersIs, SameVocabulary DEF Stored, Promise!Store, Promise!Answer
  <2> QED
    BY <2>1
<1> QED
  BY <1>1, <1>2

LEMMA FenceStep ==
  ASSUME NEW t \in Threads, NEW m, FenceStatement(t, m)
  PROVE  \E strong \in BOOLEAN : Promise!Fence(t, strong)
<1>1. CASE m = "SEQ_CST"
  <2>1. Promise!Fence(t, TRUE)
    BY <1>1, AnswersIs, SameVocabulary DEF FenceStatement, Promise!Fence, Promise!Answer
  <2> QED
    BY <2>1
<1>2. CASE m # "SEQ_CST"
  <2>1. Promise!Fence(t, FALSE)
    BY <1>2, AnswersIs, SameVocabulary DEF FenceStatement, Promise!Fence, Promise!Answer
  <2> QED
    BY <2>1
<1> QED
  BY <1>1, <1>2

LEMMA LoadStep ==
  ASSUME IInv, NEW t \in Threads, NEW l \in Locations, NEW m, Load(t, l, m)
  PROVE  \E strong \in BOOLEAN : Promise!Load(t, l, strong)
<1>1. VisibleValue(history, t, l) = Read(storage, t, l)
  BY ReadIsVisible DEF IInv
<1>2. CASE m = "SEQ_CST"
  <2>1. Promise!Load(t, l, TRUE)
    BY <1>1, <1>2, AnswersIs, SameVocabulary DEF Load, Promise!Load, Promise!Answer
  <2> QED
    BY <2>1
<1>3. CASE m # "SEQ_CST"
  <2>1. Promise!Load(t, l, FALSE)
    BY <1>1, <1>3, AnswersIs, SameVocabulary DEF Load, Promise!Load, Promise!Answer
  <2> QED
    BY <2>1
<1> QED
  BY <1>2, <1>3

LEMMA FailedStep ==
  ASSUME IInv, NEW t \in Threads, NEW l \in Locations, NEW e, NEW m,
         CasFails(t, l, e, m)
  PROVE  \E strong \in BOOLEAN : Promise!FailedCas(t, l, strong)
<1>1. VisibleValue(history, t, l) = Read(storage, t, l)
  BY ReadIsVisible DEF IInv
<1>2. history' = history /\ Answers(m, <<VisibleValue(history, t, l)>>)
  BY <1>1 DEF CasFails
<1>3. CASE m = "SEQ_CST"
  <2>1. Promise!FailedCas(t, l, TRUE)
    BY <1>2, <1>3, AnswersIs, SameVocabulary DEF Promise!FailedCas, Promise!Answer
  <2> QED
    BY <2>1
<1>4. CASE m # "SEQ_CST"
  <2>1. Promise!FailedCas(t, l, FALSE)
    BY <1>2, <1>4, AnswersIs, SameVocabulary DEF Promise!FailedCas, Promise!Answer
  <2> QED
    BY <2>1
<1> QED
  BY <1>3, <1>4

LEMMA EpsilonStep ==
  ASSUME IInv, NEW t \in Threads, NEW l \in Locations, Epsilon(t, l)
  PROVE  Promise!TakeEffect(t)
<1>1. PICK i \in PendingTo(history, t, l) :
        /\ Oldest(PendingTo(history, t, l)) = {i}
        /\ \A j \in PendingTo(history, t, l) : ~(j < i)
  BY PropagateKeeps DEF Epsilon, IInv
<1>2. i \in Pending(history, t) /\ history.stores[t][i].loc = l
  BY DEF PendingTo
<1>3. ASSUME NEW j \in Pending(history, t), j < i
      PROVE  history.stores[t][j].loc # history.stores[t][i].loc
  BY <1>1, <1>2, <1>3 DEF PendingTo
<1>4. Promise!MayCommit(t, i)
  BY <1>3, SameVocabulary DEF Promise!MayCommit
<1>5. history' = Commit(history, t, {i})
  BY <1>1 DEF Epsilon
<1>6. answer' = [strong |-> FALSE, value |-> <<>>]
  BY AnswersIs DEF Epsilon
<1> QED
  BY <1>2, <1>4, <1>5, <1>6, SameVocabulary DEF Promise!TakeEffect, Promise!Answer

LEMMA PromiseInit == Init => Promise!Init
BY DEF Init, Promise!Init, Promise!Answer, NewHistory, Promise!NewHistory

LEMMA PromiseNext == IInv /\ [Next]_vars => [Promise!Next]_(Promise!vars)
<1> SUFFICES ASSUME IInv, [Next]_vars PROVE [Promise!Next]_(Promise!vars)
  OBVIOUS
<1>1. CASE UNCHANGED vars
  BY <1>1 DEF vars, Promise!vars
<1>2. ASSUME NEW t \in Threads, NEW l \in Locations, Epsilon(t, l)
      PROVE  Promise!Next
  BY <1>2, EpsilonStep DEF Promise!Next
<1>3. ASSUME NEW t \in Threads, NEW m, FenceStatement(t, m)
      PROVE  Promise!Next
  BY <1>3, FenceStep DEF Promise!Next
<1>4. ASSUME NEW t \in Threads, NEW l \in Locations, NEW m, Load(t, l, m)
      PROVE  Promise!Next
  BY <1>4, LoadStep DEF Promise!Next
<1>5. ASSUME NEW t \in Threads, NEW l \in Locations, NEW v \in Operands, NEW m,
             Store(t, l, v, m)
      PROVE  Promise!Next
  <2>1. v \in Values
    BY ConstantsAssumption
  <2>2. \E strong \in BOOLEAN : Promise!Store(t, l, v, strong)
    BY <1>5, <2>1, StoreStep DEF Store
  <2> QED
    BY <2>1, <2>2 DEF Promise!Next
<1>6. ASSUME NEW t \in Threads, NEW l \in Locations, NEW v \in Operands, NEW e, NEW m,
             Cas(t, l, e, v, m)
      PROVE  Promise!Next
  <2>1. v \in Values
    BY ConstantsAssumption
  <2>2. Promise!WeakRmw(t, l, v) \/ Promise!StrongRmw(t, l, v)
    BY <1>6, <2>1, RmwStep DEF Cas
  <2> QED
    BY <2>1, <2>2 DEF Promise!Next
<1>7. ASSUME NEW t \in Threads, NEW l \in Locations, NEW e, NEW m, CasFails(t, l, e, m)
      PROVE  Promise!Next
  BY <1>7, FailedStep DEF Promise!Next
<1>8. ASSUME NEW t \in Threads, NEW l \in Locations, NEW v \in Operands, NEW m,
             Fai(t, l, v, m)
      PROVE  Promise!Next
  <2>1. PICK w \in Values : w = Read(storage, t, l) + v
    BY <1>8 DEF Fai
  <2>2. Promise!WeakRmw(t, l, w) \/ Promise!StrongRmw(t, l, w)
    BY <1>8, <2>1, RmwStep DEF Fai
  <2> QED
    BY <2>2 DEF Promise!Next
<1> QED
  BY <1>1, <1>2, <1>3, <1>4, <1>5, <1>6, <1>7, <1>8 DEF Next

\* The storage implements a partial store order: whatever the interleaving, a
\* thread reads its newest pending store or the last in effect, its stores to
\* one location take effect in program order, a SEQ_CST store, fence, fai or cas
\* that writes leaves nothing of its thread pending, and such a cas or fai is
\* atomic without a flush before it.
THEOREM PartialStoreOrder == Spec => ImplementsPartialStoreOrder
BY InitIInv, NextIInv, PromiseInit, PromiseNext, PTL
   DEF Spec, ImplementsPartialStoreOrder, Promise!Spec

----------------------------------------------------------------------------
(* With SEQ_CST accesses only, the partial store order is sequentially      *)
(* consistent.                                                              *)

Sequential == INSTANCE SCSystem WITH storage <- [memory |-> storage.memory],
                                     answer  <- answer.value

OnlySeqCst == Modes \subseteq {"SEQ_CST"}

IsMap(f) == f = [k \in DOMAIN f |-> f[k]]

LEMMA PutMakesMap ==
  ASSUME NEW f, NEW k, NEW v
  PROVE  IsMap(Put(f, k, v))
BY DEF IsMap, Put

\* No queue outlives the statement that fills it.
NothingBuffered ==
  /\ storage = [memory |-> storage.memory, buffers |-> EmptyMap]
  /\ IsMap(storage.memory)
  /\ answer = [strong |-> answer.strong, value |-> answer.value]

LEMMA SequentialVocabulary ==
  /\ Sequential!EmptyMap = EmptyMap
  /\ \A f, k, v : Sequential!Put(f, k, v) = Put(f, k, v)
  /\ \A f, k, d : Sequential!At(f, k, d) = At(f, k, d)
BY DEF Sequential!EmptyMap, EmptyMap, Sequential!Put, Put, Sequential!At, At

LEMMA AppendToEmpty ==
  ASSUME NEW x
  PROVE  Append(<<>>, x) = <<x>>
<1>1. <<>> \in Seq({x}) /\ Len(<<>>) = 0
  BY EmptySeq
<1>2. /\ Append(<<>>, x) \in Seq({x}) /\ Len(Append(<<>>, x)) = 1
      /\ Append(<<>>, x)[1] = x
  BY <1>1, AppendProperties
<1>3. <<x>> \in Seq({x}) /\ Len(<<x>>) = 1 /\ <<x>>[1] = x
  OBVIOUS
<1> QED
  BY <1>2, <1>3, SeqEqual

\* Without queues a read is memory's value and a SEQ_CST write reaches memory at
\* once.
LEMMA UnbufferedStorage ==
  ASSUME NEW M, IsMap(M), NEW s, s = [memory |-> M, buffers |-> EmptyMap],
         NEW t, NEW l, NEW v
  PROVE  /\ Queues(s, t) = EmptyMap
         /\ Read(s, t, l) = At(M, l, 0)
         /\ FlushBuffer(s, t) = s
         /\ Write(s, t, l, v, "SEQ_CST") = [memory |-> Put(M, l, v), buffers |-> EmptyMap]
<1> DEFINE b == Put(EmptyMap, t, Put(EmptyMap, l, <<v>>))
           q == [memory |-> M, buffers |-> b]
<1>1. s.buffers = EmptyMap /\ s.memory = M /\ DOMAIN EmptyMap = {}
  BY DEF EmptyMap
<1>2. Queues(s, t) = EmptyMap
  BY <1>1 DEF Queues, At
<1>3. At(Queues(s, t), l, <<>>) = <<>>
  BY <1>1, <1>2 DEF At
<1>4. Read(s, t, l) = At(M, l, 0)
  BY <1>1, <1>3 DEF Read
<1>5. Enqueue(s, t, l, v) = q
  <2>1. Append(At(Queues(s, t), l, <<>>), v) = <<v>>
    BY <1>3, AppendToEmpty
  <2>2. \A c : [s EXCEPT !.buffers = c] = [memory |-> M, buffers |-> c]
    OBVIOUS
  <2> QED
    BY <1>1, <1>2, <2>1, <2>2 DEF Enqueue
<1>6. Queues(q, t) = Put(EmptyMap, l, <<v>>) /\ Erase(b, t) = EmptyMap
  BY <1>1 DEF Queues, At, Put, Erase, EmptyMap
<1>7. DOMAIN Put(EmptyMap, l, <<v>>) = {l} /\ Put(EmptyMap, l, <<v>>)[l] = <<v>>
  BY <1>1 DEF Put
<1>8. Last(<<v>>) = v
  BY DEF Last
<1>9. FlushBuffer(q, t) = [memory |-> Put(M, l, v), buffers |-> EmptyMap]
  <2>1. [x \in DOMAIN M \cup {l} |-> IF x \in {l} THEN v ELSE M[x]] = Put(M, l, v)
    BY DEF Put
  <2>2. FlushBuffer(q, t) =
          [memory  |-> [x \in DOMAIN M \cup {l} |->
                          IF x \in {l} THEN Last(Put(EmptyMap, l, <<v>>)[x]) ELSE M[x]],
           buffers |-> EmptyMap]
    BY <1>6, <1>7 DEF FlushBuffer
  <2>3. \A x \in {l} : Last(Put(EmptyMap, l, <<v>>)[x]) = v
    BY <1>7, <1>8
  <2> QED
    BY <2>1, <2>2, <2>3
<1>10. Write(s, t, l, v, "SEQ_CST") = FlushBuffer(q, t)
  BY <1>5 DEF Write
<1>11. FlushBuffer(s, t) = s
  <2>1. DOMAIN M \cup DOMAIN EmptyMap = DOMAIN M /\ Erase(EmptyMap, t) = EmptyMap
    BY <1>1 DEF Erase, EmptyMap
  <2>2. FlushBuffer(s, t) = [memory |-> [x \in DOMAIN M |-> M[x]], buffers |-> EmptyMap]
    BY <1>1, <1>2, <2>1 DEF FlushBuffer
  <2> QED
    BY <2>2 DEF IsMap
<1> QED
  BY <1>2, <1>4, <1>9, <1>10, <1>11

LEMMA SequentialInit == Init => NothingBuffered /\ Sequential!Init
BY SequentialVocabulary
   DEF Init, New, NothingBuffered, IsMap, EmptyMap, Sequential!Init, Sequential!New

LEMMA SequentialNext ==
  ASSUME OnlySeqCst
  PROVE  NothingBuffered /\ [Next]_vars =>
           NothingBuffered' /\ [Sequential!Next]_(Sequential!vars)
<1> SUFFICES ASSUME NothingBuffered, [Next]_vars
             PROVE  NothingBuffered' /\ [Sequential!Next]_(Sequential!vars)
  OBVIOUS
<1> DEFINE M == storage.memory
           s == [memory |-> M]
<1>1. storage = [memory |-> M, buffers |-> EmptyMap] /\ IsMap(M)
  BY DEF NothingBuffered
<1>2. \A l : Sequential!Read(s, l) = At(M, l, 0)
  BY SequentialVocabulary DEF Sequential!Read
<1>3. \A l, v : Sequential!Write(s, l, v) = [memory |-> Put(M, l, v)]
  BY SequentialVocabulary DEF Sequential!Write
<1>4. ASSUME NEW value, Answers("SEQ_CST", value)
      PROVE  answer' = [strong |-> TRUE, value |-> value] /\ answer'.value = value
  BY <1>4 DEF Answers
<1>5. CASE UNCHANGED vars
  BY <1>5 DEF vars, NothingBuffered, Sequential!vars
<1>6. ASSUME NEW t \in Threads, NEW l \in Locations, Epsilon(t, l)
      PROVE  FALSE
  BY <1>1, <1>6, UnbufferedStorage DEF Epsilon, EmptyMap
<1>7. ASSUME NEW t \in Threads, FenceStatement(t, "SEQ_CST")
      PROVE  NothingBuffered' /\ Sequential!Next
  <2>1. storage' = storage /\ Answers("SEQ_CST", <<>>)
    BY <1>1, <1>7, UnbufferedStorage DEF FenceStatement, Fence
  <2>2. Sequential!FenceStatement
    BY <1>4, <2>1 DEF Sequential!FenceStatement
  <2> QED
    BY <1>1, <1>4, <2>1, <2>2 DEF NothingBuffered, Sequential!Next
<1>8. ASSUME NEW t \in Threads, NEW l \in Locations, Load(t, l, "SEQ_CST")
      PROVE  NothingBuffered' /\ Sequential!Next
  <2>1. storage' = storage /\ Answers("SEQ_CST", <<At(M, l, 0)>>)
    BY <1>1, <1>8, UnbufferedStorage DEF Load
  <2>2. Sequential!Load(l)
    BY <1>2, <1>4, <2>1 DEF Sequential!Load
  <2> QED
    BY <1>1, <1>4, <2>1, <2>2 DEF NothingBuffered, Sequential!Next
<1>9. ASSUME NEW t \in Threads, NEW l \in Locations, NEW v \in Operands,
             Store(t, l, v, "SEQ_CST")
      PROVE  NothingBuffered' /\ Sequential!Next
  <2>1. storage' = [memory |-> Put(M, l, v), buffers |-> EmptyMap] /\ Answers("SEQ_CST", <<>>)
    BY <1>1, <1>9, UnbufferedStorage DEF Store
  <2>2. Sequential!Store(l, v)
    BY <1>3, <1>4, <2>1 DEF Sequential!Store
  <2> QED
    BY <1>4, <2>1, <2>2, PutMakesMap DEF NothingBuffered, Sequential!Next
<1>10. ASSUME NEW t \in Threads, NEW l \in Locations, NEW v \in Operands,
              NEW e \in Operands \cup {0}, Cas(t, l, e, v, "SEQ_CST")
       PROVE  NothingBuffered' /\ Sequential!Next
  <2>1. /\ At(M, l, 0) = e
        /\ storage' = [memory |-> Put(M, l, v), buffers |-> EmptyMap]
        /\ Answers("SEQ_CST", <<e>>)
    BY <1>1, <1>10, UnbufferedStorage DEF Cas
  <2>2. Sequential!Cas(l, e, v)
    BY <1>2, <1>3, <1>4, <2>1 DEF Sequential!Cas
  <2> QED
    BY <1>4, <2>1, <2>2, PutMakesMap DEF NothingBuffered, Sequential!Next
<1>11. ASSUME NEW t \in Threads, NEW l \in Locations, NEW e \in Operands,
              CasFails(t, l, e, "SEQ_CST")
       PROVE  NothingBuffered' /\ Sequential!Next
  <2>1. /\ At(M, l, 0) # e
        /\ storage' = storage
        /\ Answers("SEQ_CST", <<At(M, l, 0)>>)
    BY <1>1, <1>11, UnbufferedStorage DEF CasFails
  <2>2. Sequential!CasFails(l, e)
    BY <1>2, <1>4, <2>1 DEF Sequential!CasFails
  <2> QED
    BY <1>1, <1>4, <2>1, <2>2 DEF NothingBuffered, Sequential!Next
<1>12. ASSUME NEW t \in Threads, NEW l \in Locations, NEW v \in Operands,
              Fai(t, l, v, "SEQ_CST")
       PROVE  NothingBuffered' /\ Sequential!Next
  <2>1. /\ storage' = [memory |-> Put(M, l, At(M, l, 0) + v), buffers |-> EmptyMap]
        /\ Answers("SEQ_CST", <<At(M, l, 0)>>)
    BY <1>1, <1>12, UnbufferedStorage DEF Fai
  <2>2. Sequential!Fai(l, v)
    BY <1>2, <1>3, <1>4, <2>1 DEF Sequential!Fai
  <2> QED
    BY <1>4, <2>1, <2>2, PutMakesMap DEF NothingBuffered, Sequential!Next
<1>13. \A m \in Modes : m = "SEQ_CST"
  BY DEF OnlySeqCst
<1> QED
  BY <1>5, <1>6, <1>7, <1>8, <1>9, <1>10, <1>11, <1>12, <1>13 DEF Next

\* A program whose accesses are all SEQ_CST runs on the partial-store-order
\* storage as on SCStorageSubsystem: every statement leaves the memory, and is
\* given the value, that the sequentially consistent storage would, because each
\* write is flushed before its statement ends.
THEOREM SeqCstIsSequential ==
  ASSUME OnlySeqCst
  PROVE  Spec => Sequential!Spec
BY OnlySeqCst, SequentialInit, SequentialNext, PTL DEF Spec, Sequential!Spec

=============================================================================
