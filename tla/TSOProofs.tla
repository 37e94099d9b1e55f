------------------------------ MODULE TSOProofs ------------------------------
(***************************************************************************)
(* Proofs about TSOSystem, for any threads, locations, values and modes:    *)
(* program order, then what memory holds and what a load returns, and from  *)
(* it that the storage implements a total store order.                      *)
(***************************************************************************)
EXTENDS TSOSystem, HistoryProofs, WellFoundedInduction

LEMMA MaxIsGreatest ==
  ASSUME NEW n \in Nat, NEW I, I \subseteq 1..n, I # {}
  PROVE  /\ Max(I) \in I
         /\ \A i \in I : Max(I) >= i
<1> DEFINE T == {n - i : i \in I}
<1>1. T \subseteq Nat
  OBVIOUS
<1>2. T # {}
  OBVIOUS
<1>3. PICK x \in T : \A y \in T : <<y, x>> \notin OpToRel(<, Nat)
  BY <1>1, <1>2, NatLessThanWellFounded, WFMin
<1>4. \A y \in T : ~(y < x)
  BY <1>1, <1>3 DEF OpToRel
<1>5. PICK m \in I : x = n - m
  OBVIOUS
<1>6. ASSUME NEW i \in I
      PROVE  m >= i
  <2>1. n - i \in T /\ i \in Nat /\ m \in Nat
    OBVIOUS
  <2>2. ~(n - i < n - m)
    BY <1>4, <1>5, <2>1
  <2> QED
    BY <2>1, <2>2
<1> QED
  BY <1>6 DEF Max

LEMMA LengthOfEmpty ==
  ASSUME NEW S, NEW q \in Seq(S)
  PROVE  q = <<>> <=> Len(q) = 0
BY EmptySeq

----------------------------------------------------------------------------
(* Storage: what each operation keeps and does to the queues. *)

QueueOf(s, t) == At(s.buffers, t, <<>>)

StorageOK(s) ==
  /\ s = [memory |-> s.memory, buffers |-> s.buffers]
  /\ DOMAIN s.memory \subseteq Locations
  /\ \A l \in DOMAIN s.memory : s.memory[l] \in Values
  /\ DOMAIN s.buffers \subseteq Threads
  /\ \A t \in DOMAIN s.buffers : s.buffers[t] \in Seq(Entry) /\ s.buffers[t] # <<>>

LEMMA NewOK == StorageOK(New)
BY DEF StorageOK, New, EmptyMap

LEMMA QueueType ==
  ASSUME NEW s, StorageOK(s), NEW t
  PROVE  /\ QueueOf(s, t) \in Seq(Entry)
         /\ HasEps(s, t) <=> QueueOf(s, t) # <<>>
BY DEF StorageOK, QueueOf, At, HasEps

LEMMA ReadType ==
  ASSUME NEW s, StorageOK(s), NEW t, NEW l
  PROVE  Read(s, t, l) \in Values
<1> DEFINE own == StoresTo(QueueOf(s, t), l)
<1>1. CASE own = {}
  <2>1. Read(s, t, l) = At(s.memory, l, 0)
    BY <1>1 DEF Read, QueueOf
  <2> QED
    BY <2>1, ConstantsAssumption DEF At, StorageOK
<1>2. CASE own # {}
  <2>1. QueueOf(s, t) \in Seq(Entry)
    BY QueueType
  <2>2. own \subseteq 1..Len(QueueOf(s, t)) /\ Len(QueueOf(s, t)) \in Nat
    BY <2>1 DEF StoresTo
  <2>3. Max(own) \in 1..Len(QueueOf(s, t))
    BY <2>2, <1>2, MaxIsGreatest
  <2>4. QueueOf(s, t)[Max(own)] \in Entry
    BY <2>1, <2>3
  <2>5. Read(s, t, l) = s.buffers[t][Max(own)].val
    BY <1>2 DEF Read, QueueOf
  <2>6. t \in DOMAIN s.buffers
    BY <2>3 DEF QueueOf, At
  <2> QED
    BY <2>4, <2>5, <2>6 DEF QueueOf, At, Entry
<1> QED
  BY <1>1, <1>2

LEMMA EnqueueOK ==
  ASSUME NEW s, StorageOK(s),
         NEW t \in Threads, NEW l \in Locations, NEW v \in Values
  PROVE  /\ StorageOK(Enqueue(s, t, l, v))
         /\ QueueOf(Enqueue(s, t, l, v), t) = Append(QueueOf(s, t), [loc |-> l, val |-> v])
         /\ \A u : u # t => QueueOf(Enqueue(s, t, l, v), u) = QueueOf(s, u)
<1> DEFINE e == Append(QueueOf(s, t), [loc |-> l, val |-> v])
<1>a. QueueOf(s, t) \in Seq(Entry) /\ [loc |-> l, val |-> v] \in Entry
  BY QueueType DEF Entry
<1>1. e \in Seq(Entry) /\ e # <<>>
  BY <1>a, AppendProperties
<1> DEFINE b == Put(s.buffers, t, e)
<1>2. Enqueue(s, t, l, v) = [memory |-> s.memory, buffers |-> b]
  BY DEF Enqueue, StorageOK, QueueOf
<1>3. /\ DOMAIN b \subseteq Threads
      /\ \A u \in DOMAIN b : b[u] \in Seq(Entry) /\ b[u] # <<>>
      /\ At(b, t, <<>>) = e
      /\ \A u : u # t => At(b, u, <<>>) = At(s.buffers, u, <<>>)
  <2> HIDE DEF e
  <2> QED
    BY <1>1 DEF StorageOK, Put, At
<1> HIDE DEF b
<1> QED
  BY <1>2, <1>3 DEF StorageOK, QueueOf

LEMMA FlushBufferOK ==
  ASSUME NEW s, StorageOK(s), NEW t \in Threads
  PROVE  /\ StorageOK(FlushBuffer(s, t))
         /\ QueueOf(FlushBuffer(s, t), t) = <<>>
         /\ \A u : u # t => QueueOf(FlushBuffer(s, t), u) = QueueOf(s, u)
<1>1. CASE ~HasEps(s, t)
  BY <1>1 DEF FlushBuffer, QueueOf, At, HasEps
<1>2. CASE HasEps(s, t)
  <2> DEFINE q    == s.buffers[t]
             locs == {q[i].loc : i \in DOMAIN q}
             m    == [l \in DOMAIN s.memory \cup locs |-> Read(s, t, l)]
  <2>1. FlushBuffer(s, t) = [memory |-> m, buffers |-> Erase(s.buffers, t)]
    BY <1>2 DEF FlushBuffer
  <2>a. q \in Seq(Entry)
    BY <1>2 DEF StorageOK, HasEps
  <2>b. \A i \in DOMAIN q : q[i] \in Entry
    BY <2>a
  <2>2. locs \subseteq Locations
    BY <2>b DEF Entry
  <2>3. \A l \in DOMAIN m : m[l] \in Values
    BY ReadType
  <2>4. DOMAIN m \subseteq Locations
    BY <2>2 DEF StorageOK
  <2> HIDE DEF m
  <2> QED
    BY <2>1, <2>3, <2>4 DEF StorageOK, QueueOf, Erase, At
<1> QED
  BY <1>1, <1>2

LEMMA PropagateOK ==
  ASSUME NEW s, StorageOK(s), NEW t \in Threads, HasEps(s, t)
  PROVE  /\ StorageOK(Propagate(s, t))
         /\ QueueOf(Propagate(s, t), t) = Tail(QueueOf(s, t))
         /\ \A u : u # t => QueueOf(Propagate(s, t), u) = QueueOf(s, u)
<1> DEFINE q == s.buffers[t]
<1>1. q \in Seq(Entry) /\ q # <<>> /\ QueueOf(s, t) = q /\ t \in DOMAIN s.buffers
  BY DEF StorageOK, HasEps, QueueOf, At
<1>2. q[1] \in Entry /\ Tail(q) \in Seq(Entry) /\ Len(Tail(q)) = Len(q) - 1
  BY <1>1, HeadTailProperties
<1>3. Tail(q) = <<>> <=> Len(q) = 1
  <2>1. Tail(q) = <<>> <=> Len(Tail(q)) = 0
    BY <1>2, LengthOfEmpty
  <2>2. Len(q) \in Nat
    BY <1>1
  <2> QED
    BY <2>1, <2>2, <1>2
<1> DEFINE b == IF Len(q) = 1 THEN Erase(s.buffers, t) ELSE Put(s.buffers, t, Tail(q))
<1>4. Propagate(s, t) = [memory |-> Put(s.memory, q[1].loc, q[1].val), buffers |-> b]
  BY DEF Propagate
<1>5. /\ DOMAIN b \subseteq Threads
      /\ \A u \in DOMAIN b : b[u] \in Seq(Entry) /\ b[u] # <<>>
      /\ At(b, t, <<>>) = Tail(q)
      /\ \A u : u # t => At(b, u, <<>>) = At(s.buffers, u, <<>>)
  BY <1>1, <1>2, <1>3 DEF StorageOK, Erase, Put, At
<1> HIDE DEF b
<1>6. /\ DOMAIN Put(s.memory, q[1].loc, q[1].val) \subseteq Locations
      /\ \A l \in DOMAIN Put(s.memory, q[1].loc, q[1].val) :
           Put(s.memory, q[1].loc, q[1].val)[l] \in Values
  BY <1>2 DEF StorageOK, Put, Entry
<1> QED
  BY <1>1, <1>4, <1>5, <1>6 DEF StorageOK, QueueOf

----------------------------------------------------------------------------
(* History: what issuing and committing stores do to it. *)

StoredEntry == StoredBy(Locations, Values)

HistoryOK(h) == h \in Histories(Threads, Locations, Values)

LEMMA StoredElement ==
  ASSUME NEW issued \in Seq(StoredEntry), NEW i \in 1..Len(issued)
  PROVE  issued[i] \in StoredEntry /\ issued[i].at \in Nat
<1>1. issued[i] \in StoredEntry
  BY ElementOfSeq
<1> QED
  BY <1>1 DEF StoredEntry, StoredBy

LEMMA StoreType ==
  ASSUME NEW h, HistoryOK(h)
  PROVE  /\ h.clock \in Nat /\ DOMAIN h.stores = Threads
         /\ \A u \in Threads :
              /\ h.stores[u] \in Seq(StoredEntry)
              /\ Len(h.stores[u]) \in Nat
              /\ DOMAIN h.stores[u] = 1..Len(h.stores[u])
              /\ \A i \in 1..Len(h.stores[u]) :
                   h.stores[u][i] \in StoredEntry /\ h.stores[u][i].at \in Nat
BY HistoryStores DEF HistoryOK, StoredEntry

LEMMA NewHistoryOK == HistoryOK(NewHistory(Threads))
<1>1. <<>> \in Seq(StoredBy(Locations, Values))
  BY EmptySeq
<1> QED
  BY <1>1 DEF HistoryOK, Histories, NewHistory

LEMMA IssueOK ==
  ASSUME NEW h, HistoryOK(h),
         NEW t \in Threads, NEW l \in Locations, NEW v \in Values
  PROVE  /\ HistoryOK(Issue(h, t, l, v))
         /\ Issue(h, t, l, v).clock = h.clock
         /\ Issue(h, t, l, v).stores[t] =
              Append(h.stores[t], [loc |-> l, val |-> v, at |-> 0])
         /\ \A u \in Threads : u # t => Issue(h, t, l, v).stores[u] = h.stores[u]
BY HistoryIssue DEF HistoryOK

LEMMA CommitOK ==
  ASSUME NEW h, HistoryOK(h), NEW t \in Threads, NEW I, I # {}
  PROVE  /\ HistoryOK(Commit(h, t, I))
         /\ Commit(h, t, I).clock = h.clock + 1
         /\ Committed(h.stores[t], I, h.clock + 1, Commit(h, t, I).stores[t])
         /\ \A u \in Threads : u # t => Commit(h, t, I).stores[u] = h.stores[u]
BY HistoryCommit DEF HistoryOK

----------------------------------------------------------------------------
(* Program order of one thread: its queue q against what it issued. *)

InOrder(q, issued, clock) ==
  LET committed == Len(issued) - Len(q)
  IN  /\ committed >= 0
      /\ \A k \in 1..Len(q) :
           /\ issued[committed + k].at = 0
           /\ q[k].loc = issued[committed + k].loc
           /\ q[k].val = issued[committed + k].val
      /\ \A i \in 1..committed : issued[i].at > 0 /\ issued[i].at <= clock
      /\ \A i, j \in 1..committed : i < j => issued[i].at <= issued[j].at

LEMMA OrderLater ==
  ASSUME NEW q \in Seq(Entry), NEW issued \in Seq(StoredEntry), NEW clock \in Nat,
         InOrder(q, issued, clock)
  PROVE  InOrder(q, issued, clock + 1)
<1>1. \A i \in 1..Len(issued) : issued[i].at \in Nat
  BY StoredElement
<1>2. Len(q) \in Nat /\ Len(issued) \in Nat /\ Len(issued) - Len(q) \in Nat
  BY DEF InOrder
<1>3. \A i \in 1..Len(issued) - Len(q) : issued[i].at <= clock + 1
  <2> TAKE i \in 1..Len(issued) - Len(q)
  <2>1. issued[i].at <= clock
    BY DEF InOrder
  <2>2. i \in 1..Len(issued)
    BY <1>2
  <2> QED
    BY <2>1, <2>2, <1>1
<1> QED
  BY <1>3 DEF InOrder

LEMMA OrderIssue ==
  ASSUME NEW q \in Seq(Entry), NEW issued \in Seq(StoredEntry), NEW clock \in Nat,
         NEW l \in Locations, NEW v \in Values,
         InOrder(q, issued, clock)
  PROVE  InOrder(Append(q, [loc |-> l, val |-> v]),
                 Append(issued, [loc |-> l, val |-> v, at |-> 0]), clock)
<1> DEFINE e  == [loc |-> l, val |-> v]
           f  == [loc |-> l, val |-> v, at |-> 0]
           q2 == Append(q, e)
           i2 == Append(issued, f)
           c  == Len(issued) - Len(q)
<1>1. /\ Len(q2) = Len(q) + 1 /\ q2[Len(q) + 1] = e
      /\ \A k \in 1..Len(q) : q2[k] = q[k]
  BY AppendProperties DEF Entry
<1>2. /\ Len(i2) = Len(issued) + 1 /\ i2[Len(issued) + 1] = f
      /\ \A k \in 1..Len(issued) : i2[k] = issued[k]
  BY AppendProperties DEF StoredEntry, StoredBy
<1>3. Len(q) \in Nat /\ Len(issued) \in Nat /\ Len(i2) - Len(q2) = c /\ c \in Nat
  BY <1>1, <1>2 DEF InOrder
<1> HIDE DEF q2, i2
<1>4. \A k \in 1..Len(q2) :
        i2[c + k].at = 0 /\ q2[k].loc = i2[c + k].loc /\ q2[k].val = i2[c + k].val
  <2> TAKE k \in 1..Len(q2)
  <2>1. CASE k = Len(q) + 1
    BY <2>1, <1>1, <1>2, <1>3
  <2>2. CASE k \in 1..Len(q)
    <3>1. c + k \in 1..Len(issued)
      BY <2>2, <1>3
    <3> QED
      BY <2>2, <3>1, <1>1, <1>2 DEF InOrder
  <2> QED
    BY <2>1, <2>2, <1>1, <1>3
<1>5. \A i \in 1..c : i2[i] = issued[i]
  BY <1>2, <1>3
<1>6. /\ \A i \in 1..c : i2[i].at > 0 /\ i2[i].at <= clock
      /\ \A i, j \in 1..c : i < j => i2[i].at <= i2[j].at
  BY <1>5 DEF InOrder
<1>7. InOrder(q2, i2, clock)
  BY <1>3, <1>4, <1>6 DEF InOrder
<1> QED
  BY <1>7 DEF q2, i2

LEMMA OrderDrain ==
  ASSUME NEW q \in Seq(Entry), NEW issued \in Seq(StoredEntry), NEW clock \in Nat,
         NEW after,
         InOrder(q, issued, clock),
         Committed(issued, {i \in DOMAIN issued : issued[i].at = 0}, clock + 1, after)
  PROVE  InOrder(<<>>, after, clock + 1)
<1> DEFINE c == Len(issued) - Len(q)
<1>1. Len(q) \in Nat /\ Len(issued) \in Nat /\ c \in Nat /\ DOMAIN issued = 1..Len(issued)
  BY DEF InOrder
<1>2. Len(after) = Len(issued) /\ Len(<<>>) = 0
  BY EmptySeq DEF Committed
<1>3. \A i \in 1..c : issued[i].at \in Nat /\ issued[i].at > 0 /\ issued[i].at <= clock
                      /\ after[i].at = issued[i].at
  <2> TAKE i \in 1..c
  <2>1. i \in 1..Len(issued)
    BY <1>1
  <2>2. issued[i].at \in Nat
    BY <2>1, StoredElement
  <2>3. issued[i].at > 0 /\ issued[i].at <= clock
    BY DEF InOrder
  <2>4. after[i].at = issued[i].at
    <3> DEFINE P == {j \in DOMAIN issued : issued[j].at = 0}
    <3>1. i \notin P
      BY <2>2, <2>3
    <3> HIDE DEF P
    <3>2. Committed(issued, P, clock + 1, after)
      BY DEF P
    <3> QED
      BY <2>1, <3>1, <3>2 DEF Committed
  <2> QED
    BY <2>2, <2>3, <2>4
<1>4. \A i \in 1..Len(issued) : i > c => after[i].at = clock + 1
  <2> TAKE i \in 1..Len(issued)
  <2> HAVE i > c
  <2>1. (i - c) \in 1..Len(q) /\ c + (i - c) = i
    BY <1>1
  <2>2. issued[i].at = 0
    BY <2>1 DEF InOrder
  <2> QED
    BY <2>2, <1>1 DEF Committed
<1>5. \A i \in 1..Len(issued) : after[i].at > 0 /\ after[i].at <= clock + 1
  BY <1>1, <1>3, <1>4
<1>6. \A i, j \in 1..Len(issued) : i < j => after[i].at <= after[j].at
  <2> TAKE i, j \in 1..Len(issued)
  <2> HAVE i < j
  <2>1. CASE j <= c
    <3>1. i \in 1..c /\ j \in 1..c
      BY <2>1, <1>1
    <3> QED
      BY <3>1, <1>3 DEF InOrder
  <2>2. CASE j > c
    <3>1. after[j].at = clock + 1
      BY <2>2, <1>4
    <3> QED
      BY <3>1, <1>5
  <2> QED
    BY <2>1, <2>2, <1>1
<1> QED
  BY <1>1, <1>2, <1>5, <1>6 DEF InOrder

LEMMA OldestPending ==
  ASSUME NEW q \in Seq(Entry), NEW issued \in Seq(StoredEntry), NEW clock \in Nat,
         InOrder(q, issued, clock), q # <<>>
  PROVE  Oldest({i \in DOMAIN issued : issued[i].at = 0}) = {Len(issued) - Len(q) + 1}
<1> DEFINE c == Len(issued) - Len(q)
           P == {i \in DOMAIN issued : issued[i].at = 0}
<1>1. Len(q) \in Nat /\ Len(q) # 0 /\ Len(issued) \in Nat /\ c \in Nat
      /\ DOMAIN issued = 1..Len(issued)
  BY LengthOfEmpty DEF InOrder
<1>2. c + 1 \in P
  <2>1. 1 \in 1..Len(q) /\ c + 1 \in 1..Len(issued)
    BY <1>1
  <2> QED
    BY <2>1, <1>1 DEF InOrder
<1>3. \A i \in P : i \in Int /\ c + 1 <= i
  <2> TAKE i \in P
  <2>1. i \in 1..Len(issued) /\ issued[i].at = 0
    BY <1>1
  <2>2. i \notin 1..c
    BY <2>1 DEF InOrder
  <2> QED
    BY <2>1, <2>2, <1>1
<1>4. \A o \in P : (\A j \in P : o <= j) <=> o = c + 1
  BY <1>2, <1>3
<1> HIDE DEF P
<1>5. Oldest(P) = {c + 1}
  BY <1>2, <1>4 DEF Oldest
<1> QED
  BY <1>5 DEF P

LEMMA OrderPropagate ==
  ASSUME NEW q \in Seq(Entry), NEW issued \in Seq(StoredEntry), NEW clock \in Nat,
         NEW after,
         InOrder(q, issued, clock), q # <<>>,
         Committed(issued, {Len(issued) - Len(q) + 1}, clock + 1, after)
  PROVE  InOrder(Tail(q), after, clock + 1)
<1> DEFINE c == Len(issued) - Len(q)
<1>1. Len(q) \in Nat /\ Len(q) # 0 /\ Len(issued) \in Nat /\ c \in Nat
  BY LengthOfEmpty DEF InOrder
<1>2. /\ Len(Tail(q)) = Len(q) - 1
      /\ \A k \in 1..Len(q) - 1 : Tail(q)[k] = q[k + 1]
  BY HeadTailProperties
<1>3. Len(after) = Len(issued) /\ Len(after) - Len(Tail(q)) = c + 1
  BY <1>1, <1>2 DEF Committed
<1>4. \A k \in 1..Len(q) - 1 :
        /\ after[(c + 1) + k].at = 0
        /\ Tail(q)[k].loc = after[(c + 1) + k].loc
        /\ Tail(q)[k].val = after[(c + 1) + k].val
  <2> TAKE k \in 1..Len(q) - 1
  <2>1. k + 1 \in 1..Len(q) /\ (c + 1) + k = c + (k + 1) /\ c + (k + 1) \in 1..Len(issued)
        /\ c + (k + 1) # c + 1
    BY <1>1
  <2>2. issued[c + (k + 1)].at = 0 /\ q[k + 1].loc = issued[c + (k + 1)].loc
        /\ q[k + 1].val = issued[c + (k + 1)].val
    BY <2>1 DEF InOrder
  <2>3. after[c + (k + 1)].loc = issued[c + (k + 1)].loc
        /\ after[c + (k + 1)].val = issued[c + (k + 1)].val
        /\ after[c + (k + 1)].at = issued[c + (k + 1)].at
    BY <2>1 DEF Committed
  <2> QED
    BY <2>1, <2>2, <2>3, <1>2
<1>5. \A i \in 1..c : issued[i].at \in Nat /\ issued[i].at > 0 /\ issued[i].at <= clock
                      /\ after[i].at = issued[i].at
  <2> TAKE i \in 1..c
  <2>1. i \in 1..Len(issued) /\ i # c + 1
    BY <1>1
  <2>2. issued[i].at \in Nat
    BY <2>1, StoredElement
  <2>3. issued[i].at > 0 /\ issued[i].at <= clock
    BY DEF InOrder
  <2>4. after[i].at = issued[i].at
    BY <2>1 DEF Committed
  <2> QED
    BY <2>2, <2>3, <2>4
<1>6. after[c + 1].at = clock + 1
  BY <1>1 DEF Committed
<1>7. \A i \in 1..c + 1 : after[i].at > 0 /\ after[i].at <= clock + 1
  <2> TAKE i \in 1..c + 1
  <2>1. CASE i = c + 1
    BY <2>1, <1>6
  <2>2. CASE i \in 1..c
    <3>1. issued[i].at \in Nat /\ issued[i].at > 0 /\ issued[i].at <= clock
      BY <2>2, <1>5
    <3>2. after[i].at = issued[i].at
      BY <2>2, <1>5
    <3> QED
      BY <3>1, <3>2
  <2> QED
    BY <2>1, <2>2, <1>1
<1>8. \A i, j \in 1..c + 1 : i < j => after[i].at <= after[j].at
  <2> TAKE i, j \in 1..c + 1
  <2> HAVE i < j
  <2>1. CASE j = c + 1
    BY <2>1, <1>6, <1>7
  <2>2. CASE j # c + 1
    <3>1. i \in 1..c /\ j \in 1..c
      BY <2>2, <1>1
    <3> QED
      BY <3>1, <1>5 DEF InOrder
  <2> QED
    BY <2>1, <2>2
<1> QED
  BY <1>1, <1>2, <1>3, <1>4, <1>7, <1>8 DEF InOrder

----------------------------------------------------------------------------
(* The inductive invariant: types, and the program order of every thread,   *)
(* with the clock as a bound of the times given out.                        *)

Consistent(s, h) ==
  /\ StorageOK(s)
  /\ HistoryOK(h)
  /\ \A t \in Threads : InOrder(QueueOf(s, t), h.stores[t], h.clock)

IInv == Consistent(storage, history)

LEMMA EnqueueKeeps ==
  ASSUME NEW s, NEW h, Consistent(s, h),
         NEW t \in Threads, NEW l \in Locations, NEW v \in Values
  PROVE  Consistent(Enqueue(s, t, l, v), Issue(h, t, l, v))
<1> DEFINE s2 == Enqueue(s, t, l, v)
           h2 == Issue(h, t, l, v)
<1>1. StorageOK(s) /\ HistoryOK(h)
  BY DEF Consistent
<1>2. /\ StorageOK(s2)
      /\ QueueOf(s2, t) = Append(QueueOf(s, t), [loc |-> l, val |-> v])
      /\ \A u : u # t => QueueOf(s2, u) = QueueOf(s, u)
  BY <1>1, EnqueueOK
<1>3. /\ HistoryOK(h2) /\ h2.clock = h.clock
      /\ h2.stores[t] = Append(h.stores[t], [loc |-> l, val |-> v, at |-> 0])
      /\ \A u \in Threads : u # t => h2.stores[u] = h.stores[u]
  BY <1>1, IssueOK
<1>4. QueueOf(s, t) \in Seq(Entry) /\ h.stores[t] \in Seq(StoredEntry) /\ h.clock \in Nat
  BY <1>1, QueueType, StoreType
<1>5. InOrder(QueueOf(s, t), h.stores[t], h.clock)
  BY DEF Consistent
<1>6. InOrder(QueueOf(s2, t), h2.stores[t], h2.clock)
  BY <1>2, <1>3, <1>4, <1>5, OrderIssue
<1> HIDE DEF s2, h2
<1>7. \A u \in Threads : InOrder(QueueOf(s2, u), h2.stores[u], h2.clock)
  BY <1>2, <1>3, <1>6 DEF Consistent
<1>8. Consistent(s2, h2)
  BY <1>2, <1>3, <1>7 DEF Consistent
<1> QED
  BY <1>8 DEF s2, h2

LEMMA FlushKeeps ==
  ASSUME NEW s, NEW h, Consistent(s, h), NEW t \in Threads
  PROVE  Consistent(FlushBuffer(s, t), Drain(h, t))
<1> DEFINE s2 == FlushBuffer(s, t)
           h2 == Drain(h, t)
           q  == QueueOf(s, t)
           issued == h.stores[t]
<1>1. StorageOK(s) /\ HistoryOK(h) /\ InOrder(q, issued, h.clock)
  BY DEF Consistent
<1>2. /\ StorageOK(s2)
      /\ QueueOf(s2, t) = <<>>
      /\ \A u : u # t => QueueOf(s2, u) = QueueOf(s, u)
  BY <1>1, FlushBufferOK
<1>3. q \in Seq(Entry) /\ issued \in Seq(StoredEntry) /\ h.clock \in Nat
  BY <1>1, QueueType, StoreType
<1>4. Pending(h, t) = {i \in DOMAIN issued : issued[i].at = 0}
  BY DEF Pending
<1>5. CASE Pending(h, t) = {}
  <2>1. h2 = h
    BY <1>5 DEF Drain, Commit
  <2>2. q = <<>>
    <3>1. SUFFICES ASSUME q # <<>> PROVE FALSE
      OBVIOUS
    <3>2. Len(q) \in Nat /\ Len(q) # 0 /\ Len(issued) \in Nat /\ Len(issued) - Len(q) \in Nat
      BY <3>1, <1>1, <1>3, LengthOfEmpty DEF InOrder
    <3>3. Len(issued) - Len(q) + 1 \in DOMAIN issued /\ 1 \in 1..Len(q)
      BY <3>2, <1>3
    <3>4. issued[Len(issued) - Len(q) + 1].at = 0
      BY <3>3, <1>1 DEF InOrder
    <3> QED
      BY <3>3, <3>4, <1>4, <1>5
  <2>3. \A u \in Threads : QueueOf(s2, u) = QueueOf(s, u)
    BY <2>2, <1>2
  <2> HIDE DEF s2
  <2> QED
    BY <2>1, <2>3, <1>2 DEF Consistent, s2
<1>6. CASE Pending(h, t) # {}
  <2>1. /\ HistoryOK(h2) /\ h2.clock = h.clock + 1
        /\ Committed(issued, Pending(h, t), h.clock + 1, h2.stores[t])
        /\ \A u \in Threads : u # t => h2.stores[u] = h.stores[u]
    BY <1>1, <1>6, CommitOK DEF Drain
  <2>2. InOrder(<<>>, h2.stores[t], h.clock + 1)
    BY <2>1, <1>1, <1>3, <1>4, OrderDrain
  <2>3. \A u \in Threads : InOrder(QueueOf(s, u), h.stores[u], h.clock + 1)
    <3> TAKE u \in Threads
    <3>1. QueueOf(s, u) \in Seq(Entry) /\ h.stores[u] \in Seq(StoredEntry)
      BY <1>1, QueueType, StoreType
    <3> QED
      BY <3>1, <1>3, OrderLater DEF Consistent
  <2> HIDE DEF s2, h2
  <2>4. \A u \in Threads : InOrder(QueueOf(s2, u), h2.stores[u], h2.clock)
    BY <2>1, <2>2, <2>3, <1>2
  <2>5. Consistent(s2, h2)
    BY <2>1, <2>4, <1>2 DEF Consistent
  <2> QED
    BY <2>5 DEF s2, h2
<1> QED
  BY <1>5, <1>6

LEMMA PropagateKeeps ==
  ASSUME NEW s, NEW h, Consistent(s, h), NEW t \in Threads, HasEps(s, t)
  PROVE  Consistent(Propagate(s, t), Commit(h, t, Oldest(Pending(h, t))))
<1> DEFINE o  == Oldest(Pending(h, t))
           s2 == Propagate(s, t)
           h2 == Commit(h, t, o)
           q  == QueueOf(s, t)
           issued == h.stores[t]
<1>1. StorageOK(s) /\ HistoryOK(h) /\ InOrder(q, issued, h.clock)
  BY DEF Consistent
<1>2. /\ StorageOK(s2)
      /\ QueueOf(s2, t) = Tail(q)
      /\ \A u : u # t => QueueOf(s2, u) = QueueOf(s, u)
  BY <1>1, PropagateOK
<1>3. q \in Seq(Entry) /\ q # <<>> /\ issued \in Seq(StoredEntry) /\ h.clock \in Nat
  BY <1>1, QueueType, StoreType
<1>4. o = {Len(issued) - Len(q) + 1}
  BY <1>1, <1>3, OldestPending DEF Pending
<1>5. /\ HistoryOK(h2) /\ h2.clock = h.clock + 1
      /\ Committed(issued, o, h.clock + 1, h2.stores[t])
      /\ \A u \in Threads : u # t => h2.stores[u] = h.stores[u]
  <2>1. o # {}
    BY <1>4
  <2> HIDE DEF o
  <2> QED
    BY <1>1, <2>1, CommitOK
<1>6. InOrder(Tail(q), h2.stores[t], h.clock + 1)
  BY <1>1, <1>3, <1>4, <1>5, OrderPropagate
<1>7. \A u \in Threads : InOrder(QueueOf(s, u), h.stores[u], h.clock + 1)
  <2> TAKE u \in Threads
  <2>1. QueueOf(s, u) \in Seq(Entry) /\ h.stores[u] \in Seq(StoredEntry)
    BY <1>1, QueueType, StoreType
  <2> QED
    BY <2>1, <1>3, OrderLater DEF Consistent
<1> HIDE DEF s2, h2
<1>8. \A u \in Threads : InOrder(QueueOf(s2, u), h2.stores[u], h2.clock)
  BY <1>2, <1>5, <1>6, <1>7
<1>9. Consistent(s2, h2)
  BY <1>2, <1>5, <1>8 DEF Consistent
<1> QED
  BY <1>9 DEF s2, h2

LEMMA WriteKeeps ==
  ASSUME NEW s, NEW h, Consistent(s, h),
         NEW t \in Threads, NEW l \in Locations, NEW v \in Values, NEW m
  PROVE  Consistent(Write(s, t, l, v, m), Stored(h, t, l, v, m))
<1>1. Consistent(Enqueue(s, t, l, v), Issue(h, t, l, v))
  BY EnqueueKeeps
<1>2. CASE m = "SEQ_CST"
  BY <1>1, <1>2, FlushKeeps DEF Write, Stored
<1>3. CASE m # "SEQ_CST"
  BY <1>1, <1>3 DEF Write, Stored
<1> QED
  BY <1>2, <1>3

----------------------------------------------------------------------------
(* The theorems. *)

LEMMA InitIInv == Init => IInv
<1> SUFFICES ASSUME Init PROVE IInv
  OBVIOUS
<1>1. StorageOK(storage) /\ HistoryOK(history)
  BY NewOK, NewHistoryOK DEF Init
<1>2. \A t \in Threads : QueueOf(storage, t) = <<>> /\ history.stores[t] = <<>>
  BY DEF Init, New, NewHistory, QueueOf, At, EmptyMap
<1>3. \A t \in Threads : InOrder(QueueOf(storage, t), history.stores[t], history.clock)
  BY <1>2, EmptySeq DEF InOrder
<1> QED
  BY <1>1, <1>3 DEF IInv, Consistent

\* The invariant holds after every step, whichever thread takes it: one lemma
\* for each operation of the storage, one step here for each action.
LEMMA NextIInv == IInv /\ [Next]_vars => IInv'
<1> SUFFICES ASSUME IInv, [Next]_vars PROVE IInv'
  OBVIOUS
<1>1. Consistent(storage, history) /\ StorageOK(storage)
  BY DEF IInv, Consistent
<1>2. CASE UNCHANGED vars
  BY <1>1, <1>2 DEF IInv, vars
<1>3. ASSUME NEW t \in Threads, Epsilon(t)
      PROVE  IInv'
  BY <1>1, <1>3, PropagateKeeps DEF Epsilon, EpsStorages, IInv
<1>4. ASSUME NEW t \in Threads, NEW m, FenceStatement(t, m)
      PROVE  IInv'
  BY <1>1, <1>4, FlushKeeps DEF FenceStatement, Fence, IInv
<1>5. ASSUME NEW t \in Threads, NEW l \in Locations, NEW m, Load(t, l, m)
      PROVE  IInv'
  BY <1>1, <1>5 DEF Load, IInv
<1>6. ASSUME NEW t \in Threads, NEW l \in Locations, NEW v \in Operands, NEW m,
             Store(t, l, v, m)
      PROVE  IInv'
  BY <1>1, <1>6, WriteKeeps, ConstantsAssumption DEF Store, IInv
<1>7. ASSUME NEW t \in Threads, NEW l \in Locations, NEW v \in Operands, NEW e, NEW m,
             Cas(t, l, e, v, m)
      PROVE  IInv'
  <2>1. Consistent(FlushBuffer(storage, t), Drain(history, t))
    BY <1>1, FlushKeeps
  <2>2. v \in Values
    BY ConstantsAssumption
  <2> QED
    BY <1>7, <2>1, <2>2, WriteKeeps DEF Cas, IInv
<1>8. ASSUME NEW t \in Threads, NEW l \in Locations, NEW e, NEW m, CasFails(t, l, e, m)
      PROVE  IInv'
  BY <1>1, <1>8, FlushKeeps DEF CasFails, IInv
<1>9. ASSUME NEW t \in Threads, NEW l \in Locations, NEW v \in Operands, NEW m,
             Fai(t, l, v, m)
      PROVE  IInv'
  <2>1. Consistent(FlushBuffer(storage, t), Drain(history, t))
    BY <1>1, FlushKeeps
  <2> QED
    BY <1>9, <2>1, WriteKeeps DEF Fai, IInv
<1> QED
  BY <1>2, <1>3, <1>4, <1>5, <1>6, <1>7, <1>8, <1>9 DEF Next

LEMMA IInvGives == IInv => TypeOK /\ ProgramOrderKept
<1>1. IInv => TypeOK
  BY DEF IInv, Consistent, StorageOK, TypeOK
<1>2. IInv => ProgramOrderKept
  BY DEF IInv, Consistent, InOrder, ProgramOrderKept, Buffer, QueueOf
<1> QED
  BY <1>1, <1>2

\* No operation, of any thread and with any mode, leaves a queue empty in the
\* map or a value outside the integers: propagate may pop without a check.
THEOREM TypeCorrectness == Spec => []TypeOK
BY InitIInv, NextIInv, IInvGives, PTL DEF Spec

\* Stores reach memory in program order: a thread's queue is, entry by entry,
\* the end of what it stored, whatever mixture of propagations, SEQ_CST
\* accesses and read-modify-writes of all the threads has emptied it.
THEOREM ProgramOrder == Spec => []ProgramOrderKept
BY InitIInv, NextIInv, IInvGives, PTL DEF Spec

----------------------------------------------------------------------------
(* What a queue says of the pending stores of its thread. *)

LEMMA PendingAre ==
  ASSUME NEW s, NEW h, Consistent(s, h), NEW t \in Threads
  PROVE  LET q == QueueOf(s, t)
             c == Len(h.stores[t]) - Len(q)
         IN  /\ q \in Seq(Entry) /\ Len(q) \in Nat /\ c \in Nat /\ DOMAIN q = 1..Len(q)
             /\ Pending(h, t) = {c + k : k \in 1..Len(q)}
             /\ \A k \in 1..Len(q) : /\ c + k \in 1..Len(h.stores[t])
                                     /\ h.stores[t][c + k].loc = q[k].loc
                                     /\ h.stores[t][c + k].val = q[k].val
<1> DEFINE q == QueueOf(s, t)
           issued == h.stores[t]
           c == Len(issued) - Len(q)
<1>1. StorageOK(s) /\ HistoryOK(h) /\ InOrder(q, issued, h.clock)
  BY DEF Consistent
<1>2. q \in Seq(Entry) /\ Len(q) \in Nat /\ DOMAIN q = 1..Len(q)
  BY <1>1, QueueType, LenProperties
<1>3. /\ Len(issued) \in Nat /\ DOMAIN issued = 1..Len(issued)
      /\ \A i \in 1..Len(issued) : issued[i].at \in Nat
  BY <1>1, StoreType
<1> HIDE DEF q, issued
<1>4. c \in Nat
  BY <1>1, <1>2, <1>3 DEF InOrder
<1>5. \A k \in 1..Len(q) : /\ c + k \in 1..Len(issued) /\ issued[c + k].at = 0
                           /\ issued[c + k].loc = q[k].loc /\ issued[c + k].val = q[k].val
  BY <1>1, <1>2, <1>3, <1>4 DEF InOrder
<1>6. ASSUME NEW i \in 1..Len(issued), issued[i].at = 0
      PROVE  \E k \in 1..Len(q) : i = c + k
  <2>1. i \notin 1..c
    BY <1>1, <1>3, <1>6 DEF InOrder
  <2>2. i - c \in 1..Len(q) /\ i = c + (i - c)
    BY <2>1, <1>2, <1>3, <1>4
  <2> QED
    BY <2>2
<1>7. Pending(h, t) = {i \in 1..Len(issued) : issued[i].at = 0}
  BY <1>3 DEF Pending, issued
<1>8. Pending(h, t) = {c + k : k \in 1..Len(q)}
  BY <1>5, <1>6, <1>7
<1> QED
  BY <1>2, <1>4, <1>5, <1>8 DEF q, issued

LEMMA EndOf ==
  ASSUME NEW n \in Nat, NEW m \in Nat, NEW i \in 1..n, i > n - m
  PROVE  \E k \in 1..m : i = (n - m) + k
<1> DEFINE k == i - (n - m)
<1>1. k \in 1..m /\ i = (n - m) + k
  OBVIOUS
<1> QED
  BY <1>1

LEMMA InOrderBounds ==
  ASSUME NEW s, NEW h, Consistent(s, h)
  PROVE  TimesBounded(h)
<1> SUFFICES ASSUME NEW u \in Threads, NEW i \in 1..Len(h.stores[u])
             PROVE  h.stores[u][i].at <= h.clock
  BY StoreType DEF TimesBounded, Consistent
<1> DEFINE q == QueueOf(s, u)
           c == Len(h.stores[u]) - Len(q)
<1>1. HistoryOK(h) /\ InOrder(q, h.stores[u], h.clock) /\ h.clock \in Nat
  BY StoreType DEF Consistent
<1>2. Len(h.stores[u]) \in Nat
  BY <1>1, StoreType
<1>3. Pending(h, u) = {c + k : k \in 1..Len(q)}
  BY PendingAre
<1>a. Len(q) \in Nat /\ c \in Nat
  BY PendingAre
<1>4. CASE i \in 1..c
  BY <1>1, <1>4 DEF InOrder
<1>5. CASE i \in Pending(h, u)
  BY <1>1, <1>5 DEF Pending
<1>6. i \in 1..c \/ \E k \in 1..Len(q) : i = c + k
  <2>1. CASE i <= c
    BY <2>1, <1>2, <1>a
  <2>2. CASE i > c
    BY <2>2, <1>2, <1>a, EndOf
  <2> QED
    BY <2>1, <2>2, <1>2, <1>a
<1> QED
  BY <1>3, <1>4, <1>5, <1>6

\* A thread reads its newest pending store to a location, memory without one.
LEMMA ReadIsNewest ==
  ASSUME NEW s, NEW h, Consistent(s, h), NEW t \in Threads, NEW l \in Locations
  PROVE  Sees(h, t, l, At(s.memory, l, 0), Read(s, t, l))
<1> DEFINE q == QueueOf(s, t)
           c == Len(h.stores[t]) - Len(q)
           own == StoresTo(q, l)
<1>1. /\ Len(q) \in Nat /\ c \in Nat /\ DOMAIN q = 1..Len(q)
      /\ Pending(h, t) = {c + k : k \in 1..Len(q)}
      /\ \A k \in 1..Len(q) : /\ h.stores[t][c + k].loc = q[k].loc
                              /\ h.stores[t][c + k].val = q[k].val
  <2>1. Len(q) \in Nat /\ c \in Nat /\ DOMAIN q = 1..Len(q)
    BY PendingAre
  <2>2. Pending(h, t) = {c + k : k \in 1..Len(q)}
    BY PendingAre
  <2>3. \A k \in 1..Len(q) : /\ h.stores[t][c + k].loc = q[k].loc
                             /\ h.stores[t][c + k].val = q[k].val
    BY PendingAre
  <2> QED
    BY <2>1, <2>2, <2>3
<1>2. Read(s, t, l) = IF own # {} THEN s.buffers[t][Max(own)].val ELSE At(s.memory, l, 0)
  BY DEF Read, QueueOf
<1>3. own = {k \in 1..Len(q) : q[k].loc = l}
  BY <1>1 DEF StoresTo
<1>4. Len(q) # 0 => s.buffers[t] = q
  <2>1. CASE t \in DOMAIN s.buffers
    BY <2>1 DEF QueueOf, At
  <2>2. CASE t \notin DOMAIN s.buffers
    <3>1. q = <<>>
      BY <2>2 DEF QueueOf, At
    <3> QED
      BY <3>1, EmptySeq
  <2> QED
    BY <2>1, <2>2
<1> HIDE DEF q, c, own
<1>5. CASE own = {}
  BY <1>1, <1>2, <1>3, <1>5 DEF Sees
<1>6. CASE own # {}
  <2>1. own \subseteq 1..Len(q)
    BY <1>3
  <2>2. Max(own) \in own /\ \A k \in own : Max(own) >= k
    BY <1>1, <1>6, <2>1, MaxIsGreatest
  <2>3. PICK g \in own : g = Max(own)
    BY <2>2
  <2>4. g \in 1..Len(q) /\ q[g].loc = l /\ \A k \in own : k <= g
    <3>1. \A k \in own : k \in Int
      BY <2>1
    <3> QED
      BY <3>1, <2>2, <2>3, <1>3
  <2>5. Read(s, t, l) = q[g].val
    BY <1>1, <1>2, <1>4, <1>6, <2>3, <2>4
  <2>6. /\ c + g \in Pending(h, t)
        /\ h.stores[t][c + g].loc = l /\ h.stores[t][c + g].val = Read(s, t, l)
    BY <1>1, <2>4, <2>5
  <2>7. ASSUME NEW j \in Pending(h, t), h.stores[t][j].loc = l
        PROVE  j <= c + g
    <3>1. PICK k \in 1..Len(q) : j = c + k
      BY <1>1
    <3>2. k \in own
      BY <1>1, <1>3, <2>7, <3>1
    <3>3. k <= g
      BY <2>4, <3>2
    <3> QED
      BY <1>1, <2>4, <3>1, <3>3
  <2> QED
    BY <2>6, <2>7 DEF Sees
<1> QED
  BY <1>5, <1>6

MemoryIs(s, h) == \A l \in Locations : LatestIs(h, l, At(s.memory, l, 0))

LEMMA ReadIsVisible ==
  ASSUME NEW s, NEW h, Consistent(s, h), MemoryIs(s, h), NEW t \in Threads, NEW l \in Locations
  PROVE  VisibleValue(h, t, l) = Read(s, t, l)
<1>1. h \in Histories(Threads, Locations, Values) /\ LatestIs(h, l, At(s.memory, l, 0))
  BY DEF Consistent, HistoryOK, MemoryIs
<1>2. Sees(h, t, l, At(s.memory, l, 0), Read(s, t, l))
  BY ReadIsNewest
<1> QED
  BY <1>1, <1>2, VisibleValueIs

----------------------------------------------------------------------------
(* Every operation leaves the latest values in memory. *)

Settled(s, h) == Consistent(s, h) /\ MemoryIs(s, h)

LEMMA FlushSettles ==
  ASSUME NEW s, NEW h, Settled(s, h), NEW t \in Threads
  PROVE  Settled(FlushBuffer(s, t), Drain(h, t))
<1> DEFINE s2 == FlushBuffer(s, t)
           h2 == Drain(h, t)
<1>1. Consistent(s, h) /\ HistoryOK(h) /\ TimesBounded(h)
  BY InOrderBounds DEF Settled, Consistent
<1>2. Consistent(s2, h2)
  BY <1>1, FlushKeeps
<1>3. ASSUME NEW l \in Locations
      PROVE  At(s2.memory, l, 0) = Read(s, t, l)
  <2> DEFINE q == s.buffers[t]
             locs == {q[i].loc : i \in DOMAIN q}
  <2>1. CASE HasEps(s, t)
    <3>1. s2.memory = [k \in DOMAIN s.memory \cup locs |-> Read(s, t, k)]
      BY <2>1 DEF FlushBuffer
    <3>2. l \notin DOMAIN s.memory \cup locs => Read(s, t, l) = 0
      BY <2>1 DEF Read, StoresTo, At, HasEps
    <3> HIDE DEF s2, locs
    <3> QED
      BY <3>1, <3>2 DEF At
  <2>2. CASE ~HasEps(s, t)
    <3>1. s2 = s
      BY <2>2 DEF FlushBuffer
    <3>2. StoresTo(At(s.buffers, t, <<>>), l) = {}
      BY <2>2 DEF At, HasEps, StoresTo
    <3> QED
      BY <3>1, <3>2 DEF Read
  <2> QED
    BY <2>1, <2>2
<1>4. ASSUME NEW l \in Locations
      PROVE  LatestIs(h2, l, Read(s, t, l))
  <2>1. LatestIs(h, l, At(s.memory, l, 0))
    BY DEF Settled, MemoryIs
  <2>2. Sees(h, t, l, At(s.memory, l, 0), Read(s, t, l))
    BY <1>1, ReadIsNewest
  <2> QED
    BY <1>1, <2>1, <2>2, DrainLatest DEF HistoryOK
<1> HIDE DEF s2, h2
<1>5. Settled(s2, h2)
  BY <1>2, <1>3, <1>4 DEF Settled, MemoryIs
<1> QED
  BY <1>5 DEF s2, h2

LEMMA EnqueueSettles ==
  ASSUME NEW s, NEW h, Settled(s, h),
         NEW t \in Threads, NEW l \in Locations, NEW v \in Values
  PROVE  Settled(Enqueue(s, t, l, v), Issue(h, t, l, v))
<1>1. Consistent(Enqueue(s, t, l, v), Issue(h, t, l, v))
  BY EnqueueKeeps DEF Settled
<1>2. HistoryOK(h) /\ StorageOK(s)
  BY DEF Settled, Consistent
<1>3. Enqueue(s, t, l, v).memory = s.memory
  BY <1>2 DEF Enqueue, StorageOK
<1>4. \A k \in Locations : LatestIs(Issue(h, t, l, v), k, At(s.memory, k, 0))
  BY <1>2, IssueLatest DEF Settled, MemoryIs, HistoryOK
<1> QED
  BY <1>1, <1>3, <1>4 DEF Settled, MemoryIs

LEMMA PropagateSettles ==
  ASSUME NEW s, NEW h, Settled(s, h), NEW t \in Threads, HasEps(s, t)
  PROVE  Settled(Propagate(s, t), Commit(h, t, Oldest(Pending(h, t))))
<1> DEFINE q  == QueueOf(s, t)
           c  == Len(h.stores[t]) - Len(q)
           s2 == Propagate(s, t)
           h2 == Commit(h, t, {c + 1})
<1>1. Consistent(s, h) /\ HistoryOK(h) /\ StorageOK(s) /\ TimesBounded(h)
  BY InOrderBounds DEF Settled, Consistent
<1>2. q # <<>> /\ q = s.buffers[t] /\ q \in Seq(Entry)
  BY <1>1, QueueType DEF HasEps, QueueOf, At
<1>3. Oldest(Pending(h, t)) = {c + 1}
  <2>1. InOrder(q, h.stores[t], h.clock) /\ h.stores[t] \in Seq(StoredEntry) /\ h.clock \in Nat
    BY <1>1, StoreType DEF Consistent
  <2> QED
    BY <1>2, <2>1, OldestPending DEF Pending
<1>4. Consistent(s2, h2)
  BY <1>1, <1>3, PropagateKeeps
<1>5. /\ 1 \in 1..Len(q)
      /\ c + 1 \in 1..Len(h.stores[t])
      /\ h.stores[t][c + 1].loc = q[1].loc /\ h.stores[t][c + 1].val = q[1].val
      /\ h.stores[t][c + 1].at = 0
  <2>1. 1 \in 1..Len(q)
    BY <1>2, EmptySeq
  <2>2. /\ c + 1 \in 1..Len(h.stores[t])
        /\ h.stores[t][c + 1].loc = q[1].loc /\ h.stores[t][c + 1].val = q[1].val
    <3>1. \A k \in 1..Len(q) : /\ c + k \in 1..Len(h.stores[t])
                               /\ h.stores[t][c + k].loc = q[k].loc
                               /\ h.stores[t][c + k].val = q[k].val
      BY <1>1, PendingAre
    <3> HIDE DEF q, c
    <3> QED
      BY <2>1, <3>1
  <2>3. c + 1 \in Pending(h, t)
    BY <1>3 DEF Oldest
  <2> QED
    BY <2>1, <2>2, <2>3 DEF Pending
<1>6. s2.memory = Put(s.memory, q[1].loc, q[1].val)
  BY <1>2 DEF Propagate
<1> DEFINE first == q[1]
           old == c + 1
<1> HIDE DEF q, c, s2, first, old
<1>7. ASSUME NEW l \in Locations
      PROVE  LatestIs(h2, l, At(s2.memory, l, 0))
  <2>1. LatestIs(h, l, At(s.memory, l, 0))
    BY DEF Settled, MemoryIs
  <2>2. At(s2.memory, l, 0) = IF l = first.loc THEN first.val ELSE At(s.memory, l, 0)
    BY <1>6 DEF At, Put, first
  <2>3. /\ old \in 1..Len(h.stores[t]) /\ h.stores[t][old].at = 0 /\ old <= old
        /\ h.stores[t][old].loc = first.loc /\ h.stores[t][old].val = first.val
    BY <1>5 DEF old, first
  <2>4. LatestIs(Commit(h, t, {old}), l, At(s2.memory, l, 0))
    BY <1>1, <2>1, <2>2, <2>3, CommitLatest DEF HistoryOK
  <2> QED
    BY <2>4 DEF old
<1>8. Settled(s2, h2)
  BY <1>4, <1>7 DEF Settled, MemoryIs
<1> QED
  BY <1>3, <1>8 DEF s2

LEMMA WriteSettles ==
  ASSUME NEW s, NEW h, Settled(s, h),
         NEW t \in Threads, NEW l \in Locations, NEW v \in Values, NEW m
  PROVE  Settled(Write(s, t, l, v, m), Stored(h, t, l, v, m))
<1>1. Settled(Enqueue(s, t, l, v), Issue(h, t, l, v))
  BY EnqueueSettles
<1>2. CASE m = "SEQ_CST"
  BY <1>1, <1>2, FlushSettles DEF Write, Stored
<1>3. CASE m # "SEQ_CST"
  BY <1>1, <1>3 DEF Write, Stored
<1> QED
  BY <1>2, <1>3

----------------------------------------------------------------------------
(* The invariant: program order and the latest values in memory. *)

IInvLatest == Settled(storage, history)

LEMMA InitLatest == Init => IInvLatest
<1> SUFFICES ASSUME Init PROVE IInvLatest
  OBVIOUS
<1>1. Consistent(storage, history)
  BY InitIInv DEF IInv
<1>2. \A u \in DOMAIN history.stores : history.stores[u] = <<>>
  BY DEF Init, NewHistory
<1>3. \A l, u, i : ~CommittedAt(history, l, u, i)
  BY <1>2, EmptySeq DEF CommittedAt
<1>4. \A l : At(storage.memory, l, 0) = 0
  BY DEF Init, New, EmptyMap, At
<1> QED
  BY <1>1, <1>3, <1>4 DEF IInvLatest, Settled, MemoryIs, LatestIs

LEMMA NextLatest == IInvLatest /\ [Next]_vars => IInvLatest'
<1> SUFFICES ASSUME IInvLatest, [Next]_vars PROVE IInvLatest'
  OBVIOUS
<1>1. Settled(storage, history) /\ StorageOK(storage)
  BY DEF IInvLatest, Settled, Consistent
<1>2. CASE UNCHANGED vars
  BY <1>1, <1>2 DEF IInvLatest, vars
<1>3. ASSUME NEW t \in Threads, Epsilon(t)
      PROVE  IInvLatest'
  BY <1>1, <1>3, PropagateSettles DEF Epsilon, EpsStorages, IInvLatest
<1>4. ASSUME NEW t \in Threads, NEW m, FenceStatement(t, m)
      PROVE  IInvLatest'
  BY <1>1, <1>4, FlushSettles DEF FenceStatement, Fence, IInvLatest
<1>5. ASSUME NEW t \in Threads, NEW l \in Locations, NEW m, Load(t, l, m)
      PROVE  IInvLatest'
  BY <1>1, <1>5 DEF Load, IInvLatest
<1>6. ASSUME NEW t \in Threads, NEW l \in Locations, NEW v \in Operands, NEW m,
             Store(t, l, v, m)
      PROVE  IInvLatest'
  BY <1>1, <1>6, WriteSettles, ConstantsAssumption DEF Store, IInvLatest
<1>7. ASSUME NEW t \in Threads, NEW l \in Locations, NEW v \in Operands, NEW e, NEW m,
             Cas(t, l, e, v, m)
      PROVE  IInvLatest'
  <2>1. Settled(FlushBuffer(storage, t), Drain(history, t)) /\ v \in Values
    BY <1>1, FlushSettles, ConstantsAssumption
  <2> QED
    BY <1>7, <2>1, WriteSettles DEF Cas, IInvLatest
<1>8. ASSUME NEW t \in Threads, NEW l \in Locations, NEW e, NEW m, CasFails(t, l, e, m)
      PROVE  IInvLatest'
  BY <1>1, <1>8, FlushSettles DEF CasFails, IInvLatest
<1>9. ASSUME NEW t \in Threads, NEW l \in Locations, NEW v \in Operands, NEW m,
             Fai(t, l, v, m)
      PROVE  IInvLatest'
  <2>1. Settled(FlushBuffer(storage, t), Drain(history, t))
    BY <1>1, FlushSettles
  <2> QED
    BY <1>9, <2>1, WriteSettles DEF Fai, IInvLatest
<1> QED
  BY <1>2, <1>3, <1>4, <1>5, <1>6, <1>7, <1>8, <1>9 DEF Next

LEMMA LatestInMemory == IInvLatest => MemoryHoldsLatest
BY LatestValueIs DEF IInvLatest, Settled, MemoryIs, Consistent, HistoryOK, MemoryHoldsLatest

\* Memory holds the store that took effect last at every location, whether
\* propagate, a fence or the flush of another access carried it there.
THEOREM LatestStore == Spec => []MemoryHoldsLatest
BY InitLatest, NextLatest, LatestInMemory, PTL DEF Spec

----------------------------------------------------------------------------
(* The total store order that the storage implements. *)

\* The promise has its own instance of the vocabulary of histories.
LEMMA SameVocabulary ==
  ASSUME NEW h, NEW t, NEW l
  PROVE  /\ Promise!Pending(h, t) = Pending(h, t)
         /\ Promise!Drain(h, t) = Drain(h, t)
         /\ Promise!LatestValue(h, l) = LatestValue(h, l)
         /\ Promise!VisibleValue(h, t, l) = VisibleValue(h, t, l)
         /\ \A v : Promise!Issue(h, t, l, v) = Issue(h, t, l, v)
         /\ \A I : Promise!Commit(h, t, I) = Commit(h, t, I)
<1>1. Promise!Pending(h, t) = Pending(h, t)
  BY DEF Promise!Pending, Pending
<1>2. \A I : Promise!Commit(h, t, I) = Commit(h, t, I)
  BY DEF Promise!Commit, Commit
<1>3. Promise!Drain(h, t) = Drain(h, t)
  BY <1>1, <1>2 DEF Promise!Drain, Drain
<1>4. Promise!CommittedTo(h, l) = CommittedTo(h, l)
  BY DEF Promise!CommittedTo, CommittedTo
<1>5. Promise!LatestValue(h, l) = LatestValue(h, l)
  BY <1>4 DEF Promise!LatestValue, LatestValue, Promise!Later, Later
<1>6. Promise!PendingTo(h, t, l) = PendingTo(h, t, l)
  BY <1>1 DEF Promise!PendingTo, PendingTo
<1>7. \A I : Promise!Newest(I) = Newest(I)
  BY DEF Promise!Newest, Newest
<1>8. Promise!VisibleValue(h, t, l) = VisibleValue(h, t, l)
  BY <1>5, <1>6, <1>7 DEF Promise!VisibleValue, VisibleValue
<1>9. \A v : Promise!Issue(h, t, l, v) = Issue(h, t, l, v)
  BY DEF Promise!Issue, Issue
<1> QED
  BY <1>1, <1>2, <1>3, <1>5, <1>8, <1>9

LEMMA AnswersIs ==
  ASSUME NEW m, NEW value, Answers(m, value)
  PROVE  /\ m = "SEQ_CST" => answer' = [strong |-> TRUE, value |-> value]
         /\ m # "SEQ_CST" => answer' = [strong |-> FALSE, value |-> value]
BY DEF Answers

\* A cas that writes and a fai, after the flush of their thread.
LEMMA RmwStep ==
  ASSUME IInvLatest, NEW t \in Threads, NEW l \in Locations, NEW v \in Values, NEW m,
         history' = Stored(Drain(history, t), t, l, v, m),
         Answers(m, <<Read(FlushBuffer(storage, t), t, l)>>)
  PROVE  Promise!WeakRmw(t, l, v) \/ Promise!StrongRmw(t, l, v)
<1> DEFINE s == FlushBuffer(storage, t)
           h == Drain(history, t)
<1>1. Settled(s, h)
  BY FlushSettles DEF IInvLatest
<1>2. Consistent(s, h) /\ MemoryIs(s, h) /\ HistoryOK(h)
  BY <1>1 DEF Settled, Consistent
<1>3. CASE m = "SEQ_CST"
  <2>1. QueueOf(s, t) = <<>>
    BY FlushBufferOK DEF IInvLatest, Settled, Consistent
  <2>2. Read(s, t, l) = At(s.memory, l, 0)
    <3>1. StoresTo(At(s.buffers, t, <<>>), l) = {}
      BY <2>1 DEF QueueOf, StoresTo
    <3> HIDE DEF s
    <3> QED
      BY <3>1 DEF Read
  <2>3. LatestValue(h, l) = Read(s, t, l)
    BY <1>2, <2>2, LatestValueIs DEF MemoryIs, HistoryOK
  <2>4. history' = Drain(Issue(h, t, l, v), t)
    BY <1>3 DEF Stored
  <2>5. answer' = [strong |-> TRUE, value |-> <<LatestValue(h, l)>>]
    BY <1>3, <2>3, AnswersIs
  <2>6. Promise!StrongRmw(t, l, v)
    <3>1. h = Promise!Drain(history, t)
      BY SameVocabulary
    <3>2. history' = Promise!Drain(Promise!Issue(h, t, l, v), t)
      BY <2>4, SameVocabulary
    <3>3. answer' = Promise!Answer(TRUE, <<Promise!LatestValue(h, l)>>)
      BY <2>5, SameVocabulary DEF Promise!Answer
    <3> HIDE DEF h
    <3> QED
      BY <3>1, <3>2, <3>3 DEF Promise!StrongRmw
  <2> QED
    BY <2>6
<1>4. CASE m # "SEQ_CST"
  <2>1. VisibleValue(h, t, l) = Read(s, t, l)
    BY <1>2, ReadIsVisible
  <2>2. history' = Issue(h, t, l, v)
    BY <1>4 DEF Stored
  <2>3. answer' = [strong |-> FALSE, value |-> <<VisibleValue(h, t, l)>>]
    BY <1>4, <2>1, AnswersIs
  <2>4. Promise!WeakRmw(t, l, v)
    BY <2>2, <2>3, SameVocabulary DEF Promise!WeakRmw, Promise!Answer
  <2> QED
    BY <2>4
<1> QED
  BY <1>3, <1>4

LEMMA StoreStep ==
  ASSUME NEW t \in Threads, NEW l \in Locations, NEW v \in Values, NEW m,
         history' = Stored(history, t, l, v, m), Answers(m, <<>>)
  PROVE  \E strong \in BOOLEAN : Promise!Store(t, l, v, strong)
<1>1. CASE m = "SEQ_CST"
  <2>1. Promise!Store(t, l, v, TRUE)
    BY <1>1, AnswersIs, SameVocabulary DEF Stored, Promise!Store, Promise!Answer
  <2> QED
    BY <2>1
<1>2. CASE m # "SEQ_CST"
  <2>1. Promise!Store(t, l, v, FALSE)
    BY <1>2, AnswersIs, SameVocabulary DEF Stored, Promise!Store, Promise!Answer
  <2> QED
    BY <2>1
<1> QED
  BY <1>1, <1>2

LEMMA FenceStep ==
  ASSUME NEW t \in Threads, NEW m, FenceStatement(t, m)
  PROVE  \E strong \in BOOLEAN : Promise!Fence(t, strong)
<1>1. CASE m = "SEQ_CST"
  <2>1. Promise!Fence(t, TRUE)
    BY <1>1, AnswersIs, SameVocabulary DEF FenceStatement, Promise!Fence, Promise!Answer
  <2> QED
    BY <2>1
<1>2. CASE m # "SEQ_CST"
  <2>1. Promise!Fence(t, FALSE)
    BY <1>2, AnswersIs, SameVocabulary DEF FenceStatement, Promise!Fence, Promise!Answer
  <2> QED
    BY <2>1
<1> QED
  BY <1>1, <1>2

LEMMA LoadStep ==
  ASSUME IInvLatest, NEW t \in Threads, NEW l \in Locations, NEW m, Load(t, l, m)
  PROVE  \E strong \in BOOLEAN : Promise!Load(t, l, strong)
<1>1. VisibleValue(history, t, l) = Read(storage, t, l)
  BY ReadIsVisible DEF IInvLatest, Settled
<1>2. CASE m = "SEQ_CST"
  <2>1. Promise!Load(t, l, TRUE)
    BY <1>1, <1>2, AnswersIs, SameVocabulary DEF Load, Promise!Load, Promise!Answer
  <2> QED
    BY <2>1
<1>3. CASE m # "SEQ_CST"
  <2>1. Promise!Load(t, l, FALSE)
    BY <1>1, <1>3, AnswersIs, SameVocabulary DEF Load, Promise!Load, Promise!Answer
  <2> QED
    BY <2>1
<1> QED
  BY <1>2, <1>3

LEMMA FailedStep ==
  ASSUME IInvLatest, NEW t \in Threads, NEW l \in Locations, NEW e, NEW m,
         CasFails(t, l, e, m)
  PROVE  \E strong \in BOOLEAN : Promise!FailedCas(t, l, strong)
<1> DEFINE h == Drain(history, t)
<1>1. VisibleValue(h, t, l) = Read(FlushBuffer(storage, t), t, l)
  BY FlushSettles, ReadIsVisible DEF IInvLatest, Settled
<1>2. history' = h /\ Answers(m, <<VisibleValue(h, t, l)>>)
  BY <1>1 DEF CasFails
<1>3. CASE m = "SEQ_CST"
  <2>1. Promise!FailedCas(t, l, TRUE)
    BY <1>2, <1>3, AnswersIs, SameVocabulary DEF Promise!FailedCas, Promise!Answer
  <2> QED
    BY <2>1
<1>4. CASE m # "SEQ_CST"
  <2>1. Promise!FailedCas(t, l, FALSE)
    BY <1>2, <1>4, AnswersIs, SameVocabulary DEF Promise!FailedCas, Promise!Answer
  <2> QED
    BY <2>1
<1> QED
  BY <1>3, <1>4

LEMMA EpsilonStep ==
  ASSUME IInvLatest, NEW t \in Threads, Epsilon(t)
  PROVE  Promise!TakeEffect(t)
<1> DEFINE q == QueueOf(storage, t)
           i == Len(history.stores[t]) - Len(q) + 1
<1>1. Consistent(storage, history) /\ StorageOK(storage) /\ HistoryOK(history)
  BY DEF IInvLatest, Settled, Consistent
<1>2. q # <<>> /\ q \in Seq(Entry)
  BY <1>1, QueueType DEF Epsilon
<1>3. Oldest(Pending(history, t)) = {i}
  <2>1. /\ InOrder(q, history.stores[t], history.clock)
        /\ history.stores[t] \in Seq(StoredEntry) /\ history.clock \in Nat
    BY <1>1, StoreType DEF Consistent
  <2> QED
    BY <1>2, <2>1, OldestPending DEF Pending
<1> HIDE DEF i
<1>4. PICK k \in Pending(history, t) : k = i /\ \A j \in Pending(history, t) : k <= j
  BY <1>3 DEF Oldest
<1>5. \A j \in Pending(history, t) : j \in Int
  BY <1>1, StoreType DEF Pending
<1>6. \A j \in Pending(history, t) : ~(j < k)
  BY <1>4, <1>5
<1>7. Promise!MayCommit(t, k)
  BY <1>6, SameVocabulary DEF Promise!MayCommit
<1>8. history' = Commit(history, t, {k})
  BY <1>3, <1>4 DEF Epsilon
<1>9. answer' = [strong |-> FALSE, value |-> <<>>]
  BY AnswersIs DEF Epsilon
<1> QED
  BY <1>7, <1>8, <1>9, SameVocabulary DEF Promise!TakeEffect, Promise!Answer

LEMMA PromiseInit == Init => Promise!Init
BY DEF Init, Promise!Init, Promise!Answer, NewHistory, Promise!NewHistory

LEMMA PromiseNext == IInvLatest /\ [Next]_vars => [Promise!Next]_(Promise!vars)
<1> SUFFICES ASSUME IInvLatest, [Next]_vars PROVE [Promise!Next]_(Promise!vars)
  OBVIOUS
<1>1. CASE UNCHANGED vars
  BY <1>1 DEF vars, Promise!vars
<1>2. ASSUME NEW t \in Threads, Epsilon(t)
      PROVE  Promise!Next
  BY <1>2, EpsilonStep DEF Promise!Next
<1>3. ASSUME NEW t \in Threads, NEW m, FenceStatement(t, m)
      PROVE  Promise!Next
  BY <1>3, FenceStep DEF Promise!Next
<1>4. ASSUME NEW t \in Threads, NEW l \in Locations, NEW m, Load(t, l, m)
      PROVE  Promise!Next
  BY <1>4, LoadStep DEF Promise!Next
<1>5. ASSUME NEW t \in Threads, NEW l \in Locations, NEW v \in Operands, NEW m,
             Store(t, l, v, m)
      PROVE  Promise!Next
  <2>1. v \in Values
    BY ConstantsAssumption
  <2>2. \E strong \in BOOLEAN : Promise!Store(t, l, v, strong)
    BY <1>5, <2>1, StoreStep DEF Store
  <2> QED
    BY <2>1, <2>2 DEF Promise!Next
<1>6. ASSUME NEW t \in Threads, NEW l \in Locations, NEW v \in Operands, NEW e, NEW m,
             Cas(t, l, e, v, m)
      PROVE  Promise!Next
  <2>1. v \in Values
    BY ConstantsAssumption
  <2>2. Promise!WeakRmw(t, l, v) \/ Promise!StrongRmw(t, l, v)
    BY <1>6, <2>1, RmwStep DEF Cas
  <2> QED
    BY <2>1, <2>2 DEF Promise!Next
<1>7. ASSUME NEW t \in Threads, NEW l \in Locations, NEW e, NEW m, CasFails(t, l, e, m)
      PROVE  Promise!Next
  BY <1>7, FailedStep DEF Promise!Next
<1>8. ASSUME NEW t \in Threads, NEW l \in Locations, NEW v \in Operands, NEW m,
             Fai(t, l, v, m)
      PROVE  Promise!Next
  <2>1. PICK w \in Values : w = Read(FlushBuffer(storage, t), t, l) + v
    BY <1>8 DEF Fai
  <2>2. Promise!WeakRmw(t, l, w) \/ Promise!StrongRmw(t, l, w)
    BY <1>8, <2>1, RmwStep DEF Fai
  <2> QED
    BY <2>2 DEF Promise!Next
<1> QED
  BY <1>1, <1>2, <1>3, <1>4, <1>5, <1>6, <1>7, <1>8 DEF Next

\* The storage implements a total store order: read's search of the own queue,
\* the flushes of SEQ_CST accesses and of cas and fai, and propagate return and
\* order what a store-buffering memory may, however threads interleave.
THEOREM TotalStoreOrder == Spec => ImplementsTotalStoreOrder
BY InitLatest, NextLatest, PromiseInit, PromiseNext, PTL
   DEF Spec, ImplementsTotalStoreOrder, Promise!Spec

----------------------------------------------------------------------------
(* Between the memory models: the total store order is a partial one, and   *)
(* with SEQ_CST accesses only it is sequentially consistent.                *)

Weaker == INSTANCE StoreOrder WITH SameLocationOnly <- TRUE

\* The two instances differ in which pending store may take effect.
LEMMA SamePromise ==
  /\ \A t, i : Promise!MayCommit(t, i) => Weaker!MayCommit(t, i)
  /\ \A strong, value : Promise!Answer(strong, value) = Weaker!Answer(strong, value)
  /\ \A h, t : Promise!Pending(h, t) = Weaker!Pending(h, t)
  /\ \A h, t, I : Promise!Commit(h, t, I) = Weaker!Commit(h, t, I)
  /\ \A h, t, l, v : Promise!Issue(h, t, l, v) = Weaker!Issue(h, t, l, v)
  /\ \A h, t : Promise!Drain(h, t) = Weaker!Drain(h, t)
  /\ \A h, l : Promise!LatestValue(h, l) = Weaker!LatestValue(h, l)
  /\ \A h, t, l : Promise!VisibleValue(h, t, l) = Weaker!VisibleValue(h, t, l)
<1>1. \A strong, value : Promise!Answer(strong, value) = Weaker!Answer(strong, value)
  BY DEF Promise!Answer, Weaker!Answer
<1>2. \A h, t : Promise!Pending(h, t) = Weaker!Pending(h, t)
  BY DEF Promise!Pending, Weaker!Pending
<1>3. \A h, t, I : Promise!Commit(h, t, I) = Weaker!Commit(h, t, I)
  BY DEF Promise!Commit, Weaker!Commit
<1>4. \A h, t, l, v : Promise!Issue(h, t, l, v) = Weaker!Issue(h, t, l, v)
  BY DEF Promise!Issue, Weaker!Issue
<1>5. \A h, t : Promise!Drain(h, t) = Weaker!Drain(h, t)
  BY <1>2, <1>3 DEF Promise!Drain, Weaker!Drain
<1>6. \A h, l : Promise!CommittedTo(h, l) = Weaker!CommittedTo(h, l)
  BY DEF Promise!CommittedTo, Weaker!CommittedTo
<1>7. \A h, l : Promise!LatestValue(h, l) = Weaker!LatestValue(h, l)
  <2> TAKE h, l
  <2>1. Promise!CommittedTo(h, l) = Weaker!CommittedTo(h, l)
    BY <1>6
  <2> QED
    BY <2>1 DEF Promise!LatestValue, Weaker!LatestValue, Promise!Later, Weaker!Later
<1>8. \A h, t, l : Promise!PendingTo(h, t, l) = Weaker!PendingTo(h, t, l)
  BY <1>2 DEF Promise!PendingTo, Weaker!PendingTo
<1>9. \A I : Promise!Newest(I) = Weaker!Newest(I)
  BY DEF Promise!Newest, Weaker!Newest
<1>10. \A h, t, l : Promise!VisibleValue(h, t, l) = Weaker!VisibleValue(h, t, l)
  BY <1>7, <1>8, <1>9 DEF Promise!VisibleValue, Weaker!VisibleValue
<1>11. \A t, i : Promise!MayCommit(t, i) => Weaker!MayCommit(t, i)
  BY <1>2 DEF Promise!MayCommit, Weaker!MayCommit
<1> QED
  BY <1>1, <1>2, <1>3, <1>4, <1>5, <1>7, <1>10, <1>11

LEMMA WeakerInit == Promise!Init => Weaker!Init
BY SamePromise DEF Promise!Init, Weaker!Init, Promise!NewHistory, Weaker!NewHistory

LEMMA WeakerNext == [Promise!Next]_(Promise!vars) => [Weaker!Next]_(Weaker!vars)
<1> SUFFICES ASSUME [Promise!Next]_(Promise!vars) PROVE [Weaker!Next]_(Weaker!vars)
  OBVIOUS
<1>1. CASE UNCHANGED Promise!vars
  BY <1>1 DEF Promise!vars, Weaker!vars
<1>2. ASSUME NEW t \in Threads, Promise!TakeEffect(t)
      PROVE  Weaker!Next
  <2>1. Weaker!TakeEffect(t)
    BY <1>2, SamePromise DEF Promise!TakeEffect, Weaker!TakeEffect
  <2> QED
    BY <2>1 DEF Weaker!Next
<1>3. ASSUME NEW t \in Threads, NEW strong \in BOOLEAN, Promise!Fence(t, strong)
      PROVE  Weaker!Next
  <2>1. Weaker!Fence(t, strong)
    BY <1>3, SamePromise DEF Promise!Fence, Weaker!Fence
  <2> QED
    BY <2>1 DEF Weaker!Next
<1>4. ASSUME NEW t \in Threads, NEW strong \in BOOLEAN, NEW l \in Locations,
             Promise!Load(t, l, strong)
      PROVE  Weaker!Next
  <2>1. Weaker!Load(t, l, strong)
    BY <1>4, SamePromise DEF Promise!Load, Weaker!Load
  <2> QED
    BY <2>1 DEF Weaker!Next
<1>5. ASSUME NEW t \in Threads, NEW strong \in BOOLEAN, NEW l \in Locations,
             Promise!FailedCas(t, l, strong)
      PROVE  Weaker!Next
  <2>1. Weaker!FailedCas(t, l, strong)
    BY <1>5, SamePromise DEF Promise!FailedCas, Weaker!FailedCas
  <2> QED
    BY <2>1 DEF Weaker!Next
<1>6. ASSUME NEW t \in Threads, NEW strong \in BOOLEAN, NEW l \in Locations,
             NEW v \in Values, Promise!Store(t, l, v, strong)
      PROVE  Weaker!Next
  <2>1. Weaker!Store(t, l, v, strong)
    BY <1>6, SamePromise DEF Promise!Store, Weaker!Store
  <2> QED
    BY <2>1 DEF Weaker!Next
<1>7. ASSUME NEW t \in Threads, NEW l \in Locations, NEW v \in Values,
             Promise!WeakRmw(t, l, v)
      PROVE  Weaker!Next
  <2>1. Weaker!WeakRmw(t, l, v)
    BY <1>7, SamePromise DEF Promise!WeakRmw, Weaker!WeakRmw
  <2> QED
    BY <2>1 DEF Weaker!Next
<1>8. ASSUME NEW t \in Threads, NEW l \in Locations, NEW v \in Values,
             Promise!StrongRmw(t, l, v)
      PROVE  Weaker!Next
  <2>1. Weaker!StrongRmw(t, l, v)
    BY <1>8, SamePromise DEF Promise!StrongRmw, Weaker!StrongRmw
  <2> QED
    BY <2>1 DEF Weaker!Next
<1> QED
  BY <1>1, <1>2, <1>3, <1>4, <1>5, <1>6, <1>7, <1>8 DEF Promise!Next

\* The total-store-order storage keeps the promise of the partial-store-order
\* one: whatever a program does under TSOStorageSubsystem, a partial store order
\* explains as well, so that PSO allows every behaviour that TSO does.
THEOREM TotalIsPartial == Spec => Weaker!Spec
BY InitLatest, NextLatest, PromiseInit, PromiseNext, WeakerInit, WeakerNext, PTL
   DEF Spec, Weaker!Spec

----------------------------------------------------------------------------

Sequential == INSTANCE SCSystem WITH storage <- [memory |-> storage.memory],
                                     answer  <- answer.value

OnlySeqCst == Modes \subseteq {"SEQ_CST"}

\* No queue outlives the statement that fills it.
NothingBuffered ==
  /\ storage = [memory |-> storage.memory, buffers |-> EmptyMap]
  /\ answer = [strong |-> answer.strong, value |-> answer.value]

LEMMA SequentialVocabulary ==
  /\ Sequential!EmptyMap = EmptyMap
  /\ \A f, k, v : Sequential!Put(f, k, v) = Put(f, k, v)
  /\ \A f, k, d : Sequential!At(f, k, d) = At(f, k, d)
BY DEF Sequential!EmptyMap, EmptyMap, Sequential!Put, Put, Sequential!At, At

LEMMA AppendToEmpty ==
  ASSUME NEW x
  PROVE  Append(<<>>, x) = <<x>>
<1>1. <<>> \in Seq({x}) /\ Len(<<>>) = 0
  BY EmptySeq
<1>2. /\ Append(<<>>, x) \in Seq({x}) /\ Len(Append(<<>>, x)) = 1
      /\ Append(<<>>, x)[1] = x
  BY <1>1, AppendProperties
<1>3. <<x>> \in Seq({x}) /\ Len(<<x>>) = 1 /\ <<x>>[1] = x
  OBVIOUS
<1> QED
  BY <1>2, <1>3, SeqEqual

\* Without queues a read is memory's value, a flush changes nothing and a
\* SEQ_CST write reaches memory at once.
LEMMA UnbufferedStorage ==
  ASSUME NEW M, NEW s, s = [memory |-> M, buffers |-> EmptyMap],
         NEW t, NEW l, NEW v
  PROVE  /\ ~HasEps(s, t)
         /\ Read(s, t, l) = At(M, l, 0)
         /\ FlushBuffer(s, t) = s
         /\ Write(s, t, l, v, "SEQ_CST") = [memory |-> Put(M, l, v), buffers |-> EmptyMap]
<1> DEFINE e == [loc |-> l, val |-> v]
           q == [memory |-> M, buffers |-> Put(EmptyMap, t, <<e>>)]
<1>1. ~HasEps(s, t) /\ At(s.buffers, t, <<>>) = <<>>
  BY DEF HasEps, EmptyMap, At
<1>2. \A x : Read(s, t, x) = At(M, x, 0)
  BY <1>1 DEF Read, StoresTo
<1>3. Enqueue(s, t, l, v) = q
  <2>1. Append(At(s.buffers, t, <<>>), e) = <<e>>
    BY <1>1, AppendToEmpty
  <2>2. s.buffers = EmptyMap
    OBVIOUS
  <2>3. \A b : [s EXCEPT !.buffers = b] = [memory |-> M, buffers |-> b]
    OBVIOUS
  <2> QED
    BY <2>1, <2>2, <2>3 DEF Enqueue
<1>4. t \in DOMAIN q.buffers /\ q.buffers[t] = <<e>> /\ At(q.buffers, t, <<>>) = <<e>>
  BY DEF Put, At
<1>5. \A x : Read(q, t, x) = IF x = l THEN v ELSE At(M, x, 0)
  <2> TAKE x
  <2>1. CASE x = l
    <3>1. StoresTo(<<e>>, x) = {1}
      BY <2>1 DEF StoresTo
    <3>2. Max({1}) = 1
      BY MaxIsGreatest
    <3>3. <<e>>[1].val = v
      OBVIOUS
    <3> HIDE DEF e, q
    <3> QED
      BY <1>4, <2>1, <3>1, <3>2, <3>3 DEF Read
  <2>2. CASE x # l
    <3>1. StoresTo(<<e>>, x) = {}
      BY <2>2 DEF StoresTo
    <3> QED
      BY <1>4, <2>2, <3>1 DEF Read
  <2> QED
    BY <2>1, <2>2
<1>6. {<<e>>[i].loc : i \in DOMAIN <<e>>} = {l}
  OBVIOUS
<1>7. FlushBuffer(q, t) =
        [memory  |-> [x \in DOMAIN M \cup {l} |-> Read(q, t, x)],
         buffers |-> Erase(q.buffers, t)]
  BY <1>4, <1>6 DEF FlushBuffer, HasEps
<1>8. [x \in DOMAIN M \cup {l} |-> Read(q, t, x)] = Put(M, l, v)
  BY <1>5 DEF Put, At
<1>9. Erase(q.buffers, t) = EmptyMap
  BY DEF Erase, Put, EmptyMap
<1>10. Write(s, t, l, v, "SEQ_CST") = FlushBuffer(q, t)
  BY <1>3 DEF Write
<1> QED
  BY <1>1, <1>2, <1>7, <1>8, <1>9, <1>10 DEF FlushBuffer

LEMMA SequentialInit == Init => NothingBuffered /\ Sequential!Init
BY SequentialVocabulary DEF Init, New, NothingBuffered, Sequential!Init, Sequential!New

LEMMA SequentialNext ==
  ASSUME OnlySeqCst
  PROVE  NothingBuffered /\ [Next]_vars =>
           NothingBuffered' /\ [Sequential!Next]_(Sequential!vars)
<1> SUFFICES ASSUME NothingBuffered, [Next]_vars
             PROVE  NothingBuffered' /\ [Sequential!Next]_(Sequential!vars)
  OBVIOUS
<1> DEFINE M == storage.memory
           s == [memory |-> M]
<1>1. storage = [memory |-> M, buffers |-> EmptyMap]
  BY DEF NothingBuffered
<1>2. \A l : Sequential!Read(s, l) = At(M, l, 0)
  BY SequentialVocabulary DEF Sequential!Read
<1>3. \A l, v : Sequential!Write(s, l, v) = [memory |-> Put(M, l, v)]
  BY SequentialVocabulary DEF Sequential!Write
<1>4. ASSUME NEW value, Answers("SEQ_CST", value)
      PROVE  answer' = [strong |-> TRUE, value |-> value] /\ answer'.value = value
  BY <1>4 DEF Answers
<1>5. CASE UNCHANGED vars
  BY <1>5 DEF vars, NothingBuffered, Sequential!vars
<1>6. ASSUME NEW t \in Threads, Epsilon(t)
      PROVE  FALSE
  BY <1>1, <1>6, UnbufferedStorage DEF Epsilon
<1>7. ASSUME NEW t \in Threads, FenceStatement(t, "SEQ_CST")
      PROVE  NothingBuffered' /\ Sequential!Next
  <2>1. storage' = storage /\ Answers("SEQ_CST", <<>>)
    BY <1>1, <1>7, UnbufferedStorage DEF FenceStatement, Fence
  <2>2. Sequential!FenceStatement
    BY <1>4, <2>1 DEF Sequential!FenceStatement
  <2> QED
    BY <1>1, <1>4, <2>1, <2>2 DEF NothingBuffered, Sequential!Next
<1>8. ASSUME NEW t \in Threads, NEW l \in Locations, Load(t, l, "SEQ_CST")
      PROVE  NothingBuffered' /\ Sequential!Next
  <2>1. storage' = storage /\ Answers("SEQ_CST", <<At(M, l, 0)>>)
    BY <1>1, <1>8, UnbufferedStorage DEF Load
  <2>2. Sequential!Load(l)
    BY <1>2, <1>4, <2>1 DEF Sequential!Load
  <2> QED
    BY <1>1, <1>4, <2>1, <2>2 DEF NothingBuffered, Sequential!Next
<1>9. ASSUME NEW t \in Threads, NEW l \in Locations, NEW v \in Operands,
             Store(t, l, v, "SEQ_CST")
      PROVE  NothingBuffered' /\ Sequential!Next
  <2>1. storage' = [memory |-> Put(M, l, v), buffers |-> EmptyMap] /\ Answers("SEQ_CST", <<>>)
    BY <1>1, <1>9, UnbufferedStorage DEF Store
  <2>2. Sequential!Store(l, v)
    BY <1>3, <1>4, <2>1 DEF Sequential!Store
  <2> QED
    BY <1>4, <2>1, <2>2 DEF NothingBuffered, Sequential!Next
<1>10. ASSUME NEW t \in Threads, NEW l \in Locations, NEW v \in Operands,
              NEW e \in Operands \cup {0}, Cas(t, l, e, v, "SEQ_CST")
       PROVE  NothingBuffered' /\ Sequential!Next
  <2>1. /\ At(M, l, 0) = e
        /\ storage' = [memory |-> Put(M, l, v), buffers |-> EmptyMap]
        /\ Answers("SEQ_CST", <<e>>)
    BY <1>1, <1>10, UnbufferedStorage DEF Cas
  <2>2. Sequential!Cas(l, e, v)
    BY <1>2, <1>3, <1>4, <2>1 DEF Sequential!Cas
  <2> QED
    BY <1>4, <2>1, <2>2 DEF NothingBuffered, Sequential!Next
<1>11. ASSUME NEW t \in Threads, NEW l \in Locations, NEW e \in Operands,
              CasFails(t, l, e, "SEQ_CST")
       PROVE  NothingBuffered' /\ Sequential!Next
  <2>1. /\ At(M, l, 0) # e
        /\ storage' = storage
        /\ Answers("SEQ_CST", <<At(M, l, 0)>>)
    BY <1>1, <1>11, UnbufferedStorage DEF CasFails
  <2>2. Sequential!CasFails(l, e)
    BY <1>2, <1>4, <2>1 DEF Sequential!CasFails
  <2> QED
    BY <1>1, <1>4, <2>1, <2>2 DEF NothingBuffered, Sequential!Next
<1>12. ASSUME NEW t \in Threads, NEW l \in Locations, NEW v \in Operands,
              Fai(t, l, v, "SEQ_CST")
       PROVE  NothingBuffered' /\ Sequential!Next
  <2>1. /\ storage' = [memory |-> Put(M, l, At(M, l, 0) + v), buffers |-> EmptyMap]
        /\ Answers("SEQ_CST", <<At(M, l, 0)>>)
    BY <1>1, <1>12, UnbufferedStorage DEF Fai
  <2>2. Sequential!Fai(l, v)
    BY <1>2, <1>3, <1>4, <2>1 DEF Sequential!Fai
  <2> QED
    BY <1>4, <2>1, <2>2 DEF NothingBuffered, Sequential!Next
<1>13. \A m \in Modes : m = "SEQ_CST"
  BY DEF OnlySeqCst
<1> QED
  BY <1>5, <1>6, <1>7, <1>8, <1>9, <1>10, <1>11, <1>12, <1>13 DEF Next

\* A program whose accesses are all SEQ_CST runs on the total-store-order
\* storage as on SCStorageSubsystem: every statement leaves the memory, and is
\* given the value, that the sequentially consistent storage would, because each
\* write is flushed before its statement ends.
THEOREM SeqCstIsSequential ==
  ASSUME OnlySeqCst
  PROVE  Spec => Sequential!Spec
BY OnlySeqCst, SequentialInit, SequentialNext, PTL DEF Spec, Sequential!Spec

=============================================================================
