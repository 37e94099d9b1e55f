---------------------------- MODULE HistoryProofs ----------------------------
(***************************************************************************)
(* What issuing and committing stores do to a history, for any threads,     *)
(* locations and values: the part that the proofs about the buffering       *)
(* storages share.                                                          *)
(***************************************************************************)
EXTENDS StoreHistory, SequenceTheorems, TLAPS

\* The histories of threads T that store values V at locations L.
StoredBy(L, V) == [loc : L, val : V, at : Nat]

Histories(T, L, V) == [stores : [T -> Seq(StoredBy(L, V))], clock : Nat]

LEMMA MappedSeq ==
  ASSUME NEW n \in Nat, NEW S, NEW f \in [1..n -> S]
  PROVE  f \in Seq(S) /\ Len(f) = n
OBVIOUS

LEMMA HistoryStores ==
  ASSUME NEW T, NEW L, NEW V, NEW h \in Histories(T, L, V)
  PROVE  /\ h.clock \in Nat
         /\ DOMAIN h.stores = T
         /\ \A u \in T :
              /\ h.stores[u] \in Seq(StoredBy(L, V))
              /\ Len(h.stores[u]) \in Nat
              /\ DOMAIN h.stores[u] = 1..Len(h.stores[u])
              /\ \A i \in 1..Len(h.stores[u]) :
                   h.stores[u][i] \in StoredBy(L, V) /\ h.stores[u][i].at \in Nat
<1>1. h.clock \in Nat /\ DOMAIN h.stores = T /\ \A u \in T : h.stores[u] \in Seq(StoredBy(L, V))
  BY DEF Histories
<1>2. ASSUME NEW u \in T, NEW i \in 1..Len(h.stores[u])
      PROVE  h.stores[u][i] \in StoredBy(L, V) /\ h.stores[u][i].at \in Nat
  <2>1. h.stores[u][i] \in StoredBy(L, V)
    BY <1>1, ElementOfSeq
  <2> QED
    BY <2>1 DEF StoredBy
<1> QED
  BY <1>1, <1>2, LenProperties

LEMMA HistoryIssue ==
  ASSUME NEW T, NEW L, NEW V, NEW h \in Histories(T, L, V),
         NEW t \in T, NEW l \in L, NEW v \in V
  PROVE  /\ Issue(h, t, l, v) \in Histories(T, L, V)
         /\ Issue(h, t, l, v).clock = h.clock
         /\ Issue(h, t, l, v).stores[t] =
              Append(h.stores[t], [loc |-> l, val |-> v, at |-> 0])
         /\ \A u \in T : u # t => Issue(h, t, l, v).stores[u] = h.stores[u]
<1>1. h.stores[t] \in Seq(StoredBy(L, V)) /\ [loc |-> l, val |-> v, at |-> 0] \in StoredBy(L, V)
  BY HistoryStores DEF StoredBy
<1>2. Append(h.stores[t], [loc |-> l, val |-> v, at |-> 0]) \in Seq(StoredBy(L, V))
  BY <1>1, AppendProperties
<1> QED
  BY <1>2 DEF Histories, Issue

\* A commit changes the times of the stores committed and nothing else.
Committed(issued, I, time, after) ==
  /\ Len(after) = Len(issued)
  /\ \A i \in 1..Len(issued) :
       /\ after[i].loc = issued[i].loc
       /\ after[i].val = issued[i].val
       /\ after[i].at = IF i \in I THEN time ELSE issued[i].at

LEMMA HistoryCommit ==
  ASSUME NEW T, NEW L, NEW V, NEW h \in Histories(T, L, V), NEW t \in T, NEW I, I # {}
  PROVE  /\ Commit(h, t, I) \in Histories(T, L, V)
         /\ Commit(h, t, I).clock = h.clock + 1
         /\ Committed(h.stores[t], I, h.clock + 1, Commit(h, t, I).stores[t])
         /\ \A u \in T : u # t => Commit(h, t, I).stores[u] = h.stores[u]
<1> DEFINE E      == StoredBy(L, V)
           issued == h.stores[t]
           after  == [i \in DOMAIN issued |->
                        IF i \in I THEN [issued[i] EXCEPT !.at = h.clock + 1] ELSE issued[i]]
<1>1. /\ issued \in Seq(E) /\ h.clock \in Nat /\ Len(issued) \in Nat
      /\ DOMAIN issued = 1..Len(issued)
      /\ \A i \in 1..Len(issued) : issued[i] \in E
  BY HistoryStores
<1>2. \A i \in 1..Len(issued) :
        /\ after[i] \in E
        /\ after[i].loc = issued[i].loc
        /\ after[i].val = issued[i].val
        /\ after[i].at = IF i \in I THEN h.clock + 1 ELSE issued[i].at
  <2> TAKE i \in 1..Len(issued)
  <2>1. issued[i] \in E /\ i \in DOMAIN issued
    BY <1>1
  <2>2. CASE i \in I
    <3>1. after[i] = [issued[i] EXCEPT !.at = h.clock + 1]
      BY <2>1, <2>2
    <3> HIDE DEF after, issued
    <3> QED
      BY <1>1, <2>1, <2>2, <3>1 DEF StoredBy
  <2>3. CASE i \notin I
    BY <2>1, <2>3
  <2> QED
    BY <2>2, <2>3
<1>3. after \in [1..Len(issued) -> E]
  BY <1>1, <1>2
<1>4. after \in Seq(E) /\ Len(after) = Len(issued)
  <2> HIDE DEF after, issued, E
  <2> QED
    BY <1>1, <1>3, MappedSeq
<1>5. Commit(h, t, I) = [stores |-> [h.stores EXCEPT ![t] = after], clock |-> h.clock + 1]
  BY DEF Commit
<1>6. Committed(issued, I, h.clock + 1, after)
  BY <1>2, <1>4 DEF Committed
<1> HIDE DEF after
<1> QED
  BY <1>1, <1>4, <1>5, <1>6 DEF Histories

----------------------------------------------------------------------------
(* The last committed store, without CHOOSE. *)

CommittedAt(h, l, u, i) ==
  /\ u \in DOMAIN h.stores /\ i \in 1..Len(h.stores[u])
  /\ h.stores[u][i].loc = l /\ h.stores[u][i].at > 0

\* Store i of u took effect after store j of x.
After(h, u, i, x, j) ==
  \/ h.stores[u][i].at > h.stores[x][j].at
  \/ h.stores[u][i].at = h.stores[x][j].at /\ u = x /\ i > j

IsLast(h, l, u, i) ==
  /\ CommittedAt(h, l, u, i)
  /\ \A x, j : CommittedAt(h, l, x, j) => (x = u /\ j = i) \/ After(h, u, i, x, j)

LatestIs(h, l, v) ==
  \/ v = 0 /\ \A u, i : ~CommittedAt(h, l, u, i)
  \/ \E u, i : IsLast(h, l, u, i) /\ h.stores[u][i].val = v

LEMMA CommittedPairs ==
  ASSUME NEW T, NEW L, NEW V, NEW h \in Histories(T, L, V), NEW l, NEW w
  PROVE  w \in CommittedTo(h, l) <=> \E u, i : w = <<u, i>> /\ CommittedAt(h, l, u, i)
<1>1. DOMAIN h.stores = T
  BY HistoryStores
<1>2. \A u \in T : DOMAIN h.stores[u] = 1..Len(h.stores[u])
  BY HistoryStores
<1>3. w \in UNION {{t} \X DOMAIN h.stores[t] : t \in DOMAIN h.stores}
        <=> \E u \in T : \E i \in 1..Len(h.stores[u]) : w = <<u, i>>
  BY <1>1, <1>2
<1>4. w \in CommittedTo(h, l) <=>
        /\ w \in UNION {{t} \X DOMAIN h.stores[t] : t \in DOMAIN h.stores}
        /\ h.stores[w[1]][w[2]].loc = l /\ h.stores[w[1]][w[2]].at > 0
  BY DEF CommittedTo
<1> QED
  BY <1>3, <1>4 DEF CommittedAt

LEMMA LatestValueIs ==
  ASSUME NEW T, NEW L, NEW V, NEW h \in Histories(T, L, V), NEW l, NEW v, LatestIs(h, l, v)
  PROVE  LatestValue(h, l) = v
<1> DEFINE W == CommittedTo(h, l)
           isLast(w) == \A x \in W : x = w \/ Later(h, w, x)
           last == CHOOSE w \in W : isLast(w)
<1>1. LatestValue(h, l) = IF W = {} THEN 0 ELSE h.stores[last[1]][last[2]].val
  BY DEF LatestValue
<1> HIDE DEF last
<1>2. \A w : w \in W <=> \E u, i : w = <<u, i>> /\ CommittedAt(h, l, u, i)
  BY CommittedPairs
<1>3. CASE v = 0 /\ \A u, i : ~CommittedAt(h, l, u, i)
  <2>1. W = {}
    BY <1>2, <1>3
  <2> QED
    BY <1>1, <1>3, <2>1
<1>4. CASE \E u, i : IsLast(h, l, u, i) /\ h.stores[u][i].val = v
  <2>1. PICK u, i : IsLast(h, l, u, i) /\ h.stores[u][i].val = v
    BY <1>4
  <2>2. <<u, i>> \in W
    BY <2>1, <1>2 DEF IsLast
  <2>3. isLast(<<u, i>>)
    <3> SUFFICES ASSUME NEW x \in W PROVE x = <<u, i>> \/ Later(h, <<u, i>>, x)
      OBVIOUS
    <3>1. PICK y, j : x = <<y, j>> /\ CommittedAt(h, l, y, j)
      BY <1>2
    <3>2. (y = u /\ j = i) \/ After(h, u, i, y, j)
      BY <2>1, <3>1 DEF IsLast
    <3> QED
      BY <3>1, <3>2 DEF After, Later
  <2>4. ASSUME NEW w \in W, isLast(w)
        PROVE  w = <<u, i>>
    <3>1. PICK y, j : w = <<y, j>> /\ CommittedAt(h, l, y, j)
      BY <1>2
    <3>2. SUFFICES ASSUME w # <<u, i>> PROVE FALSE
      OBVIOUS
    <3>3. Later(h, w, <<u, i>>)
      BY <2>2, <2>4, <3>2
    <3>4. After(h, y, j, u, i) /\ After(h, u, i, y, j)
      BY <2>1, <3>1, <3>2, <3>3 DEF After, Later, IsLast
    <3>5. /\ h.stores[y][j].at \in Nat /\ h.stores[u][i].at \in Nat
          /\ i \in Int /\ j \in Int
      <4>1. /\ u \in T /\ i \in 1..Len(h.stores[u])
            /\ y \in T /\ j \in 1..Len(h.stores[y])
        BY <2>1, <3>1, HistoryStores DEF IsLast, CommittedAt
      <4> QED
        BY <4>1, HistoryStores
    <3> QED
      BY <3>4, <3>5 DEF After
  <2> HIDE DEF isLast, W
  <2>5. last = <<u, i>>
    BY <2>2, <2>3, <2>4 DEF last
  <2> QED
    BY <1>1, <2>1, <2>2, <2>5
<1> QED
  BY <1>3, <1>4 DEF LatestIs

TimesBounded(h) ==
  \A u \in DOMAIN h.stores : \A i \in 1..Len(h.stores[u]) : h.stores[u][i].at <= h.clock

\* A pending store is not in effect.
LEMMA IssueLatest ==
  ASSUME NEW T, NEW L, NEW V, NEW h \in Histories(T, L, V), NEW t \in T, NEW l \in L, NEW w \in V,
         NEW k, NEW v, LatestIs(h, k, v)
  PROVE  LatestIs(Issue(h, t, l, w), k, v)
<1> DEFINE h2 == Issue(h, t, l, w)
           e  == [loc |-> l, val |-> w, at |-> 0]
           n  == Len(h.stores[t])
<1>1. /\ h2.stores[t] = Append(h.stores[t], e)
      /\ \A u \in T : u # t => h2.stores[u] = h.stores[u]
  BY HistoryIssue
<1>2. h.stores[t] \in Seq(StoredBy(L, V)) /\ e \in StoredBy(L, V) /\ n \in Nat
  BY HistoryStores DEF StoredBy
<1>3. /\ Len(h2.stores[t]) = n + 1 /\ h2.stores[t][n + 1].at = 0
      /\ \A i \in 1..n : h2.stores[t][i] = h.stores[t][i]
  BY <1>1, <1>2, AppendProperties
<1>0. DOMAIN h.stores = T /\ DOMAIN h2.stores = T
  <2>1. h2 \in Histories(T, L, V)
    BY HistoryIssue
  <2> HIDE DEF h2
  <2> QED
    BY <2>1, HistoryStores
<1> HIDE DEF h2
<1>4. ASSUME NEW u, NEW i
      PROVE  /\ CommittedAt(h2, k, u, i) <=> CommittedAt(h, k, u, i)
             /\ CommittedAt(h, k, u, i) => h2.stores[u][i] = h.stores[u][i]
  <2>1. CASE u = t
    <3>1. i \in 1..n + 1 <=> i \in 1..n \/ i = n + 1
      BY <1>2
    <3>2. n + 1 \notin 1..n
      BY <1>2
    <3> QED
      BY <2>1, <3>1, <3>2, <1>3, <1>0 DEF CommittedAt
  <2>2. CASE u # t
    BY <2>2, <1>1, <1>0 DEF CommittedAt
  <2> QED
    BY <2>1, <2>2
<1>5. LatestIs(h2, k, v)
  <2>1. CASE v = 0 /\ \A u, i : ~CommittedAt(h, k, u, i)
    BY <2>1, <1>4 DEF LatestIs
  <2>2. CASE \E u, i : IsLast(h, k, u, i) /\ h.stores[u][i].val = v
    <3>1. PICK u, i : IsLast(h, k, u, i) /\ h.stores[u][i].val = v
      BY <2>2
    <3>2. IsLast(h2, k, u, i) /\ h2.stores[u][i].val = v
      BY <3>1, <1>4 DEF IsLast, After
    <3> QED
      BY <3>2 DEF LatestIs
  <2> QED
    BY <2>1, <2>2 DEF LatestIs
<1> QED
  BY <1>5 DEF h2

\* Of the stores I of one thread that take effect, the last to a location is
\* the latest there; without one, the latest there stays.
LEMMA CommitLatest ==
  ASSUME NEW T, NEW L, NEW V, NEW h \in Histories(T, L, V), TimesBounded(h),
         NEW t \in T, NEW I, I # {}, I \subseteq 1..Len(h.stores[t]),
         \A i \in I : h.stores[t][i].at = 0,
         NEW l, NEW v, LatestIs(h, l, v),
         NEW w,
         \/ w = v /\ \A i \in I : h.stores[t][i].loc # l
         \/ \E i \in I : /\ h.stores[t][i].loc = l /\ h.stores[t][i].val = w
                         /\ \A j \in I : h.stores[t][j].loc = l => j <= i
  PROVE  LatestIs(Commit(h, t, I), l, w)
<1> DEFINE h2 == Commit(h, t, I)
           n  == Len(h.stores[t])
<1> SUFFICES LatestIs(h2, l, w)
  OBVIOUS
<1>1. /\ Committed(h.stores[t], I, h.clock + 1, h2.stores[t])
      /\ \A u \in T : u # t => h2.stores[u] = h.stores[u]
  BY HistoryCommit
<1>2. /\ Len(h2.stores[t]) = n /\ n \in Nat
      /\ \A i \in 1..n : /\ h2.stores[t][i].loc = h.stores[t][i].loc
                         /\ h2.stores[t][i].val = h.stores[t][i].val
                         /\ h2.stores[t][i].at = IF i \in I THEN h.clock + 1
                                                            ELSE h.stores[t][i].at
  BY <1>1, HistoryStores DEF Committed
<1>3. h.clock \in Nat
  BY HistoryStores
<1>0. DOMAIN h.stores = T /\ DOMAIN h2.stores = T
  BY HistoryStores, HistoryCommit
<1> HIDE DEF h2
<1>4. ASSUME NEW u, NEW i
      PROVE  CommittedAt(h2, l, u, i) <=>
               CommittedAt(h, l, u, i) \/ (u = t /\ i \in I /\ h.stores[t][i].loc = l)
  <2>1. CASE u = t
    <3>1. CASE i \in I
      <4>1. i \in 1..n /\ h.stores[t][i].at = 0 /\ h2.stores[t][i].at = h.clock + 1
        BY <3>1, <1>2
      <4> QED
        BY <2>1, <3>1, <4>1, <1>2, <1>3, <1>0 DEF CommittedAt
    <3>2. CASE i \notin I
      BY <2>1, <3>2, <1>2, <1>0 DEF CommittedAt
    <3> QED
      BY <3>1, <3>2
  <2>2. CASE u # t
    BY <2>2, <1>1, <1>0 DEF CommittedAt
  <2> QED
    BY <2>1, <2>2
<1>5. \A u, i : CommittedAt(h, l, u, i) =>
        /\ h2.stores[u][i].at = h.stores[u][i].at
        /\ h2.stores[u][i].val = h.stores[u][i].val
        /\ h.stores[u][i].at <= h.clock /\ h.stores[u][i].at \in Nat
  <2> SUFFICES ASSUME NEW u, NEW i, CommittedAt(h, l, u, i)
               PROVE  /\ h2.stores[u][i].at = h.stores[u][i].at
                      /\ h2.stores[u][i].val = h.stores[u][i].val
                      /\ h.stores[u][i].at <= h.clock /\ h.stores[u][i].at \in Nat
    OBVIOUS
  <2>1. /\ u \in T /\ i \in 1..Len(h.stores[u])
        /\ h.stores[u][i].at \in Nat /\ h.stores[u][i].at # 0
    BY <1>0, HistoryStores DEF CommittedAt
  <2>2. h.stores[u][i].at <= h.clock
    BY <2>1, <1>0 DEF TimesBounded
  <2>3. CASE u = t
    <3>1. i \notin I
      BY <2>1, <2>3
    <3> QED
      BY <2>1, <2>2, <2>3, <3>1, <1>2
  <2>4. CASE u # t
    BY <2>1, <2>2, <2>4, <1>1
  <2> QED
    BY <2>3, <2>4
<1>6. CASE w = v /\ \A i \in I : h.stores[t][i].loc # l
  <2>1. \A u, i : CommittedAt(h2, l, u, i) <=> CommittedAt(h, l, u, i)
    BY <1>4, <1>6
  <2>2. CASE v = 0 /\ \A u, i : ~CommittedAt(h, l, u, i)
    BY <2>1, <2>2, <1>6 DEF LatestIs
  <2>3. CASE \E u, i : IsLast(h, l, u, i) /\ h.stores[u][i].val = v
    <3>1. PICK u, i : IsLast(h, l, u, i) /\ h.stores[u][i].val = v
      BY <2>3
    <3>2. IsLast(h2, l, u, i) /\ h2.stores[u][i].val = w
      BY <3>1, <2>1, <1>5, <1>6 DEF IsLast, After
    <3> QED
      BY <3>2 DEF LatestIs
  <2> QED
    BY <2>2, <2>3 DEF LatestIs
<1>7. ASSUME NEW i \in I, h.stores[t][i].loc = l, h.stores[t][i].val = w,
             \A j \in I : h.stores[t][j].loc = l => j <= i
      PROVE  LatestIs(h2, l, w)
  <2>1. CommittedAt(h2, l, t, i) /\ h2.stores[t][i].at = h.clock + 1 /\ h2.stores[t][i].val = w
    BY <1>2, <1>4, <1>7
  <2>2. ASSUME NEW x, NEW j, CommittedAt(h2, l, x, j)
        PROVE  (x = t /\ j = i) \/ After(h2, t, i, x, j)
    <3>1. CASE CommittedAt(h, l, x, j)
      <4>1. h2.stores[x][j].at \in Nat /\ h2.stores[x][j].at <= h.clock
        BY <3>1, <1>5
      <4> QED
        BY <4>1, <2>1, <1>3 DEF After
    <3>2. CASE x = t /\ j \in I /\ h.stores[t][j].loc = l
      <4>1. h2.stores[t][j].at = h.clock + 1 /\ j <= i /\ i \in Int /\ j \in Int
        BY <3>2, <1>2, <1>7
      <4> QED
        BY <4>1, <3>2, <2>1 DEF After
    <3> QED
      BY <2>2, <3>1, <3>2, <1>4
  <2>3. IsLast(h2, l, t, i)
    BY <2>1, <2>2 DEF IsLast
  <2> QED
    BY <2>1, <2>3 DEF LatestIs
<1> QED
  BY <1>6, <1>7

----------------------------------------------------------------------------
(* What a thread sees: its newest pending store, else the latest value. *)

\* w is the newest pending store of t to l, or v when t has none.
Sees(h, t, l, v, w) ==
  \/ w = v /\ \A i \in Pending(h, t) : h.stores[t][i].loc # l
  \/ \E i \in Pending(h, t) :
       /\ h.stores[t][i].loc = l /\ h.stores[t][i].val = w
       /\ \A j \in Pending(h, t) : h.stores[t][j].loc = l => j <= i

LEMMA VisibleValueIs ==
  ASSUME NEW T, NEW L, NEW V, NEW h \in Histories(T, L, V), NEW t \in T,
         NEW l, NEW v, LatestIs(h, l, v), NEW w, Sees(h, t, l, v, w)
  PROVE  VisibleValue(h, t, l) = w
<1> DEFINE own == PendingTo(h, t, l)
<1>1. own = {i \in Pending(h, t) : h.stores[t][i].loc = l}
  BY DEF PendingTo
<1>2. VisibleValue(h, t, l) = IF own # {} THEN h.stores[t][Newest(own)].val ELSE LatestValue(h, l)
  BY DEF VisibleValue
<1> HIDE DEF own
<1>3. CASE w = v /\ \A i \in Pending(h, t) : h.stores[t][i].loc # l
  <2>1. LatestValue(h, l) = v
    BY LatestValueIs
  <2> QED
    BY <1>1, <1>2, <1>3, <2>1
<1>4. CASE \E i \in Pending(h, t) :
             /\ h.stores[t][i].loc = l /\ h.stores[t][i].val = w
             /\ \A j \in Pending(h, t) : h.stores[t][j].loc = l => j <= i
  <2>1. PICK i \in Pending(h, t) :
             /\ h.stores[t][i].loc = l /\ h.stores[t][i].val = w
             /\ \A j \in Pending(h, t) : h.stores[t][j].loc = l => j <= i
    BY <1>4
  <2>2. \A j \in own : j \in Int
    BY <1>1, HistoryStores DEF Pending
  <2>3. i \in own /\ \A j \in own : i >= j
    BY <1>1, <2>1, <2>2
  <2>4. Newest(own) = i
    BY <2>2, <2>3 DEF Newest
  <2> QED
    BY <1>2, <2>1, <2>3, <2>4
<1> QED
  BY <1>3, <1>4 DEF Sees

\* What a thread sees is the latest value once it is drained.
LEMMA DrainLatest ==
  ASSUME NEW T, NEW L, NEW V, NEW h \in Histories(T, L, V), TimesBounded(h), NEW t \in T,
         NEW l, NEW v, LatestIs(h, l, v), NEW w, Sees(h, t, l, v, w)
  PROVE  LatestIs(Drain(h, t), l, w)
<1> DEFINE P == Pending(h, t)
<1>1. P \subseteq 1..Len(h.stores[t]) /\ \A i \in P : h.stores[t][i].at = 0
  BY HistoryStores DEF Pending
<1>2. \/ w = v /\ \A i \in P : h.stores[t][i].loc # l
      \/ \E i \in P : /\ h.stores[t][i].loc = l /\ h.stores[t][i].val = w
                      /\ \A j \in P : h.stores[t][j].loc = l => j <= i
  BY DEF Sees
<1>3. Drain(h, t) = Commit(h, t, P)
  BY DEF Drain
<1> HIDE DEF P
<1>4. CASE P = {}
  BY <1>2, <1>3, <1>4 DEF Commit
<1>5. CASE P # {}
  BY <1>1, <1>2, <1>3, <1>5, CommitLatest
<1> QED
  BY <1>4, <1>5

=============================================================================
