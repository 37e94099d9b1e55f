------------------------------ MODULE SRAProofs ------------------------------
(***************************************************************************)
(* Proofs about SRASystem, for any threads, locations, values and modes.    *)
(***************************************************************************)
EXTENDS SRASystem, SequenceTheorems, TLAPS

----------------------------------------------------------------------------
(* Views: what Put and Join do to the timestamps. *)

Views == UNION {[L -> Nat \ {0}] : L \in SUBSET Locations}

LEMMA ViewElements ==
  ASSUME NEW view \in Views
  PROVE  /\ DOMAIN view \subseteq Locations
         /\ \A l \in DOMAIN view : view[l] \in Nat \ {0}
BY DEF Views

LEMMA TimestampType ==
  ASSUME NEW view \in Views, NEW l
  PROVE  Timestamp(view, l) \in Nat
BY ViewElements DEF Timestamp, At

LEMMA EmptyView ==
  /\ EmptyMap \in Views
  /\ \A l : Timestamp(EmptyMap, l) = 0
<1>1. EmptyMap \in [{} -> Nat \ {0}]
  BY DEF EmptyMap
<1>2. EmptyMap \in Views
  BY <1>1 DEF Views
<1> QED
  BY <1>2 DEF Timestamp, At, EmptyMap

LEMMA PutView ==
  ASSUME NEW view \in Views, NEW l \in Locations, NEW n \in Nat \ {0}
  PROVE  /\ Put(view, l, n) \in Views
         /\ \A k : Timestamp(Put(view, l, n), k) = IF k = l THEN n ELSE Timestamp(view, k)
<1>1. Put(view, l, n) \in [DOMAIN view \cup {l} -> Nat \ {0}]
  BY ViewElements DEF Put
<1>2. DOMAIN view \cup {l} \in SUBSET Locations
  BY ViewElements
<1>3. Put(view, l, n) \in Views
  BY <1>1, <1>2 DEF Views
<1>4. \A k : Timestamp(Put(view, l, n), k) = IF k = l THEN n ELSE Timestamp(view, k)
  BY DEF Timestamp, At, Put
<1> QED
  BY <1>3, <1>4

LEMMA JoinView ==
  ASSUME NEW v \in Views, NEW w \in Views
  PROVE  /\ Join(v, w) \in Views
         /\ \A k : Timestamp(Join(v, w), k) =
                     IF Timestamp(v, k) >= Timestamp(w, k)
                       THEN Timestamp(v, k) ELSE Timestamp(w, k)
<1>1. \A k \in DOMAIN v \cup DOMAIN w :
        (IF Timestamp(v, k) >= Timestamp(w, k) THEN Timestamp(v, k) ELSE Timestamp(w, k))
          \in Nat \ {0}
  <2> TAKE k \in DOMAIN v \cup DOMAIN w
  <2>1. Timestamp(v, k) \in Nat /\ Timestamp(w, k) \in Nat
    BY TimestampType
  <2>2. Timestamp(v, k) # 0 \/ Timestamp(w, k) # 0
    BY ViewElements DEF Timestamp, At
  <2> QED
    BY <2>1, <2>2
<1>2. Join(v, w) \in [DOMAIN v \cup DOMAIN w -> Nat \ {0}]
  BY <1>1 DEF Join
<1>3. DOMAIN v \cup DOMAIN w \in SUBSET Locations
  BY ViewElements
<1>4. Join(v, w) \in Views
  BY <1>2, <1>3 DEF Views
<1>5. ASSUME NEW k
      PROVE  Timestamp(Join(v, w), k) =
               IF Timestamp(v, k) >= Timestamp(w, k) THEN Timestamp(v, k) ELSE Timestamp(w, k)
  <2>1. CASE k \in DOMAIN v \cup DOMAIN w
    BY <2>1 DEF Timestamp, At, Join
  <2>2. CASE k \notin DOMAIN v \cup DOMAIN w
    BY <2>2 DEF Timestamp, At, Join
  <2> QED
    BY <2>1, <2>2
<1> QED
  BY <1>4, <1>5

----------------------------------------------------------------------------
(* Storage: its types, with every view at most as far as the newest message, *)
(* and the timestamps of its messages.                                       *)

Message == [loc : Locations, val : Values, view : Views]

Newest(s, l) == Timestamp(s.stamps, l)

\* The timestamp of message i of storage s, and its location.
Stamp(s, i) == Timestamp(s.messages[i].view, s.messages[i].loc)

NotAhead(s, view) == \A l \in Locations : Timestamp(view, l) <= Newest(s, l)

StorageOK(s) ==
  /\ s = [messages |-> s.messages, views |-> s.views, stamps |-> s.stamps]
  /\ s.messages \in Seq(Message)
  /\ s.stamps \in Views
  /\ DOMAIN s.views \subseteq Threads
  /\ \A t \in DOMAIN s.views : s.views[t] \in Views /\ NotAhead(s, s.views[t])
  /\ \A i \in 1..Len(s.messages) : NotAhead(s, s.messages[i].view)

Stamped(s) ==
  /\ \A i \in 1..Len(s.messages) : Stamp(s, i) \in 1..Newest(s, s.messages[i].loc)
  /\ \A l \in Locations : \A n \in 1..Newest(s, l) :
       \E i \in 1..Len(s.messages) : s.messages[i].loc = l /\ Stamp(s, i) = n
  /\ \A i, j \in 1..Len(s.messages) :
       i < j /\ s.messages[i].loc = s.messages[j].loc => Stamp(s, i) < Stamp(s, j)

LEMMA MessageType ==
  ASSUME NEW s, StorageOK(s)
  PROVE  /\ Len(s.messages) \in Nat
         /\ DOMAIN s.messages = 1..Len(s.messages)
         /\ \A i \in 1..Len(s.messages) :
              /\ s.messages[i] \in Message
              /\ s.messages[i].loc \in Locations
              /\ s.messages[i].val \in Values
              /\ s.messages[i].view \in Views
              /\ Stamp(s, i) \in Nat
<1>1. s.messages \in Seq(Message)
  BY DEF StorageOK
<1>2. ASSUME NEW i \in 1..Len(s.messages)
      PROVE  /\ s.messages[i] \in Message
             /\ s.messages[i].loc \in Locations
             /\ s.messages[i].val \in Values
             /\ s.messages[i].view \in Views
             /\ Stamp(s, i) \in Nat
  <2>1. s.messages[i] \in Message
    BY <1>1, ElementOfSeq
  <2>2. s.messages[i].loc \in Locations /\ s.messages[i].val \in Values
        /\ s.messages[i].view \in Views
    BY <2>1 DEF Message
  <2> QED
    BY <2>1, <2>2, TimestampType DEF Stamp
<1> QED
  BY <1>1, <1>2, LenProperties

LEMMA ViewType ==
  ASSUME NEW s, StorageOK(s), NEW t
  PROVE  View(s, t) \in Views /\ NotAhead(s, View(s, t))
<1>1. CASE t \in DOMAIN s.views
  BY <1>1 DEF View, At, StorageOK
<1>2. CASE t \notin DOMAIN s.views
  <2>1. View(s, t) = EmptyMap
    BY <1>2 DEF View, At
  <2>2. \A l \in Locations : Newest(s, l) \in Nat
    BY TimestampType DEF Newest, StorageOK
  <2>3. \A l \in Locations : 0 <= Newest(s, l)
    BY <2>2
  <2> QED
    BY <2>1, <2>3, EmptyView DEF NotAhead
<1> QED
  BY <1>1, <1>2

\* Storing the same messages and timestamps, the views of other threads aside.
SameMessages(s, s2) ==
  s2.messages = s.messages /\ s2.stamps = s.stamps

LEMMA SetViewOK ==
  ASSUME NEW s, StorageOK(s), NEW t \in Threads, NEW view \in Views, NotAhead(s, view),
         NEW s2, s2 = [s EXCEPT !.views = Put(@, t, view)]
  PROVE  /\ StorageOK(s2) /\ SameMessages(s, s2)
         /\ View(s2, t) = view
         /\ \A u : u # t => View(s2, u) = View(s, u)
<1>1. s2 = [messages |-> s.messages, views |-> Put(s.views, t, view), stamps |-> s.stamps]
  BY DEF StorageOK
<1>2. SameMessages(s, s2) /\ s2.views = Put(s.views, t, view)
  BY <1>1 DEF SameMessages
<1>3. \A w : NotAhead(s2, w) <=> NotAhead(s, w)
  BY <1>2 DEF NotAhead, Newest, SameMessages
<1>4. /\ DOMAIN s2.views \subseteq Threads
      /\ \A u \in DOMAIN s2.views : s2.views[u] \in Views /\ NotAhead(s, s2.views[u])
      /\ View(s2, t) = view
      /\ \A u : u # t => View(s2, u) = View(s, u)
  BY <1>2 DEF View, At, Put, StorageOK
<1>5. StorageOK(s2)
  BY <1>1, <1>2, <1>3, <1>4 DEF StorageOK, SameMessages
<1> QED
  BY <1>2, <1>4, <1>5

LEMMA SameStamped ==
  ASSUME NEW s, Stamped(s), NEW s2, SameMessages(s, s2)
  PROVE  Stamped(s2)
BY DEF Stamped, Stamp, Newest, SameMessages

\* A read takes at most one message, the one its thread's view names; it takes
\* none exactly while the view is at 0.
LEMMA ReadsTheViewed ==
  ASSUME NEW s, StorageOK(s), Stamped(s), NEW t, NEW l \in Locations
  PROVE  \/ /\ ReadFrom(s, t, l) = {}
            /\ Timestamp(View(s, t), l) = 0
         \/ \E i \in 1..Len(s.messages) :
              /\ ReadFrom(s, t, l) = {i}
              /\ s.messages[i].loc = l
              /\ Stamp(s, i) = Timestamp(View(s, t), l)
<1> DEFINE n == Timestamp(View(s, t), l)
<1>1. n \in Nat /\ n <= Newest(s, l) /\ Newest(s, l) \in Nat
  BY ViewType, TimestampType DEF NotAhead, Newest, StorageOK
<1>2. ReadFrom(s, t, l) = {i \in 1..Len(s.messages) : s.messages[i].loc = l /\ Stamp(s, i) = n}
  BY MessageType DEF ReadFrom, Stamp
<1> HIDE DEF n
<1>3. CASE n = 0
  <2>1. \A i \in 1..Len(s.messages) : Stamp(s, i) # 0
    BY MessageType DEF Stamped
  <2> QED
    BY <2>1, <1>2, <1>3 DEF n
<1>4. CASE n # 0
  <2>1. n \in 1..Newest(s, l)
    BY <1>1, <1>4
  <2>2. PICK i \in 1..Len(s.messages) : s.messages[i].loc = l /\ Stamp(s, i) = n
    BY <2>1 DEF Stamped
  <2>3. ASSUME NEW j \in 1..Len(s.messages), s.messages[j].loc = l, Stamp(s, j) = n
        PROVE  j = i
    <3>1. Len(s.messages) \in Nat
      BY MessageType
    <3>2. ~(i < j) /\ ~(j < i)
      BY <2>2, <2>3, <1>1 DEF Stamped
    <3> QED
      BY <3>1, <3>2
  <2>4. ReadFrom(s, t, l) = {i}
    BY <2>2, <2>3, <1>2
  <2> QED
    BY <2>2, <2>4 DEF n
<1> QED
  BY <1>3, <1>4

LEMMA MinOfOne ==
  ASSUME NEW i \in Int
  PROVE  Min({i}) = i
BY DEF Min

\* A read returns a declared value, stores nothing and takes no view back; its
\* thread's view then covers the message read, if the read acquires.
LEMMA ReadOK ==
  ASSUME NEW s, StorageOK(s), Stamped(s),
         NEW t \in Threads, NEW l \in Locations, NEW m
  PROVE  LET read == Read(s, t, l, m)
         IN  /\ StorageOK(read.storage) /\ SameMessages(s, read.storage)
             /\ read.value \in Values
             /\ \A u, k : Timestamp(View(read.storage, u), k) >= Timestamp(View(s, u), k)
             /\ Acquires(m) => \A i \in ReadFrom(s, t, l) : \A k :
                  Timestamp(View(read.storage, t), k) >= Timestamp(s.messages[i].view, k)
<1> DEFINE from == ReadFrom(s, t, l)
           read == Read(s, t, l, m)
           own  == View(s, t)
<1>1. own \in Views /\ NotAhead(s, own)
  BY ViewType
<1>2. \A k : Timestamp(own, k) \in Nat
  BY <1>1, TimestampType
<1>3. ASSUME NEW view \in Views, NotAhead(s, view),
             \A k : Timestamp(view, k) >= Timestamp(own, k),
             read.storage = [s EXCEPT !.views = Put(@, t, view)]
      PROVE  /\ StorageOK(read.storage) /\ SameMessages(s, read.storage)
             /\ View(read.storage, t) = view
             /\ \A u, k : Timestamp(View(read.storage, u), k) >= Timestamp(View(s, u), k)
  <2>1. /\ StorageOK(read.storage) /\ SameMessages(s, read.storage)
        /\ View(read.storage, t) = view
        /\ \A u : u # t => View(read.storage, u) = View(s, u)
    BY <1>3, SetViewOK
  <2>2. \A u, k : Timestamp(View(s, u), k) \in Nat
    BY ViewType, TimestampType
  <2> HIDE DEF read
  <2>3. ASSUME NEW u, NEW k
        PROVE  Timestamp(View(read.storage, u), k) >= Timestamp(View(s, u), k)
    <3>1. CASE u = t
      BY <3>1, <2>1, <1>3
    <3>2. CASE u # t
      BY <3>2, <2>1, <2>2
    <3> QED
      BY <3>1, <3>2
  <2> QED
    BY <2>1, <2>3
<1>4. CASE from = {}
  <2>1. read.value = 0 /\ read.storage = [s EXCEPT !.views = Put(@, t, own)]
    BY <1>4 DEF Read
  <2>2. \A k : Timestamp(own, k) >= Timestamp(own, k)
    BY <1>2
  <2> HIDE DEF read, own
  <2> QED
    BY <2>1, <2>2, <1>1, <1>3, <1>4, ConstantsAssumption DEF read
<1>5. ASSUME NEW i \in 1..Len(s.messages), from = {i}
      PROVE  /\ StorageOK(read.storage) /\ SameMessages(s, read.storage)
             /\ read.value \in Values
             /\ \A u, k : Timestamp(View(read.storage, u), k) >= Timestamp(View(s, u), k)
             /\ Acquires(m) => \A k :
                  Timestamp(View(read.storage, t), k) >= Timestamp(s.messages[i].view, k)
  <2> DEFINE sent == s.messages[i].view
             view == IF Acquires(m) THEN Join(own, sent) ELSE own
  <2>1. s.messages[i].val \in Values /\ sent \in Views /\ NotAhead(s, sent)
    BY MessageType DEF StorageOK
  <2>2. Min(from) = i
    BY <1>5, MinOfOne
  <2>3. read.value = s.messages[i].val /\ read.storage = [s EXCEPT !.views = Put(@, t, view)]
    BY <1>5, <2>2 DEF Read
  <2>4. /\ Join(own, sent) \in Views
        /\ \A k : Timestamp(Join(own, sent), k) =
                    IF Timestamp(own, k) >= Timestamp(sent, k)
                      THEN Timestamp(own, k) ELSE Timestamp(sent, k)
    BY <1>1, <2>1, JoinView
  <2>5. \A k : Timestamp(sent, k) \in Nat
    BY <2>1, TimestampType
  <2>6. /\ view \in Views /\ NotAhead(s, view)
        /\ \A k : Timestamp(view, k) >= Timestamp(own, k)
        /\ Acquires(m) => \A k : Timestamp(view, k) >= Timestamp(sent, k)
    <3>1. CASE Acquires(m)
      <4>1. view = Join(own, sent)
        BY <3>1
      <4> HIDE DEF view, own, sent
      <4>2. NotAhead(s, view)
        BY <4>1, <2>1, <2>4, <1>1 DEF NotAhead
      <4> QED
        BY <4>1, <4>2, <2>4, <2>5, <1>2
    <3>2. CASE ~Acquires(m)
      <4>1. view = own
        BY <3>2
      <4> HIDE DEF view, own
      <4> QED
        BY <4>1, <3>2, <1>1, <1>2
    <3> QED
      BY <3>1, <3>2
  <2> HIDE DEF view, own, sent, read
  <2>7. /\ StorageOK(read.storage) /\ SameMessages(s, read.storage)
        /\ View(read.storage, t) = view
        /\ \A u, k : Timestamp(View(read.storage, u), k) >= Timestamp(View(s, u), k)
    BY <1>3, <2>3, <2>6
  <2> QED
    BY <2>1, <2>3, <2>6, <2>7 DEF sent
<1>6. from = {} \/ \E i \in 1..Len(s.messages) : from = {i}
  BY ReadsTheViewed
<1>7. CASE \E i \in 1..Len(s.messages) : from = {i}
  <2>1. PICK i \in 1..Len(s.messages) : from = {i}
    BY <1>7
  <2> HIDE DEF read
  <2> QED
    BY <2>1, <1>5 DEF read
<1> QED
  BY <1>4, <1>6, <1>7

\* What a write adds: one message with the next timestamp of its location, which
\* its thread then sees; a message that releases carries what its thread sees.
Written(s, t, l, v, m, s2) ==
  LET n == Len(s.messages) + 1
  IN  /\ Len(s2.messages) = n
      /\ \A i \in 1..Len(s.messages) : s2.messages[i] = s.messages[i]
      /\ s2.messages[n].loc = l /\ s2.messages[n].val = v
      /\ Stamp(s2, n) = Newest(s, l) + 1
      /\ \A k : Newest(s2, k) = IF k = l THEN Newest(s, l) + 1 ELSE Newest(s, k)
      /\ \A k : Timestamp(View(s2, t), k) =
                  IF k = l THEN Newest(s, l) + 1 ELSE Timestamp(View(s, t), k)
      /\ \A u : u # t => View(s2, u) = View(s, u)
      /\ Releases(m) => s2.messages[n].view = View(s2, t)

LEMMA WriteOK ==
  ASSUME NEW s, StorageOK(s),
         NEW t \in Threads, NEW l \in Locations, NEW v \in Values, NEW m,
         NEW s2, s2 = Write(s, t, l, v, m)
  PROVE  StorageOK(s2) /\ Written(s, t, l, v, m, s2)
<1> DEFINE stamp == Newest(s, l) + 1
           view  == Put(View(s, t), l, stamp)
           sent  == IF Releases(m) THEN view ELSE Put(EmptyMap, l, stamp)
           msg   == [loc |-> l, val |-> v, view |-> sent]
           n     == Len(s.messages) + 1
<1>1. s2 = [messages |-> Append(s.messages, msg),
            views    |-> Put(s.views, t, view),
            stamps   |-> Put(s.stamps, l, stamp)]
  BY DEF Write, Newest, Timestamp
<1>2. s.stamps \in Views /\ stamp \in Nat \ {0} /\ \A k : Newest(s, k) \in Nat
  BY TimestampType DEF Newest, StorageOK
<1>3. View(s, t) \in Views /\ NotAhead(s, View(s, t))
  BY ViewType
<1> HIDE DEF stamp
<1>4. /\ view \in Views
      /\ \A k : Timestamp(view, k) = IF k = l THEN stamp ELSE Timestamp(View(s, t), k)
  BY <1>2, <1>3, PutView
<1>5. /\ Put(EmptyMap, l, stamp) \in Views
      /\ \A k : Timestamp(Put(EmptyMap, l, stamp), k) = IF k = l THEN stamp ELSE 0
  BY <1>2, PutView, EmptyView
<1>6. /\ s2.stamps \in Views
      /\ \A k : Newest(s2, k) = IF k = l THEN stamp ELSE Newest(s, k)
  BY <1>1, <1>2, PutView DEF Newest
<1>7. /\ sent \in Views
      /\ Timestamp(sent, l) = stamp
      /\ \A k : k # l => \/ Timestamp(sent, k) = 0
                         \/ Timestamp(sent, k) = Timestamp(View(s, t), k)
  <2> HIDE DEF view
  <2> QED
    BY <1>4, <1>5
<1> HIDE DEF view, sent
<1>8. /\ View(s2, t) = view
      /\ \A u : u # t => View(s2, u) = View(s, u)
      /\ DOMAIN s2.views \subseteq Threads
      /\ \A u \in DOMAIN s2.views : s2.views[u] = View(s2, u)
  BY <1>1 DEF View, At, Put, StorageOK
<1>9. msg \in Message /\ s.messages \in Seq(Message) /\ msg.loc = l /\ msg.val = v /\ msg.view = sent
  BY <1>7 DEF Message, StorageOK
<1> HIDE DEF msg
<1>10. /\ s2.messages \in Seq(Message)
       /\ Len(s2.messages) = n
       /\ s2.messages[n] = msg
       /\ \A i \in 1..Len(s.messages) : s2.messages[i] = s.messages[i]
  BY <1>1, <1>9, AppendProperties
<1>11. ASSUME NEW w \in Views, NotAhead(s, w)
       PROVE  NotAhead(s2, w)
  <2>1. \A k : Timestamp(w, k) \in Nat
    BY TimestampType
  <2> QED
    BY <2>1, <1>2, <1>6, <1>11 DEF NotAhead, stamp
<1>12. NotAhead(s2, view)
  BY <1>2, <1>3, <1>4, <1>6 DEF NotAhead
<1>13. NotAhead(s2, sent)
  BY <1>2, <1>3, <1>6, <1>7 DEF NotAhead
<1>14. \A i \in 1..n : NotAhead(s2, s2.messages[i].view)
  <2> TAKE i \in 1..n
  <2>1. CASE i = n
    BY <2>1, <1>9, <1>10, <1>13
  <2>2. CASE i \in 1..Len(s.messages)
    <3>1. s.messages[i].view \in Views /\ NotAhead(s, s.messages[i].view)
      BY <2>2, MessageType DEF StorageOK
    <3> QED
      BY <2>2, <3>1, <1>10, <1>11
  <2>3. Len(s.messages) \in Nat
    BY MessageType
  <2> QED
    BY <2>1, <2>2, <2>3
<1>15. \A u : View(s2, u) \in Views /\ NotAhead(s2, View(s2, u))
  BY <1>4, <1>8, <1>11, <1>12, ViewType
<1>16. s2 = [messages |-> s2.messages, views |-> s2.views, stamps |-> s2.stamps]
  BY <1>1
<1>17. StorageOK(s2)
  BY <1>6, <1>8, <1>10, <1>14, <1>15, <1>16 DEF StorageOK
<1>18. Stamp(s2, n) = stamp
  BY <1>7, <1>9, <1>10 DEF Stamp
<1>19. Releases(m) => s2.messages[n].view = View(s2, t)
  BY <1>8, <1>9, <1>10 DEF sent
<1> QED
  BY <1>4, <1>6, <1>8, <1>9, <1>10, <1>17, <1>18, <1>19 DEF Written, stamp

LEMMA WriteStamped ==
  ASSUME NEW s, StorageOK(s), Stamped(s),
         NEW t \in Threads, NEW l \in Locations, NEW v, NEW m,
         NEW s2, StorageOK(s2), Written(s, t, l, v, m, s2)
  PROVE  Stamped(s2)
<1> DEFINE n == Len(s.messages) + 1
<1>1. Len(s.messages) \in Nat /\ n \in 1..n /\ Len(s2.messages) = n
  BY MessageType DEF Written
<1>2. \A k : Newest(s, k) \in Nat
  BY TimestampType DEF Newest, StorageOK
<1>3. s2.messages[n].loc = l /\ Stamp(s2, n) = Newest(s, l) + 1
  BY DEF Written
<1>4. \A i \in 1..Len(s.messages) :
        s2.messages[i].loc = s.messages[i].loc /\ Stamp(s2, i) = Stamp(s, i)
  BY DEF Written, Stamp
<1>5. \A k : Newest(s2, k) = IF k = l THEN Newest(s, l) + 1 ELSE Newest(s, k)
  BY DEF Written
<1>6. \A i \in 1..n : i = n \/ i \in 1..Len(s.messages)
  BY <1>1
<1>7. \A i \in 1..n : Stamp(s2, i) \in 1..Newest(s2, s2.messages[i].loc)
  <2> TAKE i \in 1..n
  <2>1. CASE i = n
    BY <2>1, <1>2, <1>3, <1>5
  <2>2. CASE i \in 1..Len(s.messages)
    <3>1. Stamp(s, i) \in 1..Newest(s, s.messages[i].loc)
      BY <2>2 DEF Stamped
    <3> QED
      BY <2>2, <3>1, <1>2, <1>4, <1>5
  <2> QED
    BY <2>1, <2>2, <1>6
<1>8. ASSUME NEW k \in Locations, NEW x \in 1..Newest(s2, k)
      PROVE  \E i \in 1..n : s2.messages[i].loc = k /\ Stamp(s2, i) = x
  <2>1. CASE k = l /\ x = Newest(s, l) + 1
    BY <2>1, <1>1, <1>3
  <2>2. CASE x \in 1..Newest(s, k)
    <3>1. PICK i \in 1..Len(s.messages) : s.messages[i].loc = k /\ Stamp(s, i) = x
      BY <2>2 DEF Stamped
    <3> QED
      BY <3>1, <1>1, <1>4
  <2> QED
    BY <2>1, <2>2, <1>2, <1>5
<1>9. ASSUME NEW i \in 1..n, NEW j \in 1..n, i < j, s2.messages[i].loc = s2.messages[j].loc
      PROVE  Stamp(s2, i) < Stamp(s2, j)
  <2>1. i \in 1..Len(s.messages)
    BY <1>1, <1>9
  <2>2. CASE j = n
    <3>1. Stamp(s, i) \in 1..Newest(s, s.messages[i].loc)
      BY <2>1 DEF Stamped
    <3>2. s.messages[i].loc = l
      BY <2>1, <2>2, <1>3, <1>4, <1>9
    <3> QED
      BY <2>1, <2>2, <3>1, <3>2, <1>2, <1>3, <1>4
  <2>3. CASE j \in 1..Len(s.messages)
    BY <2>1, <2>3, <1>4, <1>9 DEF Stamped
  <2> QED
    BY <2>2, <2>3, <1>6
<1> QED
  BY <1>1, <1>7, <1>8, <1>9 DEF Stamped

LEMMA WriteAdvances ==
  ASSUME NEW s, StorageOK(s), NEW t, NEW l \in Locations, NEW v, NEW m,
         NEW s2, Written(s, t, l, v, m, s2)
  PROVE  \A u, k : Timestamp(View(s2, u), k) >= Timestamp(View(s, u), k)
<1> TAKE u, k
<1>1. \A w, j : Timestamp(View(s, w), j) \in Nat
  BY ViewType, TimestampType
<1>2. Newest(s, l) \in Nat
  BY TimestampType DEF Newest, StorageOK
<1>3. CASE u = t
  <2>1. Timestamp(View(s, t), l) <= Newest(s, l)
    BY ViewType DEF NotAhead
  <2>2. Timestamp(View(s2, t), k) =
          IF k = l THEN Newest(s, l) + 1 ELSE Timestamp(View(s, t), k)
    BY DEF Written
  <2> QED
    BY <2>1, <2>2, <1>1, <1>2, <1>3
<1>4. CASE u # t
  <2>1. View(s2, u) = View(s, u)
    BY <1>4 DEF Written
  <2> QED
    BY <2>1, <1>1
<1> QED
  BY <1>3, <1>4

LEMMA PrepareOK ==
  ASSUME NEW s, StorageOK(s), NEW t \in Threads
  PROVE  /\ StorageOK(PrepareThread(s, t)) /\ SameMessages(s, PrepareThread(s, t))
         /\ \A u : View(PrepareThread(s, t), u) = View(s, u)
<1>1. CASE t \in DOMAIN s.views
  BY <1>1 DEF PrepareThread, SameMessages
<1>2. CASE t \notin DOMAIN s.views
  <2>1. PrepareThread(s, t) = [s EXCEPT !.views = Put(@, t, EmptyMap)]
    BY <1>2 DEF PrepareThread
  <2>2. View(s, t) = EmptyMap
    BY <1>2 DEF View, At
  <2>3. EmptyMap \in Views /\ NotAhead(s, EmptyMap)
    BY <2>2, ViewType
  <2> QED
    BY <2>1, <2>2, <2>3, SetViewOK
<1> QED
  BY <1>1, <1>2

LEMMA IncreaseOK ==
  ASSUME NEW s, StorageOK(s), NEW t \in Threads, NEW l \in IncreaseLocations(s, t)
  PROVE  /\ StorageOK(Increase(s, t, l)) /\ SameMessages(s, Increase(s, t, l))
         /\ \A u, k : Timestamp(View(Increase(s, t, l), u), k) >= Timestamp(View(s, u), k)
<1> DEFINE own  == Timestamp(View(s, t), l)
           view == Put(View(s, t), l, own + 1)
           s2   == Increase(s, t, l)
<1>1. /\ l \in DOMAIN s.stamps /\ l \in Locations
      /\ Newest(s, l) = s.stamps[l] /\ own < Newest(s, l)
      /\ At(s.stamps, l, 0) = Newest(s, l)
  BY ViewElements DEF IncreaseLocations, Newest, Timestamp, At, StorageOK
<1>2. View(s, t) \in Views /\ NotAhead(s, View(s, t))
  BY ViewType
<1>3. \A k : Timestamp(View(s, t), k) \in Nat /\ Newest(s, k) \in Nat
  BY <1>2, TimestampType DEF Newest, StorageOK
<1>4. /\ view \in Views
      /\ \A k : Timestamp(view, k) = IF k = l THEN own + 1 ELSE Timestamp(View(s, t), k)
  BY <1>1, <1>2, <1>3, PutView
<1>5. NotAhead(s, view)
  <2> HIDE DEF view
  <2> QED
    BY <1>1, <1>2, <1>3, <1>4 DEF NotAhead
<1>6. Put(s.stamps, l, Newest(s, l)) = s.stamps
  BY <1>1 DEF Put, StorageOK, Views
<1>7. s2 = [s EXCEPT !.views = Put(@, t, view)]
  BY <1>1, <1>6 DEF Increase, StorageOK
<1>8. /\ StorageOK(s2) /\ SameMessages(s, s2)
      /\ View(s2, t) = view
      /\ \A u : u # t => View(s2, u) = View(s, u)
  BY <1>4, <1>5, <1>7, SetViewOK
<1>9. \A u, k : Timestamp(View(s, u), k) \in Nat
  BY ViewType, TimestampType
<1> HIDE DEF s2, view
<1>10. \A u, k : Timestamp(View(s2, u), k) >= Timestamp(View(s, u), k)
  <2> TAKE u, k
  <2>1. CASE u = t
    BY <2>1, <1>3, <1>4, <1>8
  <2>2. CASE u # t
    BY <2>2, <1>8, <1>9
  <2> QED
    BY <2>1, <2>2
<1> QED
  BY <1>8, <1>10 DEF s2

----------------------------------------------------------------------------
(* History: a set of messages is covered by a view that has none of them    *)
(* ahead of it.  Threads cover what happened before their present, messages *)
(* what they hand on.                                                       *)

Covers(s, view, past) ==
  \A i \in past :
    i \in 1..Len(s.messages) /\ Stamp(s, i) <= Timestamp(view, s.messages[i].loc)

Consistent(s, know, carry) ==
  /\ StorageOK(s) /\ Stamped(s)
  /\ know \in [Threads -> SUBSET Nat]
  /\ carry \in Seq(SUBSET Nat) /\ Len(carry) = Len(s.messages)
  /\ \A t \in Threads : Covers(s, View(s, t), know[t])
  /\ \A j \in 1..Len(s.messages) : Covers(s, s.messages[j].view, carry[j])

IInv == Consistent(storage, known, carries)

LEMMA CoversMore ==
  ASSUME NEW s, StorageOK(s), NEW s2,
         NEW past, NEW view \in Views, NEW view2 \in Views,
         Covers(s, view, past),
         Len(s2.messages) \in Nat, Len(s.messages) <= Len(s2.messages),
         \A i \in 1..Len(s.messages) : s2.messages[i] = s.messages[i],
         \A k : Timestamp(view2, k) >= Timestamp(view, k)
  PROVE  Covers(s2, view2, past)
<1> SUFFICES ASSUME NEW i \in past
             PROVE  /\ i \in 1..Len(s2.messages)
                    /\ Stamp(s2, i) <= Timestamp(view2, s2.messages[i].loc)
  BY DEF Covers
<1>1. i \in 1..Len(s.messages) /\ Stamp(s, i) <= Timestamp(view, s.messages[i].loc)
  BY DEF Covers
<1>2. Len(s.messages) \in Nat /\ Stamp(s, i) \in Nat
  BY <1>1, MessageType
<1>3. s2.messages[i] = s.messages[i] /\ Stamp(s2, i) = Stamp(s, i)
  BY <1>1 DEF Stamp
<1>4. /\ Timestamp(view, s.messages[i].loc) \in Nat
      /\ Timestamp(view2, s.messages[i].loc) \in Nat
  BY TimestampType
<1>5. Timestamp(view2, s.messages[i].loc) >= Timestamp(view, s.messages[i].loc)
  OBVIOUS
<1> QED
  BY <1>1, <1>2, <1>3, <1>4, <1>5

\* While no message is added and no view goes back, what was covered stays so.
LEMMA AdvanceKeeps ==
  ASSUME NEW s, NEW know, NEW carry, Consistent(s, know, carry),
         NEW s2, StorageOK(s2), SameMessages(s, s2),
         \A u, k : Timestamp(View(s2, u), k) >= Timestamp(View(s, u), k)
  PROVE  Consistent(s2, know, carry)
<1>1. StorageOK(s) /\ Stamped(s) /\ s2.messages = s.messages
  BY DEF Consistent, SameMessages
<1>2. Stamped(s2)
  BY <1>1, SameStamped
<1>3. Len(s.messages) \in Nat
  BY <1>1, MessageType
<1>4. ASSUME NEW u \in Threads
      PROVE  Covers(s2, View(s2, u), know[u])
  <2>1. Covers(s, View(s, u), know[u])
    BY DEF Consistent
  <2>2. View(s, u) \in Views /\ View(s2, u) \in Views
    BY <1>1, ViewType
  <2>3. Len(s.messages) <= Len(s2.messages) /\ Len(s2.messages) \in Nat
    BY <1>1, <1>3
  <2> QED
    BY <1>1, <2>1, <2>2, <2>3, CoversMore
<1>5. ASSUME NEW view, NEW past, Covers(s, view, past)
      PROVE  Covers(s2, view, past)
  BY <1>1, <1>5 DEF Covers, Stamp
<1> QED
  BY <1>1, <1>2, <1>4, <1>5 DEF Consistent

LEMMA ReadKeeps ==
  ASSUME IInv, NEW t \in Threads, NEW l \in Locations, NEW m
  PROVE  Consistent(Read(storage, t, l, m).storage,
                    [known EXCEPT ![t] = Learnt(t, l, m)], carries)
<1> DEFINE s2   == Read(storage, t, l, m).storage
           from == ReadFrom(storage, t, l)
<1>1. StorageOK(storage) /\ Stamped(storage)
  BY DEF IInv, Consistent
<1>2. /\ StorageOK(s2) /\ SameMessages(storage, s2)
      /\ \A u, k : Timestamp(View(s2, u), k) >= Timestamp(View(storage, u), k)
      /\ Acquires(m) => \A i \in from : \A k :
           Timestamp(View(s2, t), k) >= Timestamp(storage.messages[i].view, k)
  BY <1>1, ReadOK
<1> HIDE DEF s2
<1>3. Consistent(s2, known, carries)
  BY <1>2, AdvanceKeeps DEF IInv
<1>4. s2.messages = storage.messages /\ Len(storage.messages) \in Nat
  BY <1>1, <1>2, MessageType DEF SameMessages
<1>5. View(storage, t) \in Views /\ View(s2, t) \in Views
  BY <1>1, <1>2, ViewType
<1>6. \A i \in from : /\ i \in 1..Len(storage.messages)
                      /\ storage.messages[i].loc = l
                      /\ Stamp(storage, i) = Timestamp(View(storage, t), l)
  BY <1>1, <1>4, MessageType DEF ReadFrom, Stamp
<1>7. Covers(s2, View(s2, t), from)
  <2> SUFFICES ASSUME NEW i \in from
               PROVE  /\ i \in 1..Len(s2.messages)
                      /\ Stamp(s2, i) <= Timestamp(View(s2, t), s2.messages[i].loc)
    BY DEF Covers
  <2>1. Stamp(s2, i) = Timestamp(View(storage, t), l)
    BY <1>4, <1>6 DEF Stamp
  <2>2. Timestamp(View(storage, t), l) \in Nat /\ Timestamp(View(s2, t), l) \in Nat
    BY <1>5, TimestampType
  <2>3. Timestamp(View(s2, t), l) >= Timestamp(View(storage, t), l)
    BY <1>2
  <2> QED
    BY <1>4, <1>6, <2>1, <2>2, <2>3
<1>8. ASSUME Acquires(m), NEW i \in from
      PROVE  Covers(s2, View(s2, t), carries[i])
  <2>1. i \in 1..Len(storage.messages)
    BY <1>6
  <2>2. Covers(storage, storage.messages[i].view, carries[i])
    BY <2>1 DEF IInv, Consistent
  <2>3. storage.messages[i].view \in Views
    BY <2>1, <1>1, MessageType
  <2>4. \A k : Timestamp(View(s2, t), k) >= Timestamp(storage.messages[i].view, k)
    BY <1>2, <1>8
  <2>5. Len(storage.messages) <= Len(s2.messages) /\ Len(s2.messages) \in Nat
    BY <1>4
  <2> QED
    BY <1>1, <1>4, <1>5, <2>2, <2>3, <2>4, <2>5, CoversMore
<1>9. Covers(s2, View(s2, t), known[t])
  BY <1>3 DEF Consistent
<1>10. Covers(s2, View(s2, t), Learnt(t, l, m))
  <2>1. Learnt(t, l, m) = known[t] \cup from \cup
          IF Acquires(m) THEN UNION {carries[i] : i \in from} ELSE {}
    BY DEF Learnt
  <2> HIDE DEF from
  <2> QED
    BY <2>1, <1>7, <1>8, <1>9 DEF Covers
<1>11. Learnt(t, l, m) \in SUBSET Nat
  BY <1>4, <1>10 DEF Covers
<1>12. Consistent(s2, [known EXCEPT ![t] = Learnt(t, l, m)], carries)
  BY <1>3, <1>10, <1>11 DEF Consistent
<1> QED
  BY <1>12 DEF s2

LEMMA WriteKeeps ==
  ASSUME NEW s, NEW know, NEW carry, Consistent(s, know, carry),
         NEW t \in Threads, NEW l \in Locations, NEW v \in Values, NEW m,
         NEW s2, s2 = Write(s, t, l, v, m),
         NEW new, new = Len(s.messages) + 1
  PROVE  Consistent(s2, [know EXCEPT ![t] = know[t] \cup {new}],
                    Append(carry, IF Releases(m) THEN know[t] \cup {new} ELSE {new}))
<1> DEFINE know2  == [know EXCEPT ![t] = know[t] \cup {new}]
           sent   == IF Releases(m) THEN know[t] \cup {new} ELSE {new}
           carry2 == Append(carry, sent)
<1>1. StorageOK(s) /\ Stamped(s) /\ know \in [Threads -> SUBSET Nat]
      /\ carry \in Seq(SUBSET Nat) /\ Len(carry) = Len(s.messages)
  BY DEF Consistent
<1>2. StorageOK(s2) /\ Written(s, t, l, v, m, s2)
  BY <1>1, WriteOK
<1>3. Stamped(s2)
  BY <1>1, <1>2, WriteStamped
<1>4. Len(s.messages) \in Nat /\ Len(s2.messages) = new
      /\ Len(s2.messages) \in Nat /\ Len(s.messages) <= Len(s2.messages)
      /\ \A i \in 1..Len(s.messages) : s2.messages[i] = s.messages[i]
  BY <1>1, <1>2, MessageType DEF Written
<1>5. \A u : View(s, u) \in Views /\ View(s2, u) \in Views
  BY <1>1, <1>2, ViewType
<1>6. \A u, k : Timestamp(View(s2, u), k) >= Timestamp(View(s, u), k)
  BY <1>1, <1>2, WriteAdvances
<1>7. ASSUME NEW u \in Threads
      PROVE  Covers(s2, View(s2, u), know[u])
  <2>1. Covers(s, View(s, u), know[u])
    BY DEF Consistent
  <2> QED
    BY <1>1, <1>4, <1>5, <1>6, <2>1, CoversMore
<1>8. Stamp(s2, new) = Newest(s, l) + 1 /\ s2.messages[new].loc = l
  BY <1>4, <1>2 DEF Written
<1>9. Covers(s2, View(s2, t), {new})
  <2>1. Timestamp(View(s2, t), l) = Newest(s, l) + 1
    BY <1>2 DEF Written
  <2>2. Newest(s, l) \in Nat
    BY <1>1, TimestampType DEF Newest, StorageOK
  <2> QED
    BY <1>4, <1>8, <2>1, <2>2 DEF Covers
<1>10. Covers(s2, s2.messages[new].view, {new})
  <2>1. Stamp(s2, new) \in Nat /\ new \in 1..Len(s2.messages)
    BY <1>2, <1>4, MessageType
  <2> QED
    BY <2>1 DEF Covers, Stamp
<1>11. know[t] \cup {new} \in SUBSET Nat /\ sent \in SUBSET Nat
  BY <1>1, <1>4
<1>12. Covers(s2, View(s2, t), know[t] \cup {new})
  BY <1>7, <1>9 DEF Covers
<1>13. Covers(s2, s2.messages[new].view, sent)
  <2>1. Releases(m) => s2.messages[new].view = View(s2, t)
    BY <1>2, <1>4 DEF Written
  <2> QED
    BY <2>1, <1>10, <1>12
<1> HIDE DEF sent
<1>14. /\ carry2 \in Seq(SUBSET Nat) /\ Len(carry2) = new
       /\ carry2[new] = sent
       /\ \A j \in 1..Len(s.messages) : carry2[j] = carry[j]
  BY <1>1, <1>4, <1>11, AppendProperties
<1> HIDE DEF carry2
<1>15. ASSUME NEW j \in 1..Len(s2.messages)
       PROVE  Covers(s2, s2.messages[j].view, carry2[j])
  <2>1. CASE j = new
    BY <2>1, <1>13, <1>14
  <2>2. CASE j \in 1..Len(s.messages)
    <3>1. Covers(s, s.messages[j].view, carry[j])
      BY <2>2 DEF Consistent
    <3>2. \A i \in 1..Len(s.messages) :
            /\ s2.messages[i].loc = s.messages[i].loc
            /\ Stamp(s2, i) = Stamp(s, i)
            /\ i \in 1..Len(s2.messages)
      BY <1>4 DEF Stamp
    <3>3. Covers(s2, s.messages[j].view, carry[j])
      BY <3>1, <3>2 DEF Covers
    <3> QED
      BY <2>2, <3>3, <1>4, <1>14
  <2> QED
    BY <2>1, <2>2, <1>4
<1>16. /\ know2 \in [Threads -> SUBSET Nat]
       /\ \A u \in Threads : Covers(s2, View(s2, u), know2[u])
  BY <1>1, <1>7, <1>11, <1>12
<1>17. Consistent(s2, know2, carry2)
  <2> HIDE DEF know2
  <2> QED
    BY <1>2, <1>3, <1>4, <1>14, <1>15, <1>16 DEF Consistent
<1> QED
  BY <1>17 DEF know2, carry2, sent

----------------------------------------------------------------------------
(* The invariant and what it implies. *)

LEMMA InitIInv == Init => IInv
<1> SUFFICES ASSUME Init PROVE IInv
  OBVIOUS
<1>1. storage = [messages |-> <<>>, views |-> EmptyMap, stamps |-> EmptyMap]
  BY DEF Init, New
<1>2. storage.messages \in Seq(Message) /\ Len(storage.messages) = 0
  BY <1>1, EmptySeq
<1>3. storage.views = EmptyMap /\ DOMAIN EmptyMap = {}
  BY <1>1 DEF EmptyMap
<1>4. StorageOK(storage)
  BY <1>1, <1>2, <1>3, EmptyView DEF StorageOK
<1>5. \A l : Newest(storage, l) = 0
  BY <1>1, EmptyView DEF Newest
<1>6. Stamped(storage)
  BY <1>2, <1>5 DEF Stamped
<1>7. /\ known \in [Threads -> SUBSET Nat] /\ \A t \in Threads : known[t] = {}
      /\ carries \in Seq(SUBSET Nat) /\ Len(carries) = 0
  BY EmptySeq DEF Init
<1>8. \A t \in Threads : Covers(storage, View(storage, t), known[t])
  BY <1>7 DEF Covers
<1> QED
  BY <1>2, <1>4, <1>6, <1>7, <1>8 DEF IInv, Consistent

LEMMA StoreKeeps ==
  ASSUME IInv, NEW t \in Threads, NEW l \in Locations, NEW v \in Operands, NEW m,
         Store(t, l, v, m)
  PROVE  IInv'
<1>1. v \in Values
  BY ConstantsAssumption
<1>2. /\ storage' = Write(storage, t, l, v, m)
      /\ known' = [known EXCEPT ![t] = known[t] \cup {Len(storage.messages) + 1}]
      /\ carries' = Append(carries, IF Releases(m) THEN known[t] \cup {Len(storage.messages) + 1}
                                                   ELSE {Len(storage.messages) + 1})
  BY DEF Store, Publishes
<1> QED
  BY <1>1, <1>2, WriteKeeps DEF IInv

\* The common part of cas and fai: a read, and a write that nothing comes between.
LEMMA ModifyKeeps ==
  ASSUME IInv, NEW t \in Threads, NEW l \in Locations, NEW v \in Values, NEW m,
         storage' = Write(Read(storage, t, l, m).storage, t, l, v, m),
         Publishes(t, Learnt(t, l, m), m)
  PROVE  IInv'
<1> DEFINE s    == Read(storage, t, l, m).storage
           know == [known EXCEPT ![t] = Learnt(t, l, m)]
           new  == Len(storage.messages) + 1
<1>1. Consistent(s, know, carries)
  BY ReadKeeps
<1>2. Len(s.messages) + 1 = new
  <2>1. SameMessages(storage, s)
    BY ReadOK DEF IInv, Consistent
  <2> QED
    BY <2>1 DEF SameMessages
<1>3. know[t] = Learnt(t, l, m) /\ [know EXCEPT ![t] = know[t] \cup {new}]
                                     = [known EXCEPT ![t] = Learnt(t, l, m) \cup {new}]
  <2>1. known \in [Threads -> SUBSET Nat]
    BY DEF IInv, Consistent
  <2> QED
    BY <2>1
<1>4. /\ known' = [known EXCEPT ![t] = Learnt(t, l, m) \cup {new}]
      /\ carries' = Append(carries, IF Releases(m) THEN Learnt(t, l, m) \cup {new} ELSE {new})
  BY DEF Publishes
<1> HIDE DEF s, know, new
<1>5. Consistent(storage', [know EXCEPT ![t] = know[t] \cup {new}],
                 Append(carries, IF Releases(m) THEN know[t] \cup {new} ELSE {new}))
  <2>1. storage' = Write(s, t, l, v, m)
    BY DEF s
  <2> QED
    BY <1>1, <1>2, <2>1, WriteKeeps
<1> QED
  BY <1>3, <1>4, <1>5 DEF IInv

\* The invariant holds after every step, whichever thread takes it.
LEMMA NextIInv == IInv /\ [Next]_vars => IInv'
<1> SUFFICES ASSUME IInv, [Next]_vars PROVE IInv'
  OBVIOUS
<1>1. StorageOK(storage) /\ Stamped(storage)
  BY DEF IInv, Consistent
<1>2. CASE UNCHANGED vars
  BY <1>2 DEF IInv, vars
<1>3. ASSUME NEW t \in Threads, Prepare(t)
      PROVE  IInv'
  <2>1. storage' = PrepareThread(storage, t) /\ known' = known /\ carries' = carries
    BY <1>3 DEF Prepare
  <2>2. /\ StorageOK(storage') /\ SameMessages(storage, storage')
        /\ \A u : View(storage', u) = View(storage, u)
    BY <1>1, <2>1, PrepareOK
  <2>3. \A u, k : Timestamp(View(storage, u), k) \in Nat
    BY <1>1, ViewType, TimestampType
  <2>4. \A u, k : Timestamp(View(storage', u), k) >= Timestamp(View(storage, u), k)
    BY <2>2, <2>3
  <2> QED
    BY <2>1, <2>2, <2>4, AdvanceKeeps DEF IInv
<1>4. ASSUME NEW t \in Threads, Epsilon(t)
      PROVE  IInv'
  <2>1. PICK l \in IncreaseLocations(storage, t) : storage' = Increase(storage, t, l)
    BY <1>4 DEF Epsilon, EpsStorages
  <2>2. known' = known /\ carries' = carries
    BY <1>4 DEF Epsilon
  <2>3. /\ StorageOK(storage') /\ SameMessages(storage, storage')
        /\ \A u, k : Timestamp(View(storage', u), k) >= Timestamp(View(storage, u), k)
    BY <1>1, <2>1, IncreaseOK
  <2> QED
    BY <2>2, <2>3, AdvanceKeeps DEF IInv
<1>5. ASSUME NEW t \in Threads, NEW l \in Locations, NEW m, Load(t, l, m)
      PROVE  IInv'
  BY <1>5, ReadKeeps DEF Load, IInv
<1>6. ASSUME NEW t \in Threads, NEW l \in Locations, NEW v \in Operands, NEW e, NEW m,
             Cas(t, l, e, v, m)
      PROVE  IInv'
  BY <1>6, ModifyKeeps, ConstantsAssumption DEF Cas
<1>7. ASSUME NEW t \in Threads, NEW l \in Locations, NEW v \in Operands, NEW m,
             Fai(t, l, v, m)
      PROVE  IInv'
  BY <1>7, ModifyKeeps DEF Fai
<1> QED
  BY <1>2, <1>3, <1>4, <1>5, <1>6, <1>7, StoreKeeps DEF Next, CasFails

LEMMA IInvType == IInv => TypeOK
<1> SUFFICES ASSUME IInv PROVE TypeOK
  OBVIOUS
<1>1. StorageOK(storage) /\ Len(carries) = Len(storage.messages)
  BY DEF IInv, Consistent
<1>2. DOMAIN storage.messages = 1..Len(storage.messages)
  BY <1>1, MessageType
<1>3. ASSUME NEW view \in Range(storage.views)
                            \cup {storage.messages[i].view : i \in DOMAIN storage.messages}
      PROVE  view \in Views /\ NotAhead(storage, view)
  <2>1. CASE view \in Range(storage.views)
    BY <2>1, <1>1 DEF Range, StorageOK
  <2>2. CASE \E i \in 1..Len(storage.messages) : view = storage.messages[i].view
    BY <2>2, <1>1, MessageType DEF StorageOK
  <2> QED
    BY <2>1, <2>2, <1>2, <1>3
<1>4. ASSUME NEW view \in Views, NotAhead(storage, view), NEW l \in DOMAIN view
      PROVE  view[l] \in 1..At(storage.stamps, l, 0)
  <2>1. l \in Locations /\ view[l] \in Nat \ {0}
    BY ViewElements
  <2>2. Timestamp(view, l) = view[l] /\ Newest(storage, l) = At(storage.stamps, l, 0)
    BY DEF Timestamp, Newest, At
  <2>3. Newest(storage, l) \in Nat
    BY <1>1, TimestampType DEF Newest, StorageOK
  <2>4. Timestamp(view, l) <= Newest(storage, l)
    BY <1>4, <2>1 DEF NotAhead
  <2> QED
    BY <2>1, <2>2, <2>3, <2>4
<1>5. DOMAIN storage.stamps \subseteq Locations /\ DOMAIN storage.views \subseteq Threads
  BY <1>1, ViewElements DEF StorageOK
<1>6. \A i \in DOMAIN storage.messages :
        storage.messages[i].loc \in Locations /\ storage.messages[i].val \in Values
  BY <1>1, <1>2, MessageType
<1> QED
  BY <1>1, <1>3, <1>4, <1>5, <1>6 DEF TypeOK

LEMMA IInvOneMessage == IInv => OneMessagePerTimestamp
<1> SUFFICES ASSUME IInv, NEW l \in Locations
             PROVE  LET stored == {i \in DOMAIN storage.messages : storage.messages[i].loc = l}
                        newest == At(storage.stamps, l, 0)
                    IN  /\ \A i \in stored : StampOf(i) \in 1..newest
                        /\ \A n \in 1..newest : \E i \in stored : StampOf(i) = n
                        /\ \A i, j \in stored : i < j => StampOf(i) < StampOf(j)
  BY DEF OneMessagePerTimestamp
<1>1. StorageOK(storage) /\ Stamped(storage)
  BY DEF IInv, Consistent
<1>2. DOMAIN storage.messages = 1..Len(storage.messages)
  BY <1>1, MessageType
<1>3. \A i : StampOf(i) = Stamp(storage, i)
  BY DEF StampOf, Stamp
<1>4. Newest(storage, l) = At(storage.stamps, l, 0)
  BY DEF Newest, Timestamp
<1> QED
  BY <1>1, <1>2, <1>3, <1>4 DEF Stamped

LEMMA IInvCausality == IInv => CausalityRespected
<1> SUFFICES ASSUME IInv, NEW t \in Threads, NEW i \in known[t]
             PROVE  Timestamp(View(storage, t), storage.messages[i].loc)
                      >= Timestamp(storage.messages[i].view, storage.messages[i].loc)
  BY DEF CausalityRespected
<1>1. StorageOK(storage) /\ Covers(storage, View(storage, t), known[t])
  BY DEF IInv, Consistent
<1>2. /\ i \in 1..Len(storage.messages)
      /\ Stamp(storage, i) <= Timestamp(View(storage, t), storage.messages[i].loc)
  BY <1>1 DEF Covers
<1>3. /\ Stamp(storage, i) \in Nat
      /\ Timestamp(View(storage, t), storage.messages[i].loc) \in Nat
  BY <1>1, <1>2, MessageType, ViewType, TimestampType
<1> QED
  BY <1>2, <1>3 DEF Stamp

----------------------------------------------------------------------------
(* The theorems. *)

LEMMA Invariance == Spec => []IInv
BY InitIInv, NextIInv, PTL DEF Spec

\* Type correctness of a storage subsystem with views: what prepare_thread,
\* read, write and the epsilon transitions leave in m_thread_views and
\* m_messages never runs ahead of m_location_timestamps.
THEOREM TypeCorrectness == Spec => []TypeOK
BY Invariance, IInvType, PTL

\* The search of SRAStorageSubsystem::read finds one message for every
\* timestamp a view can hold but 0, however threads and transitions interleave.
THEOREM MessageForEveryTimestamp == Spec => []OneMessagePerTimestamp
BY Invariance, IInvOneMessage, PTL

\* What happens before a thread's present is in its view: the joins of views in
\* read and the copies of them in write lose nothing.
THEOREM Causality == Spec => []CausalityRespected
BY Invariance, IInvCausality, PTL

LEMMA ModifyAdvances ==
  ASSUME NEW s, StorageOK(s), Stamped(s),
         NEW t \in Threads, NEW l \in Locations, NEW v \in Values, NEW m,
         NEW s2, s2 = Write(Read(s, t, l, m).storage, t, l, v, m)
  PROVE  \A u, k : Timestamp(View(s2, u), k) >= Timestamp(View(s, u), k)
<1> DEFINE r == Read(s, t, l, m).storage
<1>1. /\ StorageOK(r)
      /\ \A u, k : Timestamp(View(r, u), k) >= Timestamp(View(s, u), k)
  BY ReadOK
<1> HIDE DEF r
<1>2. StorageOK(s2) /\ Written(r, t, l, v, m, s2)
  BY <1>1, WriteOK DEF r
<1>3. \A u, k : Timestamp(View(s2, u), k) >= Timestamp(View(r, u), k)
  BY <1>1, <1>2, WriteAdvances
<1>4. \A u, k : /\ Timestamp(View(s, u), k) \in Nat
                /\ Timestamp(View(r, u), k) \in Nat
                /\ Timestamp(View(s2, u), k) \in Nat
  BY <1>1, <1>2, ViewType, TimestampType
<1> QED
  BY <1>1, <1>3, <1>4

LEMMA NextAdvances ==
  ASSUME IInv, Next
  PROVE  \A u, k : Timestamp(View(storage', u), k) >= Timestamp(View(storage, u), k)
<1>1. StorageOK(storage) /\ Stamped(storage)
  BY DEF IInv, Consistent
<1>2. \A u, k : Timestamp(View(storage, u), k) \in Nat
  BY <1>1, ViewType, TimestampType
<1> DEFINE Advanced == \A u, k : Timestamp(View(storage', u), k) >= Timestamp(View(storage, u), k)
<1>3. ASSUME NEW t \in Threads, Prepare(t)
      PROVE  Advanced
  <2>1. \A u : View(storage', u) = View(storage, u)
    BY <1>1, <1>3, PrepareOK DEF Prepare
  <2> QED
    BY <2>1, <1>2
<1>4. ASSUME NEW t \in Threads, Epsilon(t)
      PROVE  Advanced
  <2>1. PICK l \in IncreaseLocations(storage, t) : storage' = Increase(storage, t, l)
    BY <1>4 DEF Epsilon, EpsStorages
  <2> QED
    BY <1>1, <2>1, IncreaseOK
<1>5. ASSUME NEW t \in Threads, NEW l \in Locations, NEW m, Load(t, l, m)
      PROVE  Advanced
  BY <1>1, <1>5, ReadOK DEF Load
<1>6. ASSUME NEW t \in Threads, NEW l \in Locations, NEW v \in Operands, NEW m,
             Store(t, l, v, m)
      PROVE  Advanced
  <2>1. Written(storage, t, l, v, m, storage')
    BY <1>1, <1>6, WriteOK, ConstantsAssumption DEF Store
  <2> QED
    BY <1>1, <2>1, WriteAdvances
<1>7. ASSUME NEW t \in Threads, NEW l \in Locations, NEW v \in Operands, NEW e, NEW m,
             Cas(t, l, e, v, m)
      PROVE  Advanced
  BY <1>1, <1>7, ModifyAdvances, ConstantsAssumption DEF Cas
<1>8. ASSUME NEW t \in Threads, NEW l \in Locations, NEW v \in Operands, NEW m,
             Fai(t, l, v, m)
      PROVE  Advanced
  BY <1>1, <1>8, ModifyAdvances DEF Fai
<1> QED
  BY <1>3, <1>4, <1>5, <1>6, <1>7, <1>8 DEF Next, CasFails

\* No step of any thread takes back what a thread may see of any location: what
\* read assumes when it looks for its own timestamp only.
THEOREM Advance == Spec => ViewsOnlyAdvance
<1>1. IInv /\ [Next]_vars =>
        [\A t \in Threads, l \in Locations :
           Timestamp(View(storage', t), l) >= Timestamp(View(storage, t), l)]_vars
  BY NextAdvances
<1> QED
  BY <1>1, Invariance, PTL DEF Spec, ViewsOnlyAdvance

----------------------------------------------------------------------------
(* The release-acquire memory that the storage implements: its stores are   *)
(* the messages without their views, with the history of what they carry.   *)

Stores == [i \in DOMAIN storage.messages |->
             [loc     |-> storage.messages[i].loc,
              val     |-> storage.messages[i].val,
              carries |-> carries[i]]]

LEMMA AppendTo ==
  ASSUME NEW n \in Nat, NEW S, NEW f \in [1..n -> S], NEW e \in S
  PROVE  Append(f, e) = [i \in 1..n + 1 |-> IF i = n + 1 THEN e ELSE f[i]]
<1>1. f \in Seq(S) /\ Len(f) = n
  OBVIOUS
<1>2. /\ Append(f, e) \in Seq(S) /\ Len(Append(f, e)) = n + 1
      /\ \A i \in 1..n : Append(f, e)[i] = f[i]
      /\ Append(f, e)[n + 1] = e
  BY <1>1, AppendProperties
<1>3. Append(f, e) \in [1..n + 1 -> S]
  BY <1>2, LenProperties
<1>4. \A i \in 1..n + 1 : Append(f, e)[i] = IF i = n + 1 THEN e ELSE f[i]
  BY <1>2
<1> DEFINE g == Append(f, e)
<1> HIDE DEF g
<1>5. g = [i \in 1..n + 1 |-> g[i]]
  BY <1>3 DEF g
<1> QED
  BY <1>4, <1>5 DEF g

LEMMA StoresType ==
  ASSUME IInv
  PROVE  /\ DOMAIN Stores = 1..Len(storage.messages)
         /\ Len(Stores) = Len(storage.messages)
         /\ \A i \in 1..Len(storage.messages) :
              /\ Stores[i].loc = storage.messages[i].loc
              /\ Stores[i].val = storage.messages[i].val
              /\ Stores[i].carries = carries[i]
<1>1. DOMAIN storage.messages = 1..Len(storage.messages) /\ Len(storage.messages) \in Nat
  BY MessageType DEF IInv, Consistent
<1>2. DOMAIN Stores = 1..Len(storage.messages)
  BY <1>1 DEF Stores
<1>3. Len(Stores) = Len(storage.messages)
  BY <1>1 DEF Stores
<1> QED
  BY <1>1, <1>2, <1>3 DEF Stores

\* A read sees what a release-acquire memory offers.
LEMMA ReadSeen ==
  ASSUME IInv, NEW t \in Threads, NEW l \in Locations, NEW m
  PROVE  [value |-> Read(storage, t, l, m).value, past |-> Learnt(t, l, m)]
           \in Promise!Seen(t, l, Acquires(m))
<1> DEFINE from  == ReadFrom(storage, t, l)
           mine  == {k \in known[t] : Stores[k].loc = l}
           value == Read(storage, t, l, m).value
           seen  == [value |-> value, past |-> Learnt(t, l, m)]
<1>1. StorageOK(storage) /\ Stamped(storage)
      /\ Covers(storage, View(storage, t), known[t])
  BY DEF IInv, Consistent
<1>2. /\ DOMAIN Stores = 1..Len(storage.messages)
      /\ \A i \in 1..Len(storage.messages) :
           /\ Stores[i].loc = storage.messages[i].loc
           /\ Stores[i].val = storage.messages[i].val
           /\ Stores[i].carries = carries[i]
  BY StoresType
<1>3. Promise!Seen(t, l, Acquires(m)) =
        {[value |-> Stores[i].val,
          past  |-> known[t] \cup {i} \cup IF Acquires(m) THEN Stores[i].carries ELSE {}] :
            i \in {j \in DOMAIN Stores : Stores[j].loc = l /\ \A k \in mine : k <= j}}
        \cup IF mine = {} THEN {[value |-> 0, past |-> known[t]]} ELSE {}
  BY DEF Promise!Seen, Promise!KnownTo, Stores
<1>4. \A k \in mine : /\ k \in 1..Len(storage.messages)
                      /\ storage.messages[k].loc = l
                      /\ Stamp(storage, k) <= Timestamp(View(storage, t), l)
                      /\ Stamp(storage, k) \in Nat \ {0}
  BY <1>1, <1>2, MessageType DEF Covers, Stamped
<1>5. CASE from = {} /\ Timestamp(View(storage, t), l) = 0
  <2>1. mine = {}
    BY <1>4, <1>5
  <2>2. Learnt(t, l, m) = known[t] /\ value = 0
    BY <1>5 DEF Learnt, Read
  <2> HIDE DEF mine, value
  <2> QED
    BY <2>1, <2>2, <1>3 DEF value
<1>6. ASSUME NEW i \in 1..Len(storage.messages), from = {i},
             storage.messages[i].loc = l,
             Stamp(storage, i) = Timestamp(View(storage, t), l)
      PROVE  seen \in Promise!Seen(t, l, Acquires(m))
  <2>1. ASSUME NEW k \in mine
        PROVE  k <= i
    <3>1. /\ k \in 1..Len(storage.messages) /\ storage.messages[k].loc = l
          /\ Stamp(storage, k) <= Stamp(storage, i)
      BY <1>4, <1>6
    <3>2. Stamp(storage, k) \in Nat /\ Stamp(storage, i) \in Nat
          /\ Len(storage.messages) \in Nat
      BY <1>1, <3>1, MessageType
    <3>3. ~(i < k)
      BY <1>1, <1>6, <3>1, <3>2 DEF Stamped
    <3> QED
      BY <3>1, <3>2, <3>3
  <2>2. value = Stores[i].val
    <3>1. Min(from) = i
      BY <1>6, MinOfOne
    <3> QED
      BY <1>2, <1>6, <3>1 DEF Read
  <2>3. Learnt(t, l, m) =
          known[t] \cup {i} \cup IF Acquires(m) THEN Stores[i].carries ELSE {}
    BY <1>2, <1>6 DEF Learnt
  <2>4. i \in {j \in DOMAIN Stores : Stores[j].loc = l /\ \A k \in mine : k <= j}
    BY <1>2, <1>6, <2>1
  <2> HIDE DEF mine, value
  <2> QED
    BY <2>2, <2>3, <2>4, <1>3 DEF value
<1> QED
  BY <1>1, <1>5, <1>6, ReadsTheViewed

\* A write publishes: the next store of the memory, and what its author knows.
LEMMA WritePublishes ==
  ASSUME IInv, NEW t \in Threads, NEW l \in Locations, NEW v \in Values, NEW m,
         NEW r, StorageOK(r), SameMessages(storage, r),
         storage' = Write(r, t, l, v, m),
         NEW past, Publishes(t, past, m)
  PROVE  Promise!Publish(t, l, past)
<1> DEFINE n    == Len(storage.messages)
           sent == IF Releases(m) THEN past \cup {n + 1} ELSE {n + 1}
           new  == [loc |-> l, val |-> v, carries |-> sent]
<1>1. /\ n \in Nat /\ DOMAIN Stores = 1..n /\ Len(Stores) = n
      /\ storage.messages \in Seq(Message)
      /\ carries \in Seq(SUBSET Nat) /\ Len(carries) = n
  BY StoresType, MessageType DEF IInv, Consistent, StorageOK
<1>2. /\ StorageOK(storage') /\ Len(storage.messages') = n + 1
      /\ \A i \in 1..n : storage.messages'[i] = storage.messages[i]
      /\ storage.messages'[n + 1].loc = l /\ storage.messages'[n + 1].val = v
  BY WriteOK DEF Written, SameMessages
<1>3. DOMAIN storage.messages' = 1..n + 1
  BY <1>2, MessageType
<1>4. /\ known' = [known EXCEPT ![t] = past \cup {n + 1}]
      /\ carries' = Append(carries, sent)
  BY DEF Publishes
<1> HIDE DEF sent
<1>5. carries'[n + 1] = sent /\ \A i \in 1..n : carries'[i] = carries[i]
  BY <1>1, <1>4
<1>6. Stores' = [i \in 1..n + 1 |-> IF i = n + 1 THEN new ELSE Stores[i]]
  <2>1. Stores' = [i \in 1..n + 1 |-> [loc     |-> storage.messages'[i].loc,
                                       val     |-> storage.messages'[i].val,
                                       carries |-> carries'[i]]]
    BY <1>3 DEF Stores
  <2>2. \A i \in 1..n + 1 :
          [loc |-> storage.messages'[i].loc, val |-> storage.messages'[i].val,
           carries |-> carries'[i]] = IF i = n + 1 THEN new ELSE Stores[i]
    <3> TAKE i \in 1..n + 1
    <3>1. CASE i = n + 1
      BY <3>1, <1>2, <1>5
    <3>2. CASE i \in 1..n
      <4>1. Stores[i] = [loc     |-> storage.messages[i].loc,
                         val     |-> storage.messages[i].val,
                         carries |-> carries[i]]
        BY <1>1, <3>2 DEF Stores
      <4> QED
        BY <3>2, <4>1, <1>1, <1>2, <1>5
    <3> QED
      BY <3>1, <3>2, <1>1
  <2> QED
    BY <2>1, <2>2
<1>7. Append(Stores, new) = [i \in 1..n + 1 |-> IF i = n + 1 THEN new ELSE Stores[i]]
  <2> DEFINE S == {Stores[i] : i \in 1..n} \cup {new}
  <2> HIDE DEF new
  <2>1. Stores \in [1..n -> S] /\ new \in S
    BY <1>1 DEF Stores
  <2> HIDE DEF S
  <2> QED
    BY <1>1, <2>1, AppendTo
<1>8. Stores' = Append(Stores, new)
  BY <1>6, <1>7
<1>9. sent \in {past \cup {n + 1}, {n + 1}}
  BY DEF sent
<1>10. Promise!Publish(t, l, past) <=>
         /\ known' = [known EXCEPT ![t] = past \cup {Len(Stores) + 1}]
         /\ \E w \in Values, c \in {past \cup {Len(Stores) + 1}, {Len(Stores) + 1}} :
              Stores' = Append(Stores, [loc |-> l, val |-> w, carries |-> c])
  BY DEF Promise!Publish, Stores
<1> QED
  BY <1>1, <1>4, <1>8, <1>9, <1>10

LEMMA PromiseInit == Init => Promise!Init
<1> SUFFICES ASSUME Init PROVE Promise!Init
  OBVIOUS
<1>1. storage.messages = <<>>
  BY DEF Init, New
<1>2. Stores = <<>>
  BY <1>1 DEF Stores
<1> QED
  BY <1>2 DEF Init, Promise!Init, Stores

\* Every step of the storage is one of the memory, or is not visible in it:
\* preparing a thread and advancing its view change nothing but the view.
LEMMA PromiseNext == IInv /\ [Next]_vars => [Promise!Next]_(Promise!vars)
<1> SUFFICES ASSUME IInv, [Next]_vars PROVE [Promise!Next]_(Promise!vars)
  OBVIOUS
<1>1. StorageOK(storage) /\ Stamped(storage)
  BY DEF IInv, Consistent
<1>a. \A m : Acquires(m) \in BOOLEAN
  BY DEF Acquires
<1>2. ASSUME storage'.messages = storage.messages, UNCHANGED <<known, carries, answer>>
      PROVE  UNCHANGED Promise!vars
  BY <1>2 DEF Promise!vars
<1>3. CASE UNCHANGED vars
  BY <1>2, <1>3 DEF vars
<1>4. ASSUME NEW t \in Threads, Prepare(t)
      PROVE  UNCHANGED Promise!vars
  <2>1. SameMessages(storage, storage')
    BY <1>1, <1>4, PrepareOK DEF Prepare
  <2> QED
    BY <1>2, <1>4, <2>1 DEF Prepare, SameMessages
<1>5. ASSUME NEW t \in Threads, Epsilon(t)
      PROVE  UNCHANGED Promise!vars
  <2>1. PICK l \in IncreaseLocations(storage, t) : storage' = Increase(storage, t, l)
    BY <1>5 DEF Epsilon, EpsStorages
  <2>2. SameMessages(storage, storage')
    BY <1>1, <2>1, IncreaseOK
  <2> QED
    BY <1>2, <1>5, <2>2 DEF Epsilon, SameMessages
<1>6. ASSUME NEW t \in Threads, NEW l \in Locations, NEW m, Load(t, l, m)
      PROVE  Promise!Next
  <2> DEFINE seen == [value |-> Read(storage, t, l, m).value, past |-> Learnt(t, l, m)]
  <2>1. seen \in Promise!Seen(t, l, Acquires(m))
    BY ReadSeen
  <2>2. answer' = <<seen.value>> /\ known' = [known EXCEPT ![t] = seen.past]
    BY <1>6 DEF Load
  <2>3. Stores' = Stores
    <3>1. SameMessages(storage, storage')
      BY <1>1, <1>6, ReadOK DEF Load
    <3> QED
      BY <3>1, <1>6 DEF Load, Stores, SameMessages
  <2> HIDE DEF seen
  <2>4. Promise!Load(t, l, Acquires(m))
    BY <2>1, <2>2, <2>3 DEF Promise!Load, Stores
  <2> QED
    BY <2>4, <1>a, Zenon DEF Promise!Next
<1>7. ASSUME NEW t \in Threads, NEW l \in Locations, NEW v \in Operands, NEW m,
             Store(t, l, v, m)
      PROVE  Promise!Next
  <2>1. SameMessages(storage, storage) /\ v \in Values
    BY ConstantsAssumption DEF SameMessages
  <2>2. PICK past : past = known[t]
    OBVIOUS
  <2>3. storage' = Write(storage, t, l, v, m) /\ Publishes(t, past, m)
    BY <1>7, <2>2 DEF Store, Publishes
  <2>4. Promise!Publish(t, l, past)
    BY <1>1, <2>1, <2>3, WritePublishes
  <2>5. Promise!Publish(t, l, known[t])
    BY <2>2, <2>4 DEF Promise!Publish
  <2> QED
    BY <1>7, <2>5 DEF Store, Promise!Store, Promise!Next
<1>8. ASSUME NEW t \in Threads, NEW l \in Locations, NEW v \in Values, NEW m,
             storage' = Write(Read(storage, t, l, m).storage, t, l, v, m),
             answer' = <<Read(storage, t, l, m).value>>,
             Publishes(t, Learnt(t, l, m), m)
      PROVE  Promise!Next
  <2> DEFINE r == Read(storage, t, l, m).storage
  <2>1. PICK seen \in Promise!Seen(t, l, Acquires(m)) :
          seen = [value |-> Read(storage, t, l, m).value, past |-> Learnt(t, l, m)]
    BY ReadSeen
  <2>2. StorageOK(r) /\ SameMessages(storage, r)
    BY <1>1, ReadOK
  <2>3. Publishes(t, seen.past, m) /\ answer' = <<seen.value>>
    BY <1>8, <2>1 DEF Publishes
  <2>4. Promise!Publish(t, l, seen.past)
    BY <1>8, <2>2, <2>3, WritePublishes
  <2>5. Promise!Rmw(t, l, Acquires(m))
    BY <2>3, <2>4 DEF Promise!Rmw
  <2> QED
    BY <2>5, <1>a, Zenon DEF Promise!Next
<1>9. ASSUME NEW t \in Threads, NEW l \in Locations, NEW v \in Operands, NEW e, NEW m,
             Cas(t, l, e, v, m)
      PROVE  Promise!Next
  BY <1>8, <1>9, ConstantsAssumption DEF Cas
<1>10. ASSUME NEW t \in Threads, NEW l \in Locations, NEW v \in Operands, NEW m,
              Fai(t, l, v, m)
       PROVE  Promise!Next
  BY <1>8, <1>10 DEF Fai
<1> QED
  BY <1>3, <1>4, <1>5, <1>6, <1>7, <1>9, <1>10 DEF Next, CasFails

\* The storage implements a release-acquire memory: views, timestamps, and the
\* joins of them in SRAStorageSubsystem::read and write, return to every load,
\* cas and fai only what knowing the stores read, made and acquired allows.
THEOREM ReleaseAcquire == Spec => ImplementsReleaseAcquire
BY PromiseInit, PromiseNext, Invariance, PTL DEF Spec, ImplementsReleaseAcquire, Promise!Spec

=============================================================================
