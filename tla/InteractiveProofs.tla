-------------------------- MODULE InteractiveProofs --------------------------
(***************************************************************************)
(* Proofs about Interactive: whatever the user answers and wherever the     *)
(* input ends, for any programs the parser can return and any of the memory *)
(* models, the dialogue runs what the non-deterministic interpreter could.  *)
(***************************************************************************)
EXTENDS Interactive, ProgramStateProofs

Clocks(f) == f \in [DOMAIN f -> Nat]

\* Under PSO a thread that has queues has a location to offer; under SRA the
\* views, those of the messages too, and the timestamps are natural numbers.
StorageOK(m, s) ==
  /\ m = "pso" => \A t \in DOMAIN s.buffers : DOMAIN s.buffers[t] # {}
  /\ m = "sra" =>
       /\ s.views = [t \in DOMAIN s.views |-> s.views[t]]
       /\ \A t \in DOMAIN s.views : Clocks(s.views[t])
       /\ s.messages \in Seq({s.messages[i] : i \in DOMAIN s.messages})
       /\ \A i \in DOMAIN s.messages : Clocks(s.messages[i].view)
       /\ Clocks(s.stamps)

(***************************************************************************)
(* The invariant: the state is one the program can be in, a switch is never *)
(* forbidden, and past the dialogue about threads the current one is active *)
(* and, once a location is asked for, has one to offer.                     *)
(***************************************************************************)
IInv ==
  /\ name \in DOMAIN Programs
  /\ mm \in MemoryModels
  /\ at \in {"iteration", "thread", "move", "location", "done", "thrown", "rejected"}
  /\ StateOK(program, mm, state)
  /\ StorageOK(mm, state.storage)
  /\ state.allowed = TRUE
  /\ previous \in 0..state.next - 1
  /\ at \in {"move", "location"} => state.current \in Active(state)
  /\ at = "location" => mm \in {"pso", "sra"} /\ LocationsOffered(state) # {}

----------------------------------------------------------------------------
(* The storage keeps its shape. *)

LEMMA ClockMaps ==
  ASSUME NEW f, Clocks(f), NEW k
  PROVE  /\ Storage!SRA!At(f, k, 0) \in Nat
         /\ \A n \in Nat : Clocks(Storage!SRA!Put(f, k, n))
         /\ \A g : Clocks(g) => Clocks(Storage!SRA!Join(f, g))
<1>1. Storage!SRA!At(f, k, 0) \in Nat
  BY DEF Clocks, Storage!SRA!At
<1>2. ASSUME NEW n \in Nat
      PROVE  Clocks(Storage!SRA!Put(f, k, n))
  BY DEF Clocks, Storage!SRA!Put
<1>3. ASSUME NEW g, Clocks(g)
      PROVE  Clocks(Storage!SRA!Join(f, g))
  BY <1>3 DEF Clocks, Storage!SRA!Join, Storage!SRA!Timestamp, Storage!SRA!At
<1> QED
  BY <1>1, <1>2, <1>3

LEMMA NoClock == Clocks(Storage!SRA!EmptyMap)
BY DEF Clocks, Storage!SRA!EmptyMap

\* The view of any thread, one that was not prepared included.
LEMMA ViewClocks ==
  ASSUME NEW s, StorageOK("sra", s), NEW t
  PROVE  Clocks(Storage!SRA!View(s, t))
BY NoClock DEF StorageOK, Storage!SRA!View, Storage!SRA!At

\* A storage whose view of one thread is another one.
LEMMA ViewsOK ==
  ASSUME NEW s, StorageOK("sra", s), NEW t, NEW v, Clocks(v)
  PROVE  LET views == Storage!SRA!Put(s.views, t, v)
         IN  /\ views = [u \in DOMAIN views |-> views[u]]
             /\ \A u \in DOMAIN views : Clocks(views[u])
BY DEF StorageOK, Storage!SRA!Put

LEMMA MessagesOK ==
  ASSUME NEW s, StorageOK("sra", s), NEW msg, Clocks(msg.view)
  PROVE  LET messages == Append(s.messages, msg)
         IN  /\ messages \in Seq({messages[i] : i \in DOMAIN messages})
             /\ \A i \in DOMAIN messages : Clocks(messages[i].view)
<1> DEFINE S == {s.messages[i] : i \in DOMAIN s.messages}
           messages == Append(s.messages, msg)
<1>1. s.messages \in Seq(S) /\ \A i \in DOMAIN s.messages : Clocks(s.messages[i].view)
  BY DEF StorageOK
<1> HIDE DEF S
<1>2. s.messages \in Seq(S \cup {msg})
  BY <1>1
<1>3. /\ messages \in Seq(S \cup {msg})
      /\ DOMAIN messages = DOMAIN s.messages \cup {Len(s.messages) + 1}
      /\ messages[Len(s.messages) + 1] = msg
      /\ \A i \in DOMAIN s.messages : messages[i] = s.messages[i]
  BY <1>2
<1> HIDE DEF messages
<1>4. Len(messages) \in Nat /\ DOMAIN messages = 1..Len(messages)
  BY <1>3
<1>5. messages \in Seq({messages[i] : i \in DOMAIN messages})
  BY <1>3, <1>4
<1>6. \A i \in DOMAIN messages : Clocks(messages[i].view)
  BY <1>1, <1>3
<1> QED
  BY <1>5, <1>6 DEF messages

\* A non-empty set of positions has a first one.
LEMMA FirstPosition ==
  ASSUME NEW I, I \subseteq Nat, I # {}
  PROVE  Storage!SRA!Min(I) \in I
<1>1. PICK x \in I : \A y \in I : <<y, x>> \notin OpToRel(<, Nat)
  BY NatLessThanWellFounded, WFMin
<1>2. \A y \in I : ~(y < x)
  BY <1>1 DEF OpToRel
<1>3. \A y \in I : x <= y
  BY <1>2
<1> QED
  BY <1>3 DEF Storage!SRA!Min

LEMMA SRAKept ==
  ASSUME NEW s, StorageShape("sra", s), StorageOK("sra", s), NEW t
  PROVE  /\ StorageOK("sra", Storage!SRA!PrepareThread(s, t))
         /\ \A l : StorageOK("sra", Storage!SRA!Increase(s, t, l))
         /\ \A l, m : StorageOK("sra", Storage!SRA!Read(s, t, l, m).storage)
         /\ \A l, v, m : StorageOK("sra", Storage!SRA!Write(s, t, l, v, m))
<1>0. /\ s = [messages |-> s.messages, views |-> s.views, stamps |-> s.stamps]
      /\ Clocks(Storage!SRA!View(s, t)) /\ Clocks(s.stamps)
  BY ViewClocks DEF StorageShape, StorageOK
<1>1. ASSUME NEW r, NEW v, NEW stamps, Clocks(v), Clocks(stamps),
             r = [messages |-> s.messages, views |-> Storage!SRA!Put(s.views, t, v),
                  stamps |-> stamps]
      PROVE  StorageOK("sra", r)
  <2>1. r.messages = s.messages /\ r.views = Storage!SRA!Put(s.views, t, v) /\ r.stamps = stamps
    BY <1>1
  <2>2. /\ r.views = [u \in DOMAIN r.views |-> r.views[u]]
        /\ \A u \in DOMAIN r.views : Clocks(r.views[u])
    BY <1>1, <2>1, ViewsOK
  <2> QED
    BY <1>1, <2>1, <2>2 DEF StorageOK
<1>2. StorageOK("sra", Storage!SRA!PrepareThread(s, t))
  <2>1. CASE t \in DOMAIN s.views
    BY <2>1 DEF Storage!SRA!PrepareThread
  <2>2. CASE t \notin DOMAIN s.views
    <3>1. PICK none : none = Storage!SRA!EmptyMap
      OBVIOUS
    <3>2. Storage!SRA!PrepareThread(s, t) =
            [messages |-> s.messages, views |-> Storage!SRA!Put(s.views, t, none),
             stamps |-> s.stamps]
      BY <1>0, <2>2, <3>1 DEF Storage!SRA!PrepareThread
    <3> QED
      BY <1>0, <1>1, <3>1, <3>2, NoClock
  <2> QED
    BY <2>1, <2>2
<1>3. ASSUME NEW l
      PROVE  StorageOK("sra", Storage!SRA!Increase(s, t, l))
  <2> DEFINE newest == Storage!SRA!At(s.stamps, l, 0)
             own    == Storage!SRA!Timestamp(Storage!SRA!View(s, t), l)
             v      == IF own < newest THEN Storage!SRA!Put(Storage!SRA!View(s, t), l, own + 1)
                                       ELSE Storage!SRA!View(s, t)
             stamps == Storage!SRA!Put(s.stamps, l, newest)
  <2>1. Storage!SRA!Increase(s, t, l) =
          [s EXCEPT !.stamps = stamps, !.views = Storage!SRA!Put(s.views, t, v)]
    BY DEF Storage!SRA!Increase
  <2>2. newest \in Nat /\ own \in Nat
    BY <1>0, ClockMaps DEF Storage!SRA!Timestamp
  <2>3. own + 1 \in Nat
    BY <2>2
  <2> HIDE DEF newest, own
  <2>4. Clocks(v) /\ Clocks(stamps)
    BY <1>0, <2>2, <2>3, ClockMaps
  <2> HIDE DEF v, stamps
  <2>5. Storage!SRA!Increase(s, t, l) =
          [messages |-> s.messages, views |-> Storage!SRA!Put(s.views, t, v), stamps |-> stamps]
    BY <1>0, <2>1
  <2> QED
    BY <1>1, <2>4, <2>5
<1>4. ASSUME NEW l, NEW m
      PROVE  StorageOK("sra", Storage!SRA!Read(s, t, l, m).storage)
  <2> DEFINE from == Storage!SRA!ReadFrom(s, t, l)
             msg  == s.messages[Storage!SRA!Min(from)]
             v    == IF from # {} /\ Storage!SRA!Acquires(m)
                     THEN Storage!SRA!Join(Storage!SRA!View(s, t), msg.view)
                     ELSE Storage!SRA!View(s, t)
  <2>1. Storage!SRA!Read(s, t, l, m).storage = [s EXCEPT !.views = Storage!SRA!Put(s.views, t, v)]
    BY DEF Storage!SRA!Read
  <2>2. ASSUME from # {}
        PROVE  Clocks(msg.view)
    <3>1. from \subseteq DOMAIN s.messages /\ DOMAIN s.messages \subseteq Nat
      BY DEF Storage!SRA!ReadFrom, StorageOK
    <3>2. Storage!SRA!Min(from) \in from
      BY <2>2, <3>1, FirstPosition
    <3> QED
      BY <3>1, <3>2 DEF StorageOK
  <2>3. Clocks(v)
    BY <1>0, <2>2, ClockMaps
  <2> HIDE DEF v
  <2>4. Storage!SRA!Read(s, t, l, m).storage =
          [messages |-> s.messages, views |-> Storage!SRA!Put(s.views, t, v), stamps |-> s.stamps]
    BY <1>0, <2>1
  <2> QED
    BY <1>0, <1>1, <2>3, <2>4
<1>5. ASSUME NEW l, NEW val, NEW m
      PROVE  StorageOK("sra", Storage!SRA!Write(s, t, l, val, m))
  <2> DEFINE stamp  == Storage!SRA!At(s.stamps, l, 0) + 1
             v      == Storage!SRA!Put(Storage!SRA!View(s, t), l, stamp)
             w      == IF Storage!SRA!Releases(m) THEN v
                       ELSE Storage!SRA!Put(Storage!SRA!EmptyMap, l, stamp)
             msg    == [loc |-> l, val |-> val, view |-> w]
             stamps == Storage!SRA!Put(s.stamps, l, stamp)
             messages == Append(s.messages, msg)
             views    == Storage!SRA!Put(s.views, t, v)
  <2>1. Storage!SRA!Write(s, t, l, val, m) =
          [messages |-> messages, views |-> views, stamps |-> stamps]
    BY DEF Storage!SRA!Write
  <2>2. stamp \in Nat
    BY <1>0, ClockMaps
  <2>3. Clocks(v) /\ Clocks(w) /\ Clocks(stamps)
    BY <1>0, <2>2, ClockMaps, NoClock
  <2>4. Clocks(msg.view)
    BY <2>3
  <2> HIDE DEF v, w, msg, stamps
  <2>5. /\ messages \in Seq({messages[i] : i \in DOMAIN messages})
        /\ \A i \in DOMAIN messages : Clocks(messages[i].view)
    BY <2>4, MessagesOK
  <2>6. /\ views = [u \in DOMAIN views |-> views[u]]
        /\ \A u \in DOMAIN views : Clocks(views[u])
    BY <2>3, ViewsOK
  <2> HIDE DEF messages, views
  <2> QED
    BY <2>1, <2>3, <2>5, <2>6 DEF StorageOK
<1> QED
  BY <1>2, <1>3, <1>4, <1>5

LEMMA PSOKept ==
  ASSUME NEW s, StorageShape("pso", s), StorageOK("pso", s), NEW t
  PROVE  /\ StorageOK("pso", Storage!PSO!FlushBuffer(s, t))
         /\ \A l : StorageOK("pso", Storage!PSO!Propagate(s, t, l))
         /\ \A l, v, m : StorageOK("pso", Storage!PSO!Write(s, t, l, v, m))
<1>1. ASSUME NEW r, StorageOK("pso", r)
      PROVE  StorageOK("pso", Storage!PSO!FlushBuffer(r, t))
  <2>1. Storage!PSO!FlushBuffer(r, t).buffers = Erase(r.buffers, t)
    BY StorageMaps DEF Storage!PSO!FlushBuffer
  <2> QED
    BY <1>1, <2>1 DEF StorageOK, Erase
<1>2. ASSUME NEW l
      PROVE  StorageOK("pso", Storage!PSO!Propagate(s, t, l))
  <2> DEFINE q    == Storage!PSO!Queues(s, t)[l]
             left == IF Len(q) = 1 THEN Erase(Storage!PSO!Queues(s, t), l)
                                   ELSE Put(Storage!PSO!Queues(s, t), l, Tail(q))
  <2>1. \/ Storage!PSO!Propagate(s, t, l) = s
        \/ Storage!PSO!Propagate(s, t, l).buffers =
              IF left = EmptyMap THEN Erase(s.buffers, t) ELSE Put(s.buffers, t, left)
    BY StorageMaps DEF Storage!PSO!Propagate
  <2>2. DOMAIN left = {} => left = EmptyMap
    BY DEF Put, Erase, EmptyMap
  <2> HIDE DEF left
  <2>3. CASE Storage!PSO!Propagate(s, t, l) = s
    BY <2>3
  <2>4. CASE Storage!PSO!Propagate(s, t, l).buffers = Erase(s.buffers, t)
    BY <2>4 DEF StorageOK, Erase
  <2>5. CASE /\ left # EmptyMap
             /\ Storage!PSO!Propagate(s, t, l).buffers = Put(s.buffers, t, left)
    BY <2>2, <2>5 DEF StorageOK, Put
  <2> QED
    BY <2>1, <2>3, <2>4, <2>5
<1>3. ASSUME NEW l, NEW v
      PROVE  StorageOK("pso", Storage!PSO!Enqueue(s, t, l, v))
  <2>1. PICK q : Storage!PSO!Enqueue(s, t, l, v) =
                   [s EXCEPT !.buffers = Put(s.buffers, t, Put(Storage!PSO!Queues(s, t), l, q))]
    BY StorageMaps DEF Storage!PSO!Enqueue
  <2>2. Storage!PSO!Enqueue(s, t, l, v).buffers =
          Put(s.buffers, t, Put(Storage!PSO!Queues(s, t), l, q))
    BY <2>1 DEF StorageShape
  <2>3. DOMAIN Put(Storage!PSO!Queues(s, t), l, q) # {}
    BY DEF Put
  <2> QED
    BY <2>2, <2>3 DEF StorageOK, Put
<1> QED
  BY <1>1, <1>2, <1>3 DEF Storage!PSO!Write

----------------------------------------------------------------------------
(* An operation does the same without the timestamps that are 0. *)

Nonzero(f) == [l \in {k \in DOMAIN f : f[k] # 0} |-> f[l]]

Clean(m, s) == IF m = "sra" THEN [s EXCEPT !.stamps = Nonzero(s.stamps)] ELSE s

Good(m, s) == StorageShape(m, s) /\ StorageOK(m, s)

LEMMA NonzeroMaps ==
  ASSUME NEW f, Clocks(f), NEW l
  PROVE  /\ Storage!SRA!At(Nonzero(f), l, 0) = Storage!SRA!At(f, l, 0)
         /\ \A n \in Nat \ {0} :
              Nonzero(Storage!SRA!Put(f, l, n)) = Storage!SRA!Put(Nonzero(f), l, n)
<1>1. Storage!SRA!At(Nonzero(f), l, 0) = Storage!SRA!At(f, l, 0)
  BY DEF Nonzero, Storage!SRA!At
<1>2. ASSUME NEW n \in Nat \ {0}
      PROVE  Nonzero(Storage!SRA!Put(f, l, n)) = Storage!SRA!Put(Nonzero(f), l, n)
  BY <1>2 DEF Nonzero, Storage!SRA!Put
<1> QED
  BY <1>1, <1>2

Record(s) == s = [messages |-> s.messages, views |-> s.views, stamps |-> s.stamps]

LEMMA CleanShape ==
  ASSUME NEW s, Record(s)
  PROVE  /\ s = [messages |-> s.messages, views |-> s.views, stamps |-> s.stamps]
         /\ Clean("sra", s) =
              [messages |-> s.messages, views |-> s.views, stamps |-> Nonzero(s.stamps)]
         /\ Clean("sra", s).messages = s.messages
         /\ Clean("sra", s).views = s.views
         /\ Clean("sra", s).stamps = Nonzero(s.stamps)
         /\ \A t : Storage!SRA!View(Clean("sra", s), t) = Storage!SRA!View(s, t)
<1> DEFINE stamps == Nonzero(s.stamps)
           c == Clean("sra", s)
<1>1. s = [messages |-> s.messages, views |-> s.views, stamps |-> s.stamps]
  BY DEF Record
<1>2. c = [s EXCEPT !.stamps = stamps]
  BY DEF Clean
<1> HIDE DEF stamps, c
<1>3. c = [messages |-> s.messages, views |-> s.views, stamps |-> stamps]
  BY <1>1, <1>2
<1> QED
  BY <1>1, <1>3 DEF c, stamps, Storage!SRA!View

LEMMA SRAClean ==
  ASSUME NEW s, Good("sra", s), NEW t, NEW l
  PROVE  LET c == Clean("sra", s)
         IN  /\ Storage!SRA!PrepareThread(c, t) = Clean("sra", Storage!SRA!PrepareThread(s, t))
             /\ \A m : /\ Storage!SRA!Read(c, t, l, m).value = Storage!SRA!Read(s, t, l, m).value
                        /\ Storage!SRA!Read(c, t, l, m).storage =
                             Clean("sra", Storage!SRA!Read(s, t, l, m).storage)
             /\ \A v, m : Storage!SRA!Write(c, t, l, v, m) =
                             Clean("sra", Storage!SRA!Write(s, t, l, v, m))
<1> DEFINE c == Clean("sra", s)
<1>0. /\ s = [messages |-> s.messages, views |-> s.views, stamps |-> s.stamps]
      /\ c = [messages |-> s.messages, views |-> s.views, stamps |-> Nonzero(s.stamps)]
      /\ c.messages = s.messages /\ c.views = s.views /\ c.stamps = Nonzero(s.stamps)
      /\ \A u : Storage!SRA!View(c, u) = Storage!SRA!View(s, u)
      /\ Clocks(s.stamps)
  BY CleanShape DEF Good, StorageOK, StorageShape, Record
<1> HIDE DEF c
<1>1. ASSUME NEW messages, NEW views, NEW stamps, NEW r,
             r = [messages |-> messages, views |-> views, stamps |-> stamps]
      PROVE  Clean("sra", r) = [messages |-> messages, views |-> views, stamps |-> Nonzero(stamps)]
  BY <1>1, CleanShape DEF Record
<1>2. Storage!SRA!PrepareThread(c, t) = Clean("sra", Storage!SRA!PrepareThread(s, t))
  <2>1. CASE t \in DOMAIN s.views
    BY <1>0, <2>1 DEF Storage!SRA!PrepareThread, c
  <2>2. CASE t \notin DOMAIN s.views
    <3> DEFINE views == Storage!SRA!Put(s.views, t, Storage!SRA!EmptyMap)
    <3>1. /\ Storage!SRA!PrepareThread(s, t) = [s EXCEPT !.views = views]
          /\ Storage!SRA!PrepareThread(c, t) = [c EXCEPT !.views = views]
      BY <1>0, <2>2 DEF Storage!SRA!PrepareThread
    <3> HIDE DEF views
    <3>2. /\ Storage!SRA!PrepareThread(s, t) =
               [messages |-> s.messages, views |-> views, stamps |-> s.stamps]
          /\ Storage!SRA!PrepareThread(c, t) =
               [messages |-> s.messages, views |-> views, stamps |-> Nonzero(s.stamps)]
      BY <1>0, <3>1
    <3> QED
      BY <1>1, <3>2
  <2> QED
    BY <2>1, <2>2
<1>3. ASSUME NEW m
      PROVE  /\ Storage!SRA!Read(c, t, l, m).value = Storage!SRA!Read(s, t, l, m).value
             /\ Storage!SRA!Read(c, t, l, m).storage =
                  Clean("sra", Storage!SRA!Read(s, t, l, m).storage)
  <2> DEFINE from == Storage!SRA!ReadFrom(s, t, l)
             msg  == s.messages[Storage!SRA!Min(from)]
             v    == IF from # {} /\ Storage!SRA!Acquires(m)
                     THEN Storage!SRA!Join(Storage!SRA!View(s, t), msg.view)
                     ELSE Storage!SRA!View(s, t)
             views == Storage!SRA!Put(s.views, t, v)
             value == IF from = {} THEN 0 ELSE msg.val
  <2>1. Storage!SRA!ReadFrom(c, t, l) = from
    BY <1>0 DEF Storage!SRA!ReadFrom
  <2>2. /\ Storage!SRA!Read(s, t, l, m) = [value |-> value, storage |-> [s EXCEPT !.views = views]]
        /\ Storage!SRA!Read(c, t, l, m) = [value |-> value, storage |-> [c EXCEPT !.views = views]]
    BY <1>0, <2>1 DEF Storage!SRA!Read
  <2> HIDE DEF views, value
  <2>3. /\ [s EXCEPT !.views = views] =
             [messages |-> s.messages, views |-> views, stamps |-> s.stamps]
        /\ [c EXCEPT !.views = views] =
             [messages |-> s.messages, views |-> views, stamps |-> Nonzero(s.stamps)]
    BY <1>0
  <2>4. [c EXCEPT !.views = views] = Clean("sra", [s EXCEPT !.views = views])
    BY <1>1, <2>3
  <2> QED
    BY <2>2, <2>4
<1>4. ASSUME NEW val, NEW m
      PROVE  Storage!SRA!Write(c, t, l, val, m) = Clean("sra", Storage!SRA!Write(s, t, l, val, m))
  <2> DEFINE stamp  == Storage!SRA!At(s.stamps, l, 0) + 1
             v      == Storage!SRA!Put(Storage!SRA!View(s, t), l, stamp)
             msg    == [loc |-> l, val |-> val,
                        view |-> IF Storage!SRA!Releases(m) THEN v
                                 ELSE Storage!SRA!Put(Storage!SRA!EmptyMap, l, stamp)]
             messages == Append(s.messages, msg)
             views    == Storage!SRA!Put(s.views, t, v)
  <2>1. stamp = Storage!SRA!At(c.stamps, l, 0) + 1 /\ stamp \in Nat \ {0}
    <3>1. Storage!SRA!At(c.stamps, l, 0) = Storage!SRA!At(s.stamps, l, 0)
      BY <1>0, NonzeroMaps
    <3>2. Storage!SRA!At(s.stamps, l, 0) \in Nat
      BY <1>0, ClockMaps
    <3> QED
      BY <3>1, <3>2
  <2>2. /\ Storage!SRA!Write(s, t, l, val, m) =
             [messages |-> messages, views |-> views,
              stamps |-> Storage!SRA!Put(s.stamps, l, stamp)]
        /\ Storage!SRA!Write(c, t, l, val, m) =
             [messages |-> messages, views |-> views,
              stamps |-> Storage!SRA!Put(c.stamps, l, stamp)]
    BY <1>0, <2>1 DEF Storage!SRA!Write
  <2> HIDE DEF stamp, messages, views
  <2>3. Nonzero(Storage!SRA!Put(s.stamps, l, stamp)) = Storage!SRA!Put(c.stamps, l, stamp)
    BY <1>0, <2>1, NonzeroMaps
  <2> QED
    BY <1>1, <2>2, <2>3
<1> QED
  BY <1>2, <1>3, <1>4 DEF c

LEMMA IncreaseShape ==
  ASSUME NEW s, Good("sra", s), NEW t, NEW l
  PROVE  LET newest == Storage!SRA!At(s.stamps, l, 0)
             own    == Storage!SRA!At(Storage!SRA!View(s, t), l, 0)
         IN  /\ newest \in Nat /\ own \in Nat
             /\ Storage!SRA!Increase(s, t, l) =
                  [messages |-> s.messages,
                   views    |-> Storage!SRA!Put(s.views, t,
                                  IF own < newest THEN Storage!SRA!Put(Storage!SRA!View(s, t), l, own + 1)
                                                  ELSE Storage!SRA!View(s, t)),
                   stamps   |-> Storage!SRA!Put(s.stamps, l, newest)]
<1> DEFINE newest == Storage!SRA!At(s.stamps, l, 0)
           own    == Storage!SRA!At(Storage!SRA!View(s, t), l, 0)
           views  == Storage!SRA!Put(s.views, t,
                       IF own < newest THEN Storage!SRA!Put(Storage!SRA!View(s, t), l, own + 1)
                                       ELSE Storage!SRA!View(s, t))
           stamps == Storage!SRA!Put(s.stamps, l, newest)
<1>1. s = [messages |-> s.messages, views |-> s.views, stamps |-> s.stamps]
  BY DEF Good, StorageShape
<1>2. newest \in Nat /\ own \in Nat
  BY ViewClocks, ClockMaps DEF Good, StorageOK
<1>3. Storage!SRA!Increase(s, t, l) = [s EXCEPT !.stamps = stamps, !.views = views]
  BY DEF Storage!SRA!Increase, Storage!SRA!Timestamp
<1> HIDE DEF views, stamps
<1>4. Storage!SRA!Increase(s, t, l) =
        [messages |-> s.messages, views |-> views, stamps |-> stamps]
  BY <1>1, <1>3
<1> QED
  BY <1>2, <1>4 DEF views, stamps

\* The locations at 0 are not offered, and increasing one that is offered is
\* the same without them.
LEMMA IncreaseClean ==
  ASSUME NEW s, Good("sra", s), NEW t
  PROVE  LET c == Clean("sra", s)
         IN  /\ Good("sra", c)
             /\ Storage!SRA!IncreaseLocations(c, t) = Storage!SRA!IncreaseLocations(s, t)
             /\ \A l \in Storage!SRA!IncreaseLocations(s, t) :
                  Storage!SRA!Increase(c, t, l) = Clean("sra", Storage!SRA!Increase(s, t, l))
<1> DEFINE c == Clean("sra", s)
<1>0. /\ c = [messages |-> s.messages, views |-> s.views, stamps |-> Nonzero(s.stamps)]
      /\ c.messages = s.messages /\ c.views = s.views /\ c.stamps = Nonzero(s.stamps)
      /\ \A u : Storage!SRA!View(c, u) = Storage!SRA!View(s, u)
      /\ Clocks(s.stamps)
  BY CleanShape DEF Good, StorageOK, StorageShape, Record
<1> HIDE DEF c
<1>1. Clocks(Nonzero(s.stamps))
  BY <1>0 DEF Clocks, Nonzero
<1>2. Good("sra", c)
  <2>1. IsFiniteSet(DOMAIN Nonzero(s.stamps))
    BY FS_Subset DEF Good, StorageShape, Nonzero
  <2> QED
    BY <1>0, <1>1, <2>1 DEF Good, StorageShape, StorageOK
<1>3. \A l : Storage!SRA!At(Storage!SRA!View(s, t), l, 0) \in Nat
  BY ViewClocks, ClockMaps DEF Good
<1>4. Storage!SRA!IncreaseLocations(c, t) = Storage!SRA!IncreaseLocations(s, t)
  <2>1. ASSUME NEW l \in DOMAIN s.stamps,
               Storage!SRA!At(Storage!SRA!View(s, t), l, 0) < s.stamps[l]
        PROVE  s.stamps[l] # 0
    BY <1>0, <1>3, <2>1 DEF Clocks
  <2>2. \A l : /\ l \in DOMAIN c.stamps <=> l \in DOMAIN s.stamps /\ s.stamps[l] # 0
               /\ l \in DOMAIN c.stamps => c.stamps[l] = s.stamps[l]
    BY <1>0 DEF Nonzero
  <2> QED
    BY <1>0, <2>1, <2>2 DEF Storage!SRA!IncreaseLocations, Storage!SRA!Timestamp
<1>5. ASSUME NEW l \in Storage!SRA!IncreaseLocations(s, t)
      PROVE  Storage!SRA!Increase(c, t, l) = Clean("sra", Storage!SRA!Increase(s, t, l))
  <2> DEFINE newest == Storage!SRA!At(s.stamps, l, 0)
             own    == Storage!SRA!At(Storage!SRA!View(s, t), l, 0)
             views  == Storage!SRA!Put(s.views, t,
                         IF own < newest THEN Storage!SRA!Put(Storage!SRA!View(s, t), l, own + 1)
                                         ELSE Storage!SRA!View(s, t))
  <2>1. /\ newest \in Nat /\ own \in Nat
        /\ Storage!SRA!Increase(s, t, l) =
             [messages |-> s.messages, views |-> views,
              stamps |-> Storage!SRA!Put(s.stamps, l, newest)]
    BY IncreaseShape
  <2>2. Storage!SRA!At(c.stamps, l, 0) = newest
    BY <1>0, NonzeroMaps
  <2>3. Storage!SRA!Increase(c, t, l) =
          [messages |-> s.messages, views |-> views,
           stamps |-> Storage!SRA!Put(Nonzero(s.stamps), l, newest)]
    BY <1>0, <1>2, <2>2, IncreaseShape
  <2>4. own < newest
    BY <1>5 DEF Storage!SRA!IncreaseLocations, Storage!SRA!Timestamp, Storage!SRA!At
  <2>5. newest \in Nat \ {0}
    BY <2>1, <2>4
  <2> HIDE DEF newest, own, views
  <2>6. Nonzero(Storage!SRA!Put(s.stamps, l, newest)) =
          Storage!SRA!Put(Nonzero(s.stamps), l, newest)
    BY <1>0, <2>5, NonzeroMaps
  <2> QED
    BY <2>1, <2>3, <2>6, CleanShape DEF Record
<1> QED
  BY <1>2, <1>4, <1>5 DEF c

\* Increasing a location that is not offered adds it at 0, if anything.
LEMMA IncreaseNothing ==
  ASSUME NEW s, Good("sra", s), NEW t \in DOMAIN s.views,
         NEW l, l \notin Storage!SRA!IncreaseLocations(s, t)
  PROVE  Clean("sra", Storage!SRA!Increase(s, t, l)) = Clean("sra", s)
<1> DEFINE newest == Storage!SRA!At(s.stamps, l, 0)
           own    == Storage!SRA!At(Storage!SRA!View(s, t), l, 0)
<1>1. /\ newest \in Nat /\ own \in Nat
      /\ Storage!SRA!Increase(s, t, l) =
           [messages |-> s.messages,
            views    |-> Storage!SRA!Put(s.views, t,
                           IF own < newest THEN Storage!SRA!Put(Storage!SRA!View(s, t), l, own + 1)
                                           ELSE Storage!SRA!View(s, t)),
            stamps   |-> Storage!SRA!Put(s.stamps, l, newest)]
  BY IncreaseShape
<1>2. ~(own < newest)
  BY <1>1 DEF Storage!SRA!IncreaseLocations, Storage!SRA!Timestamp, Storage!SRA!At
<1>3. Storage!SRA!Put(s.views, t, Storage!SRA!View(s, t)) = s.views
  <2>1. s.views = [u \in DOMAIN s.views |-> s.views[u]]
    BY DEF Good, StorageOK
  <2> QED
    BY <2>1 DEF Storage!SRA!Put, Storage!SRA!View, Storage!SRA!At
<1>4. Nonzero(Storage!SRA!Put(s.stamps, l, newest)) = Nonzero(s.stamps)
  BY DEF Nonzero, Storage!SRA!Put, Storage!SRA!At
<1>5. Storage!SRA!Increase(s, t, l) =
        [messages |-> s.messages, views |-> s.views, stamps |-> Storage!SRA!Put(s.stamps, l, newest)]
  BY <1>1, <1>2, <1>3
<1> HIDE DEF newest, own
<1> QED
  BY <1>4, <1>5, CleanShape DEF Good, StorageShape, Record

\* The operations of the interface, in whichever model.
Same(m, x, y) == y = Clean(m, x) /\ Good(m, x)

LEMMA StorageClean ==
  ASSUME NEW m \in Models, NEW s, Good(m, s), NEW t
  PROVE  LET c == Clean(m, s)
         IN  /\ \A l, o : /\ Storage!Read(m, c, t, l, o).value = Storage!Read(m, s, t, l, o).value
                           /\ Same(m, Storage!Read(m, s, t, l, o).storage,
                                       Storage!Read(m, c, t, l, o).storage)
             /\ \A l, v, o : Same(m, Storage!Write(m, s, t, l, v, o), Storage!Write(m, c, t, l, v, o))
             /\ \A o : Same(m, Storage!Fence(m, s, t, o), Storage!Fence(m, c, t, o))
             /\ Same(m, Storage!FlushThread(m, s, t), Storage!FlushThread(m, c, t))
             /\ Same(m, Storage!PrepareThread(m, s, t), Storage!PrepareThread(m, c, t))
<1>0. StorageShape(m, s) /\ StorageOK(m, s)
  BY DEF Good
<1>1. CASE m = "sra"
  <2>0. Good("sra", s) /\ StorageShape("sra", s) /\ StorageOK("sra", s)
    BY <1>0, <1>1 DEF Good
  <2> DEFINE c == Clean("sra", s)
  <2>1. ASSUME NEW l, NEW o
        PROVE  /\ Storage!SRA!Read(c, t, l, o).value = Storage!SRA!Read(s, t, l, o).value
               /\ Same("sra", Storage!SRA!Read(s, t, l, o).storage,
                              Storage!SRA!Read(c, t, l, o).storage)
    <3>1. Good("sra", Storage!SRA!Read(s, t, l, o).storage)
      BY <2>0, SRATouches, SRAKept DEF Touches, Good
    <3> QED
      BY <2>0, <3>1, SRAClean DEF Same
  <2>2. ASSUME NEW l, NEW v, NEW o
        PROVE  Same("sra", Storage!SRA!Write(s, t, l, v, o), Storage!SRA!Write(c, t, l, v, o))
    <3>1. Good("sra", Storage!SRA!Write(s, t, l, v, o))
      BY <2>0, SRATouches, SRAKept DEF Touches, Good
    <3> QED
      BY <2>0, <3>1, SRAClean DEF Same
  <2>3. Same("sra", Storage!SRA!PrepareThread(s, t), Storage!SRA!PrepareThread(c, t))
    <3>1. Good("sra", Storage!SRA!PrepareThread(s, t))
      BY <2>0, SRATouches, SRAKept DEF Touches, Good
    <3> QED
      BY <2>0, <3>1, SRAClean DEF Same
  <2>4. Same("sra", s, c)
    BY <2>0 DEF Same
  <2> HIDE DEF c
  <2>5. /\ \A l, o : /\ Storage!Read("sra", c, t, l, o).value = Storage!Read("sra", s, t, l, o).value
                      /\ Same("sra", Storage!Read("sra", s, t, l, o).storage,
                                     Storage!Read("sra", c, t, l, o).storage)
        /\ \A l, v, o : Same("sra", Storage!Write("sra", s, t, l, v, o),
                                     Storage!Write("sra", c, t, l, v, o))
        /\ \A o : Same("sra", Storage!Fence("sra", s, t, o), Storage!Fence("sra", c, t, o))
        /\ Same("sra", Storage!FlushThread("sra", s, t), Storage!FlushThread("sra", c, t))
        /\ Same("sra", Storage!PrepareThread("sra", s, t), Storage!PrepareThread("sra", c, t))
    BY <2>1, <2>2, <2>3, <2>4
       DEF Storage!Read, Storage!Write, Storage!Fence, Storage!FlushThread, Storage!PrepareThread
  <2> QED
    BY <1>1, <2>5 DEF c
<1>2. CASE m # "sra"
  <2>1. ASSUME NEW r, StorageShape(m, r), StorageOK(m, r)
        PROVE  Same(m, r, r)
    BY <1>2, <2>1 DEF Same, Good, Clean
  <2>2. Clean(m, s) = s
    BY <1>2 DEF Clean
  <2>3. /\ \A l, o : Same(m, Storage!Read(m, s, t, l, o).storage, Storage!Read(m, s, t, l, o).storage)
        /\ Same(m, Storage!PrepareThread(m, s, t), Storage!PrepareThread(m, s, t))
    BY <1>0, <1>2, <2>1 DEF Models, Storage!Read, Storage!PrepareThread
  <2>4. ASSUME NEW l, NEW v, NEW o
        PROVE  StorageOK(m, Storage!Write(m, s, t, l, v, o))
    <3>1. CASE m = "pso"
      BY <1>0, <3>1, PSOKept DEF Storage!Write
    <3>2. CASE m # "pso"
      BY <1>2, <3>2 DEF StorageOK
    <3> QED
      BY <3>1, <3>2
  <2>5. ASSUME NEW o
        PROVE  StorageOK(m, Storage!Fence(m, s, t, o))
    <3>1. CASE m = "pso"
      BY <1>0, <3>1, PSOKept DEF Storage!Fence, Storage!PSO!Fence
    <3>2. CASE m # "pso"
      BY <1>2, <3>2 DEF StorageOK
    <3> QED
      BY <3>1, <3>2
  <2>6. StorageOK(m, Storage!FlushThread(m, s, t))
    BY <1>0, <1>2 DEF StorageOK, Storage!FlushThread
  <2>7. /\ \A l, v, o : Same(m, Storage!Write(m, s, t, l, v, o), Storage!Write(m, s, t, l, v, o))
        /\ \A o : Same(m, Storage!Fence(m, s, t, o), Storage!Fence(m, s, t, o))
        /\ Same(m, Storage!FlushThread(m, s, t), Storage!FlushThread(m, s, t))
    BY <1>0, <2>1, <2>4, <2>5, <2>6, StorageTouches DEF Touches
  <2> QED
    BY <2>2, <2>3, <2>7
<1> QED
  BY <1>1, <1>2

LEMMA StorageSame ==
  ASSUME NEW m \in Models, NEW s, NEW c, Same(m, s, c), NEW t
  PROVE  /\ \A l, o : /\ Storage!Read(m, c, t, l, o).value = Storage!Read(m, s, t, l, o).value
                      /\ Same(m, Storage!Read(m, s, t, l, o).storage,
                                 Storage!Read(m, c, t, l, o).storage)
         /\ \A l, v, o : Same(m, Storage!Write(m, s, t, l, v, o), Storage!Write(m, c, t, l, v, o))
         /\ \A o : Same(m, Storage!Fence(m, s, t, o), Storage!Fence(m, c, t, o))
         /\ Same(m, Storage!FlushThread(m, s, t), Storage!FlushThread(m, c, t))
         /\ Same(m, Storage!PrepareThread(m, s, t), Storage!PrepareThread(m, c, t))
<1>1. Good(m, s) /\ c = Clean(m, s)
  BY DEF Same
<1> QED
  BY <1>1, StorageClean

----------------------------------------------------------------------------
(* A statement does the same without them, too. *)

Alike(m, s, r) ==
  /\ s = [next |-> s.next, current |-> s.current, allowed |-> s.allowed,
          storage |-> s.storage, threads |-> s.threads, finished |-> s.finished]
  /\ r = [next |-> s.next, current |-> s.current, allowed |-> s.allowed,
          storage |-> Clean(m, s.storage), threads |-> s.threads, finished |-> s.finished]
  /\ Good(m, s.storage)

LEMMA AlikeFields ==
  ASSUME NEW m, NEW s, NEW r, Alike(m, s, r)
  PROVE  /\ r.next = s.next /\ r.current = s.current /\ r.allowed = s.allowed
         /\ r.storage = Clean(m, s.storage)
         /\ r.threads = s.threads /\ r.finished = s.finished
         /\ Same(m, s.storage, r.storage)
BY DEF Alike, Same

LEMMA StorageAlike ==
  ASSUME NEW m, NEW s, NEW r, Alike(m, s, r), NEW x, NEW y, Same(m, x, y)
  PROVE  Alike(m, [s EXCEPT !.storage = x], [r EXCEPT !.storage = y])
<1> DEFINE q == [s EXCEPT !.storage = x]
<1>1. q = [next |-> s.next, current |-> s.current, allowed |-> s.allowed,
           storage |-> x, threads |-> s.threads, finished |-> s.finished]
  BY DEF Alike
<1>2. [r EXCEPT !.storage = y] =
        [next |-> s.next, current |-> s.current, allowed |-> s.allowed,
         storage |-> y, threads |-> s.threads, finished |-> s.finished]
  BY DEF Alike
<1> HIDE DEF q
<1>3. Alike(m, q, [r EXCEPT !.storage = y])
  BY <1>1, <1>2 DEF Alike, Same
<1> QED
  BY <1>3 DEF q

LEMMA ThreadsAlike ==
  ASSUME NEW m, NEW s, NEW r, Alike(m, s, r), NEW th
  PROVE  Alike(m, [s EXCEPT !.threads = th], [r EXCEPT !.threads = th])
<1> DEFINE q == [s EXCEPT !.threads = th]
<1>1. q = [next |-> s.next, current |-> s.current, allowed |-> s.allowed,
           storage |-> s.storage, threads |-> th, finished |-> s.finished]
  BY DEF Alike
<1>2. [r EXCEPT !.threads = th] =
        [next |-> s.next, current |-> s.current, allowed |-> s.allowed,
         storage |-> Clean(m, s.storage), threads |-> th, finished |-> s.finished]
  BY DEF Alike
<1> HIDE DEF q
<1>3. Alike(m, q, [r EXCEPT !.threads = th])
  BY <1>1, <1>2 DEF Alike
<1> QED
  BY <1>3 DEF q

LEMMA AdvanceAlike ==
  ASSUME NEW m, NEW s, NEW r, Alike(m, s, r)
  PROVE  Alike(m, Advance(s), Advance(r))
<1>1. PICK th : th = [s.threads EXCEPT ![s.current].pc = @ + 1]
  OBVIOUS
<1>2. Advance(s) = [s EXCEPT !.threads = th]
  BY <1>1 DEF Advance, Alike
<1>3. Advance(r) = [r EXCEPT !.threads = th]
  BY <1>1, AlikeFields DEF Advance, Alike
<1> QED
  BY <1>2, <1>3, ThreadsAlike

LEMMA JumpAlike ==
  ASSUME NEW p, NEW m, NEW s, NEW r, Alike(m, s, r), NEW label
  PROVE  Alike(m, Jump(p, s, label), Jump(p, r, label))
<1>1. PICK th : th = [s.threads EXCEPT ![s.current].pc = p.labels[label]]
  OBVIOUS
<1>2. Jump(p, s, label) = [s EXCEPT !.threads = th]
  BY <1>1 DEF Jump, Alike
<1>3. Jump(p, r, label) = [r EXCEPT !.threads = th]
  BY <1>1, AlikeFields DEF Jump, Alike
<1> QED
  BY <1>2, <1>3, ThreadsAlike

LEMMA SetRegAlike ==
  ASSUME NEW m, NEW s, NEW r, Alike(m, s, r), NEW reg, NEW v
  PROVE  Alike(m, SetReg(s, reg, v), SetReg(r, reg, v))
<1>1. PICK th : th = [s.threads EXCEPT ![s.current].regs = Put(@, reg, v)]
  OBVIOUS
<1>2. SetReg(s, reg, v) = [s EXCEPT !.threads = th]
  BY <1>1 DEF SetReg, Alike
<1>3. SetReg(r, reg, v) = [r EXCEPT !.threads = th]
  BY <1>1, AlikeFields DEF SetReg, Alike
<1> QED
  BY <1>2, <1>3, ThreadsAlike

LEMMA EndedAlike ==
  ASSUME NEW m, NEW s, NEW r, Alike(m, s, r)
  PROVE  Alike(m, Ended(s), Ended(r))
<1> DEFINE fin == Put(s.finished, s.current, Regs(s))
           th  == Erase(s.threads, s.current)
           q   == Ended(s)
<1>1. Regs(r) = Regs(s) /\ r.finished = s.finished /\ r.current = s.current /\ r.threads = s.threads
  BY AlikeFields DEF Regs
<1>2. /\ q = [s EXCEPT !.finished = fin, !.threads = th]
      /\ Ended(r) = [r EXCEPT !.finished = fin, !.threads = th]
  BY <1>1 DEF Ended
<1> HIDE DEF fin, th, q
<1>3. /\ q = [next |-> s.next, current |-> s.current, allowed |-> s.allowed,
              storage |-> s.storage, threads |-> th, finished |-> fin]
      /\ Ended(r) = [next |-> s.next, current |-> s.current, allowed |-> s.allowed,
                     storage |-> Clean(m, s.storage), threads |-> th, finished |-> fin]
  BY <1>2 DEF Alike
<1>4. Alike(m, q, Ended(r))
  BY <1>3 DEF Alike
<1> QED
  BY <1>4 DEF q

LEMMA AddThreadAlike ==
  ASSUME NEW m \in Models, NEW s, NEW r, Alike(m, s, r), NEW pc
  PROVE  Alike(m, AddThread(m, s, pc), AddThread(m, r, pc))
<1> DEFINE th  == Put(s.threads, s.next, [pc |-> pc, regs |-> EmptyMap])
           x   == Storage!PrepareThread(m, s.storage, s.next)
           y   == Storage!PrepareThread(m, r.storage, s.next)
           q   == AddThread(m, s, pc)
<1>1. Same(m, x, y)
  BY AlikeFields, StorageSame
<1>2. /\ q = [s EXCEPT !.threads = th, !.storage = x, !.next = s.next + 1]
      /\ AddThread(m, r, pc) = [r EXCEPT !.threads = th, !.storage = y, !.next = s.next + 1]
  <2>1. r.next = s.next /\ r.threads = s.threads
    BY AlikeFields
  <2>2. AddThread(m, r, pc) =
          [r EXCEPT !.threads = Put(r.threads, r.next, [pc |-> pc, regs |-> EmptyMap]),
                    !.storage = Storage!PrepareThread(m, r.storage, r.next), !.next = r.next + 1]
    BY DEF AddThread
  <2>3. AddThread(m, r, pc) = [r EXCEPT !.threads = th, !.storage = y, !.next = s.next + 1]
    BY <2>1, <2>2
  <2> QED
    BY <2>3 DEF AddThread
<1> HIDE DEF th, x, y, q
<1>3. /\ q = [next |-> s.next + 1, current |-> s.current, allowed |-> s.allowed,
              storage |-> x, threads |-> th, finished |-> s.finished]
      /\ AddThread(m, r, pc) =
             [next |-> s.next + 1, current |-> s.current, allowed |-> s.allowed,
              storage |-> y, threads |-> th, finished |-> s.finished]
  BY <1>2 DEF Alike
<1>4. Alike(m, q, AddThread(m, r, pc))
  BY <1>1, <1>3 DEF Alike, Same
<1> QED
  BY <1>4 DEF q

LEMMA EvaluateAlike ==
  ASSUME NEW m \in Models, NEW s, NEW r, Alike(m, s, r), NEW e, e.kind \in ExpressionKinds
  PROVE  /\ Evaluate(m, r, e).value = Evaluate(m, s, e).value
         /\ Same(m, Evaluate(m, s, e).storage, Evaluate(m, r, e).storage)
<1> DEFINE t  == s.current
           fs == Storage!FlushThread(m, s.storage, t)
           fr == Storage!FlushThread(m, r.storage, t)
           rs == Storage!Read(m, fs, t, e.loc, e.order)
           rr == Storage!Read(m, fr, t, e.loc, e.order)
<1>0. Regs(r) = Regs(s) /\ r.current = t /\ Same(m, s.storage, r.storage)
  BY AlikeFields DEF Regs
<1>1. Same(m, fs, fr)
  BY <1>0, StorageSame
<1>2. rr.value = rs.value /\ Same(m, rs.storage, rr.storage)
  <2> HIDE DEF fs, fr
  <2> QED
    BY <1>1, StorageSame
<1>3. ASSUME NEW v
      PROVE  Same(m, Storage!Write(m, rs.storage, t, e.loc, v, e.order),
                     Storage!Write(m, rr.storage, t, e.loc, v, e.order))
  <2> HIDE DEF rs, rr
  <2> QED
    BY <1>2, StorageSame
<1>4. CASE e.kind \in {"number", "binop"}
  BY <1>0, <1>4 DEF Evaluate
<1>5. CASE e.kind = "cas"
  <2>1. /\ Evaluate(m, s, e) =
             [value |-> rs.value,
              storage |-> IF rs.value = Regs(s)[e.expected]
                          THEN Storage!Write(m, rs.storage, t, e.loc, Regs(s)[e.desired], e.order)
                          ELSE rs.storage]
        /\ Evaluate(m, r, e) =
             [value |-> rr.value,
              storage |-> IF rr.value = Regs(s)[e.expected]
                          THEN Storage!Write(m, rr.storage, t, e.loc, Regs(s)[e.desired], e.order)
                          ELSE rr.storage]
    BY <1>0, <1>5 DEF Evaluate, EvaluateCas
  <2> HIDE DEF rs, rr
  <2> QED
    BY <1>2, <1>3, <2>1
<1>6. CASE e.kind = "fai"
  <2> DEFINE v == Wrap(rs.value + Regs(s)[e.reg])
  <2>1. /\ Evaluate(m, s, e) =
             [value |-> rs.value,
              storage |-> Storage!Write(m, rs.storage, t, e.loc, v, e.order)]
        /\ Evaluate(m, r, e) =
             [value |-> rr.value,
              storage |-> Storage!Write(m, rr.storage, t, e.loc, v, e.order)]
    BY <1>0, <1>2, <1>6 DEF Evaluate, EvaluateFai
  <2> HIDE DEF rs, rr, v
  <2> QED
    BY <1>2, <1>3, <2>1
<1> QED
  BY <1>4, <1>5, <1>6 DEF ExpressionKinds

LEMMA TransitionAlike ==
  ASSUME NEW p, NEW m \in Models, NEW s, NEW r, Alike(m, s, r),
         WellFormed(p), s.threads[s.current].pc \in DOMAIN p.statements
  PROVE  Alike(m, Transition(p, m, s), Transition(p, m, r))
<1> DEFINE stmt == StatementAt(p, s)
<1>1. /\ stmt.kind \in StatementKinds
      /\ stmt.kind = "assign" => stmt.expr.kind \in ExpressionKinds
  BY DEF WellFormed, StatementAt
<1>2. /\ StatementAt(p, r) = stmt /\ Regs(r) = Regs(s) /\ r.current = s.current
      /\ Same(m, s.storage, r.storage)
  BY AlikeFields DEF StatementAt, Regs
<1> HIDE DEF stmt
<1>3. CASE stmt.kind = "goto"
  BY <1>2, <1>3, JumpAlike DEF Transition, stmt
<1>4. CASE stmt.kind = "if"
  <2>1. /\ Transition(p, m, s) =
             IF Regs(s)[stmt.reg] # 0 THEN Jump(p, s, stmt.label) ELSE Advance(s)
        /\ Transition(p, m, r) =
             IF Regs(s)[stmt.reg] # 0 THEN Jump(p, r, stmt.label) ELSE Advance(r)
    BY <1>2, <1>4 DEF Transition, stmt
  <2> QED
    BY <2>1, JumpAlike, AdvanceAlike
<1>5. CASE stmt.kind = "thread_goto"
  <2>1. PICK pc : pc = p.labels[stmt.label]
    OBVIOUS
  <2>2. /\ Transition(p, m, s) = Advance(AddThread(m, s, pc))
        /\ Transition(p, m, r) = Advance(AddThread(m, r, pc))
    BY <1>2, <1>5, <2>1 DEF Transition, stmt
  <2> QED
    BY <2>2, AddThreadAlike, AdvanceAlike
<1>6. ASSUME NEW x, NEW y, Same(m, x, y)
      PROVE  Alike(m, Advance([s EXCEPT !.storage = x]), Advance([r EXCEPT !.storage = y]))
  BY <1>6, StorageAlike, AdvanceAlike
<1>7. ASSUME NEW x, NEW y, Same(m, x, y), NEW reg, NEW v
      PROVE  Alike(m, Advance([SetReg(s, reg, v) EXCEPT !.storage = x]),
                      Advance([SetReg(r, reg, v) EXCEPT !.storage = y]))
  <2>1. PICK a, b : a = SetReg(s, reg, v) /\ b = SetReg(r, reg, v)
    OBVIOUS
  <2>2. Alike(m, a, b)
    BY <2>1, SetRegAlike
  <2>3. Alike(m, [a EXCEPT !.storage = x], [b EXCEPT !.storage = y])
    BY <1>7, <2>2, StorageAlike
  <2> QED
    BY <2>1, <2>3, AdvanceAlike
<1>8. CASE stmt.kind = "assign"
  <2> DEFINE x == Evaluate(m, s, stmt.expr)
             y == Evaluate(m, r, stmt.expr)
  <2>1. /\ Transition(p, m, s) = Advance([SetReg(s, stmt.reg, x.value) EXCEPT !.storage = x.storage])
        /\ Transition(p, m, r) = Advance([SetReg(r, stmt.reg, y.value) EXCEPT !.storage = y.storage])
    BY <1>2, <1>8 DEF Transition, Assigned, stmt
  <2>2. y.value = x.value /\ Same(m, x.storage, y.storage)
    BY <1>1, <1>8, EvaluateAlike
  <2> HIDE DEF x, y
  <2> QED
    BY <1>7, <2>1, <2>2
<1>9. CASE stmt.kind = "load"
  <2> DEFINE x == Storage!Read(m, s.storage, s.current, stmt.loc, stmt.order)
             y == Storage!Read(m, r.storage, s.current, stmt.loc, stmt.order)
  <2>1. /\ Transition(p, m, s) = Advance([SetReg(s, stmt.reg, x.value) EXCEPT !.storage = x.storage])
        /\ Transition(p, m, r) = Advance([SetReg(r, stmt.reg, y.value) EXCEPT !.storage = y.storage])
    BY <1>2, <1>9 DEF Transition, Loaded, stmt
  <2>2. y.value = x.value /\ Same(m, x.storage, y.storage)
    BY <1>2, StorageSame
  <2> HIDE DEF x, y
  <2> QED
    BY <1>7, <2>1, <2>2
<1>10. CASE stmt.kind = "store"
  <2> DEFINE v == Regs(s)[stmt.reg]
             x == Storage!Write(m, s.storage, s.current, stmt.loc, v, stmt.order)
             y == Storage!Write(m, r.storage, s.current, stmt.loc, v, stmt.order)
  <2>1. /\ Transition(p, m, s) = Advance([s EXCEPT !.storage = x])
        /\ Transition(p, m, r) = Advance([r EXCEPT !.storage = y])
    BY <1>2, <1>10 DEF Transition, Stored, stmt
  <2> HIDE DEF v
  <2>2. Same(m, x, y)
    BY <1>2, StorageSame
  <2> HIDE DEF x, y
  <2> QED
    BY <1>6, <2>1, <2>2
<1>11. CASE stmt.kind \in {"cas", "fai"}
  <2> DEFINE x == Evaluate(m, s, stmt).storage
             y == Evaluate(m, r, stmt).storage
  <2>1. /\ Transition(p, m, s) = Advance([s EXCEPT !.storage = x])
        /\ Transition(p, m, r) = Advance([r EXCEPT !.storage = y])
    BY <1>2, <1>11 DEF Transition, stmt
  <2>2. Same(m, x, y)
    BY <1>11, EvaluateAlike DEF ExpressionKinds
  <2> HIDE DEF x, y
  <2> QED
    BY <1>6, <2>1, <2>2
<1>12. CASE stmt.kind = "fence"
  <2> DEFINE x == Storage!Fence(m, s.storage, s.current, stmt.order)
             y == Storage!Fence(m, r.storage, s.current, stmt.order)
  <2>1. /\ Transition(p, m, s) = Advance([s EXCEPT !.storage = x])
        /\ Transition(p, m, r) = Advance([r EXCEPT !.storage = y])
    BY <1>2, <1>12 DEF Transition, stmt
  <2>2. Same(m, x, y)
    BY <1>2, StorageSame
  <2> HIDE DEF x, y
  <2> QED
    BY <1>6, <2>1, <2>2
<1>13. CASE stmt.kind = "end"
  BY <1>2, <1>13, EndedAlike DEF Transition, stmt
<1> QED
  BY <1>1, <1>3, <1>4, <1>5, <1>8, <1>9, <1>10, <1>11, <1>12, <1>13 DEF StatementKinds

LEMMA CompletesAlike ==
  ASSUME NEW p, NEW m, NEW s, NEW r, Alike(m, s, r)
  PROVE  Completes(p, m, r) <=> Completes(p, m, s)
<1>1. StatementAt(p, r) = StatementAt(p, s) /\ Regs(r) = Regs(s)
  BY AlikeFields DEF StatementAt, Regs
<1> QED
  BY <1>1 DEF Completes

----------------------------------------------------------------------------
(* The invariant holds. *)

LEMMA ProgramOK ==
  ASSUME IInv
  PROVE  WellFormed(program) /\ mm \in Models
BY InteractiveAssumption DEF IInv, program, Models

LEMMA InitInv == Init => IInv
<1> SUFFICES ASSUME Init
             PROVE  IInv
  OBVIOUS
<1>1. WellFormed(program) /\ mm \in Models
  BY InteractiveAssumption DEF Init, program, Models
<1>2. /\ StateOK(program, mm, state) /\ state.allowed = TRUE
      /\ state.current = 0 /\ state.next = 1
  BY <1>1, InitialOK DEF Init
<1>3. StorageOK(mm, state.storage)
  <2>1. state.storage = Storage!PrepareThread(mm, Storage!New(mm), 0)
    BY DEF Init, InitialState, AddThread
  <2>2. StorageOK(mm, Storage!New(mm)) /\ (mm = "sra" => StorageShape("sra", Storage!New(mm)))
    <3>1. CASE mm = "pso"
      <4>1. DOMAIN Storage!New(mm).buffers = {}
        BY <3>1 DEF Storage!New, Storage!PSO!New, Storage!PSO!EmptyMap
      <4> QED
        BY <3>1, <4>1 DEF StorageOK
    <3>2. CASE mm = "sra"
      <4>1. Storage!New(mm) = [messages |-> <<>>, views |-> Storage!SRA!EmptyMap,
                               stamps |-> Storage!SRA!EmptyMap]
        BY <3>2 DEF Storage!New, Storage!SRA!New
      <4>2. DOMAIN Storage!SRA!EmptyMap = {} /\ Clocks(Storage!SRA!EmptyMap)
        BY DEF Storage!SRA!EmptyMap, Clocks
      <4>3. Storage!SRA!EmptyMap = [k \in DOMAIN Storage!SRA!EmptyMap |-> Storage!SRA!EmptyMap[k]]
        BY DEF Storage!SRA!EmptyMap
      <4> QED
        BY <3>2, <4>1, <4>2, <4>3, FS_EmptySet DEF StorageOK, StorageShape
    <3> QED
      BY <3>1, <3>2 DEF StorageOK
  <2> QED
    BY <2>1, <2>2, SRAKept DEF Storage!PrepareThread
<1> QED
  BY <1>2, <1>3 DEF Init, IInv

\* A state that may follow s.
Kept(p, m, s, r) ==
  /\ StateOK(p, m, r) /\ StorageOK(m, r.storage)
  /\ r.allowed = TRUE /\ s.next <= r.next

LEMMA GoesInv ==
  ASSUME IInv, NEW place, NEW new, Goes(place, new), Kept(program, mm, state, new),
         place \in {"iteration", "thread", "move", "location", "done", "thrown", "rejected"},
         place \in {"move", "location"} => new.current \in Active(new),
         place = "location" => mm \in {"pso", "sra"} /\ LocationsOffered(new) # {}
  PROVE  IInv'
<1>1. /\ at' = place /\ state' = new /\ name' = name /\ mm' = mm /\ program' = program
      /\ previous' = IF place = "iteration" THEN new.current ELSE previous
  BY DEF Goes, program
<1>2. previous' \in 0..new.next - 1
  BY <1>1 DEF Kept, IInv, StateOK
<1>3. LocationsOffered(state)' = LocationsOffered(new)
  BY <1>1 DEF LocationsOffered
<1> QED
  BY <1>1, <1>2, <1>3 DEF Kept, IInv

LEMMA StaysKept ==
  ASSUME IInv
  PROVE  Kept(program, mm, state, state)
BY DEF IInv, Kept, StateOK

\* The state a location leads to, in terms of the memory model.
Moved(m, s, l) ==
  [s EXCEPT !.storage = IF m = "pso" THEN Storage!PSO!Propagate(@, s.current, l)
                                     ELSE Storage!SRA!Increase(@, s.current, l)]

LEMMA MovedOK ==
  ASSUME NEW p, NEW m \in {"pso", "sra"}, NEW s, StateOK(p, m, s), StorageOK(m, s.storage),
         s.allowed = TRUE, s.current \in Active(s), NEW l
  PROVE  Kept(p, m, s, Moved(m, s, l))
<1> DEFINE new == IF m = "pso" THEN Storage!PSO!Propagate(s.storage, s.current, l)
                               ELSE Storage!SRA!Increase(s.storage, s.current, l)
<1>1. m \in Models /\ StorageShape(m, s.storage)
  BY DEF Models, StateOK
<1>2. Touches(m, s.storage, s.current, new)
  BY <1>1, PSOTouches, SRATouches
<1>3. StorageOK(m, new)
  BY <1>1, PSOKept, SRAKept
<1>4. Moved(m, s, l) = [s EXCEPT !.storage = new]
  BY DEF Moved
<1> HIDE DEF new
<1>5. StepOf(p, m, s, [s EXCEPT !.storage = new])
  BY <1>1, <1>2, StorageInPlace DEF InPlace
<1>6. [s EXCEPT !.storage = new].storage = new
  BY DEF StateOK, StateShape
<1> QED
  BY <1>3, <1>4, <1>5, <1>6 DEF Kept, StepOf

\* A state that a switch leaves has no thread that ended as its current one.
LEMMA SwitchKept ==
  ASSUME IInv, NEW t \in Active(state)
  PROVE  Kept(program, mm, state, SwitchTo(state, t)) /\ t \in Active(SwitchTo(state, t))
         /\ SwitchTo(state, t).current = t
<1>1. PICK p, m, s : p = program /\ m = mm /\ s = state
  OBVIOUS
<1>2. /\ StateOK(p, m, s) /\ StorageOK(m, s.storage) /\ s.allowed = TRUE /\ t \in Active(s)
      /\ s.next \in Nat
  BY <1>1 DEF IInv, StateOK
<1>3. /\ StateOK(p, m, SwitchTo(s, t)) /\ SwitchTo(s, t).current = t
      /\ t \in Active(SwitchTo(s, t)) /\ Switched(s, SwitchTo(s, t))
  BY <1>2, SwitchOK
<1>4. Kept(p, m, s, SwitchTo(s, t))
  BY <1>2, <1>3 DEF Kept, Switched
<1> QED
  BY <1>1, <1>3, <1>4

\* A statement leaves a state that the program can be in.
LEMMA StatementKept ==
  ASSUME IInv, state.current \in Active(state), Completes(program, mm, state)
  PROVE  Kept(program, mm, state, Transition(program, mm, state))
<1>1. PICK p, m, s : p = program /\ m = mm /\ s = state
  OBVIOUS
<1>2. /\ StateOK(p, m, s) /\ StorageOK(m, s.storage) /\ s.allowed = TRUE
      /\ s.current \in Active(s) /\ Completes(p, m, s) /\ WellFormed(p) /\ m \in Models
  BY <1>1, ProgramOK DEF IInv
<1>3. StepOf(p, m, s, Transition(p, m, s))
  BY <1>2, TransitionStep
<1>4. PICK r : Alike(m, s, r)
  BY <1>2 DEF Alike, StateOK, StateShape, Good
<1>5. Alike(m, Transition(p, m, s), Transition(p, m, r))
  BY <1>2, <1>4, TransitionAlike DEF StateOK
<1>6. Kept(p, m, s, Transition(p, m, s))
  BY <1>2, <1>3, <1>5 DEF Kept, StepOf, Alike, Good
<1> QED
  BY <1>1, <1>6

\* The successor that the general template takes is one there is.
LEMMA FirstKept ==
  ASSUME IInv, state.current \in Active(state), HasEps(mm, state), ~AsksForLocation
  PROVE  /\ FirstEps(state) \in EpsStates(mm, state)
         /\ Kept(program, mm, state, FirstEps(state))
<1>1. PICK p, m, s, r : p = program /\ m = mm /\ s = state /\ r = FirstEps(state)
  OBVIOUS
<1>2. /\ StateOK(p, m, s) /\ s.allowed = TRUE /\ s.current \in Active(s) /\ m \in Models
      /\ m \notin {"pso", "sra"} /\ HasEps(m, s)
  BY <1>1, ProgramOK DEF IInv, AsksForLocation
<1>3. EpsStates(m, s) # {}
  BY <1>2 DEF Models, HasEps, EpsStates, Storage!HasEps, Storage!EpsStorages, Storage!TSO!EpsStorages
<1>4. r \in EpsStates(m, s)
  BY <1>1, <1>3 DEF FirstEps
<1>5. StepOf(p, m, s, r)
  BY <1>2, <1>4, EpsStep
<1>6. Kept(p, m, s, r)
  BY <1>2, <1>5 DEF Kept, StepOf, StorageOK
<1> QED
  BY <1>1, <1>4, <1>6

\* Where a location is asked for, there is one to offer.
LEMMA LocationThere ==
  ASSUME IInv, HasEps(mm, state), AsksForLocation
  PROVE  mm \in {"pso", "sra"} /\ LocationsOffered(state) # {}
<1>1. CASE mm = "pso"
  BY <1>1 DEF IInv, StorageOK, HasEps, Storage!HasEps, Storage!PSO!HasEps, LocationsOffered,
              Storage!PSO!Queues, Storage!PSO!At
<1>2. CASE mm = "sra"
  BY <1>2 DEF HasEps, Storage!HasEps, Storage!SRA!HasEps, LocationsOffered
<1> QED
  BY <1>1, <1>2 DEF AsksForLocation

LEMMA NextInv ==
  ASSUME IInv, [Next]_vars
  PROVE  IInv'
<1>0. WellFormed(program) /\ mm \in Models /\ Kept(program, mm, state, state)
  BY ProgramOK, StaysKept
<1>1. CASE Stay
  <2>1. state.current \in Active(state)
    BY <1>1 DEF Stay, MustSwitch, IsInterleavingPossible, IInv
  <2> QED
    BY <1>0, <1>1, <2>1, GoesInv DEF Stay
<1>2. CASE WantSwitch \/ ForcedSwitch
  <2>1. Goes("thread", state)
    BY <1>2 DEF WantSwitch, ForcedSwitch
  <2> QED
    BY <1>0, <2>1, GoesInv
<1>3. CASE ChooseThread
  <2>1. PICK t : IF CanSwitchTo(state, t) THEN Goes("move", SwitchTo(state, t))
                                         ELSE Goes("rejected", state)
    BY <1>3 DEF ChooseThread
  <2>2. CASE CanSwitchTo(state, t)
    BY <2>1, <2>2, SwitchKept, GoesInv DEF CanSwitchTo
  <2>3. CASE ~CanSwitchTo(state, t)
    BY <1>0, <2>1, <2>3, GoesInv
  <2> QED
    BY <2>2, <2>3
<1>4. CASE StatementMove
  BY <1>4, StatementKept, GoesInv DEF StatementMove, IInv
<1>5. CASE ThrowingMove
  <2>1. Goes("thrown", state)
    BY <1>5 DEF ThrowingMove
  <2> QED
    BY <1>0, <2>1, GoesInv
<1>6. CASE EpsilonMove
  <2>1. state.current \in Active(state) /\ HasEps(mm, state)
    BY <1>6 DEF EpsilonMove, IInv
  <2>2. CASE AsksForLocation
    <3>1. Goes("location", state)
      BY <1>6, <2>2 DEF EpsilonMove
    <3> QED
      BY <1>0, <2>1, <2>2, <3>1, LocationThere, GoesInv
  <2>3. CASE ~AsksForLocation
    <3>1. Goes("iteration", FirstEps(state))
      BY <1>6, <2>3 DEF EpsilonMove
    <3> QED
      BY <2>1, <2>3, <3>1, FirstKept, GoesInv
  <2> QED
    BY <2>2, <2>3
<1>7. ASSUME at = "location", NEW l
      PROVE  Kept(program, mm, state, MovedAt(state, l))
  <2>1. mm \in {"pso", "sra"}
    BY <1>7 DEF IInv
  <2>2. MovedAt(state, l) = Moved(mm, state, l)
    BY DEF MovedAt, Moved
  <2>3. PICK p, m, s : p = program /\ m = mm /\ s = state
    OBVIOUS
  <2>4. Kept(p, m, s, Moved(m, s, l))
    BY <1>7, <2>1, <2>3, MovedOK DEF IInv
  <2> QED
    BY <2>2, <2>3, <2>4
<1>8. CASE ChooseLocation
  <2>1. PICK l : Goes("iteration", MovedAt(state, l))
    BY <1>8 DEF ChooseLocation
  <2>2. Kept(program, mm, state, MovedAt(state, l))
    BY <1>7, <1>8 DEF ChooseLocation
  <2> QED
    BY <2>1, <2>2, GoesInv
<1>9. CASE NoLocationChosen
  <2>1. PICK l : state' = MovedAt(state, l)
    BY <1>9 DEF NoLocationChosen
  <2>2. Kept(program, mm, state, state')
    BY <1>7, <1>9, <2>1 DEF NoLocationChosen
  <2> QED
    BY <1>9, <2>2 DEF NoLocationChosen, Kept, IInv, StateOK, program
<1>10. CASE FinalFlush
  <2>1. PICK flushed \in Storage!FlushAll(mm, state.storage) :
          Goes("done", [state EXCEPT !.storage = flushed])
    BY <1>10 DEF FinalFlush
  <2>2. Kept(program, mm, state, [state EXCEPT !.storage = flushed])
    <3>1. PICK p, m, s : p = program /\ m = mm /\ s = state
      OBVIOUS
    <3> DEFINE r == [s EXCEPT !.storage = flushed]
    <3>2. /\ StateOK(p, m, r) /\ r.allowed = s.allowed /\ r.storage = flushed /\ r.next = s.next
          /\ m \in {"tso", "pso"} => DOMAIN flushed.buffers = {}
          /\ m \notin {"tso", "pso"} => flushed = s.storage
      BY <1>0, <2>1, <3>1, FlushedOK DEF IInv
    <3>3. StorageOK(m, s.storage) /\ s.next \in Nat /\ s.allowed = TRUE
      BY <3>1 DEF IInv, StateOK
    <3> HIDE DEF r
    <3>4. Kept(p, m, s, r)
      BY <3>2, <3>3 DEF Kept, StorageOK
    <3> QED
      BY <3>1, <3>4 DEF r
  <2> QED
    BY <2>1, <2>2, GoesInv
<1>11. CASE Close \/ UNCHANGED vars
  BY <1>11 DEF Close, vars, IInv, program, LocationsOffered
<1> QED
  BY <1>1, <1>2, <1>3, <1>4, <1>5, <1>6, <1>8, <1>9, <1>10, <1>11 DEF Next, Step

LEMMA Invariance == Spec => []IInv
<1>1. Init => IInv
  BY InitInv
<1>2. IInv /\ [Next]_vars => IInv'
  BY NextInv
<1> QED
  BY <1>1, <1>2, PTL DEF Spec

\* Whatever has been answered and wherever the input ended, the thread that
\* the move looks up with threads.at() is active, and the dialogue never asks
\* for a location when there is none to offer.
THEOREM TypeCorrectness == Spec => []TypeOK
<1>1. IInv => TypeOK
  BY DEF IInv, TypeOK
<1> QED
  BY <1>1, Invariance, PTL

\* The answers offered for a state reach every successor of its current thread.
LEMMA MovesCover ==
  ASSUME mm \in Models, NEW r
  PROVE  /\ HasEps(mm, r) => EpsStates(mm, r) \subseteq Moves(r)
         /\ Completes(program, mm, r) => Transition(program, mm, r) \in Moves(r)
<1>1. Completes(program, mm, r) => Transition(program, mm, r) \in Moves(r)
  BY DEF Moves
<1>2. ASSUME HasEps(mm, r), mm \in {"pso", "sra"}
      PROVE  EpsStates(mm, r) \subseteq Moves(r)
  <2>1. \A l \in LocationsOffered(r) : MovedAt(r, l) \in Moves(r)
    BY <1>2 DEF Moves, AsksForLocation
  <2>2. ASSUME NEW q \in EpsStates(mm, r)
        PROVE  \E l \in LocationsOffered(r) : q = MovedAt(r, l)
    <3>1. PICK new \in Storage!EpsStorages(mm, r.storage, r.current) : q = [r EXCEPT !.storage = new]
      BY <2>2 DEF EpsStates
    <3>2. CASE mm = "pso"
      BY <3>1, <3>2
         DEF Storage!EpsStorages, Storage!PSO!EpsStorages, LocationsOffered, MovedAt
    <3>3. CASE mm = "sra"
      BY <3>1, <3>3
         DEF Storage!EpsStorages, Storage!SRA!EpsStorages, LocationsOffered, MovedAt
    <3> QED
      BY <1>2, <3>2, <3>3
  <2> QED
    BY <2>1, <2>2
<1>3. ASSUME HasEps(mm, r), mm \notin {"pso", "sra"}
      PROVE  EpsStates(mm, r) \subseteq Moves(r)
  <2>1. FirstEps(r) \in Moves(r)
    BY <1>3 DEF Moves, AsksForLocation
  <2>2. PICK q : EpsStates(mm, r) = {q}
    <3>1. PICK new : Storage!EpsStorages(mm, r.storage, r.current) = {new}
      BY <1>3 DEF Models, HasEps, Storage!HasEps, Storage!EpsStorages, Storage!TSO!EpsStorages
    <3>2. EpsStates(mm, r) = {[r EXCEPT !.storage = new]}
      BY <3>1 DEF EpsStates
    <3> QED
      BY <3>2
  <2>3. FirstEps(r) = q
    BY <2>2 DEF FirstEps
  <2> QED
    BY <2>1, <2>2, <2>3
<1> QED
  BY <1>1, <1>2, <1>3

\* Whatever the program and the memory model, each thing that an iteration of
\* the non-deterministic interpreter can do from a state of the dialogue is what
\* some answers to the prompts do: any thread, the current one included, and
\* any epsilon transition can be asked for.
THEOREM Steerable == Spec => []EveryExecutionOffered
<1>1. IInv => EveryExecutionOffered
  <2> DEFINE switched == {SwitchTo(state, t) : t \in AnswersForThread(state) \ {state.current}}
             starts   == IF ~IsInterleavingPossible(state) THEN {state}
                         ELSE IF MustSwitch(state) THEN switched ELSE switched \cup {state}
  <2> SUFFICES ASSUME IInv, ~closed, NEW q \in Successors(program, mm, state)
               PROVE  q \in UNION {Moves(s) : s \in starts}
    BY DEF EveryExecutionOffered
  <2>1. PICK r \in Interleavings(state) :
          \/ HasEps(mm, r) /\ q \in EpsStates(mm, r)
          \/ Completes(program, mm, r) /\ q = Transition(program, mm, r)
    BY DEF Successors
  <2>2. q \in Moves(r)
    BY <2>1, MovesCover, ProgramOK
  <2>3. SwitchTo(state, state.current) = state
    BY DEF IInv, StateOK, StateShape, SwitchTo
  <2>4. r \in starts
    <3>1. CASE ~IsInterleavingPossible(state)
      BY <3>1 DEF Interleavings
    <3>2. CASE IsInterleavingPossible(state)
      <4>1. PICK t \in Active(state) : r = SwitchTo(state, t)
        BY <3>2 DEF Interleavings
      <4>2. CASE t = state.current
        <5>1. ~MustSwitch(state)
          BY <4>2 DEF MustSwitch
        <5> QED
          BY <2>3, <3>2, <4>1, <4>2, <5>1
      <4>3. CASE t # state.current
        <5>1. t \in AnswersForThread(state) \ {state.current}
          BY <4>3 DEF AnswersForThread
        <5> QED
          BY <3>2, <4>1, <5>1
      <4> QED
        BY <4>2, <4>3
    <3> QED
      BY <3>1, <3>2
  <2> QED
    BY <2>2, <2>4
<1> QED
  BY <1>1, Invariance, PTL

----------------------------------------------------------------------------
(* Run's copies of the operators are the same operators. *)

LEMMA RunReads ==
  ASSUME NEW m, NEW s, NEW t, NEW l, NEW o
  PROVE  Run!Storage!Read(m, s, t, l, o) = Storage!Read(m, s, t, l, o)
BY DEF Run!Storage!Read, Storage!Read, Run!Storage!SC!Read, Storage!SC!Read,
       Run!Storage!SC!At, Storage!SC!At, Run!Storage!TSO!Read, Storage!TSO!Read,
       Run!Storage!TSO!At, Storage!TSO!At, Run!Storage!TSO!StoresTo, Storage!TSO!StoresTo,
       Run!Storage!TSO!Max, Storage!TSO!Max, Run!Storage!PSO!Read, Storage!PSO!Read,
       Run!Storage!PSO!At, Storage!PSO!At, Run!Storage!PSO!Queues, Storage!PSO!Queues,
       Run!Storage!PSO!Last, Storage!PSO!Last, Run!Storage!PSO!EmptyMap,
       Storage!PSO!EmptyMap, Run!Storage!SRA!Read, Storage!SRA!Read, Run!Storage!SRA!At,
       Storage!SRA!At, Run!Storage!SRA!View, Storage!SRA!View, Run!Storage!SRA!EmptyMap,
       Storage!SRA!EmptyMap, Run!Storage!SRA!Put, Storage!SRA!Put, Run!Storage!SRA!Min,
       Storage!SRA!Min, Run!Storage!SRA!ReadFrom, Storage!SRA!ReadFrom,
       Run!Storage!SRA!Timestamp, Storage!SRA!Timestamp, Run!Storage!SRA!Acquires,
       Storage!SRA!Acquires, Run!Storage!SRA!Join, Storage!SRA!Join

LEMMA RunWrites ==
  ASSUME NEW m, NEW s, NEW t, NEW l, NEW v, NEW o
  PROVE  Run!Storage!Write(m, s, t, l, v, o) = Storage!Write(m, s, t, l, v, o)
BY DEF Run!Storage!Write, Storage!Write, Run!Storage!SC!Write, Storage!SC!Write,
       Run!Storage!SC!Put, Storage!SC!Put, Run!Storage!TSO!Write, Storage!TSO!Write,
       Run!Storage!TSO!Enqueue, Storage!TSO!Enqueue, Run!Storage!TSO!FlushBuffer,
       Storage!TSO!FlushBuffer, Run!Storage!TSO!Read, Storage!TSO!Read, Run!Storage!TSO!At,
       Storage!TSO!At, Run!Storage!TSO!StoresTo, Storage!TSO!StoresTo, Run!Storage!TSO!Max,
       Storage!TSO!Max, Run!Storage!TSO!HasEps, Storage!TSO!HasEps, Run!Storage!TSO!Put,
       Storage!TSO!Put, Run!Storage!TSO!Erase, Storage!TSO!Erase, Run!Storage!PSO!Write,
       Storage!PSO!Write, Run!Storage!PSO!Enqueue, Storage!PSO!Enqueue,
       Run!Storage!PSO!FlushBuffer, Storage!PSO!FlushBuffer, Run!Storage!PSO!Queues,
       Storage!PSO!Queues, Run!Storage!PSO!At, Storage!PSO!At, Run!Storage!PSO!Last,
       Storage!PSO!Last, Run!Storage!PSO!EmptyMap, Storage!PSO!EmptyMap, Run!Storage!PSO!Put,
       Storage!PSO!Put, Run!Storage!PSO!Erase, Storage!PSO!Erase, Run!Storage!SRA!Write,
       Storage!SRA!Write, Run!Storage!SRA!At, Storage!SRA!At, Run!Storage!SRA!View,
       Storage!SRA!View, Run!Storage!SRA!EmptyMap, Storage!SRA!EmptyMap, Run!Storage!SRA!Put,
       Storage!SRA!Put, Run!Storage!SRA!Releases, Storage!SRA!Releases

LEMMA RunFlushes ==
  ASSUME NEW m, NEW s, NEW t
  PROVE  /\ Run!Storage!FlushThread(m, s, t) = Storage!FlushThread(m, s, t)
         /\ Run!Storage!PrepareThread(m, s, t) = Storage!PrepareThread(m, s, t)
         /\ \A o : Run!Storage!Fence(m, s, t, o) = Storage!Fence(m, s, t, o)
BY DEF Run!Storage!FlushThread, Storage!FlushThread, Run!Storage!PrepareThread,
       Storage!PrepareThread, Run!Storage!Fence, Storage!Fence, Run!Storage!TSO!Fence,
       Storage!TSO!Fence, Run!Storage!TSO!FlushBuffer, Storage!TSO!FlushBuffer,
       Run!Storage!TSO!Read, Storage!TSO!Read, Run!Storage!TSO!At, Storage!TSO!At,
       Run!Storage!TSO!StoresTo, Storage!TSO!StoresTo, Run!Storage!TSO!Max, Storage!TSO!Max,
       Run!Storage!TSO!HasEps, Storage!TSO!HasEps, Run!Storage!TSO!Erase, Storage!TSO!Erase,
       Run!Storage!PSO!Fence, Storage!PSO!Fence, Run!Storage!PSO!FlushBuffer,
       Storage!PSO!FlushBuffer, Run!Storage!PSO!Queues, Storage!PSO!Queues,
       Run!Storage!PSO!At, Storage!PSO!At, Run!Storage!PSO!Last, Storage!PSO!Last,
       Run!Storage!PSO!EmptyMap, Storage!PSO!EmptyMap, Run!Storage!PSO!Erase,
       Storage!PSO!Erase, Run!Storage!SRA!PrepareThread, Storage!SRA!PrepareThread,
       Run!Storage!SRA!EmptyMap, Storage!SRA!EmptyMap, Run!Storage!SRA!Put, Storage!SRA!Put

LEMMA RunMoves ==
  ASSUME NEW m, NEW s, NEW t
  PROVE  /\ Run!Storage!HasEps(m, s, t) = Storage!HasEps(m, s, t)
         /\ Run!Storage!EpsStorages(m, s, t) = Storage!EpsStorages(m, s, t)
BY DEF Run!Storage!HasEps, Storage!HasEps, Run!Storage!EpsStorages, Storage!EpsStorages,
       Run!Storage!TSO!HasEps, Storage!TSO!HasEps, Run!Storage!TSO!EpsStorages,
       Storage!TSO!EpsStorages, Run!Storage!TSO!Propagate, Storage!TSO!Propagate,
       Run!Storage!TSO!Put, Storage!TSO!Put, Run!Storage!TSO!Erase, Storage!TSO!Erase,
       Run!Storage!PSO!HasEps, Storage!PSO!HasEps, Run!Storage!PSO!EpsStorages,
       Storage!PSO!EpsStorages, Run!Storage!PSO!Propagate, Storage!PSO!Propagate,
       Run!Storage!PSO!Queues, Storage!PSO!Queues, Run!Storage!PSO!At, Storage!PSO!At,
       Run!Storage!PSO!EmptyMap, Storage!PSO!EmptyMap, Run!Storage!PSO!Put, Storage!PSO!Put,
       Run!Storage!PSO!Erase, Storage!PSO!Erase, Run!Storage!SRA!HasEps, Storage!SRA!HasEps,
       Run!Storage!SRA!EpsStorages, Storage!SRA!EpsStorages,
       Run!Storage!SRA!IncreaseLocations, Storage!SRA!IncreaseLocations,
       Run!Storage!SRA!Increase, Storage!SRA!Increase, Run!Storage!SRA!View,
       Storage!SRA!View, Run!Storage!SRA!Timestamp, Storage!SRA!Timestamp,
       Run!Storage!SRA!At, Storage!SRA!At, Run!Storage!SRA!EmptyMap, Storage!SRA!EmptyMap,
       Run!Storage!SRA!Put, Storage!SRA!Put

LEMMA RunFlushesAll ==
  ASSUME NEW m, NEW s
  PROVE  Run!Storage!FlushAll(m, s) = Storage!FlushAll(m, s)
BY DEF Run!Storage!FlushAll, Storage!FlushAll, Run!Storage!TSO!FlushAll,
       Storage!TSO!FlushAll, Run!Storage!TSO!FoldLeft, Storage!TSO!FoldLeft,
       Run!Storage!TSO!MapThenFoldSet, Storage!TSO!MapThenFoldSet, Run!Storage!TSO!SetToSeqs,
       Storage!TSO!SetToSeqs, Run!Storage!TSO!Cardinality, Storage!TSO!Cardinality,
       Run!Storage!TSO!FlushBuffer, Storage!TSO!FlushBuffer, Run!Storage!TSO!Read,
       Storage!TSO!Read, Run!Storage!TSO!At, Storage!TSO!At, Run!Storage!TSO!StoresTo,
       Storage!TSO!StoresTo, Run!Storage!TSO!Max, Storage!TSO!Max, Run!Storage!TSO!HasEps,
       Storage!TSO!HasEps, Run!Storage!TSO!Erase, Storage!TSO!Erase,
       Run!Storage!PSO!FlushAll, Storage!PSO!FlushAll, Run!Storage!PSO!FoldLeft,
       Storage!PSO!FoldLeft, Run!Storage!PSO!MapThenFoldSet, Storage!PSO!MapThenFoldSet,
       Run!Storage!PSO!SetToSeqs, Storage!PSO!SetToSeqs, Run!Storage!PSO!Cardinality,
       Storage!PSO!Cardinality, Run!Storage!PSO!FlushBuffer, Storage!PSO!FlushBuffer,
       Run!Storage!PSO!Queues, Storage!PSO!Queues, Run!Storage!PSO!At, Storage!PSO!At,
       Run!Storage!PSO!Last, Storage!PSO!Last, Run!Storage!PSO!EmptyMap,
       Storage!PSO!EmptyMap, Run!Storage!PSO!Erase, Storage!PSO!Erase, Run!Storage!PSO!Max,
       Storage!PSO!Max

LEMMA RunEvaluates ==
  ASSUME NEW m, NEW s, NEW e
  PROVE  Run!Evaluate(m, s, e) = Evaluate(m, s, e)
BY RunReads, RunWrites, RunFlushes
   DEF Run!Evaluate, Evaluate, Run!EvaluateCas, EvaluateCas, Run!EvaluateFai, EvaluateFai,
       Run!Compute, Compute, Run!Wrap, Wrap, Run!Half, Half, Run!Quotient, Quotient,
       Run!Regs, Regs

LEMMA RunTransitions ==
  ASSUME NEW p, NEW m, NEW s
  PROVE  Run!Transition(p, m, s) = Transition(p, m, s)
BY RunReads, RunWrites, RunFlushes, RunEvaluates
   DEF Run!Transition, Transition, Run!StatementAt, StatementAt, Run!Regs, Regs, Run!Jump,
       Jump, Run!Advance, Advance, Run!AddThread, AddThread, Run!Assigned, Assigned,
       Run!Loaded, Loaded, Run!Stored, Stored, Run!Ended, Ended, Run!SetReg, SetReg, Run!Put,
       Put, Run!Erase, Erase, Run!EmptyMap, EmptyMap

LEMMA RunCompletes ==
  ASSUME NEW p, NEW m, NEW s
  PROVE  Run!Completes(p, m, s) <=> Completes(p, m, s)
BY DEF Run!Completes, Completes, Run!StatementAt, StatementAt, Run!Regs, Regs,
       Run!RegistersRead, RegistersRead, Run!Evaluated, Evaluated, Run!Half, Half,
       Run!Storage!FenceThrows, Storage!FenceThrows

LEMMA RunIterations ==
  ASSUME NEW m, NEW s
  PROVE  /\ Run!HasActiveThreads(s) <=> HasActiveThreads(s)
         /\ Run!Interleavings(s) = Interleavings(s)
         /\ Run!HasEps(m, s) <=> HasEps(m, s)
         /\ Run!EpsStates(m, s) = EpsStates(m, s)
<1>1. Run!HasActiveThreads(s) <=> HasActiveThreads(s)
  BY DEF Run!HasActiveThreads, HasActiveThreads, Run!Active, Active
<1>2. Run!Interleavings(s) = Interleavings(s)
  BY DEF Run!Interleavings, Interleavings, Run!IsInterleavingPossible, IsInterleavingPossible,
       Run!Active, Active, Run!SwitchTo, SwitchTo, Run!Cardinality, Cardinality
<1>3. Run!HasEps(m, s) <=> HasEps(m, s)
  BY RunMoves DEF Run!HasEps, HasEps
<1>4. Run!EpsStates(m, s) = EpsStates(m, s)
  BY RunMoves DEF Run!EpsStates, EpsStates
<1> QED
  BY <1>1, <1>2, <1>3, <1>4

LEMMA RunStarts ==
  ASSUME NEW m
  PROVE  Run!InitialState(m) = InitialState(m)
<1>1. Run!Storage!New(m) = Storage!New(m)
  BY DEF Run!Storage!New, Storage!New, Run!Storage!SC!New, Storage!SC!New,
       Run!Storage!SC!EmptyMap, Storage!SC!EmptyMap, Run!Storage!TSO!New, Storage!TSO!New,
       Run!Storage!TSO!EmptyMap, Storage!TSO!EmptyMap, Run!Storage!PSO!New, Storage!PSO!New,
       Run!Storage!PSO!EmptyMap, Storage!PSO!EmptyMap, Run!Storage!SRA!New, Storage!SRA!New,
       Run!Storage!SRA!EmptyMap, Storage!SRA!EmptyMap
<1>2. Run!EmptyMap = EmptyMap
  BY DEF Run!EmptyMap, EmptyMap
<1>3. ASSUME NEW s
      PROVE  Run!AddThread(m, s, 1) = AddThread(m, s, 1)
  BY <1>2, RunFlushes DEF Run!AddThread, AddThread, Run!Put, Put
<1> QED
  BY <1>1, <1>2, <1>3 DEF Run!InitialState, InitialState

----------------------------------------------------------------------------
(* Every step of the dialogue is an iteration of the non-deterministic      *)
(* interpreter, its last part, or a step of no consequence.                 *)

CleanState(m, s) == [s EXCEPT !.storage = Clean(m, @)]

Started(m, s, before) == [s EXCEPT !.current = before, !.storage = Clean(m, @)]

LEMMA CleanAlike ==
  ASSUME NEW p, NEW m, NEW s, StateOK(p, m, s), StorageOK(m, s.storage)
  PROVE  Alike(m, s, CleanState(m, s))
<1> DEFINE c == Clean(m, s.storage)
<1>1. s = [next |-> s.next, current |-> s.current, allowed |-> s.allowed,
           storage |-> s.storage, threads |-> s.threads, finished |-> s.finished]
  BY DEF StateOK, StateShape
<1>2. CleanState(m, s) = [s EXCEPT !.storage = c]
  BY DEF CleanState
<1> HIDE DEF c
<1>3. CleanState(m, s) =
        [next |-> s.next, current |-> s.current, allowed |-> s.allowed,
         storage |-> c, threads |-> s.threads, finished |-> s.finished]
  BY <1>1, <1>2
<1> QED
  BY <1>1, <1>3 DEF c, Alike, Good, StateOK

LEMMA AlikeIsClean ==
  ASSUME NEW m, NEW s, NEW r, Alike(m, s, r)
  PROVE  r = CleanState(m, s)
<1>1. PICK c : c = Clean(m, s.storage)
  OBVIOUS
<1>2. CleanState(m, s) = [s EXCEPT !.storage = c]
  BY <1>1 DEF CleanState
<1>3. /\ s = [next |-> s.next, current |-> s.current, allowed |-> s.allowed,
              storage |-> s.storage, threads |-> s.threads, finished |-> s.finished]
      /\ r = [next |-> s.next, current |-> s.current, allowed |-> s.allowed,
              storage |-> c, threads |-> s.threads, finished |-> s.finished]
  BY <1>1 DEF Alike
<1> QED
  BY <1>2, <1>3

LEMMA StartedShape ==
  ASSUME NEW m, NEW s, StateShape(s), NEW before
  PROVE  Started(m, s, before) =
           [next |-> s.next, current |-> before, allowed |-> s.allowed,
            storage |-> Clean(m, s.storage), threads |-> s.threads, finished |-> s.finished]
<1>1. PICK c : c = Clean(m, s.storage)
  OBVIOUS
<1>2. Started(m, s, before) = [s EXCEPT !.current = before, !.storage = c]
  BY <1>1 DEF Started
<1>3. s = [next |-> s.next, current |-> s.current, allowed |-> s.allowed,
           storage |-> s.storage, threads |-> s.threads, finished |-> s.finished]
  BY DEF StateShape
<1>4. Started(m, s, before) =
        [next |-> s.next, current |-> before, allowed |-> s.allowed,
         storage |-> c, threads |-> s.threads, finished |-> s.finished]
  BY <1>2, <1>3
<1> QED
  BY <1>1, <1>4

\* The state of the iteration, in terms of the memory model.
LEMMA MappedState ==
  /\ IterationState = Started(mm, state, previous)
  /\ IterationState' = Started(mm', state', previous')
BY DEF IterationState, Started, Cleaned, Clean, Nonzero

\* A set of threads with two members allows a switch.
LEMMA TwoThreads ==
  ASSUME NEW S, IsFiniteSet(S), NEW a \in S, NEW b \in S, a # b
  PROVE  Cardinality(S) > 1
<1>1. IsFiniteSet({a}) /\ Cardinality({a}) = 1
  BY FS_Singleton
<1>2. IsFiniteSet({a} \cup {b}) /\ Cardinality({a} \cup {b}) = 2
  <2>1. b \notin {a}
    OBVIOUS
  <2>2. PICK A : A = {a}
    OBVIOUS
  <2>3. Cardinality(A \cup {b}) = Cardinality(A) + 1 /\ IsFiniteSet(A \cup {b})
    BY <1>1, <2>1, <2>2, FS_AddElement
  <2> QED
    BY <1>1, <2>2, <2>3
<1>3. Cardinality({a} \cup {b}) <= Cardinality(S)
  BY FS_Subset
<1>4. Cardinality(S) \in Nat
  BY FS_CardinalityType
<1> QED
  BY <1>2, <1>3, <1>4

\* The thread that moves is one that the draw at the start of the iteration
\* can yield, whichever way the dialogue came to it.
LEMMA Drawable ==
  ASSUME NEW p, NEW m, NEW s, StateOK(p, m, s), StorageOK(m, s.storage), s.allowed = TRUE,
         s.current \in Active(s), NEW before
  PROVE  /\ HasActiveThreads(Started(m, s, before))
         /\ CleanState(m, s) \in Interleavings(Started(m, s, before))
<1> DEFINE i == Started(m, s, before)
           c == CleanState(m, s)
<1>1. i = [next |-> s.next, current |-> before, allowed |-> s.allowed,
           storage |-> Clean(m, s.storage), threads |-> s.threads, finished |-> s.finished]
  BY StartedShape DEF StateOK
<1>2. c = [next |-> s.next, current |-> s.current, allowed |-> s.allowed,
           storage |-> Clean(m, s.storage), threads |-> s.threads, finished |-> s.finished]
  BY CleanAlike DEF Alike
<1> HIDE DEF i, c
<1>3. i.threads = s.threads /\ i.current = before /\ i.allowed = TRUE
  BY <1>1
<1>4. HasActiveThreads(i) /\ s.current \in Active(i)
  BY <1>3 DEF HasActiveThreads, Active
<1>5. CASE IsInterleavingPossible(i)
  <2>1. c = SwitchTo(i, s.current)
    BY <1>1, <1>2 DEF SwitchTo
  <2> QED
    BY <1>4, <1>5, <2>1 DEF Interleavings, i, c
<1>6. CASE ~IsInterleavingPossible(i)
  <2>1. ~(Cardinality(Active(s)) > 1) /\ before \in Active(s)
    BY <1>3, <1>6 DEF IsInterleavingPossible, Active
  <2>2. IsFiniteSet(Active(s))
    <3>1. s.next - 1 \in Int /\ Active(s) \subseteq 0..s.next - 1
      BY DEF StateOK
    <3>2. IsFiniteSet(0..s.next - 1)
      BY <3>1, FS_Interval
    <3> QED
      BY <3>1, <3>2, FS_Subset
  <2>3. before = s.current
    BY <2>1, <2>2, TwoThreads
  <2>4. c = i
    BY <1>1, <1>2, <2>3
  <2> QED
    BY <1>4, <1>6, <2>4 DEF Interleavings, i, c
<1> QED
  BY <1>5, <1>6

\* The iteration is over: the next one starts from the state it left.
LEMMA Restarts ==
  ASSUME IInv, NEW new, Kept(program, mm, state, new), Goes("iteration", new)
  PROVE  IterationState' = CleanState(mm, new)
<1>1. StateShape(new)
  BY DEF Kept, StateOK
<1>2. IterationState' = Started(mm, new, new.current)
  BY MappedState DEF Goes
<1>3. Started(mm, new, new.current) = CleanState(mm, new)
  <2>1. PICK c : c = Clean(mm, new.storage)
    OBVIOUS
  <2>2. CleanState(mm, new) = [new EXCEPT !.storage = c]
    BY <2>1 DEF CleanState
  <2>3. Started(mm, new, new.current) =
          [next |-> new.next, current |-> new.current, allowed |-> new.allowed,
           storage |-> c, threads |-> new.threads, finished |-> new.finished]
    BY <1>1, <2>1, StartedShape
  <2> QED
    BY <1>1, <2>2, <2>3 DEF StateShape
<1> QED
  BY <1>2, <1>3

\* What the lemmas above say of the state of the dialogue.
LEMMA MovingThread ==
  ASSUME IInv, state.current \in Active(state)
  PROVE  /\ Run!HasActiveThreads(IterationState)
         /\ CleanState(mm, state) \in Run!Interleavings(IterationState)
         /\ Alike(mm, state, CleanState(mm, state))
<1>1. PICK p, m, s, before : p = program /\ m = mm /\ s = state /\ before = previous
  OBVIOUS
<1>2. /\ StateOK(p, m, s) /\ StorageOK(m, s.storage) /\ s.allowed = TRUE
      /\ s.current \in Active(s)
  BY <1>1 DEF IInv
<1>3. /\ HasActiveThreads(Started(m, s, before))
      /\ CleanState(m, s) \in Interleavings(Started(m, s, before))
      /\ Alike(m, s, CleanState(m, s))
  BY <1>2, Drawable, CleanAlike
<1> QED
  BY <1>1, <1>3, MappedState, RunIterations

LEMMA MapsStatement ==
  ASSUME IInv, StatementMove
  PROVE  Run!StatementStep
<1>1. /\ at = "move" /\ Completes(program, mm, state) /\ state.current \in Active(state)
      /\ Goes("iteration", Transition(program, mm, state))
  BY DEF StatementMove, IInv
<1>2. IterationState' = CleanState(mm, Transition(program, mm, state))
  BY <1>1, StatementKept, Restarts
<1>3. /\ Run!HasActiveThreads(IterationState)
      /\ CleanState(mm, state) \in Run!Interleavings(IterationState)
      /\ Alike(mm, state, CleanState(mm, state))
  BY <1>1, MovingThread
<1>4. PICK p, m, s, c : p = program /\ m = mm /\ s = state /\ c = CleanState(m, s)
  OBVIOUS
<1>5. /\ WellFormed(p) /\ m \in Models /\ s.threads[s.current].pc \in DOMAIN p.statements
      /\ Completes(p, m, s) /\ Alike(m, s, c)
  BY <1>1, <1>3, <1>4, ProgramOK DEF IInv, StateOK
<1>6. Completes(p, m, c) /\ Transition(p, m, c) = CleanState(m, Transition(p, m, s))
  BY <1>5, TransitionAlike, AlikeIsClean, CompletesAlike
<1>7. /\ Run!Completes(p, m, c)
      /\ Run!Transition(p, m, c) = CleanState(m, Transition(p, m, s))
  BY <1>6, RunCompletes, RunTransitions
<1>8. c \in Run!Interleavings(IterationState) /\ IterationState' = Run!Transition(p, m, c)
  BY <1>2, <1>3, <1>4, <1>7
<1>9. /\ Run!Running
      /\ UNCHANGED <<name, mm>> /\ at' = "iteration" /\ p = Run!program /\ m = mm
  BY <1>1, <1>3, <1>4 DEF Run!Running, Goes, program, Run!program
<1> QED
  BY <1>1, <1>7, <1>8, <1>9 DEF Run!StatementStep

LEMMA MapsThrow ==
  ASSUME IInv, ThrowingMove
  PROVE  Run!Throw
<1>1. /\ at = "move" /\ ~Completes(program, mm, state) /\ state.current \in Active(state)
      /\ Goes("thrown", state)
  BY DEF ThrowingMove, IInv
<1>2. /\ Run!HasActiveThreads(IterationState)
      /\ CleanState(mm, state) \in Run!Interleavings(IterationState)
      /\ Alike(mm, state, CleanState(mm, state))
  BY <1>1, MovingThread
<1>3. ~Run!Completes(program, mm, CleanState(mm, state))
  BY <1>1, <1>2, CompletesAlike, RunCompletes
<1>4. IterationState' = IterationState /\ UNCHANGED <<name, mm>> /\ at' = "thrown"
  BY <1>1, MappedState DEF Goes
<1> QED
  BY <1>1, <1>2, <1>3, <1>4 DEF Run!Throw, Run!Running, program, Run!program

\* A storage that an epsilon transition leaves, without the timestamps at 0.
LEMMA EpsAlike ==
  ASSUME NEW m \in Models, NEW s, NEW c, Alike(m, s, c)
  PROVE  /\ HasEps(m, s) => HasEps(m, c)
         /\ m # "sra" => /\ c = s
                         /\ \A q \in EpsStates(m, s) : q \in EpsStates(m, c) /\ CleanState(m, q) = q
         /\ m = "sra" =>
              \A l \in Storage!SRA!IncreaseLocations(s.storage, s.current) :
                s.current \in DOMAIN s.storage.views =>
                  CleanState(m, Moved(m, s, l)) \in EpsStates(m, c)
<1>1. /\ s = [next |-> s.next, current |-> s.current, allowed |-> s.allowed,
              storage |-> s.storage, threads |-> s.threads, finished |-> s.finished]
      /\ c.current = s.current /\ c.storage = Clean(m, s.storage) /\ Good(m, s.storage)
      /\ c = [next |-> s.next, current |-> s.current, allowed |-> s.allowed,
              storage |-> c.storage, threads |-> s.threads, finished |-> s.finished]
  BY AlikeFields DEF Alike
<1>2. CASE m # "sra"
  <2>1. c = s
    BY <1>1, <1>2 DEF Clean
  <2>2. ASSUME NEW q \in EpsStates(m, s)
        PROVE  CleanState(m, q) = q
    <3>1. PICK new : q = [s EXCEPT !.storage = new]
      BY DEF EpsStates
    <3>2. q = [next |-> s.next, current |-> s.current, allowed |-> s.allowed,
               storage |-> new, threads |-> s.threads, finished |-> s.finished]
      BY <1>1, <3>1
    <3> QED
      BY <1>2, <3>2 DEF CleanState, Clean
  <2> QED
    BY <1>2, <2>1, <2>2
<1>3. CASE m = "sra"
  <2>1. /\ Storage!SRA!IncreaseLocations(c.storage, s.current) =
             Storage!SRA!IncreaseLocations(s.storage, s.current)
        /\ \A l \in Storage!SRA!IncreaseLocations(s.storage, s.current) :
             Storage!SRA!Increase(c.storage, s.current, l) =
               Clean("sra", Storage!SRA!Increase(s.storage, s.current, l))
    BY <1>1, <1>3, IncreaseClean
  <2>2. c.storage.views = s.storage.views
    BY <1>1, <1>3, CleanShape DEF Good, StorageShape, Record
  <2>3. HasEps(m, s) => HasEps(m, c)
    BY <1>1, <1>3, <2>1, <2>2 DEF HasEps, Storage!HasEps, Storage!SRA!HasEps
  <2>4. ASSUME NEW l \in Storage!SRA!IncreaseLocations(s.storage, s.current),
               s.current \in DOMAIN s.storage.views
        PROVE  CleanState(m, Moved(m, s, l)) \in EpsStates(m, c)
    <3>1. PICK x, y : /\ x = Storage!SRA!Increase(s.storage, s.current, l)
                      /\ y = Storage!SRA!Increase(c.storage, s.current, l)
      OBVIOUS
    <3>2. y \in Storage!EpsStorages(m, c.storage, c.current)
      BY <1>1, <1>3, <2>1, <2>2, <2>4, <3>1
         DEF Storage!EpsStorages, Storage!SRA!EpsStorages, Storage!SRA!HasEps
    <3>3. [c EXCEPT !.storage = y] \in EpsStates(m, c)
      BY <3>2 DEF EpsStates
    <3>4. Same(m, x, y)
      <4>1. Good(m, x)
        BY <1>1, <1>3, <3>1, SRATouches, SRAKept DEF Good, Touches
      <4> QED
        BY <1>3, <2>1, <2>4, <3>1, <4>1 DEF Same
    <3>5. Alike(m, [s EXCEPT !.storage = x], [c EXCEPT !.storage = y])
      BY <3>4, StorageAlike
    <3>6. Moved(m, s, l) = [s EXCEPT !.storage = x]
      BY <1>3, <3>1 DEF Moved
    <3> QED
      BY <3>3, <3>5, <3>6, AlikeIsClean
  <2> QED
    BY <1>3, <2>3, <2>4
<1> QED
  BY <1>2, <1>3

\* The state that the iteration leaves is one that Run's epsilon step does.
LEMMA MapsEps ==
  ASSUME IInv, state.current \in Active(state), at \in {"move", "location"}, HasEps(mm, state),
         NEW new, Kept(program, mm, state, new), Goes("iteration", new),
         CleanState(mm, new) \in EpsStates(mm, CleanState(mm, state))
  PROVE  Run!EpsilonStep
<1>1. IterationState' = CleanState(mm, new)
  BY Restarts
<1>2. /\ Run!HasActiveThreads(IterationState)
      /\ CleanState(mm, state) \in Run!Interleavings(IterationState)
      /\ Alike(mm, state, CleanState(mm, state))
  BY MovingThread
<1>3. PICK m, s, c : m = mm /\ s = state /\ c = CleanState(m, s)
  OBVIOUS
<1>4. HasEps(m, c)
  BY <1>2, <1>3, EpsAlike, ProgramOK
<1>5. Run!HasEps(m, c) /\ Run!EpsStates(m, c) = EpsStates(m, c)
  BY <1>4, RunIterations
<1>6. /\ c \in Run!Interleavings(IterationState)
      /\ IterationState' \in Run!EpsStates(m, c)
  BY <1>1, <1>2, <1>3, <1>5
<1>7. UNCHANGED <<name, mm>> /\ at' = "iteration"
  BY DEF Goes
<1> QED
  BY <1>2, <1>3, <1>5, <1>6, <1>7 DEF Run!EpsilonStep, Run!Running

LEMMA MapsEpsilon ==
  ASSUME IInv, EpsilonMove, ~AsksForLocation
  PROVE  Run!EpsilonStep
<1>1. /\ at = "move" /\ HasEps(mm, state) /\ state.current \in Active(state)
      /\ Goes("iteration", FirstEps(state))
  BY DEF EpsilonMove, IInv
<1>2. FirstEps(state) \in EpsStates(mm, state) /\ Kept(program, mm, state, FirstEps(state))
  BY <1>1, FirstKept
<1>3. Alike(mm, state, CleanState(mm, state))
  BY <1>1, MovingThread
<1>4. mm # "sra" /\ mm \in Models
  BY ProgramOK DEF AsksForLocation
<1>5. CleanState(mm, FirstEps(state)) \in EpsStates(mm, CleanState(mm, state))
  BY <1>2, <1>3, <1>4, EpsAlike
<1> QED
  BY <1>1, <1>2, <1>5, MapsEps

LEMMA MovedKept ==
  ASSUME IInv, at = "location", NEW l
  PROVE  /\ Kept(program, mm, state, MovedAt(state, l))
         /\ MovedAt(state, l) = Moved(mm, state, l)
         /\ mm \in {"pso", "sra"} /\ state.current \in Active(state)
<1>1. mm \in {"pso", "sra"} /\ state.current \in Active(state)
  BY DEF IInv
<1>2. MovedAt(state, l) = Moved(mm, state, l)
  BY DEF MovedAt, Moved
<1>3. PICK p, m, s : p = program /\ m = mm /\ s = state
  OBVIOUS
<1>4. Kept(p, m, s, Moved(m, s, l))
  BY <1>1, <1>3, MovedOK DEF IInv
<1> QED
  BY <1>1, <1>2, <1>3, <1>4

LEMMA MapsLocation ==
  ASSUME IInv, ChooseLocation
  PROVE  Run!EpsilonStep
<1>1. PICK l \in LocationsOffered(state) : Goes("iteration", MovedAt(state, l))
  BY DEF ChooseLocation
<1>2. /\ at = "location" /\ Kept(program, mm, state, MovedAt(state, l))
      /\ MovedAt(state, l) = Moved(mm, state, l)
      /\ mm \in {"pso", "sra"} /\ state.current \in Active(state)
  BY MovedKept DEF ChooseLocation
<1>3. Alike(mm, state, CleanState(mm, state))
  BY <1>2, MovingThread
<1>4. PICK m, s, c : m = mm /\ s = state /\ c = CleanState(m, s)
  OBVIOUS
<1>5. CASE mm = "pso"
  <2>1. l \in DOMAIN Storage!PSO!Queues(s.storage, s.current)
    BY <1>4, <1>5 DEF LocationsOffered
  <2>2. HasEps(m, s)
    BY <1>4, <1>5, <2>1 DEF HasEps, Storage!HasEps, Storage!PSO!HasEps, Storage!PSO!Queues,
                            Storage!PSO!At, Storage!PSO!EmptyMap
  <2>3. Moved(m, s, l) \in EpsStates(m, s)
    BY <1>4, <1>5, <2>1 DEF Moved, EpsStates, Storage!EpsStorages, Storage!PSO!EpsStorages
  <2>4. CleanState(m, Moved(m, s, l)) \in EpsStates(m, c)
    BY <1>3, <1>4, <1>5, <2>3, EpsAlike DEF Models
  <2> QED
    BY <1>1, <1>2, <1>4, <2>2, <2>4, MapsEps
<1>6. CASE mm = "sra"
  <2>1. l \in Storage!SRA!IncreaseLocations(s.storage, s.current)
    BY <1>4, <1>6 DEF LocationsOffered
  <2>2. s.current \in DOMAIN s.storage.views
    BY <1>4, <1>6 DEF IInv, StateOK, Part
  <2>3. HasEps(m, s)
    BY <1>4, <1>6, <2>1, <2>2 DEF HasEps, Storage!HasEps, Storage!SRA!HasEps
  <2>4. CleanState(m, Moved(m, s, l)) \in EpsStates(m, c)
    BY <1>3, <1>4, <1>6, <2>1, <2>2, EpsAlike DEF Models
  <2> QED
    BY <1>1, <1>2, <1>4, <2>3, <2>4, MapsEps
<1> QED
  BY <1>2, <1>5, <1>6

\* The prompt that returns without input changes nothing but timestamps at 0.
LEMMA MapsNoLocation ==
  ASSUME IInv, NoLocationChosen
  PROVE  IterationState' = IterationState
<1>1. PICK l : l \notin LocationsOffered(state) /\ state' = MovedAt(state, l)
  BY DEF NoLocationChosen
<1>2. /\ state' = Moved(mm, state, l)
      /\ mm \in {"pso", "sra"} /\ mm' = mm /\ previous' = previous
  BY <1>1, MovedKept DEF NoLocationChosen
<1>3. PICK m, s, before, x :
        /\ m = mm /\ s = state /\ before = previous
        /\ x = IF m = "pso" THEN Storage!PSO!Propagate(s.storage, s.current, l)
                            ELSE Storage!SRA!Increase(s.storage, s.current, l)
  OBVIOUS
<1>4. StateShape(s) /\ Good(m, s.storage)
  BY <1>3 DEF IInv, StateOK, Good
<1>5. Clean(m, x) = Clean(m, s.storage)
  <2>1. CASE m = "pso"
    <3>1. l \notin DOMAIN Storage!PSO!Queues(s.storage, s.current)
      BY <1>1, <1>3, <2>1 DEF LocationsOffered
    <3>2. x = s.storage
      BY <1>3, <2>1, <3>1 DEF Storage!PSO!Propagate
    <3> QED
      BY <3>2
  <2>2. CASE m = "sra"
    <3>1. l \notin Storage!SRA!IncreaseLocations(s.storage, s.current)
      BY <1>1, <1>3, <2>2 DEF LocationsOffered
    <3>2. s.current \in DOMAIN s.storage.views
      BY <1>3, <2>2 DEF IInv, StateOK, Part
    <3> QED
      BY <1>3, <1>4, <2>2, <3>1, <3>2, IncreaseNothing
  <2> QED
    BY <1>2, <1>3, <2>1, <2>2
<1>6. Moved(m, s, l) = [s EXCEPT !.storage = x]
  BY <1>3 DEF Moved
<1>7. Moved(m, s, l) =
        [next |-> s.next, current |-> s.current, allowed |-> s.allowed,
         storage |-> x, threads |-> s.threads, finished |-> s.finished]
  BY <1>4, <1>6 DEF StateShape
<1>8. Started(m, Moved(m, s, l), before) = Started(m, s, before)
  <2>1. PICK r : r = Moved(m, s, l)
    OBVIOUS
  <2>2. /\ r = [next |-> s.next, current |-> s.current, allowed |-> s.allowed,
                storage |-> x, threads |-> s.threads, finished |-> s.finished]
        /\ r.next = s.next /\ r.current = s.current /\ r.allowed = s.allowed
        /\ r.storage = x /\ r.threads = s.threads /\ r.finished = s.finished
    BY <1>7, <2>1
  <2>3. Started(m, r, before) =
          [next |-> s.next, current |-> before, allowed |-> s.allowed,
           storage |-> Clean(m, x), threads |-> s.threads, finished |-> s.finished]
    <3>1. Started(m, r, before) =
            [next |-> r.next, current |-> before, allowed |-> r.allowed,
             storage |-> Clean(m, r.storage), threads |-> r.threads, finished |-> r.finished]
      <4>1. StateShape(r)
        BY <1>4, <2>2 DEF StateShape, Active
      <4> QED
        BY <4>1, StartedShape
    <3> QED
      BY <2>2, <3>1
  <2> QED
    BY <1>4, <1>5, <2>1, <2>3, StartedShape
<1> QED
  BY <1>2, <1>3, <1>8, MappedState

LEMMA MapsSwitch ==
  ASSUME IInv, ChooseThread
  PROVE  IterationState' = IterationState /\ UNCHANGED <<name, mm>> /\ at' \notin {"done", "thrown"}
<1>1. PICK t : IF CanSwitchTo(state, t) THEN Goes("move", SwitchTo(state, t))
                                       ELSE Goes("rejected", state)
  BY DEF ChooseThread
<1>2. CASE ~CanSwitchTo(state, t)
  BY <1>1, <1>2, MappedState DEF Goes
<1>3. CASE CanSwitchTo(state, t)
  <2>1. PICK m, s, before : m = mm /\ s = state /\ before = previous
    OBVIOUS
  <2>2. StateShape(s)
    BY <2>1 DEF IInv, StateOK
  <2>3. Started(m, SwitchTo(s, t), before) = Started(m, s, before)
    <3>1. PICK c : c = Clean(m, s.storage)
      OBVIOUS
    <3>2. SwitchTo(s, t) =
            [next |-> s.next, current |-> t, allowed |-> s.allowed,
             storage |-> s.storage, threads |-> s.threads, finished |-> s.finished]
      BY <2>2 DEF SwitchTo, StateShape
    <3>3. PICK r : r = SwitchTo(s, t)
      OBVIOUS
    <3>4. /\ r.next = s.next /\ r.allowed = s.allowed
          /\ r.storage = s.storage /\ r.threads = s.threads /\ r.finished = s.finished
          /\ StateShape(r)
      BY <2>2, <3>2, <3>3 DEF StateShape, Active
    <3> QED
      BY <2>2, <3>3, <3>4, StartedShape
  <2>4. /\ state' = SwitchTo(state, t) /\ previous' = previous
        /\ at' = "move" /\ UNCHANGED <<name, mm>>
    BY <1>1, <1>3 DEF Goes
  <2> QED
    BY <2>1, <2>3, <2>4, MappedState
<1> QED
  BY <1>2, <1>3

LEMMA MapsFinish ==
  ASSUME IInv, FinalFlush
  PROVE  Run!Finish
<1>1. PICK flushed \in Storage!FlushAll(mm, state.storage) :
        Goes("done", [state EXCEPT !.storage = flushed])
  BY DEF FinalFlush
<1>2. at = "iteration" /\ ~HasActiveThreads(state)
  BY DEF FinalFlush
<1>3. PICK p, m, s, before, r :
        /\ p = program /\ m = mm /\ s = state /\ before = previous
        /\ r = [s EXCEPT !.storage = flushed]
  OBVIOUS
<1>4. /\ StateShape(s) /\ StateShape(r) /\ m \in Models
      /\ r.next = s.next /\ r.allowed = s.allowed /\ r.threads = s.threads
      /\ r.finished = s.finished /\ r.storage = flushed
  <2>1. /\ StateOK(p, m, s) /\ m \in Models
        /\ flushed \in Storage!FlushAll(m, s.storage)
    BY <1>1, <1>3, ProgramOK DEF IInv
  <2>2. /\ StateOK(p, m, r)
        /\ r.next = s.next /\ r.allowed = s.allowed /\ r.threads = s.threads
        /\ r.finished = s.finished /\ r.storage = flushed
    <3>1. r = [s EXCEPT !.storage = flushed]
      BY <1>3
    <3> QED
      BY <2>1, <3>1, FlushedOK
  <2>3. StateShape(s) /\ StateShape(r)
    BY <2>1, <2>2 DEF StateOK
  <2> QED
    BY <2>1, <2>2, <2>3
<1>5. PICK i : i = Started(m, s, before)
  OBVIOUS
<1>6. /\ i = [next |-> s.next, current |-> before, allowed |-> s.allowed,
              storage |-> Clean(m, s.storage), threads |-> s.threads, finished |-> s.finished]
      /\ i.storage = Clean(m, s.storage) /\ i.threads = s.threads
  BY <1>4, <1>5, StartedShape
<1>7. Started(m, r, before) = [i EXCEPT !.storage = Clean(m, flushed)]
  <2>1. PICK c : c = Clean(m, flushed)
    OBVIOUS
  <2>2. Started(m, r, before) =
          [next |-> s.next, current |-> before, allowed |-> s.allowed,
           storage |-> c, threads |-> s.threads, finished |-> s.finished]
    BY <1>4, <2>1, StartedShape
  <2> QED
    BY <1>6, <2>1, <2>2
<1>8. Clean(m, flushed) \in Run!Storage!FlushAll(m, i.storage)
  <2>1. CASE m = "sra"
    BY <1>1, <1>3, <1>6, <2>1, RunFlushesAll DEF Storage!FlushAll
  <2>2. CASE m # "sra"
    BY <1>1, <1>3, <1>6, <2>2, RunFlushesAll DEF Clean
  <2> QED
    BY <2>1, <2>2
<1>9. ~Run!HasActiveThreads(i)
  BY <1>2, <1>3, <1>6, RunIterations DEF HasActiveThreads, Active
<1>10. /\ IterationState = i /\ IterationState' = Started(m, r, before)
       /\ UNCHANGED <<name, mm>> /\ at' = "done"
  BY <1>1, <1>3, <1>5, MappedState DEF Goes
<1> QED
  BY <1>2, <1>3, <1>7, <1>8, <1>9, <1>10 DEF Run!Finish

\* Whatever the program, the memory model, the answers and the point where the
\* input ends, the dialogue runs an execution that the non-deterministic
\* interpreter could have drawn: no answer, no refused line and no prompt that
\* returned its default leads outside.
THEOREM Refinement == Spec => ImplementsNonDeterministic
<1>1. Init => Run!Init
  <2> SUFFICES ASSUME Init
               PROVE  Run!Init
    OBVIOUS
  <2>1. IInv
    BY InitInv
  <2>2. PICK m, s : m = mm /\ s = state
    OBVIOUS
  <2>3. /\ s = InitialState(m) /\ StateShape(s) /\ Good(m, s.storage) /\ m \in Models
        /\ previous = s.current
    BY <2>1, <2>2, ProgramOK DEF Init, IInv, StateOK, Good
  <2>4. Clean(m, s.storage) = s.storage
    <3>1. CASE m = "sra"
      <4>1. s.storage = Storage!PrepareThread(m, Storage!New(m), 0)
        BY <2>3 DEF InitialState, AddThread
      <4>2. s.storage.stamps = Storage!SRA!EmptyMap
        BY <3>1, <4>1 DEF Storage!PrepareThread, Storage!New, Storage!SRA!New,
                          Storage!SRA!PrepareThread
      <4>3. Nonzero(s.storage.stamps) = s.storage.stamps
        BY <4>2 DEF Nonzero, Storage!SRA!EmptyMap
      <4> QED
        BY <2>3, <3>1, <4>3, CleanShape DEF Good, StorageShape, Record
    <3>2. CASE m # "sra"
      BY <3>2 DEF Clean
    <3> QED
      BY <3>1, <3>2
  <2>5. Started(m, s, s.current) = s
    BY <2>3, <2>4, StartedShape DEF StateShape
  <2>6. IterationState = Run!InitialState(mm)
    BY <2>2, <2>3, <2>5, MappedState, RunStarts
  <2> QED
    BY <2>6 DEF Init, Run!Init
<1>2. IInv /\ [Next]_vars => [Run!Next]_Run!vars
  <2> SUFFICES ASSUME IInv, [Next]_vars
               PROVE  Run!Next \/ UNCHANGED Run!vars
    OBVIOUS
  <2>1. CASE Stay \/ WantSwitch \/ ForcedSwitch
    BY <2>1, MappedState DEF Stay, WantSwitch, ForcedSwitch, Goes, Run!vars
  <2>2. CASE ChooseThread
    BY <2>2, MapsSwitch DEF ChooseThread, Run!vars
  <2>3. CASE StatementMove
    BY <2>3, MapsStatement DEF Run!Next
  <2>4. CASE ThrowingMove
    BY <2>4, MapsThrow DEF Run!Next
  <2>5. CASE EpsilonMove
    <3>1. CASE AsksForLocation
      BY <2>5, <3>1, MappedState DEF EpsilonMove, Goes, Run!vars
    <3>2. CASE ~AsksForLocation
      BY <2>5, <3>2, MapsEpsilon DEF Run!Next
    <3> QED
      BY <3>1, <3>2
  <2>6. CASE ChooseLocation
    BY <2>6, MapsLocation DEF Run!Next
  <2>7. CASE NoLocationChosen
    BY <2>7, MapsNoLocation DEF NoLocationChosen, Run!vars
  <2>8. CASE FinalFlush
    BY <2>8, MapsFinish DEF Run!Next
  <2>9. CASE Close \/ UNCHANGED vars
    BY <2>9, MappedState DEF Close, vars, Run!vars
  <2> QED
    BY <2>1, <2>2, <2>3, <2>4, <2>5, <2>6, <2>7, <2>8, <2>9 DEF Next, Step
<1> QED
  BY <1>1, <1>2, Invariance, PTL DEF Spec, Run!Spec, ImplementsNonDeterministic

=============================================================================
