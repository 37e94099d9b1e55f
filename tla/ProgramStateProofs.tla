------------------------- MODULE ProgramStateProofs -------------------------
(***************************************************************************)
(* What a step of a thread keeps of a program state, in each of the memory  *)
(* models and for any program: the part that the proofs about the           *)
(* interpreters share.                                                      *)
(***************************************************************************)
EXTENDS Executions, WellFoundedInduction, SequenceTheorems, FiniteSetTheorems, TLAPS

Models == {"sc", "tso", "pso", "sra"}

----------------------------------------------------------------------------
(* Storage: an operation for thread t leaves the other threads' part alone. *)

\* The part of a storage kept by thread: the store buffers, or the views.
Part(mm, s) ==
  CASE mm = "sc" -> EmptyMap
    [] mm \in {"tso", "pso"} -> s.buffers
    [] mm = "sra" -> s.views

IsMap(f) == f = [k \in DOMAIN f |-> f[k]]

\* The locations that the epsilon transitions of thread t are about.
QueuesFinite(buffers) == \A t \in DOMAIN buffers : IsFiniteSet(DOMAIN buffers[t])

StorageShape(mm, s) ==
  /\ mm \in {"tso", "pso"} => /\ s = [memory |-> s.memory, buffers |-> s.buffers]
                               /\ IsMap(s.memory) /\ IsMap(s.buffers)
  /\ mm = "pso" => QueuesFinite(s.buffers)
  /\ mm = "sra" => /\ s = [messages |-> s.messages, views |-> s.views, stamps |-> s.stamps]
                   /\ IsFiniteSet(DOMAIN s.stamps)

Touches(mm, s, t, r) ==
  /\ StorageShape(mm, r)
  /\ DOMAIN Part(mm, r) \subseteq DOMAIN Part(mm, s) \cup {t}
  /\ mm = "sra" => DOMAIN Part(mm, s) \subseteq DOMAIN Part(mm, r)
  /\ \A u : u # t => At(Part(mm, r), u, EmptyMap) = At(Part(mm, s), u, EmptyMap)

LEMMA TouchesNothing ==
  ASSUME NEW mm, NEW s, NEW t, StorageShape(mm, s)
  PROVE  Touches(mm, s, t, s)
BY DEF Touches

LEMMA TouchesTwice ==
  ASSUME NEW mm, NEW s, NEW t, NEW r, NEW q, Touches(mm, s, t, r), Touches(mm, r, t, q)
  PROVE  Touches(mm, s, t, q)
BY DEF Touches

LEMMA EraseElsewhere ==
  ASSUME NEW f, NEW t
  PROVE  /\ DOMAIN Erase(f, t) = DOMAIN f \ {t}
         /\ \A u : u # t => At(Erase(f, t), u, EmptyMap) = At(f, u, EmptyMap)
BY DEF Erase, At

\* The copies of the operators on maps that the buffers are written with.
LEMMA StorageMaps ==
  ASSUME NEW f, NEW k, NEW v
  PROVE  /\ Storage!TSO!Put(f, k, v) = Put(f, k, v)
         /\ Storage!PSO!Put(f, k, v) = Put(f, k, v)
         /\ Storage!TSO!Erase(f, k) = Erase(f, k)
         /\ Storage!PSO!Erase(f, k) = Erase(f, k)
         /\ Storage!TSO!At(f, k, v) = At(f, k, v)
         /\ Storage!PSO!At(f, k, v) = At(f, k, v)
         /\ Storage!TSO!EmptyMap = EmptyMap
         /\ Storage!PSO!EmptyMap = EmptyMap
BY DEF Put, Erase, At, EmptyMap,
       Storage!TSO!Put, Storage!PSO!Put, Storage!TSO!Erase, Storage!PSO!Erase,
       Storage!TSO!At, Storage!PSO!At, Storage!TSO!EmptyMap, Storage!PSO!EmptyMap

LEMMA MapsAreMaps ==
  ASSUME NEW f, NEW k, NEW v
  PROVE  IsMap(EmptyMap) /\ IsMap(Put(f, k, v)) /\ IsMap(Erase(f, k))
<1>1. IsMap(EmptyMap)
  BY DEF IsMap, EmptyMap
<1>2. IsMap(Put(f, k, v))
  BY DEF IsMap, Put
<1>3. IsMap(Erase(f, k))
  BY DEF IsMap, Erase
<1> QED
  BY <1>1, <1>2, <1>3

\* Maps with finitely many keys stay so.
LEMMA FiniteMaps ==
  ASSUME NEW f, IsFiniteSet(DOMAIN f), NEW k, NEW v
  PROVE  /\ IsFiniteSet(DOMAIN Put(f, k, v)) /\ IsFiniteSet(DOMAIN Erase(f, k))
         /\ IsFiniteSet(DOMAIN Storage!SRA!Put(f, k, v))
<1>1. /\ DOMAIN Put(f, k, v) = DOMAIN f \cup {k}
      /\ DOMAIN Storage!SRA!Put(f, k, v) = DOMAIN f \cup {k}
      /\ DOMAIN Erase(f, k) \subseteq DOMAIN f
  BY DEF Put, Storage!SRA!Put, Erase
<1> QED
  BY <1>1, FS_AddElement, FS_Subset

\* What thread t has queued, by location.
LEMMA OwnFinite ==
  ASSUME NEW buffers, QueuesFinite(buffers), NEW t
  PROVE  IsFiniteSet(DOMAIN At(buffers, t, EmptyMap))
<1>1. IsFiniteSet(DOMAIN EmptyMap)
  BY FS_EmptySet DEF EmptyMap
<1> QED
  BY <1>1 DEF At, QueuesFinite

\* A storage whose buffers, or views, differ at one thread only.
LEMMA BuffersTouched ==
  ASSUME NEW mm \in {"tso", "pso"}, NEW s, StorageShape(mm, s), NEW t,
         NEW memory, IsMap(memory), NEW buffers,
         \/ \E v : (mm = "pso" => IsFiniteSet(DOMAIN v)) /\ buffers = Put(s.buffers, t, v)
         \/ buffers = Erase(s.buffers, t)
  PROVE  Touches(mm, s, t, [memory |-> memory, buffers |-> buffers])
<1> DEFINE r == [memory |-> memory, buffers |-> buffers]
<1>1. StorageShape(mm, r)
  <2>1. IsMap(buffers)
    BY MapsAreMaps
  <2>2. mm = "pso" => QueuesFinite(buffers)
    BY DEF StorageShape, QueuesFinite, Put, Erase
  <2> QED
    BY <2>1, <2>2 DEF StorageShape
<1>2. Part(mm, r) = buffers /\ Part(mm, s) = s.buffers /\ mm # "sra"
  BY DEF Part
<1>3. /\ DOMAIN buffers \subseteq DOMAIN s.buffers \cup {t}
      /\ \A u : u # t => At(buffers, u, EmptyMap) = At(s.buffers, u, EmptyMap)
  <2>1. CASE buffers = Erase(s.buffers, t)
    BY <2>1, EraseElsewhere
  <2>2. ASSUME NEW v, buffers = Put(s.buffers, t, v)
        PROVE  /\ DOMAIN buffers \subseteq DOMAIN s.buffers \cup {t}
               /\ \A u : u # t => At(buffers, u, EmptyMap) = At(s.buffers, u, EmptyMap)
    BY <2>2 DEF Put, At
  <2> QED
    BY <2>1, <2>2
<1> QED
  BY <1>1, <1>2, <1>3 DEF Touches

LEMMA ViewsTouched ==
  ASSUME NEW s, NEW t, NEW messages, NEW v, NEW stamps, IsFiniteSet(DOMAIN stamps)
  PROVE  Touches("sra", s, t,
                 [messages |-> messages, views |-> Storage!SRA!Put(s.views, t, v), stamps |-> stamps])
<1> DEFINE views == Storage!SRA!Put(s.views, t, v)
           r     == [messages |-> messages, views |-> views, stamps |-> stamps]
<1>1. StorageShape("sra", r)
  BY DEF StorageShape
<1>2. Part("sra", r) = views /\ Part("sra", s) = s.views
  BY DEF Part
<1>3. /\ DOMAIN views = DOMAIN s.views \cup {t}
      /\ \A u : u # t => At(views, u, EmptyMap) = At(s.views, u, EmptyMap)
  BY DEF Storage!SRA!Put, At
<1> HIDE DEF r, views
<1>4. Touches("sra", s, t, r)
  BY <1>1, <1>2, <1>3 DEF Touches
<1> QED
  BY <1>4 DEF r, views

LEMMA TSOTouches ==
  ASSUME NEW s, NEW t, StorageShape("tso", s)
  PROVE  /\ Touches("tso", s, t, Storage!TSO!FlushBuffer(s, t))
         /\ Touches("tso", s, t, Storage!TSO!Propagate(s, t))
         /\ \A l, v, m : Touches("tso", s, t, Storage!TSO!Write(s, t, l, v, m))
<1>1. \A r : StorageShape("tso", r) => Touches("tso", r, t, Storage!TSO!FlushBuffer(r, t))
  <2> TAKE r
  <2> HAVE StorageShape("tso", r)
  <2>1. CASE Storage!TSO!FlushBuffer(r, t) = r
    BY <2>1, TouchesNothing
  <2>2. CASE Storage!TSO!FlushBuffer(r, t) # r
    BY <2>2, BuffersTouched, StorageMaps DEF Storage!TSO!FlushBuffer, IsMap
  <2> QED
    BY <2>1, <2>2
<1>2. Touches("tso", s, t, Storage!TSO!Propagate(s, t))
  BY BuffersTouched, StorageMaps, MapsAreMaps DEF Storage!TSO!Propagate
<1>3. ASSUME NEW l, NEW v
      PROVE  Touches("tso", s, t, Storage!TSO!Enqueue(s, t, l, v))
  <2>1. PICK q : Storage!TSO!Enqueue(s, t, l, v) = [s EXCEPT !.buffers = Put(s.buffers, t, q)]
    BY StorageMaps DEF Storage!TSO!Enqueue
  <2>2. s = [memory |-> s.memory, buffers |-> s.buffers] /\ IsMap(s.memory)
    BY DEF StorageShape
  <2>3. Storage!TSO!Enqueue(s, t, l, v) = [memory |-> s.memory, buffers |-> Put(s.buffers, t, q)]
    BY <2>1, <2>2
  <2> QED
    BY <2>2, <2>3, BuffersTouched
<1>4. ASSUME NEW l, NEW v, NEW m
      PROVE  Touches("tso", s, t, Storage!TSO!Write(s, t, l, v, m))
  BY <1>1, <1>3, TouchesTwice DEF Storage!TSO!Write, Touches
<1> QED
  BY <1>1, <1>2, <1>4

LEMMA PSOTouches ==
  ASSUME NEW s, NEW t, StorageShape("pso", s)
  PROVE  /\ Touches("pso", s, t, Storage!PSO!FlushBuffer(s, t))
         /\ \A l : Touches("pso", s, t, Storage!PSO!Propagate(s, t, l))
         /\ \A l, v, m : Touches("pso", s, t, Storage!PSO!Write(s, t, l, v, m))
<1>1. \A r : StorageShape("pso", r) => Touches("pso", r, t, Storage!PSO!FlushBuffer(r, t))
  BY BuffersTouched, StorageMaps DEF Storage!PSO!FlushBuffer, IsMap
<1>2. ASSUME NEW l
      PROVE  Touches("pso", s, t, Storage!PSO!Propagate(s, t, l))
  <2>1. CASE Storage!PSO!Propagate(s, t, l) = s
    BY <2>1, TouchesNothing
  <2>2. CASE Storage!PSO!Propagate(s, t, l) # s
    <3> DEFINE own  == At(s.buffers, t, EmptyMap)
               left == IF Len(own[l]) = 1 THEN Erase(own, l) ELSE Put(own, l, Tail(own[l]))
               next == IF left = EmptyMap THEN Erase(s.buffers, t) ELSE Put(s.buffers, t, left)
               memory == Put(s.memory, l, Head(own[l]))
    <3>1. Storage!PSO!Propagate(s, t, l) = [memory |-> memory, buffers |-> next]
      BY <2>2, StorageMaps DEF Storage!PSO!Propagate, Storage!PSO!Queues
    <3>2. IsFiniteSet(DOMAIN left) /\ IsMap(memory)
      BY OwnFinite, FiniteMaps, MapsAreMaps DEF StorageShape
    <3> HIDE DEF left, memory
    <3> QED
      BY <3>1, <3>2, BuffersTouched
  <2> QED
    BY <2>1, <2>2
<1>3. ASSUME NEW l, NEW v
      PROVE  Touches("pso", s, t, Storage!PSO!Enqueue(s, t, l, v))
  <2>1. PICK q : /\ Storage!PSO!Enqueue(s, t, l, v) = [s EXCEPT !.buffers = Put(s.buffers, t, q)]
                 /\ IsFiniteSet(DOMAIN q)
    <3> DEFINE own == At(s.buffers, t, EmptyMap)
               q   == Put(own, l, Append(At(own, l, <<>>), v))
    <3>1. Storage!PSO!Enqueue(s, t, l, v) = [s EXCEPT !.buffers = Put(s.buffers, t, q)]
      BY StorageMaps DEF Storage!PSO!Enqueue, Storage!PSO!Queues
    <3>2. IsFiniteSet(DOMAIN q)
      BY OwnFinite, FiniteMaps DEF StorageShape
    <3> HIDE DEF q
    <3> QED
      BY <3>1, <3>2
  <2>2. s = [memory |-> s.memory, buffers |-> s.buffers] /\ IsMap(s.memory)
    BY DEF StorageShape
  <2>3. Storage!PSO!Enqueue(s, t, l, v) = [memory |-> s.memory, buffers |-> Put(s.buffers, t, q)]
    BY <2>1, <2>2
  <2> QED
    BY <2>1, <2>2, <2>3, BuffersTouched
<1>4. ASSUME NEW l, NEW v, NEW m
      PROVE  Touches("pso", s, t, Storage!PSO!Write(s, t, l, v, m))
  BY <1>1, <1>3, TouchesTwice DEF Storage!PSO!Write, Touches
<1> QED
  BY <1>1, <1>2, <1>4

LEMMA SRATouches ==
  ASSUME NEW s, NEW t, StorageShape("sra", s)
  PROVE  /\ Touches("sra", s, t, Storage!SRA!PrepareThread(s, t))
         /\ \A l : Touches("sra", s, t, Storage!SRA!Increase(s, t, l))
         /\ \A l, m : Touches("sra", s, t, Storage!SRA!Read(s, t, l, m).storage)
         /\ \A l, v, m : Touches("sra", s, t, Storage!SRA!Write(s, t, l, v, m))
<1>0. /\ s = [messages |-> s.messages, views |-> s.views, stamps |-> s.stamps]
      /\ IsFiniteSet(DOMAIN s.stamps)
  BY DEF StorageShape
<1>1. Touches("sra", s, t, Storage!SRA!PrepareThread(s, t))
  <2>1. CASE t \in DOMAIN s.views
    BY <2>1, TouchesNothing DEF Storage!SRA!PrepareThread
  <2>2. CASE t \notin DOMAIN s.views
    <3>1. PICK none : none = Storage!SRA!EmptyMap
      OBVIOUS
    <3>2. Storage!SRA!PrepareThread(s, t) =
            [messages |-> s.messages, views |-> Storage!SRA!Put(s.views, t, none),
             stamps |-> s.stamps]
      BY <1>0, <2>2, <3>1 DEF Storage!SRA!PrepareThread
    <3> QED
      BY <1>0, <3>2, ViewsTouched
  <2> QED
    BY <2>1, <2>2
<1>2. ASSUME NEW l
      PROVE  Touches("sra", s, t, Storage!SRA!Increase(s, t, l))
  <2> DEFINE newest == Storage!SRA!At(s.stamps, l, 0)
             own    == Storage!SRA!Timestamp(Storage!SRA!View(s, t), l)
             v      == IF own < newest THEN Storage!SRA!Put(Storage!SRA!View(s, t), l, own + 1)
                                       ELSE Storage!SRA!View(s, t)
             stamps == Storage!SRA!Put(s.stamps, l, newest)
  <2>1. Storage!SRA!Increase(s, t, l) =
          [s EXCEPT !.stamps = stamps, !.views = Storage!SRA!Put(s.views, t, v)]
    BY DEF Storage!SRA!Increase
  <2>2. IsFiniteSet(DOMAIN stamps)
    BY <1>0, FiniteMaps
  <2> HIDE DEF newest, own, v, stamps
  <2>3. Storage!SRA!Increase(s, t, l) =
          [messages |-> s.messages, views |-> Storage!SRA!Put(s.views, t, v), stamps |-> stamps]
    BY <1>0, <2>1
  <2> QED
    BY <2>2, <2>3, ViewsTouched
<1>3. ASSUME NEW l, NEW m
      PROVE  Touches("sra", s, t, Storage!SRA!Read(s, t, l, m).storage)
  <2>1. PICK v : Storage!SRA!Read(s, t, l, m).storage =
                   [s EXCEPT !.views = Storage!SRA!Put(s.views, t, v)]
    BY DEF Storage!SRA!Read
  <2>2. Storage!SRA!Read(s, t, l, m).storage =
          [messages |-> s.messages, views |-> Storage!SRA!Put(s.views, t, v), stamps |-> s.stamps]
    BY <1>0, <2>1
  <2> QED
    BY <1>0, <2>2, ViewsTouched
<1>4. ASSUME NEW l, NEW v, NEW m
      PROVE  Touches("sra", s, t, Storage!SRA!Write(s, t, l, v, m))
  <2>1. PICK messages, view, stamp :
          Storage!SRA!Write(s, t, l, v, m) =
            [messages |-> messages, views |-> Storage!SRA!Put(s.views, t, view),
             stamps |-> Storage!SRA!Put(s.stamps, l, stamp)]
    BY DEF Storage!SRA!Write
  <2>2. IsFiniteSet(DOMAIN Storage!SRA!Put(s.stamps, l, stamp))
    BY <1>0, FiniteMaps
  <2> QED
    BY <2>1, <2>2, ViewsTouched
<1> QED
  BY <1>1, <1>2, <1>3, <1>4

\* The operations of the interface, in whichever model.
LEMMA StorageTouches ==
  ASSUME NEW mm \in Models, NEW s, NEW t, StorageShape(mm, s)
  PROVE  /\ \A l, m : Touches(mm, s, t, Storage!Read(mm, s, t, l, m).storage)
         /\ \A l, v, m : Touches(mm, s, t, Storage!Write(mm, s, t, l, v, m))
         /\ \A m : Touches(mm, s, t, Storage!Fence(mm, s, t, m))
         /\ Touches(mm, s, t, Storage!FlushThread(mm, s, t))
         /\ Touches(mm, s, t, Storage!PrepareThread(mm, s, t))
         /\ \A r \in Storage!EpsStorages(mm, s, t) : Touches(mm, s, t, r)
<1>0. Touches(mm, s, t, s)
  BY TouchesNothing
<1>1. ASSUME NEW l, NEW m
      PROVE  Touches(mm, s, t, Storage!Read(mm, s, t, l, m).storage)
  BY <1>0, SRATouches DEF Models, Storage!Read
<1>2. ASSUME NEW l, NEW v, NEW m
      PROVE  Touches(mm, s, t, Storage!Write(mm, s, t, l, v, m))
  <2>1. CASE mm = "sc"
    BY <2>1 DEF Touches, StorageShape, Part
  <2>2. CASE mm = "tso"
    BY <2>2, TSOTouches DEF Storage!Write
  <2>3. CASE mm = "pso"
    BY <2>3, PSOTouches DEF Storage!Write
  <2>4. CASE mm = "sra"
    BY <2>4, SRATouches DEF Storage!Write
  <2> QED
    BY <2>1, <2>2, <2>3, <2>4 DEF Models
<1>3. ASSUME NEW m
      PROVE  Touches(mm, s, t, Storage!Fence(mm, s, t, m))
  BY <1>0, TSOTouches, PSOTouches DEF Storage!Fence, Storage!TSO!Fence, Storage!PSO!Fence
<1>4. Touches(mm, s, t, Storage!FlushThread(mm, s, t))
  BY <1>0, TSOTouches DEF Storage!FlushThread
<1>5. Touches(mm, s, t, Storage!PrepareThread(mm, s, t))
  BY <1>0, SRATouches DEF Storage!PrepareThread
<1>6. ASSUME NEW r \in Storage!EpsStorages(mm, s, t)
      PROVE  Touches(mm, s, t, r)
  BY TSOTouches, PSOTouches, SRATouches
     DEF Models, Storage!EpsStorages, Storage!TSO!EpsStorages, Storage!PSO!EpsStorages,
         Storage!SRA!EpsStorages
<1> QED
  BY <1>1, <1>2, <1>3, <1>4, <1>5, <1>6

----------------------------------------------------------------------------
(* Program states: a statement or an epsilon transition of the current      *)
(* thread leaves the other threads alone.                                   *)

StateShape(s) ==
  /\ s = [next |-> s.next, current |-> s.current, allowed |-> s.allowed,
          storage |-> s.storage, threads |-> s.threads, finished |-> s.finished]
  /\ \A t \in Active(s) : s.threads[t] = [pc |-> s.threads[t].pc, regs |-> s.threads[t].regs]

\* A state the execution of program p under memory model mm can be in.
StateOK(p, mm, s) ==
  /\ StateShape(s)
  /\ s.next \in Nat \ {0}
  /\ s.current \in 0..s.next - 1
  /\ Active(s) \cup DOMAIN s.finished = 0..s.next - 1
  /\ Active(s) \cap DOMAIN s.finished = {}
  /\ \A t \in Active(s) : s.threads[t].pc \in DOMAIN p.statements
  /\ StorageShape(mm, s.storage)
  /\ DOMAIN Part(mm, s.storage) \subseteq 0..s.next - 1
  /\ mm = "sra" => 0..s.next - 1 \subseteq DOMAIN Part(mm, s.storage)

\* What thread t is, and its part of storage, is the same in s and r.
SameThread(mm, s, r, t) ==
  /\ t \in Active(s) => t \in Active(r) /\ r.threads[t] = s.threads[t]
  /\ t \in DOMAIN s.finished => t \in DOMAIN r.finished /\ r.finished[t] = s.finished[t]
  /\ At(Part(mm, r.storage), t, EmptyMap) = At(Part(mm, s.storage), t, EmptyMap)

\* A step from s to r of the current thread.
StepOf(p, mm, s, r) ==
  /\ StateOK(p, mm, r)
  /\ r.current = s.current /\ r.allowed = s.allowed
  /\ s.next <= r.next
  /\ \A t \in 0..s.next - 1 : t # s.current => SameThread(mm, s, r, t)

\* A part of such a step after which the thread is still at its statement.
InPlace(p, mm, s, r) ==
  /\ StepOf(p, mm, s, r)
  /\ s.current \in Active(r) /\ r.threads[s.current].pc = s.threads[s.current].pc

LEMMA StepTwice ==
  ASSUME NEW p, NEW mm, NEW s, NEW r, NEW q, StateOK(p, mm, s),
         StepOf(p, mm, s, r), StepOf(p, mm, r, q)
  PROVE  StepOf(p, mm, s, q)
BY DEF StepOf, SameThread, StateOK

LEMMA StorageInPlace ==
  ASSUME NEW p, NEW mm \in Models, NEW s, StateOK(p, mm, s), s.current \in Active(s),
         NEW new, Touches(mm, s.storage, s.current, new)
  PROVE  InPlace(p, mm, s, [s EXCEPT !.storage = new])
<1> DEFINE r == [s EXCEPT !.storage = new]
<1>1. /\ r = [next |-> s.next, current |-> s.current, allowed |-> s.allowed,
              storage |-> new, threads |-> s.threads, finished |-> s.finished]
      /\ s.next \in Nat \ {0} /\ s.current \in 0..s.next - 1
  BY DEF StateOK, StateShape
<1> HIDE DEF r
<1>2. /\ r.next = s.next /\ r.current = s.current /\ r.allowed = s.allowed
      /\ r.storage = new /\ r.threads = s.threads /\ r.finished = s.finished
  BY <1>1
<1>3. StateShape(r)
  BY <1>1, <1>2 DEF StateShape, StateOK, Active
<1>4. StateOK(p, mm, r)
  BY <1>2, <1>3 DEF StateOK, Active, Touches
<1>5. \A t \in 0..s.next - 1 : t # s.current => SameThread(mm, s, r, t)
  BY <1>2 DEF SameThread, Active, Touches
<1> QED
  BY <1>1, <1>2, <1>4, <1>5 DEF InPlace, StepOf, r, Active

LEMMA ThreadsChanged ==
  ASSUME NEW p, NEW mm, NEW s, StateOK(p, mm, s), s.current \in Active(s),
         NEW pc \in DOMAIN p.statements, NEW regs
  PROVE  LET r == [s EXCEPT !.threads = [@ EXCEPT ![s.current] = [pc |-> pc, regs |-> regs]]]
         IN  /\ StepOf(p, mm, s, r)
             /\ s.current \in Active(r) /\ r.threads[s.current].pc = pc
             /\ r.storage = s.storage
<1> DEFINE th == [s.threads EXCEPT ![s.current] = [pc |-> pc, regs |-> regs]]
           r  == [s EXCEPT !.threads = th]
<1>1. /\ r = [next |-> s.next, current |-> s.current, allowed |-> s.allowed,
              storage |-> s.storage, threads |-> th, finished |-> s.finished]
      /\ s.next \in Nat \ {0} /\ s.current \in 0..s.next - 1
  BY DEF StateOK, StateShape
<1>2. /\ DOMAIN th = DOMAIN s.threads
      /\ th[s.current] = [pc |-> pc, regs |-> regs]
      /\ \A t \in DOMAIN s.threads : t # s.current => th[t] = s.threads[t]
  BY DEF Active
<1> HIDE DEF r, th
<1>3. /\ r.next = s.next /\ r.current = s.current /\ r.allowed = s.allowed
      /\ r.storage = s.storage /\ r.threads = th /\ r.finished = s.finished
  BY <1>1
<1>4. StateShape(r)
  <2>1. \A t \in DOMAIN th : th[t] = [pc |-> th[t].pc, regs |-> th[t].regs]
    BY <1>2 DEF StateShape, StateOK, Active
  <2> QED
    BY <1>1, <1>3, <2>1 DEF StateShape, Active
<1>5. StateOK(p, mm, r)
  BY <1>2, <1>3, <1>4 DEF StateOK, Active
<1>6. \A t \in 0..s.next - 1 : t # s.current => SameThread(mm, s, r, t)
  BY <1>2, <1>3 DEF SameThread, Active
<1>7. /\ StepOf(p, mm, s, r)
      /\ s.current \in Active(r) /\ r.threads[s.current].pc = pc
      /\ r.storage = s.storage
  BY <1>1, <1>2, <1>3, <1>5, <1>6 DEF StepOf, Active
<1> QED
  BY <1>7 DEF r, th

LEMMA JumpStep ==
  ASSUME NEW p, NEW mm, NEW s, WellFormed(p), StateOK(p, mm, s), s.current \in Active(s),
         NEW label \in DOMAIN p.labels
  PROVE  StepOf(p, mm, s, Jump(p, s, label))
<1>1. p.labels[label] \in DOMAIN p.statements
  BY DEF WellFormed
<1>2. s.threads[s.current] = [pc |-> s.threads[s.current].pc, regs |-> s.threads[s.current].regs]
  BY DEF StateOK, StateShape
<1>3. Jump(p, s, label) =
        [s EXCEPT !.threads = [@ EXCEPT ![s.current] =
           [pc |-> p.labels[label], regs |-> s.threads[s.current].regs]]]
  BY <1>2 DEF Jump, StateOK, StateShape, Active
<1> QED
  BY <1>1, <1>3, ThreadsChanged

LEMMA AdvanceStep ==
  ASSUME NEW p, NEW mm, NEW s, WellFormed(p), StateOK(p, mm, s), s.current \in Active(s),
         StatementAt(p, s).kind # "end"
  PROVE  StepOf(p, mm, s, Advance(s))
<1>1. s.threads[s.current].pc + 1 \in DOMAIN p.statements
  <2> DEFINE pc == s.threads[s.current].pc
             S  == {p.statements[i] : i \in DOMAIN p.statements}
  <2>1. p.statements \in Seq(S) /\ pc \in DOMAIN p.statements
    BY DEF WellFormed, StateOK
  <2>2. DOMAIN p.statements = 1..Len(p.statements) /\ Len(p.statements) \in Nat
    BY <2>1, LenProperties
  <2>3. pc # Len(p.statements)
    BY <2>1 DEF WellFormed, StatementAt
  <2> HIDE DEF S, pc
  <2>4. pc + 1 \in DOMAIN p.statements
    BY <2>1, <2>2, <2>3
  <2> QED
    BY <2>4 DEF pc
<1>2. s.threads[s.current] = [pc |-> s.threads[s.current].pc, regs |-> s.threads[s.current].regs]
  BY DEF StateOK, StateShape
<1>3. Advance(s) =
        [s EXCEPT !.threads = [@ EXCEPT ![s.current] =
           [pc |-> s.threads[s.current].pc + 1, regs |-> s.threads[s.current].regs]]]
  BY <1>2 DEF Advance, StateOK, StateShape, Active
<1> QED
  BY <1>1, <1>3, ThreadsChanged

LEMMA SetRegStep ==
  ASSUME NEW p, NEW mm, NEW s, StateOK(p, mm, s), s.current \in Active(s), NEW reg, NEW value
  PROVE  /\ InPlace(p, mm, s, SetReg(s, reg, value))
         /\ SetReg(s, reg, value).storage = s.storage
<1> DEFINE regs == Put(s.threads[s.current].regs, reg, value)
<1>1. s.threads[s.current].pc \in DOMAIN p.statements
  BY DEF StateOK
<1>2. s.threads[s.current] = [pc |-> s.threads[s.current].pc, regs |-> s.threads[s.current].regs]
  BY DEF StateOK, StateShape
<1>3. SetReg(s, reg, value) =
        [s EXCEPT !.threads = [@ EXCEPT ![s.current] =
           [pc |-> s.threads[s.current].pc, regs |-> regs]]]
  BY <1>2 DEF SetReg, StateOK, StateShape, Active
<1> HIDE DEF regs
<1> QED
  BY <1>1, <1>3, ThreadsChanged DEF InPlace

\* thread_goto: the new thread is the only one that changes.
LEMMA AddThreadStep ==
  ASSUME NEW p, NEW mm \in Models, NEW s, StateOK(p, mm, s), s.current \in Active(s),
         NEW pc \in DOMAIN p.statements
  PROVE  InPlace(p, mm, s, AddThread(mm, s, pc))
<1> DEFINE th  == Put(s.threads, s.next, [pc |-> pc, regs |-> EmptyMap])
           new == Storage!PrepareThread(mm, s.storage, s.next)
           r   == AddThread(mm, s, pc)
<1>1. /\ s = [next |-> s.next, current |-> s.current, allowed |-> s.allowed,
              storage |-> s.storage, threads |-> s.threads, finished |-> s.finished]
      /\ s.next \in Nat \ {0} /\ s.current \in 0..s.next - 1
  BY DEF StateOK, StateShape
<1>2. r = [s EXCEPT !.threads = th, !.storage = new, !.next = @ + 1]
  BY DEF AddThread
<1>3. Touches(mm, s.storage, s.next, new)
  BY StorageTouches DEF StateOK
<1>4. mm = "sra" => s.next \in DOMAIN Part(mm, new)
  BY DEF Storage!PrepareThread, Storage!SRA!PrepareThread, Storage!SRA!Put, Part, StateOK, StorageShape
<1>5. /\ DOMAIN th = DOMAIN s.threads \cup {s.next}
      /\ th[s.next] = [pc |-> pc, regs |-> EmptyMap]
      /\ \A t \in DOMAIN s.threads : t # s.next => th[t] = s.threads[t]
  BY DEF Put
<1>6. /\ s.next \notin DOMAIN s.threads /\ s.next \notin DOMAIN s.finished
      /\ 0..s.next = 0..s.next - 1 \cup {s.next}
      /\ s.next + 1 - 1 = s.next
  BY <1>1 DEF StateOK, Active
<1> HIDE DEF r, th, new
<1>7. /\ r = [next |-> s.next + 1, current |-> s.current, allowed |-> s.allowed,
              storage |-> new, threads |-> th, finished |-> s.finished]
      /\ r.next = s.next + 1 /\ r.current = s.current /\ r.allowed = s.allowed
      /\ r.storage = new /\ r.threads = th /\ r.finished = s.finished
  BY <1>1, <1>2
<1>8. StateShape(r)
  <2>1. \A t \in DOMAIN th : th[t] = [pc |-> th[t].pc, regs |-> th[t].regs]
    BY <1>5 DEF StateShape, StateOK, Active
  <2> QED
    BY <1>7, <2>1 DEF StateShape, Active
<1>9. StateOK(p, mm, r)
  <2>1. /\ r.next \in Nat \ {0} /\ r.current \in 0..r.next - 1 /\ 0..r.next - 1 = 0..s.next
        /\ Active(r) \cup DOMAIN r.finished = 0..r.next - 1
        /\ Active(r) \cap DOMAIN r.finished = {}
    BY <1>1, <1>5, <1>6, <1>7 DEF StateOK, Active
  <2>2. \A t \in Active(r) : r.threads[t].pc \in DOMAIN p.statements
    BY <1>5, <1>7 DEF StateOK, Active
  <2>3. StorageShape(mm, new)
    BY <1>3 DEF Touches
  <2>4. DOMAIN Part(mm, new) \subseteq 0..s.next
    BY <1>3, <1>6 DEF Touches, StateOK
  <2>5. mm = "sra" => 0..s.next \subseteq DOMAIN Part(mm, new)
    BY <1>3, <1>4, <1>6 DEF Touches, StateOK
  <2> QED
    BY <1>7, <1>8, <2>1, <2>2, <2>3, <2>4, <2>5 DEF StateOK
<1>10. \A t \in 0..s.next - 1 : t # s.current => SameThread(mm, s, r, t)
  BY <1>1, <1>3, <1>5, <1>7 DEF SameThread, Active, Touches
<1>11. s.current \in Active(r) /\ r.threads[s.current].pc = s.threads[s.current].pc
  BY <1>5, <1>6, <1>7 DEF Active
<1> QED
  BY <1>1, <1>7, <1>9, <1>10, <1>11 DEF InPlace, StepOf, r

LEMMA EndStep ==
  ASSUME NEW p, NEW mm, NEW s, StateOK(p, mm, s), s.current \in Active(s)
  PROVE  StepOf(p, mm, s, Ended(s))
<1> DEFINE fin == Put(s.finished, s.current, Regs(s))
           th  == Erase(s.threads, s.current)
           r   == Ended(s)
<1>1. r = [s EXCEPT !.finished = fin, !.threads = th]
  BY DEF Ended
<1>2. /\ DOMAIN th = DOMAIN s.threads \ {s.current}
      /\ \A t \in DOMAIN th : th[t] = s.threads[t]
      /\ DOMAIN fin = DOMAIN s.finished \cup {s.current}
      /\ \A t \in DOMAIN s.finished : t # s.current => fin[t] = s.finished[t]
  BY DEF Put, Erase
<1> HIDE DEF r, th, fin
<1>3. /\ s.next \in Nat \ {0} /\ s.current \in 0..s.next - 1
      /\ r = [next |-> s.next, current |-> s.current, allowed |-> s.allowed,
              storage |-> s.storage, threads |-> th, finished |-> fin]
      /\ r.next = s.next /\ r.current = s.current /\ r.allowed = s.allowed
      /\ r.storage = s.storage /\ r.threads = th /\ r.finished = fin
  BY <1>1 DEF StateOK, StateShape
<1>4. StateShape(r)
  <2>1. \A t \in DOMAIN th : th[t] = [pc |-> th[t].pc, regs |-> th[t].regs]
    BY <1>2 DEF StateShape, StateOK, Active
  <2> QED
    BY <1>3, <2>1 DEF StateShape, Active
<1>5. StateOK(p, mm, r)
  BY <1>2, <1>3, <1>4 DEF StateOK, Active
<1>6. \A t \in 0..s.next - 1 : t # s.current => SameThread(mm, s, r, t)
  BY <1>2, <1>3 DEF SameThread, Active
<1> QED
  BY <1>3, <1>5, <1>6 DEF StepOf, r

LEMMA AdvanceAfter ==
  ASSUME NEW p, NEW mm, NEW s, WellFormed(p), StateOK(p, mm, s),
         StatementAt(p, s).kind # "end", NEW r, InPlace(p, mm, s, r)
  PROVE  StepOf(p, mm, s, Advance(r))
<1>1. /\ StepOf(p, mm, s, r) /\ StateOK(p, mm, r)
      /\ r.current = s.current /\ r.current \in Active(r)
      /\ r.threads[s.current].pc = s.threads[s.current].pc
  BY DEF InPlace, StepOf
<1>2. StatementAt(p, r).kind # "end"
  BY <1>1 DEF StatementAt
<1>3. StepOf(p, mm, r, Advance(r))
  BY <1>1, <1>2, AdvanceStep
<1> QED
  BY <1>1, <1>3, StepTwice

\* Whatever is evaluated, cas and fai included, only the thread's own part of
\* storage changes, though several storage operations run one after another.
LEMMA EvaluateTouches ==
  ASSUME NEW mm \in Models, NEW s, StorageShape(mm, s.storage),
         NEW e, e.kind \in ExpressionKinds
  PROVE  Touches(mm, s.storage, s.current, Evaluate(mm, s, e).storage)
<1> DEFINE c       == s.current
           flushed == Storage!FlushThread(mm, s.storage, c)
           read    == Storage!Read(mm, flushed, c, e.loc, e.order)
<1>1. Touches(mm, s.storage, c, flushed) /\ StorageShape(mm, flushed)
  BY StorageTouches DEF Touches
<1>2. Touches(mm, flushed, c, read.storage) /\ StorageShape(mm, read.storage)
  <2> HIDE DEF flushed
  <2>1. Touches(mm, flushed, c, read.storage)
    BY <1>1, StorageTouches
  <2> QED
    BY <2>1 DEF Touches
<1>3. Touches(mm, s.storage, c, read.storage)
  BY <1>1, <1>2, TouchesTwice
<1>4. ASSUME NEW v
      PROVE  Touches(mm, s.storage, c, Storage!Write(mm, read.storage, c, e.loc, v, e.order))
  <2> HIDE DEF read, flushed
  <2>1. Touches(mm, read.storage, c, Storage!Write(mm, read.storage, c, e.loc, v, e.order))
    BY <1>2, StorageTouches
  <2> QED
    BY <1>3, <2>1, TouchesTwice
<1>5. CASE e.kind \in {"number", "binop"}
  <2>1. Evaluate(mm, s, e).storage = s.storage
    BY <1>5 DEF Evaluate
  <2> QED
    BY <2>1, TouchesNothing
<1>6. CASE e.kind = "cas"
  <2>1. Evaluate(mm, s, e) = EvaluateCas(mm, s, e)
    BY <1>6 DEF Evaluate
  <2>2. \/ EvaluateCas(mm, s, e).storage = read.storage
        \/ EvaluateCas(mm, s, e).storage =
              Storage!Write(mm, read.storage, c, e.loc, Regs(s)[e.desired], e.order)
    BY DEF EvaluateCas
  <2> HIDE DEF read, flushed
  <2> QED
    BY <1>3, <1>4, <2>1, <2>2
<1>7. CASE e.kind = "fai"
  <2>1. Evaluate(mm, s, e) = EvaluateFai(mm, s, e)
    BY <1>7 DEF Evaluate
  <2>2. EvaluateFai(mm, s, e).storage =
          Storage!Write(mm, read.storage, c, e.loc, Wrap(read.value + Regs(s)[e.reg]), e.order)
    BY DEF EvaluateFai
  <2> HIDE DEF read, flushed
  <2> QED
    BY <1>4, <2>1, <2>2
<1> QED
  BY <1>5, <1>6, <1>7 DEF ExpressionKinds

\* A statement that completes: whichever it is, the state it leaves is one the
\* program can be in, and the other threads are what they were.
LEMMA TransitionStep ==
  ASSUME NEW p, NEW mm \in Models, NEW s, WellFormed(p), StateOK(p, mm, s),
         s.current \in Active(s), Completes(p, mm, s)
  PROVE  StepOf(p, mm, s, Transition(p, mm, s))
<1> DEFINE stmt == StatementAt(p, s)
<1>1. /\ s.threads[s.current].pc \in DOMAIN p.statements
      /\ StorageShape(mm, s.storage)
  BY DEF StateOK
<1>2. /\ stmt.kind \in StatementKinds
      /\ stmt.kind = "assign" => stmt.expr.kind \in ExpressionKinds
  BY <1>1 DEF WellFormed, StatementAt
<1>3. CASE stmt.kind = "goto"
  <2>1. stmt.label \in DOMAIN p.labels
    BY <1>3 DEF Completes
  <2>2. Transition(p, mm, s) = Jump(p, s, stmt.label)
    BY <1>3 DEF Transition
  <2> QED
    BY <2>1, <2>2, JumpStep
<1>4. CASE stmt.kind = "if"
  <2>1. Regs(s)[stmt.reg] # 0 => stmt.label \in DOMAIN p.labels
    BY <1>4 DEF Completes
  <2>2. Transition(p, mm, s) =
          IF Regs(s)[stmt.reg] # 0 THEN Jump(p, s, stmt.label) ELSE Advance(s)
    BY <1>4 DEF Transition
  <2>3. StepOf(p, mm, s, Advance(s))
    BY <1>4, AdvanceStep
  <2>4. Regs(s)[stmt.reg] # 0 => StepOf(p, mm, s, Jump(p, s, stmt.label))
    BY <2>1, JumpStep
  <2> QED
    BY <2>2, <2>3, <2>4
<1>5. CASE stmt.kind = "thread_goto"
  <2> DEFINE pc == p.labels[stmt.label]
  <2>1. pc \in DOMAIN p.statements
    BY <1>5 DEF Completes, WellFormed
  <2>2. Transition(p, mm, s) = Advance(AddThread(mm, s, pc))
    BY <1>5 DEF Transition
  <2> HIDE DEF pc
  <2>3. InPlace(p, mm, s, AddThread(mm, s, pc))
    BY <2>1, AddThreadStep
  <2> QED
    BY <1>5, <2>2, <2>3, AdvanceAfter
<1>6. ASSUME NEW new, Touches(mm, s.storage, s.current, new), stmt.kind # "end"
      PROVE  StepOf(p, mm, s, Advance([s EXCEPT !.storage = new]))
  <2>1. InPlace(p, mm, s, [s EXCEPT !.storage = new])
    BY <1>6, StorageInPlace
  <2> QED
    BY <1>6, <2>1, AdvanceAfter
<1>7. ASSUME NEW new, Touches(mm, s.storage, s.current, new), stmt.kind # "end", NEW reg, NEW v
      PROVE  StepOf(p, mm, s, Advance([SetReg(s, reg, v) EXCEPT !.storage = new]))
  <2> DEFINE r == SetReg(s, reg, v)
             q == [r EXCEPT !.storage = new]
  <2>1. /\ InPlace(p, mm, s, r) /\ StateOK(p, mm, r) /\ r.storage = s.storage
        /\ r.current = s.current /\ r.current \in Active(r)
    BY SetRegStep DEF InPlace, StepOf
  <2> HIDE DEF r
  <2>2. InPlace(p, mm, r, q)
    BY <1>7, <2>1, StorageInPlace
  <2> HIDE DEF q
  <2>3. InPlace(p, mm, s, q)
    BY <2>1, <2>2, StepTwice DEF InPlace
  <2> QED
    BY <1>7, <2>3, AdvanceAfter DEF q, r
<1> HIDE DEF stmt
<1>8. CASE stmt.kind = "assign"
  <2> DEFINE e == Evaluate(mm, s, stmt.expr)
  <2>1. Transition(p, mm, s) = Advance([SetReg(s, stmt.reg, e.value) EXCEPT !.storage = e.storage])
    BY <1>8 DEF Transition, Assigned, stmt
  <2>2. Touches(mm, s.storage, s.current, e.storage)
    BY <1>1, <1>2, <1>8, EvaluateTouches
  <2> HIDE DEF e
  <2> QED
    BY <1>7, <1>8, <2>1, <2>2
<1>9. CASE stmt.kind = "load"
  <2> DEFINE e == Storage!Read(mm, s.storage, s.current, stmt.loc, stmt.order)
  <2>1. Transition(p, mm, s) = Advance([SetReg(s, stmt.reg, e.value) EXCEPT !.storage = e.storage])
    BY <1>9 DEF Transition, Loaded, stmt
  <2>2. Touches(mm, s.storage, s.current, e.storage)
    BY <1>1, StorageTouches
  <2> HIDE DEF e
  <2> QED
    BY <1>7, <1>9, <2>1, <2>2
<1>10. CASE stmt.kind = "store"
  <2> DEFINE new == Storage!Write(mm, s.storage, s.current, stmt.loc, Regs(s)[stmt.reg], stmt.order)
  <2>1. Transition(p, mm, s) = Advance([s EXCEPT !.storage = new])
    BY <1>10 DEF Transition, Stored, stmt
  <2>2. Touches(mm, s.storage, s.current, new)
    BY <1>1, StorageTouches
  <2> HIDE DEF new
  <2> QED
    BY <1>6, <1>10, <2>1, <2>2
<1>11. CASE stmt.kind \in {"cas", "fai"}
  <2> DEFINE new == Evaluate(mm, s, stmt).storage
  <2>1. Transition(p, mm, s) = Advance([s EXCEPT !.storage = new])
    BY <1>11 DEF Transition, stmt
  <2>2. Touches(mm, s.storage, s.current, new)
    BY <1>1, <1>11, EvaluateTouches DEF ExpressionKinds
  <2> HIDE DEF new
  <2> QED
    BY <1>6, <1>11, <2>1, <2>2
<1>12. CASE stmt.kind = "fence"
  <2> DEFINE new == Storage!Fence(mm, s.storage, s.current, stmt.order)
  <2>1. Transition(p, mm, s) = Advance([s EXCEPT !.storage = new])
    BY <1>12 DEF Transition, stmt
  <2>2. Touches(mm, s.storage, s.current, new)
    BY <1>1, StorageTouches
  <2> HIDE DEF new
  <2> QED
    BY <1>6, <1>12, <2>1, <2>2
<1>13. CASE stmt.kind = "end"
  <2>1. Transition(p, mm, s) = Ended(s)
    BY <1>13 DEF Transition, stmt
  <2> QED
    BY <2>1, EndStep
<1> QED
  BY <1>2, <1>3, <1>4, <1>5, <1>8, <1>9, <1>10, <1>11, <1>12, <1>13 DEF StatementKinds, stmt

LEMMA EpsStep ==
  ASSUME NEW p, NEW mm \in Models, NEW s, StateOK(p, mm, s), s.current \in Active(s),
         NEW r \in EpsStates(mm, s)
  PROVE  StepOf(p, mm, s, r)
<1>1. PICK new \in Storage!EpsStorages(mm, s.storage, s.current) : r = [s EXCEPT !.storage = new]
  BY DEF EpsStates
<1>2. Touches(mm, s.storage, s.current, new)
  BY StorageTouches DEF StateOK
<1> QED
  BY <1>1, <1>2, StorageInPlace DEF InPlace

\* Only the current thread is another one.
Switched(s, r) ==
  /\ r.allowed = s.allowed /\ r.next = s.next /\ r.storage = s.storage
  /\ r.threads = s.threads /\ r.finished = s.finished

LEMMA SwitchOK ==
  ASSUME NEW p, NEW mm, NEW s, StateOK(p, mm, s), NEW t \in Active(s)
  PROVE  /\ StateOK(p, mm, SwitchTo(s, t))
         /\ SwitchTo(s, t).current = t /\ t \in Active(SwitchTo(s, t))
         /\ Switched(s, SwitchTo(s, t))
<1> DEFINE r == SwitchTo(s, t)
<1>1. r = [next |-> s.next, current |-> t, allowed |-> s.allowed,
           storage |-> s.storage, threads |-> s.threads, finished |-> s.finished]
  BY DEF SwitchTo, StateOK, StateShape
<1> HIDE DEF r
<1>2. /\ r.current = t /\ r.allowed = s.allowed /\ r.next = s.next
      /\ r.threads = s.threads /\ r.finished = s.finished /\ r.storage = s.storage
  BY <1>1
<1>3. StateShape(r)
  BY <1>1, <1>2 DEF StateShape, StateOK, Active
<1>4. StateOK(p, mm, r)
  BY <1>2, <1>3 DEF StateOK, Active
<1> QED
  BY <1>2, <1>4 DEF Active, Switched, r

\* An iteration executes a thread that is active: if the current one has ended,
\* another is drawn.
LEMMA InterleavingOK ==
  ASSUME NEW p, NEW mm, NEW s, StateOK(p, mm, s), s.allowed = TRUE, HasActiveThreads(s),
         NEW r, r \in Interleavings(s)
  PROVE  /\ StateOK(p, mm, r)
         /\ r.current \in Active(r)
         /\ Switched(s, r)
<1>1. \/ \E t \in Active(s) : r = SwitchTo(s, t)
      \/ r = s /\ s.current \in Active(s)
  BY DEF Interleavings, IsInterleavingPossible
<1>2. PICK t \in Active(s) : r = SwitchTo(s, t)
  BY <1>1 DEF SwitchTo, StateOK, StateShape
<1> QED
  BY <1>2, SwitchOK

LEMMA InitialOK ==
  ASSUME NEW p, NEW mm \in Models, WellFormed(p)
  PROVE  /\ StateOK(p, mm, InitialState(mm))
         /\ InitialState(mm).allowed = TRUE /\ InitialState(mm).current = 0
         /\ InitialState(mm).next = 1
<1> DEFINE th  == Put(EmptyMap, 0, [pc |-> 1, regs |-> EmptyMap])
           new == Storage!PrepareThread(mm, Storage!New(mm), 0)
           r   == InitialState(mm)
<1>1. r = [next |-> 1, current |-> 0, allowed |-> TRUE, storage |-> new,
           threads |-> th, finished |-> EmptyMap]
  <2>1. DOMAIN EmptyMap = {}
    BY DEF EmptyMap
  <2> DEFINE z == [next |-> 0, current |-> 0, allowed |-> TRUE, storage |-> Storage!New(mm),
                   threads |-> EmptyMap, finished |-> EmptyMap]
  <2>2. r = [z EXCEPT !.threads = Put(@, z.next, [pc |-> 1, regs |-> EmptyMap]),
                      !.storage = Storage!PrepareThread(mm, @, z.next),
                      !.next    = @ + 1]
    BY DEF InitialState, AddThread
  <2>3. z.next = 0 /\ z.threads = EmptyMap /\ z.storage = Storage!New(mm)
    OBVIOUS
  <2>4. r = [z EXCEPT !.threads = th, !.storage = new, !.next = 1]
    BY <2>2, <2>3
  <2>5. PICK old : old = Storage!New(mm)
    OBVIOUS
  <2>6. z = [next |-> 0, current |-> 0, allowed |-> TRUE, storage |-> old,
             threads |-> EmptyMap, finished |-> EmptyMap]
    BY <2>5
  <2> HIDE DEF th, new, r, z
  <2> QED
    BY <2>4, <2>6
<1>2. DOMAIN th = {0} /\ th[0] = [pc |-> 1, regs |-> EmptyMap]
  BY DEF Put, EmptyMap
<1>3. /\ StorageShape(mm, new)
      /\ DOMAIN Part(mm, new) \subseteq {0}
      /\ mm = "sra" => 0 \in DOMAIN Part(mm, new)
  BY FS_EmptySet
     DEF Models, StorageShape, QueuesFinite, IsMap, Part, Storage!PrepareThread, Storage!New, Storage!SC!New,
         Storage!TSO!New, Storage!PSO!New, Storage!SRA!New, Storage!SRA!PrepareThread,
         EmptyMap, Storage!TSO!EmptyMap, Storage!PSO!EmptyMap, Storage!SRA!EmptyMap, Storage!SRA!Put
<1>4. 1 \in DOMAIN p.statements
  <2> DEFINE S == {p.statements[i] : i \in DOMAIN p.statements}
  <2>1. p.statements \in Seq(S) /\ p.statements # <<>>
    BY DEF WellFormed
  <2> HIDE DEF S
  <2> QED
    BY <2>1, EmptySeq, LenProperties
<1> HIDE DEF r, th, new
<1>5. /\ r.next = 1 /\ r.current = 0 /\ r.allowed = TRUE /\ r.storage = new
      /\ r.threads = th /\ r.finished = EmptyMap
  BY <1>1
<1>6. StateShape(r)
  BY <1>1, <1>2, <1>5 DEF StateShape, Active
<1>7. DOMAIN EmptyMap = {}
  BY DEF EmptyMap
<1>8. StateOK(p, mm, r)
  BY <1>2, <1>3, <1>4, <1>5, <1>6, <1>7 DEF StateOK, Active
<1> QED
  BY <1>5, <1>8 DEF r

----------------------------------------------------------------------------
(* The final flush: a fold over the traversal order of a hash map. *)

\* Induction, for a set of numbers.
LEMMA NumbersByInduction ==
  ASSUME NEW S, 0 \in S, \A k \in Nat : k \in S => k + 1 \in S
  PROVE  Nat \subseteq S
<1> DEFINE T == {k \in Nat : k \notin S}
<1>1. CASE T = {}
  BY <1>1
<1>2. CASE T # {}
  <2>1. PICK x \in T : \A y \in T : <<y, x>> \notin OpToRel(<, Nat)
    BY <1>2, NatLessThanWellFounded, WFMin
  <2>2. \A y \in T : ~(y < x)
    BY <2>1 DEF OpToRel
  <2>3. x \in Nat /\ x # 0
    OBVIOUS
  <2>4. x - 1 \in Nat /\ x - 1 < x /\ (x - 1) + 1 = x
    BY <2>3
  <2>5. x - 1 \notin T
    BY <2>2, <2>4
  <2> QED
    BY <2>4, <2>5
<1> QED
  BY <1>1, <1>2

LEMMA LastPosition ==
  ASSUME NEW n \in Nat, NEW I, I \subseteq 1..n, I # {}
  PROVE  /\ Storage!TSO!Max(I) \in I
         /\ \A i \in I : Storage!TSO!Max(I) >= i
<1> DEFINE T == {n - i : i \in I}
<1>1. T \subseteq Nat
  OBVIOUS
<1>2. T # {}
  OBVIOUS
<1>3. PICK x \in T : \A y \in T : <<y, x>> \notin OpToRel(<, Nat)
  BY <1>1, <1>2, NatLessThanWellFounded, WFMin
<1>4. \A y \in T : ~(y < x)
  BY <1>1, <1>3 DEF OpToRel
<1>5. PICK m \in I : x = n - m
  OBVIOUS
<1>6. ASSUME NEW i \in I
      PROVE  m >= i
  <2>1. n - i \in T /\ i \in Nat /\ m \in Nat
    OBVIOUS
  <2>2. ~(n - i < n - m)
    BY <1>4, <1>5, <2>1
  <2> QED
    BY <2>1, <2>2
<1> QED
  BY <1>6 DEF Storage!TSO!Max

LEMMA LastOfRange ==
  ASSUME NEW n \in Nat, NEW k \in 1..n, NEW I \in SUBSET (1..k), k \in I
  PROVE  Storage!TSO!Max(I) = k
<1> DEFINE m == Storage!TSO!Max(I)
<1>1. I \subseteq 1..n /\ I # {}
  OBVIOUS
<1>2. m \in I /\ \A i \in I : m >= i
  BY <1>1, LastPosition
<1> HIDE DEF m
<1>3. m \in 1..k /\ m >= k
  BY <1>2
<1>4. m = k
  BY <1>3
<1> QED
  BY <1>4 DEF m

\* flush_buffer of one thread, in the models that have buffers.
Drain(mm, s, t) == IF mm = "tso" THEN Storage!TSO!FlushBuffer(s, t)
                                 ELSE Storage!PSO!FlushBuffer(s, t)

\* f[I] is the storage after flushing the buffers of order[i], for i in I, one
\* after another; I has no number beyond k.
IsFold(mm, s, order, k, f) ==
  f = [I \in SUBSET (1..k) |->
         IF I = {} THEN s
         ELSE Drain(mm, f[I \ {Storage!TSO!Max(I)}], order[Storage!TSO!Max(I)])]

LEMMA FoldExists ==
  ASSUME NEW mm, NEW s, NEW order, NEW n \in Nat
  PROVE  \E f : IsFold(mm, s, order, n, f)
<1> DEFINE S == {k \in Nat : \E f : IsFold(mm, s, order, k, f)}
<1>1. 0 \in S
  <2> DEFINE f == [I \in SUBSET (1..0) |-> s]
  <2>1. IsFold(mm, s, order, 0, f)
    BY DEF IsFold
  <2> QED
    BY <2>1
<1>2. ASSUME NEW k \in Nat, k \in S
      PROVE  k + 1 \in S
  <2>1. PICK f : IsFold(mm, s, order, k, f)
    BY <1>2
  <2> DEFINE last(I) == Storage!TSO!Max(I)
             g == [I \in SUBSET (1..k + 1) |->
                     IF I = {} THEN s ELSE Drain(mm, f[I \ {last(I)}], order[last(I)])]
  <2>2. \A I \in SUBSET (1..k) : g[I] = f[I]
    <3>1. SUBSET (1..k) \subseteq SUBSET (1..k + 1)
      OBVIOUS
    <3> QED
      BY <2>1, <3>1 DEF IsFold
  <2>3. ASSUME NEW I \in SUBSET (1..k + 1), I # {}
        PROVE  I \ {last(I)} \in SUBSET (1..k)
    <3>1. k + 1 \in Nat /\ I \subseteq 1..k + 1
      OBVIOUS
    <3>2. last(I) \in I /\ \A i \in I : last(I) >= i
      BY <2>3, <3>1, LastPosition
    <3> HIDE DEF last
    <3>3. ASSUME NEW i \in I, i # last(I)
          PROVE  i \in 1..k
      <4>1. i \in 1..k + 1 /\ last(I) \in 1..k + 1 /\ last(I) >= i
        BY <3>2
      <4> QED
        BY <3>3, <4>1
    <3> QED
      BY <3>3
  <2>4. g = [I \in SUBSET (1..k + 1) |->
               IF I = {} THEN s ELSE Drain(mm, g[I \ {last(I)}], order[last(I)])]
    <3>1. \A I \in SUBSET (1..k + 1) : I # {} => g[I \ {last(I)}] = f[I \ {last(I)}]
      BY <2>2, <2>3
    <3> HIDE DEF last
    <3> QED
      BY <3>1
  <2>5. IsFold(mm, s, order, k + 1, g)
    BY <2>4 DEF IsFold
  <2> QED
    BY <2>5
<1> HIDE DEF S
<1>3. n \in S
  BY <1>1, <1>2, NumbersByInduction
<1> QED
  BY <1>3 DEF S

OneByOne(mm, s, order, n, f) ==
  /\ f[1..0] = s
  /\ \A k \in 1..n : f[1..k] = Drain(mm, f[1..k - 1], order[k])

LEMMA FoldStep ==
  ASSUME NEW mm, NEW s, NEW order, NEW n \in Nat, NEW f, IsFold(mm, s, order, n, f)
  PROVE  OneByOne(mm, s, order, n, f)
<1>1. f[{}] = s /\ 1..0 = {}
  BY DEF IsFold
<1>2. ASSUME NEW k \in 1..n
      PROVE  f[1..k] = Drain(mm, f[1..k - 1], order[k])
  <2>1. k \in 1..k /\ 1..k \in SUBSET (1..k) /\ 1..k \in SUBSET (1..n) /\ 1..k # {}
    OBVIOUS
  <2>2. Storage!TSO!Max(1..k) = k
    BY <2>1, LastOfRange
  <2>3. (1..k) \ {k} = 1..k - 1
    OBVIOUS
  <2>4. f[1..k] = Drain(mm, f[(1..k) \ {Storage!TSO!Max(1..k)}], order[Storage!TSO!Max(1..k)])
    BY <2>1 DEF IsFold
  <2> QED
    BY <2>2, <2>3, <2>4
<1> QED
  BY <1>1, <1>2 DEF OneByOne

LEMMA DrainErases ==
  ASSUME NEW mm \in {"tso", "pso"}, NEW s, StorageShape(mm, s), NEW t
  PROVE  /\ StorageShape(mm, Drain(mm, s, t))
         /\ DOMAIN Drain(mm, s, t).buffers = DOMAIN s.buffers \ {t}
<1>1. \/ t \notin DOMAIN s.buffers /\ Drain(mm, s, t) = s
      \/ \E memory : /\ IsMap(memory)
                     /\ Drain(mm, s, t) = [memory |-> memory, buffers |-> Erase(s.buffers, t)]
  BY StorageMaps
     DEF Drain, IsMap, Storage!TSO!FlushBuffer, Storage!TSO!HasEps, Storage!PSO!FlushBuffer
<1>2. CASE t \notin DOMAIN s.buffers /\ Drain(mm, s, t) = s
  BY <1>2
<1>3. ASSUME NEW memory, IsMap(memory),
             Drain(mm, s, t) = [memory |-> memory, buffers |-> Erase(s.buffers, t)]
      PROVE  /\ StorageShape(mm, Drain(mm, s, t))
             /\ DOMAIN Drain(mm, s, t).buffers = DOMAIN s.buffers \ {t}
  <2> DEFINE buffers == Erase(s.buffers, t)
  <2>1. /\ IsMap(buffers) /\ DOMAIN buffers = DOMAIN s.buffers \ {t}
        /\ mm = "pso" => QueuesFinite(buffers)
    BY MapsAreMaps DEF Erase, StorageShape, QueuesFinite
  <2> DEFINE r == [memory |-> memory, buffers |-> buffers]
  <2> HIDE DEF buffers
  <2>2. r.memory = memory /\ r.buffers = buffers
    OBVIOUS
  <2>3. StorageShape(mm, r)
    BY <1>3, <2>1, <2>2 DEF StorageShape
  <2>4. Drain(mm, s, t) = r
    BY <1>3 DEF buffers
  <2> QED
    BY <2>1, <2>2, <2>3, <2>4
<1> QED
  BY <1>1, <1>2, <1>3

\* After the buffers of order[1], ..., order[n] were flushed they are gone.
LEMMA FoldErases ==
  ASSUME NEW mm \in {"tso", "pso"}, NEW s, StorageShape(mm, s), NEW order,
         NEW n \in Nat, NEW f, IsFold(mm, s, order, n, f)
  PROVE  /\ StorageShape(mm, f[1..n])
         /\ DOMAIN f[1..n].buffers = DOMAIN s.buffers \ {order[i] : i \in 1..n}
<1>0. /\ f[1..0] = s
      /\ \A k \in 1..n : f[1..k] = Drain(mm, f[1..k - 1], order[k])
  <2>1. OneByOne(mm, s, order, n, f)
    BY FoldStep
  <2> QED
    BY <2>1 DEF OneByOne
<1> DEFINE Erased(k) == /\ StorageShape(mm, f[1..k])
                        /\ DOMAIN f[1..k].buffers = DOMAIN s.buffers \ {order[i] : i \in 1..k}
           S == {k \in Nat : k <= n => Erased(k)}
<1>1. 0 \in S
  BY <1>0
<1>2. ASSUME NEW k \in Nat, k \in S
      PROVE  k + 1 \in S
  <2> SUFFICES ASSUME k + 1 <= n
               PROVE  Erased(k + 1)
    OBVIOUS
  <2>1. Erased(k)
    BY <1>2
  <2>2. k + 1 \in 1..n /\ (k + 1) - 1 = k
    OBVIOUS
  <2>3. f[1..k + 1] = Drain(mm, f[1..k], order[k + 1])
    <3>1. f[1..k + 1] = Drain(mm, f[1..(k + 1) - 1], order[k + 1])
      BY <1>0, <2>2
    <3> QED
      BY <2>2, <3>1
  <2>4. /\ StorageShape(mm, f[1..k + 1])
        /\ DOMAIN f[1..k + 1].buffers = DOMAIN f[1..k].buffers \ {order[k + 1]}
    <3>1. PICK r, t : r = f[1..k] /\ t = order[k + 1]
      OBVIOUS
    <3> QED
      BY <2>1, <2>3, <3>1, DrainErases
  <2>5. 1..k + 1 = (1..k) \cup {k + 1}
    OBVIOUS
  <2>6. {order[i] : i \in 1..k + 1} = {order[i] : i \in 1..k} \cup {order[k + 1]}
    BY <2>5
  <2> QED
    BY <2>1, <2>4, <2>6
<1> HIDE DEF S
<1>3. n \in S
  BY <1>1, <1>2, NumbersByInduction
<1> QED
  BY <1>3 DEF S

LEMMA CardinalityCopies ==
  ASSUME NEW S
  PROVE  /\ Storage!TSO!Cardinality(S) = Cardinality(S)
         /\ Storage!PSO!Cardinality(S) = Cardinality(S)
BY DEF Storage!TSO!Cardinality, Storage!PSO!Cardinality, Cardinality

\* Every order of a finite set names each of its elements.
LEMMA OrderIsOnto ==
  ASSUME NEW S, IsFiniteSet(S), NEW order,
         \/ order \in Storage!TSO!SetToSeqs(S)
         \/ order \in Storage!PSO!SetToSeqs(S)
  PROVE  /\ Cardinality(S) \in Nat
         /\ DOMAIN order = 1..Cardinality(S)
         /\ {order[i] : i \in 1..Cardinality(S)} = S
<1> DEFINE n == Cardinality(S)
<1>1. n \in Nat
  BY FS_CardinalityType
<1>2. order \in {f \in [1..n -> S] : \A i, j \in 1..n : i # j => f[i] # f[j]}
  BY CardinalityCopies DEF Storage!TSO!SetToSeqs, Storage!PSO!SetToSeqs
<1> HIDE DEF n
<1>3. order \in Injection(1..n, S)
  BY <1>2 DEF Injection, IsInjective
<1>4. IsFiniteSet(1..n) /\ Cardinality(1..n) = n
  BY <1>1, FS_Interval
<1>5. order \in Surjection(1..n, S)
  BY <1>3, <1>4, FS_Injection DEF n
<1>6. {order[i] : i \in 1..n} = S
  BY <1>2, <1>5 DEF Surjection
<1> QED
  BY <1>1, <1>2, <1>6 DEF n

\* flush() leaves no buffer, in whichever order the threads are visited.
LEMMA FlushAllErases ==
  ASSUME NEW mm \in {"tso", "pso"}, NEW s, StorageShape(mm, s), IsFiniteSet(DOMAIN s.buffers),
         NEW r \in Storage!FlushAll(mm, s)
  PROVE  StorageShape(mm, r) /\ DOMAIN r.buffers = {}
<1> DEFINE S == DOMAIN s.buffers
           n == Cardinality(S)
<1>1. \/ /\ mm = "tso"
         /\ \E order \in Storage!TSO!SetToSeqs(S) :
              r = Storage!TSO!FoldLeft(Storage!TSO!FlushBuffer, s, order)
      \/ /\ mm = "pso"
         /\ \E order \in Storage!PSO!SetToSeqs(S) :
              r = Storage!PSO!FoldLeft(Storage!PSO!FlushBuffer, s, order)
  BY DEF Storage!FlushAll, Storage!TSO!FlushAll, Storage!PSO!FlushAll
<1>2. PICK order :
        \/ /\ mm = "tso" /\ order \in Storage!TSO!SetToSeqs(S)
           /\ r = Storage!TSO!FoldLeft(Storage!TSO!FlushBuffer, s, order)
        \/ /\ mm = "pso" /\ order \in Storage!PSO!SetToSeqs(S)
           /\ r = Storage!PSO!FoldLeft(Storage!PSO!FlushBuffer, s, order)
  BY <1>1
<1>3. /\ n \in Nat
      /\ DOMAIN order = 1..n
      /\ {order[i] : i \in 1..n} = S
  BY <1>2, OrderIsOnto
<1> DEFINE f == CHOOSE g : IsFold(mm, s, order, n, g)
<1>4. IsFold(mm, s, order, n, f)
  BY <1>3, FoldExists
<1>5. r = f[1..n]
  <2> HIDE DEF n, S
  <2>1. CASE mm = "tso"
    BY <1>2, <1>3, <2>1 DEF Storage!TSO!FoldLeft, Storage!TSO!MapThenFoldSet, IsFold, Drain
  <2>2. CASE mm = "pso"
    <3>1. \A I : Storage!PSO!Max(I) = Storage!TSO!Max(I)
      BY DEF Storage!PSO!Max, Storage!TSO!Max
    <3> DEFINE Step(g) == [I \in SUBSET (1..n) |->
                             IF I = {} THEN s
                             ELSE Storage!PSO!FlushBuffer(g[I \ {Storage!PSO!Max(I)}],
                                                          order[Storage!PSO!Max(I)])]
    <3>2. r = (CHOOSE g : g = Step(g))[1..n]
      BY <1>2, <1>3, <2>2 DEF Storage!PSO!FoldLeft, Storage!PSO!MapThenFoldSet
    <3>3. \A g : IsFold(mm, s, order, n, g) <=> g = Step(g)
      BY <2>2, <3>1 DEF IsFold, Drain
    <3> HIDE DEF Step
    <3> QED
      BY <3>2, <3>3
  <2> QED
    BY <1>2, <2>1, <2>2
<1> HIDE DEF f, n
<1> QED
  BY <1>3, <1>4, <1>5, FoldErases

\* The final flush: only the storage changes, and the buffers are empty.
LEMMA FlushedOK ==
  ASSUME NEW p, NEW mm \in Models, NEW s, StateOK(p, mm, s),
         NEW flushed \in Storage!FlushAll(mm, s.storage)
  PROVE  LET r == [s EXCEPT !.storage = flushed]
         IN  /\ StateOK(p, mm, r)
             /\ r.next = s.next /\ r.current = s.current /\ r.allowed = s.allowed
             /\ r.threads = s.threads /\ r.finished = s.finished /\ r.storage = flushed
             /\ mm \in {"tso", "pso"} => DOMAIN flushed.buffers = {}
             /\ mm \notin {"tso", "pso"} => flushed = s.storage
<1> DEFINE r == [s EXCEPT !.storage = flushed]
<1>1. r = [next |-> s.next, current |-> s.current, allowed |-> s.allowed,
           storage |-> flushed, threads |-> s.threads, finished |-> s.finished]
  BY DEF StateOK, StateShape
<1> HIDE DEF r
<1>2. /\ r.next = s.next /\ r.current = s.current /\ r.allowed = s.allowed
      /\ r.threads = s.threads /\ r.finished = s.finished /\ r.storage = flushed
  BY <1>1
<1>3. StateShape(r) /\ s.next \in Nat \ {0}
  BY <1>1, <1>2 DEF StateOK, StateShape, Active
<1>4. s.next - 1 \in Int
  BY <1>3
<1>5. CASE mm \in {"tso", "pso"}
  <2>1. StorageShape(mm, s.storage) /\ DOMAIN s.storage.buffers \subseteq 0..s.next - 1
    BY <1>5 DEF StateOK, Part
  <2>2. IsFiniteSet(DOMAIN s.storage.buffers)
    <3>1. IsFiniteSet(0..s.next - 1)
      BY <1>4, FS_Interval
    <3> QED
      BY <2>1, <3>1, FS_Subset
  <2>3. StorageShape(mm, flushed) /\ DOMAIN flushed.buffers = {}
    BY <1>5, <2>1, <2>2, FlushAllErases
  <2>4. StorageShape(mm, flushed) /\ DOMAIN Part(mm, flushed) = {} /\ mm # "sra"
    BY <1>5, <2>3 DEF Part
  <2>5. StateOK(p, mm, r)
    BY <1>2, <1>3, <2>4 DEF StateOK, Active
  <2> QED
    BY <1>2, <1>5, <2>3, <2>5 DEF r
<1>6. CASE mm \notin {"tso", "pso"}
  <2>1. flushed = s.storage
    BY <1>6 DEF Storage!FlushAll
  <2>2. StateOK(p, mm, r)
    BY <1>2, <1>3, <2>1 DEF StateOK, Active
  <2> QED
    BY <1>2, <1>6, <2>1, <2>2 DEF r
<1> QED
  BY <1>5, <1>6
=============================================================================
