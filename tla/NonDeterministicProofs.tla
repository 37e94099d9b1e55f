----------------------- MODULE NonDeterministicProofs -----------------------
(***************************************************************************)
(* Proofs about NonDeterministic, for any programs the parser can return,   *)
(* any of the memory models and any width of int; about Tracing, which says *)
(* what each iteration logs; and about ModelChecking, which explores what   *)
(* the iterations reach.                                                    *)
(***************************************************************************)
EXTENDS Tracing, ProgramStateProofs

(***************************************************************************)
(* The invariant: the state is one the program can be in, a switch is never *)
(* forbidden (so that an iteration never executes a thread that has ended), *)
(* and a run that is done has flushed.                                      *)
(***************************************************************************)
IInv ==
  /\ name \in DOMAIN Programs
  /\ mm \in MemoryModels
  /\ status \in {"running", "done", "thrown"}
  /\ StateOK(program, mm, state)
  /\ state.allowed = TRUE
  /\ NothingLeftBuffered

LEMMA ProgramOK ==
  ASSUME IInv
  PROVE  WellFormed(program) /\ mm \in Models
BY ProgramsAssumption DEF IInv, program, Models

LEMMA InitInv == Init => IInv
<1> SUFFICES ASSUME Init
             PROVE  IInv
  OBVIOUS
<1>1. WellFormed(program) /\ mm \in Models
  BY ProgramsAssumption DEF Init, program, Models
<1>2. StateOK(program, mm, InitialState(mm)) /\ InitialState(mm).allowed = TRUE
  BY <1>1, InitialOK
<1> QED
  BY <1>2 DEF Init, IInv, NothingLeftBuffered

\* What an iteration does: it switches to a thread that is active, and no
\* other thread is changed.
LEMMA Iteration ==
  ASSUME IInv, EpsilonStep \/ StatementStep
  PROVE  /\ StateOK(program, mm, state') /\ state'.allowed = TRUE
         /\ state.next <= state'.next
         /\ \A t \in 0..state.next - 1 :
              t # state'.current => SameThread(mm, state, state', t)
<1>1. WellFormed(program) /\ mm \in Models
  BY ProgramOK
<1>2. StateOK(program, mm, state) /\ state.allowed = TRUE /\ HasActiveThreads(state)
  BY DEF IInv, EpsilonStep, StatementStep, Running
<1>3. PICK s \in Interleavings(state) :
        \/ state' \in EpsStates(mm, s)
        \/ Completes(program, mm, s) /\ state' = Transition(program, mm, s)
  BY DEF EpsilonStep, StatementStep
<1>4. StateOK(program, mm, s) /\ s.current \in Active(s) /\ Switched(state, s)
  <2>1. PICK p, m, r : p = program /\ m = mm /\ r = state
    OBVIOUS
  <2>2. StateOK(p, m, r) /\ r.allowed = TRUE /\ HasActiveThreads(r) /\ s \in Interleavings(r)
    BY <1>2, <1>3, <2>1
  <2>3. StateOK(p, m, s) /\ s.current \in Active(s) /\ Switched(r, s)
    BY <2>2, InterleavingOK
  <2> QED
    BY <2>1, <2>3
<1>5. StepOf(program, mm, s, state')
  <2>1. CASE state' \in EpsStates(mm, s)
    BY <1>1, <1>4, <2>1, EpsStep
  <2>2. CASE Completes(program, mm, s) /\ state' = Transition(program, mm, s)
    BY <1>1, <1>4, <2>2, TransitionStep
  <2> QED
    BY <1>3, <2>1, <2>2
<1> QED
  BY <1>2, <1>4, <1>5 DEF StepOf, SameThread, Active, Switched

LEMMA FinishFlushes ==
  ASSUME IInv, Finish
  PROVE  IInv'
<1>1. mm \in Models /\ StateOK(program, mm, state) /\ state.allowed = TRUE
  BY ProgramOK DEF IInv
<1>2. PICK flushed \in Storage!FlushAll(mm, state.storage) :
        state' = [state EXCEPT !.storage = flushed]
  BY DEF Finish
<1>3. /\ StateOK(program, mm, state')
      /\ state'.allowed = TRUE /\ state'.storage = flushed
      /\ mm \in {"tso", "pso"} => DOMAIN flushed.buffers = {}
  <2>1. PICK p, m, s : p = program /\ m = mm /\ s = state
    OBVIOUS
  <2> DEFINE r == [s EXCEPT !.storage = flushed]
  <2>2. /\ StateOK(p, m, r) /\ r.allowed = s.allowed /\ r.storage = flushed
        /\ m \in {"tso", "pso"} => DOMAIN flushed.buffers = {}
    BY <1>1, <1>2, <2>1, FlushedOK
  <2>3. state' = r
    BY <1>2, <2>1
  <2> HIDE DEF r
  <2> QED
    BY <1>1, <2>1, <2>2, <2>3
<1> QED
  BY <1>3 DEF IInv, NothingLeftBuffered, Finish, program

LEMMA NextInv ==
  ASSUME IInv, [Next]_vars
  PROVE  IInv'
<1>1. CASE EpsilonStep \/ StatementStep
  <2>1. StateOK(program, mm, state') /\ state'.allowed = TRUE
    BY <1>1, Iteration
  <2>2. name' = name /\ mm' = mm /\ status' = status /\ status = "running"
    BY <1>1 DEF EpsilonStep, StatementStep, Running
  <2> QED
    BY <2>1, <2>2 DEF IInv, NothingLeftBuffered, program
<1>2. CASE Throw
  BY <1>2 DEF IInv, NothingLeftBuffered, Throw, program
<1>3. CASE Finish
  BY <1>3, FinishFlushes
<1>4. CASE UNCHANGED vars
  BY <1>4 DEF IInv, NothingLeftBuffered, vars, program
<1> QED
  BY <1>1, <1>2, <1>3, <1>4 DEF Next

LEMMA Invariance == Spec => []IInv
<1>1. Init => IInv
  BY InitInv
<1>2. IInv /\ [Next]_vars => IInv'
  BY NextInv
<1> QED
  BY <1>1, <1>2, PTL DEF Spec

\* For any programs and memory models, whatever the scheduler draws: ids are
\* dense, a thread is active or finished and not both, the instruction that
\* get_transition_state() executes exists, and no buffer or view belongs to a
\* thread that add_thread() did not create.
THEOREM TypeCorrectness == Spec => []TypeOK
<1>1. IInv => TypeOK
  <2> SUFFICES ASSUME IInv
               PROVE  TypeOK
    OBVIOUS
  <2>1. StateOK(program, mm, state)
    BY DEF IInv
  <2>2. mm \in {"tso", "pso"} => DOMAIN state.storage.buffers \subseteq 0..state.next - 1
    BY <2>1 DEF StateOK, Part
  <2>3. mm = "sra" => DOMAIN state.storage.views = 0..state.next - 1
    BY <2>1 DEF StateOK, Part
  <2> QED
    BY <2>1, <2>2, <2>3 DEF TypeOK, IInv, StateOK
<1> QED
  BY <1>1, Invariance, PTL

\* For any programs and memory models, no iteration touches another thread:
\* not its registers, not its instruction, not its part of storage, whichever
\* statement runs and however many storage operations CAS and FAI make.
THEOREM Isolation == Spec => ThreadsAreIsolated
<1> DEFINE Isolated ==
      \A t \in 0..state.next - 1 :
        t # state'.current /\ status' = "running" =>
          /\ t \in Active(state) => t \in Active(state') /\ state'.threads[t] = state.threads[t]
          /\ t \in DOMAIN state.finished => /\ t \in DOMAIN state'.finished
                                            /\ state'.finished[t] = state.finished[t]
          /\ Own(state', t) = Own(state, t)
<1>1. IInv /\ [Next]_vars => [Isolated]_vars
  <2> SUFFICES ASSUME IInv, Next
               PROVE  Isolated
    OBVIOUS
  <2>1. CASE EpsilonStep \/ StatementStep
    <3> SUFFICES ASSUME NEW t \in 0..state.next - 1, t # state'.current
                 PROVE  /\ t \in Active(state) => /\ t \in Active(state')
                                                  /\ state'.threads[t] = state.threads[t]
                        /\ t \in DOMAIN state.finished => /\ t \in DOMAIN state'.finished
                                                          /\ state'.finished[t] = state.finished[t]
                        /\ Own(state', t) = Own(state, t)
      OBVIOUS
    <3>1. SameThread(mm, state, state', t)
      BY <2>1, Iteration
    <3>2. mm \in Models
      BY ProgramOK
    <3>3. Own(state', t) = Own(state, t)
      BY <3>1, <3>2 DEF SameThread, Own, Part, Models
    <3> QED
      BY <3>1, <3>3 DEF SameThread
  <2>2. CASE Throw
    BY <2>2 DEF Throw
  <2>3. CASE Finish
    BY <2>3 DEF Finish
  <2> QED
    BY <2>1, <2>2, <2>3 DEF Next
<1> QED
  BY <1>1, Invariance, PTL DEF Spec, ThreadsAreIsolated

\* For any programs, a TSO or PSO run ends with every store in memory, those of
\* threads that ended with a full buffer included: flush() empties every
\* buffer, in whichever order the hash map yields the threads.
THEOREM FinalFlush == Spec => []NothingLeftBuffered
<1>1. IInv => NothingLeftBuffered
  BY DEF IInv
<1> QED
  BY <1>1, Invariance, PTL

----------------------------------------------------------------------------
(* What is printed of a storage tells the maps it is printed from. *)

LEMMA Joined ==
  ASSUME NEW h, NEW k, NEW v
  PROVE  <<h>> \o <<k, v>> = <<h, k, v>>
<1> DEFINE S == {h, k, v}
<1>1. <<h>> \in Seq(S) /\ <<k, v>> \in Seq(S) /\ <<h, k, v>> \in Seq(S)
  OBVIOUS
<1>2. PICK a, b, c : a = <<h>> /\ b = <<k, v>> /\ c = <<h, k, v>>
  OBVIOUS
<1>3. /\ a \in Seq(S) /\ b \in Seq(S) /\ c \in Seq(S)
      /\ Len(a) = 1 /\ Len(b) = 2 /\ Len(c) = 3
      /\ a[1] = c[1] /\ b[1] = c[2] /\ b[2] = c[3]
  BY <1>1, <1>2
<1>4. a \o b = c
  <2>1. /\ a \o b \in Seq(S) /\ Len(a \o b) = Len(a) + Len(b)
        /\ \A i \in 1..Len(a) + Len(b) : (a \o b)[i] = IF i <= Len(a) THEN a[i] ELSE b[i - Len(a)]
    BY <1>3, ConcatProperties
  <2>2. (a \o b)[1] = c[1] /\ (a \o b)[2] = c[2] /\ (a \o b)[3] = c[3]
    BY <1>3, <2>1
  <2>3. Len(a \o b) = 3 /\ \A i \in 1..3 : (a \o b)[i] = c[i]
    BY <1>3, <2>1, <2>2
  <2> QED
    BY <1>3, <2>1, <2>3, SeqEqual
<1> QED
  BY <1>2, <1>4

LEMMA JoinedTwo ==
  ASSUME NEW h, NEW t, NEW k, NEW v
  PROVE  <<h, t>> \o <<k, v>> = <<h, t, k, v>>
<1> DEFINE S == {h, t, k, v}
<1>1. <<h, t>> \in Seq(S) /\ <<k, v>> \in Seq(S) /\ <<h, t, k, v>> \in Seq(S)
  OBVIOUS
<1>2. PICK a, b, c : a = <<h, t>> /\ b = <<k, v>> /\ c = <<h, t, k, v>>
  OBVIOUS
<1>3. /\ a \in Seq(S) /\ b \in Seq(S) /\ c \in Seq(S)
      /\ Len(a) = 2 /\ Len(b) = 2 /\ Len(c) = 4
      /\ a[1] = c[1] /\ a[2] = c[2] /\ b[1] = c[3] /\ b[2] = c[4]
  BY <1>1, <1>2
<1>4. a \o b = c
  <2>1. /\ a \o b \in Seq(S) /\ Len(a \o b) = Len(a) + Len(b)
        /\ \A i \in 1..Len(a) + Len(b) : (a \o b)[i] = IF i <= Len(a) THEN a[i] ELSE b[i - Len(a)]
    BY <1>3, ConcatProperties
  <2>2. /\ (a \o b)[1] = c[1] /\ (a \o b)[2] = c[2]
        /\ (a \o b)[3] = c[3] /\ (a \o b)[4] = c[4]
    BY <1>3, <2>1
  <2>3. Len(a \o b) = 4 /\ \A i \in 1..4 : (a \o b)[i] = c[i]
    BY <1>3, <2>1, <2>2
  <2> QED
    BY <1>3, <2>1, <2>3, SeqEqual
<1> QED
  BY <1>2, <1>4

\* The entries of a map, under a heading of one word or of two.
LEMMA Entries ==
  ASSUME NEW h, NEW f, NEW g, NEW k, NEW v
  PROVE  <<g, k, v>> \in EntryLines(<<h>>, f) <=> g = h /\ k \in DOMAIN f /\ f[k] = v
<1>1. EntryLines(<<h>>, f) = {<<h, x, f[x]>> : x \in DOMAIN f}
  BY Joined DEF EntryLines
<1> QED
  BY <1>1

LEMMA EntriesTwo ==
  ASSUME NEW h, NEW t, NEW f, NEW g, NEW u, NEW k, NEW v
  PROVE  <<g, u, k, v>> \in EntryLines(<<h, t>>, f)
           <=> g = h /\ u = t /\ k \in DOMAIN f /\ f[k] = v
<1>1. EntryLines(<<h, t>>, f) = {<<h, t, x, f[x]>> : x \in DOMAIN f}
  BY JoinedTwo DEF EntryLines
<1> QED
  BY <1>1

LEMMA EntriesApart ==
  ASSUME NEW h, NEW t, NEW f, NEW g, NEW u, NEW k, NEW v
  PROVE  /\ <<g, u, k, v>> \notin EntryLines(<<h>>, f)
         /\ <<g, k, v>> \notin EntryLines(<<h, t>>, f)
<1>1. EntryLines(<<h>>, f) = {<<h, x, f[x]>> : x \in DOMAIN f}
  BY Joined DEF EntryLines
<1>2. EntryLines(<<h, t>>, f) = {<<h, t, x, f[x]>> : x \in DOMAIN f}
  BY JoinedTwo DEF EntryLines
<1>3. \A x, y : <<g, u, k, v>> # <<h, x, y>> /\ <<g, k, v>> # <<h, t, x, y>>
  OBVIOUS
<1>4. <<g, u, k, v>> \notin EntryLines(<<h>>, f)
  BY <1>1, <1>3
<1>5. <<g, k, v>> \notin EntryLines(<<h, t>>, f)
  BY <1>2, <1>3
<1> QED
  BY <1>4, <1>5

\* Two maps with the same entries are the same.
LEMMA SameEntries ==
  ASSUME NEW f, NEW g, IsMap(f), IsMap(g),
         \A k, v : (k \in DOMAIN f /\ f[k] = v) <=> (k \in DOMAIN g /\ g[k] = v)
  PROVE  f = g
<1>1. DOMAIN f = DOMAIN g
  OBVIOUS
<1>2. \A k \in DOMAIN f : f[k] = g[k]
  OBVIOUS
<1> QED
  BY <1>1, <1>2 DEF IsMap

\* Of a storage with buffers, the lines of memory are its entries.
LEMMA MemoryTold ==
  ASSUME NEW m \in {"tso", "pso"}, NEW s, NEW k, NEW v
  PROVE  <<"Memory", k, v>> \in PrintableState(m, s) <=> k \in DOMAIN s.memory /\ s.memory[k] = v
<1>1. PICK memory, buffers : memory = "Memory" /\ buffers = "Store buffers"
  OBVIOUS
<1>2. <<memory, k, v>> \in EntryLines(<<memory>>, s.memory)
        <=> k \in DOMAIN s.memory /\ s.memory[k] = v
  BY Entries
<1>3. CASE m = "tso"
  <2>1. memory # buffers
    BY <1>1
  <2>2. <<memory, k, v>> \notin EntryLines(<<buffers>>, s.buffers)
    BY <2>1, Entries
  <2>3. PrintableState(m, s) = EntryLines(<<memory>>, s.memory) \cup EntryLines(<<buffers>>, s.buffers)
    BY <1>1, <1>3 DEF PrintableState, TSOLines
  <2> QED
    BY <1>1, <1>2, <2>2, <2>3
<1>4. CASE m = "pso"
  <2>1. ASSUME NEW u
        PROVE  <<memory, k, v>> \notin EntryLines(<<buffers, u>>, s.buffers[u])
    BY EntriesApart
  <2>2. PrintableState(m, s) =
          EntryLines(<<memory>>, s.memory)
            \cup UNION {EntryLines(<<buffers, u>>, s.buffers[u]) : u \in DOMAIN s.buffers}
    BY <1>1, <1>4 DEF PrintableState, PSOLines
  <2>3. <<memory, k, v>> \in PrintableState(m, s) <=> <<memory, k, v>> \in EntryLines(<<memory>>, s.memory)
    BY <2>1, <2>2
  <2> QED
    BY <1>1, <1>2, <2>3
<1> QED
  BY <1>3, <1>4

LEMMA QueuesTold ==
  ASSUME NEW s, NEW t, NEW k, NEW v
  PROVE  <<"Store buffers", t, k, v>> \in PrintableState("pso", s)
           <=> t \in DOMAIN s.buffers /\ k \in DOMAIN s.buffers[t] /\ s.buffers[t][k] = v
<1>1. PICK memory, buffers : memory = "Memory" /\ buffers = "Store buffers"
  OBVIOUS
<1>2. <<buffers, t, k, v>> \notin EntryLines(<<memory>>, s.memory)
  BY EntriesApart
<1>3. ASSUME NEW u
      PROVE  <<buffers, t, k, v>> \in EntryLines(<<buffers, u>>, s.buffers[u])
               <=> u = t /\ k \in DOMAIN s.buffers[u] /\ s.buffers[u][k] = v
  BY EntriesTwo
<1>4. PrintableState("pso", s) =
        EntryLines(<<memory>>, s.memory)
          \cup UNION {EntryLines(<<buffers, u>>, s.buffers[u]) : u \in DOMAIN s.buffers}
  BY <1>1 DEF PrintableState, PSOLines
<1>5. <<buffers, t, k, v>> \in PrintableState("pso", s)
        <=> \E u \in DOMAIN s.buffers : <<buffers, t, k, v>> \in EntryLines(<<buffers, u>>, s.buffers[u])
  BY <1>2, <1>4
<1> QED
  BY <1>1, <1>3, <1>5

LEMMA ViewsTold ==
  ASSUME NEW s, NEW t, NEW k, NEW v
  PROVE  <<"Thread views", t, k, v>> \in PrintableState("sra", s)
           <=> t \in DOMAIN s.views /\ k \in DOMAIN s.views[t] /\ s.views[t][k] = v
<1>1. PICK stamps, views : stamps = "Global timestamps" /\ views = "Thread views"
  OBVIOUS
<1>2. <<views, t, k, v>> \notin EntryLines(<<stamps>>, s.stamps)
  BY EntriesApart
<1>3. ASSUME NEW u
      PROVE  <<views, t, k, v>> \in EntryLines(<<views, u>>, s.views[u])
               <=> u = t /\ k \in DOMAIN s.views[u] /\ s.views[u][k] = v
  BY EntriesTwo
<1> DEFINE messages == {<<"Memory", i, s.messages[i].loc, s.messages[i].val,
                          At(s.messages[i].view, s.messages[i].loc, 0)>> : i \in DOMAIN s.messages}
<1>4. <<views, t, k, v>> \notin messages
  <2>1. \A a, b, c, d, e : <<views, t, k, v>> # <<a, b, c, d, e>>
    OBVIOUS
  <2> QED
    BY <2>1
<1>5. PrintableState("sra", s) = messages \cup EntryLines(<<stamps>>, s.stamps)
                                   \cup UNION {EntryLines(<<views, u>>, s.views[u]) : u \in DOMAIN s.views}
  BY <1>1 DEF PrintableState, SRALines
<1> HIDE DEF messages
<1>6. <<views, t, k, v>> \in PrintableState("sra", s)
        <=> \E u \in DOMAIN s.views : <<views, t, k, v>> \in EntryLines(<<views, u>>, s.views[u])
  BY <1>2, <1>4, <1>5
<1> QED
  BY <1>1, <1>3, <1>6

----------------------------------------------------------------------------
(* Of what the current thread can do without a statement, the log tells     *)
(* which it did.                                                            *)

\* A PSO propagation leaves memory, and of thread t's queues those in left.
Propagated(s, t, memory, left, r) ==
  /\ IsMap(memory) /\ IsMap(left)
  /\ r = [memory  |-> memory,
          buffers |-> IF left = EmptyMap THEN Erase(s.buffers, t) ELSE Put(s.buffers, t, left)]

LEMMA PropagationShape ==
  ASSUME NEW s, NEW t, NEW r \in Storage!EpsStorages("pso", s, t)
  PROVE  \E memory, left : Propagated(s, t, memory, left, r)
<1>1. PICK l \in DOMAIN Storage!PSO!Queues(s, t) : r = Storage!PSO!Propagate(s, t, l)
  BY DEF Storage!EpsStorages, Storage!PSO!EpsStorages
<1> DEFINE queues == Storage!PSO!Queues(s, t)
           memory == Put(s.memory, l, Head(queues[l]))
           left   == IF Len(queues[l]) = 1 THEN Erase(queues, l)
                                           ELSE Put(queues, l, Tail(queues[l]))
<1>2. r = [memory  |-> memory,
           buffers |-> IF left = EmptyMap THEN Erase(s.buffers, t) ELSE Put(s.buffers, t, left)]
  BY <1>1, StorageMaps DEF Storage!PSO!Propagate
<1>3. IsMap(memory) /\ IsMap(left)
  BY MapsAreMaps
<1> QED
  BY <1>2, <1>3 DEF Propagated

LEMMA PropagationTold ==
  ASSUME NEW s, NEW t, NEW a \in Storage!EpsStorages("pso", s, t),
         NEW b \in Storage!EpsStorages("pso", s, t),
         PrintableState("pso", a) = PrintableState("pso", b)
  PROVE  a = b
<1>1. PICK memory, left : Propagated(s, t, memory, left, a)
  BY PropagationShape
<1>2. PICK memory2, left2 : Propagated(s, t, memory2, left2, b)
  BY PropagationShape
<1>3. a.memory = memory /\ b.memory = memory2
  BY <1>1, <1>2 DEF Propagated
<1>4. memory = memory2
  <2>1. ASSUME NEW k, NEW v
        PROVE  (k \in DOMAIN memory /\ memory[k] = v) <=> (k \in DOMAIN memory2 /\ memory2[k] = v)
    <3>1. <<"Memory", k, v>> \in PrintableState("pso", a) <=> k \in DOMAIN memory /\ memory[k] = v
      BY <1>3, MemoryTold
    <3>2. <<"Memory", k, v>> \in PrintableState("pso", b) <=> k \in DOMAIN memory2 /\ memory2[k] = v
      BY <1>3, MemoryTold
    <3> QED
      BY <3>1, <3>2
  <2> QED
    BY <1>1, <1>2, <2>1, SameEntries DEF Propagated
<1>5. ASSUME NEW r, NEW m, NEW q, Propagated(s, t, m, q, r), NEW k, NEW v
      PROVE  <<"Store buffers", t, k, v>> \in PrintableState("pso", r) <=> k \in DOMAIN q /\ q[k] = v
  <2>1. r.buffers = IF q = EmptyMap THEN Erase(s.buffers, t) ELSE Put(s.buffers, t, q)
    BY <1>5 DEF Propagated
  <2>2. CASE q = EmptyMap
    <3>1. DOMAIN q = {} /\ t \notin DOMAIN r.buffers
      BY <2>1, <2>2 DEF EmptyMap, Erase
    <3> QED
      BY <3>1, QueuesTold
  <2>3. CASE q # EmptyMap
    <3>1. t \in DOMAIN r.buffers /\ r.buffers[t] = q
      BY <2>1, <2>3 DEF Put
    <3> QED
      BY <3>1, QueuesTold
  <2> QED
    BY <2>2, <2>3
<1>6. left = left2
  <2>1. \A k, v : (k \in DOMAIN left /\ left[k] = v) <=> (k \in DOMAIN left2 /\ left2[k] = v)
    BY <1>1, <1>2, <1>5
  <2> QED
    BY <1>1, <1>2, <2>1, SameEntries DEF Propagated
<1> QED
  BY <1>1, <1>2, <1>4, <1>6 DEF Propagated

\* An increase in SRA leaves a view to thread t and nothing else.
Increased(s, t, view, r) ==
  /\ IsMap(view)
  /\ r = [messages |-> s.messages, views |-> Put(s.views, t, view),
          stamps   |-> [l \in DOMAIN s.stamps |-> s.stamps[l]]]

LEMMA IncreaseShape ==
  ASSUME NEW s, NEW t, StorageShape("sra", s), NEW r \in Storage!EpsStorages("sra", s, t)
  PROVE  \E view : Increased(s, t, view, r)
<1>1. PICK l \in Storage!SRA!IncreaseLocations(s, t) : r = Storage!SRA!Increase(s, t, l)
  BY DEF Storage!EpsStorages, Storage!SRA!EpsStorages
<1> DEFINE own == Storage!SRA!Timestamp(Storage!SRA!View(s, t), l)
<1>2. l \in DOMAIN s.stamps /\ own < s.stamps[l]
  BY DEF Storage!SRA!IncreaseLocations
<1>3. Storage!SRA!At(s.stamps, l, 0) = s.stamps[l]
  BY <1>2 DEF Storage!SRA!At
<1>4. \A f, k, v : Storage!SRA!Put(f, k, v) = Put(f, k, v)
  BY DEF Storage!SRA!Put, Put
<1> DEFINE view == Put(Storage!SRA!View(s, t), l, own + 1)
           stamps == Put(s.stamps, l, s.stamps[l])
<1>5. r = [s EXCEPT !.stamps = stamps, !.views = Put(s.views, t, view)]
  <2> HIDE DEF own
  <2> QED
    BY <1>1, <1>2, <1>3, <1>4 DEF Storage!SRA!Increase, own
<1>6. stamps = [x \in DOMAIN s.stamps |-> s.stamps[x]]
  BY <1>2 DEF Put
<1>7. IsMap(view)
  BY MapsAreMaps
<1> HIDE DEF view, stamps
<1>8. r = [messages |-> s.messages, views |-> Put(s.views, t, view), stamps |-> stamps]
  BY <1>5 DEF StorageShape
<1> QED
  BY <1>6, <1>7, <1>8 DEF Increased

LEMMA IncreaseTold ==
  ASSUME NEW s, NEW t, StorageShape("sra", s), NEW a \in Storage!EpsStorages("sra", s, t),
         NEW b \in Storage!EpsStorages("sra", s, t),
         PrintableState("sra", a) = PrintableState("sra", b)
  PROVE  a = b
<1>1. PICK view : Increased(s, t, view, a)
  BY IncreaseShape
<1>2. PICK view2 : Increased(s, t, view2, b)
  BY IncreaseShape
<1>3. ASSUME NEW r, NEW w, Increased(s, t, w, r), NEW k, NEW v
      PROVE  <<"Thread views", t, k, v>> \in PrintableState("sra", r) <=> k \in DOMAIN w /\ w[k] = v
  <2>1. r.views = Put(s.views, t, w)
    BY <1>3 DEF Increased
  <2>2. t \in DOMAIN r.views /\ r.views[t] = w
    BY <2>1 DEF Put
  <2> QED
    BY <2>2, ViewsTold
<1>4. \A k, v : (k \in DOMAIN view /\ view[k] = v) <=> (k \in DOMAIN view2 /\ view2[k] = v)
  BY <1>1, <1>2, <1>3
<1>5. view = view2
  BY <1>1, <1>2, <1>4, SameEntries DEF Increased
<1> QED
  BY <1>1, <1>2, <1>5 DEF Increased

LEMMA EpsTold ==
  ASSUME NEW p, NEW m \in Models, NEW s, StateOK(p, m, s), NEW a \in EpsStates(m, s),
         NEW b \in EpsStates(m, s), PrintableState(m, a.storage) = PrintableState(m, b.storage)
  PROVE  a = b
<1>1. StorageShape(m, s.storage)
      /\ s = [next |-> s.next, current |-> s.current, allowed |-> s.allowed,
              storage |-> s.storage, threads |-> s.threads, finished |-> s.finished]
  BY DEF StateOK, StateShape
<1> DEFINE possible == Storage!EpsStorages(m, s.storage, s.current)
<1>2. PICK new \in possible : a = [s EXCEPT !.storage = new]
  BY DEF EpsStates
<1>3. PICK new2 \in possible : b = [s EXCEPT !.storage = new2]
  BY DEF EpsStates
<1>4. a.storage = new /\ b.storage = new2
  BY <1>1, <1>2, <1>3
<1>5. new = new2
  <2>1. PICK u, t : u = s.storage /\ t = s.current
    OBVIOUS
  <2>2. CASE m = "sc"
    BY <1>2, <2>2 DEF Storage!EpsStorages
  <2>3. CASE m = "tso"
    BY <1>2, <1>3, <2>3 DEF Storage!EpsStorages, Storage!TSO!EpsStorages
  <2>4. CASE m = "pso"
    BY <1>2, <1>3, <1>4, <2>1, <2>4, PropagationTold
  <2>5. CASE m = "sra"
    BY <1>1, <1>2, <1>3, <1>4, <2>1, <2>5, IncreaseTold
  <2> QED
    BY <2>2, <2>3, <2>4, <2>5 DEF Models
<1> QED
  BY <1>2, <1>3, <1>5

\* A switch is told by the thread it leads to.
LEMMA SwitchTold ==
  ASSUME NEW s, StateShape(s), NEW a \in Interleavings(s), NEW b \in Interleavings(s),
         a.current = b.current
  PROVE  a = b
<1>1. \A t : SwitchTo(s, t).current = t
  BY DEF SwitchTo, StateShape
<1>2. CASE IsInterleavingPossible(s)
  BY <1>1, <1>2 DEF Interleavings
<1>3. CASE ~IsInterleavingPossible(s)
  BY <1>3 DEF Interleavings
<1> QED
  BY <1>2, <1>3

LEMMA LogFields ==
  ASSUME NEW s, NEW move, NEW new
  PROVE  /\ LogOf(s, move, new).prefix = s.current
         /\ LogOf(s, move, new).move = move
         /\ LogOf(s, move, new).storage = PrintableState(mm, new.storage)
<1>1. PICK interleave, prefix, lines, registers :
        /\ prefix = s.current /\ lines = PrintableState(mm, new.storage)
        /\ LogOf(s, move, new) = [interleave |-> interleave, prefix |-> prefix, move |-> move,
                                  storage |-> lines, registers |-> registers]
  BY DEF LogOf
<1> QED
  BY <1>1

\* One iteration, as it is logged.
IterationOf(traced, s, move) ==
  /\ traced.log = LogOf(s, move, traced.state)
  /\ \/ move = <<"eps-transition">> /\ traced.state \in EpsStates(mm, s)
     \/ move = StatementLog(s) /\ traced.state = Transition(program, mm, s)

LEMMA Traced ==
  ASSUME NEW traced \in TracedIterations
  PROVE  \E s \in Interleavings(state) : \E move : IterationOf(traced, s, move)
<1>1. PICK s \in Interleavings(state) :
        \/ traced \in {[state |-> new, log |-> LogOf(s, <<"eps-transition">>, new)] :
                         new \in IF HasEps(mm, s) THEN EpsStates(mm, s) ELSE {}}
        \/ traced \in {[state |-> new, log |-> LogOf(s, StatementLog(s), new)] :
                         new \in IF Completes(program, mm, s) THEN {Transition(program, mm, s)} ELSE {}}
  BY DEF TracedIterations
<1>2. CASE traced \in {[state |-> new, log |-> LogOf(s, <<"eps-transition">>, new)] :
                         new \in IF HasEps(mm, s) THEN EpsStates(mm, s) ELSE {}}
  <2>1. IterationOf(traced, s, <<"eps-transition">>)
    BY <1>2 DEF IterationOf
  <2> QED
    BY <2>1
<1>3. CASE traced \in {[state |-> new, log |-> LogOf(s, StatementLog(s), new)] :
                         new \in IF Completes(program, mm, s) THEN {Transition(program, mm, s)} ELSE {}}
  <2>1. IterationOf(traced, s, StatementLog(s))
    BY <1>3 DEF IterationOf
  <2> QED
    BY <2>1
<1> QED
  BY <1>1, <1>2, <1>3

LEMMA IterationTold ==
  ASSUME IInv, NEW a \in TracedIterations, NEW b \in TracedIterations, a.log = b.log,
         HasActiveThreads(state)
  PROVE  a.state = b.state
<1>1. PICK s \in Interleavings(state) : \E move : IterationOf(a, s, move)
  BY Traced
<1>2. PICK s2 \in Interleavings(state) : \E move : IterationOf(b, s2, move)
  BY Traced
<1>3. PICK move, move2 : IterationOf(a, s, move) /\ IterationOf(b, s2, move2)
  BY <1>1, <1>2
<1>4. /\ s.current = s2.current /\ move = move2
      /\ PrintableState(mm, a.state.storage) = PrintableState(mm, b.state.storage)
  <2>1. LogOf(s, move, a.state) = LogOf(s2, move2, b.state)
    BY <1>3 DEF IterationOf
  <2> QED
    BY <2>1, LogFields
<1>5. s = s2
  BY <1>3, <1>4, SwitchTold DEF IInv, StateOK
<1>6. <<"eps-transition">> # StatementLog(s)
  BY DEF StatementLog
<1>7. CASE a.state \in EpsStates(mm, s) /\ b.state \in EpsStates(mm, s)
  <2>1. mm \in Models /\ StateOK(program, mm, state) /\ state.allowed = TRUE
    BY ProgramOK DEF IInv
  <2>2. PICK p, m, r, x, y : p = program /\ m = mm /\ r = state /\ x = a.state /\ y = b.state
    OBVIOUS
  <2>3. StateOK(p, m, s)
    BY <1>1, <2>1, <2>2, InterleavingOK
  <2>4. x \in EpsStates(m, s) /\ y \in EpsStates(m, s) /\ m \in Models
        /\ PrintableState(m, x.storage) = PrintableState(m, y.storage)
    BY <1>4, <1>7, <2>1, <2>2
  <2>5. x = y
    BY <2>3, <2>4, EpsTold
  <2> QED
    BY <2>2, <2>5
<1>8. CASE a.state = Transition(program, mm, s) /\ b.state = Transition(program, mm, s)
  BY <1>8
<1> QED
  BY <1>3, <1>4, <1>5, <1>6, <1>7, <1>8 DEF IterationOf

\* Whatever the order in which the final flush visits the threads, memory and
\* the absence of buffers is all it leaves.
LEMMA EndTold ==
  ASSUME IInv, NEW a \in TracedEnds, NEW b \in TracedEnds, a.log = b.log
  PROVE  a.state = b.state
<1>1. PICK x \in Storage!FlushAll(mm, state.storage) :
        /\ a.state = [state EXCEPT !.storage = x]
        /\ a.log = FinalLines(mm, a.state)
  BY DEF TracedEnds
<1>2. PICK y \in Storage!FlushAll(mm, state.storage) :
        /\ b.state = [state EXCEPT !.storage = y]
        /\ b.log = FinalLines(mm, b.state)
  BY DEF TracedEnds
<1>3. StateOK(program, mm, state) /\ mm \in Models
  BY ProgramOK DEF IInv
<1>4. PICK p, m, s : p = program /\ m = mm /\ s = state
  OBVIOUS
<1>5. StateOK(p, m, s) /\ m \in Models
  BY <1>3, <1>4
<1>6. ASSUME NEW z \in Storage!FlushAll(m, s.storage)
      PROVE  /\ [s EXCEPT !.storage = z].storage = z
             /\ m \in {"tso", "pso"} => StorageShape(m, z) /\ DOMAIN z.buffers = {}
             /\ m \notin {"tso", "pso"} => z = s.storage
  <2> DEFINE r == [s EXCEPT !.storage = z]
  <2>1. /\ StateOK(p, m, r) /\ r.storage = z
        /\ m \in {"tso", "pso"} => DOMAIN z.buffers = {}
        /\ m \notin {"tso", "pso"} => z = s.storage
    BY <1>5, FlushedOK
  <2>2. StorageShape(m, z)
    <3> HIDE DEF r
    <3> QED
      BY <2>1 DEF StateOK
  <2> QED
    BY <2>1, <2>2
<1>7. CASE m \notin {"tso", "pso"}
  BY <1>1, <1>2, <1>4, <1>6, <1>7
<1>8. CASE m \in {"tso", "pso"}
  <2>1. /\ StorageShape(m, x) /\ StorageShape(m, y)
        /\ DOMAIN x.buffers = {} /\ DOMAIN y.buffers = {}
    BY <1>1, <1>2, <1>4, <1>6, <1>8
  <2>2. ASSUME NEW z, NEW r, r.storage = z, NEW k, NEW v
        PROVE  <<"Memory", k, v>> \in FinalLines(m, r) <=> k \in DOMAIN z.memory /\ z.memory[k] = v
    <3>1. ASSUME NEW t
          PROVE  <<"Memory", k, v>> \notin EntryLines(<<"Thread", t>>, r.finished[t])
      <4>1. PICK memory, thread : memory = "Memory" /\ thread = "Thread"
        OBVIOUS
      <4>2. <<memory, k, v>> \notin EntryLines(<<thread, t>>, r.finished[t])
        BY EntriesApart
      <4> QED
        BY <4>1, <4>2
    <3>2. <<"Memory", k, v>> \in FinalLines(m, r) <=> <<"Memory", k, v>> \in PrintableState(m, z)
      BY <2>2, <3>1 DEF FinalLines
    <3> QED
      BY <1>8, <3>2, MemoryTold
  <2>3. \A k, v : (k \in DOMAIN x.memory /\ x.memory[k] = v) <=> (k \in DOMAIN y.memory /\ y.memory[k] = v)
    <3>1. a.state.storage = x /\ b.state.storage = y
      BY <1>1, <1>2, <1>4, <1>6
    <3>2. FinalLines(m, a.state) = FinalLines(m, b.state)
      BY <1>1, <1>2, <1>4
    <3>3. PICK r, q : r = a.state /\ q = b.state
      OBVIOUS
    <3>4. r.storage = x /\ q.storage = y /\ FinalLines(m, r) = FinalLines(m, q)
      BY <3>1, <3>2, <3>3
    <3> TAKE k, v
    <3>5. <<"Memory", k, v>> \in FinalLines(m, r) <=> k \in DOMAIN x.memory /\ x.memory[k] = v
      BY <2>2, <3>4
    <3>6. <<"Memory", k, v>> \in FinalLines(m, q) <=> k \in DOMAIN y.memory /\ y.memory[k] = v
      BY <2>2, <3>4
    <3> QED
      BY <3>4, <3>5, <3>6
  <2>4. IsMap(x.memory) /\ IsMap(y.memory) /\ IsMap(x.buffers) /\ IsMap(y.buffers)
    BY <1>8, <2>1 DEF StorageShape
  <2>5. x.memory = y.memory
    <3>1. PICK f, g : f = x.memory /\ g = y.memory
      OBVIOUS
    <3> QED
      BY <2>3, <2>4, <3>1, SameEntries
  <2>6. x.buffers = y.buffers
    BY <2>1, <2>4 DEF IsMap
  <2>7. x = y
    BY <1>8, <2>1, <2>5, <2>6 DEF StorageShape
  <2> QED
    BY <1>1, <1>2, <2>7
<1> QED
  BY <1>7, <1>8

\* For any programs and memory models, whatever the scheduler draws: two
\* iterations that log the same leave the same state, and two ends of a run that
\* print the same are the same, although a PSO or SRA log does not name the
\* location of an epsilon transition and no log the order of the final flush.
THEOREM TraceDecides == Spec => []TraceTellsTheRun
<1>1. IInv => TraceTellsTheRun
  <2> SUFFICES ASSUME IInv
               PROVE  TraceTellsTheRun
    OBVIOUS
  <2>1. CASE HasActiveThreads(state)
    BY <2>1, IterationTold DEF TraceTellsTheRun
  <2>2. CASE ~HasActiveThreads(state)
    BY <2>2, EndTold DEF TraceTellsTheRun
  <2> QED
    BY <2>1, <2>2
<1> QED
  BY <1>1, Invariance, PTL

----------------------------------------------------------------------------
(* is_allowed_interleaving, the flag that only the exploration sets: a step *)
(* neither looks at it nor changes it.                                      *)

Fields(s) ==
  s = [next |-> s.next, current |-> s.current, allowed |-> s.allowed,
       storage |-> s.storage, threads |-> s.threads, finished |-> s.finished]

\* The same state, but for the flag.
Twins(s, r) ==
  /\ Fields(s) /\ Fields(r)
  /\ r.next = s.next /\ r.current = s.current /\ r.storage = s.storage
  /\ r.threads = s.threads /\ r.finished = s.finished

Flagged(s, b) == [s EXCEPT !.allowed = b]

LEMMA FlaggedTwins ==
  ASSUME NEW s, Fields(s), NEW b
  PROVE  Twins(s, Flagged(s, b)) /\ Flagged(s, b).allowed = b
<1> DEFINE r == Flagged(s, b)
<1>1. r = [next |-> s.next, current |-> s.current, allowed |-> b,
           storage |-> s.storage, threads |-> s.threads, finished |-> s.finished]
  BY DEF Flagged, Fields
<1> HIDE DEF r
<1>2. /\ r.next = s.next /\ r.current = s.current /\ r.storage = s.storage
      /\ r.threads = s.threads /\ r.finished = s.finished /\ r.allowed = b
  BY <1>1
<1>3. Fields(r)
  BY <1>1, <1>2 DEF Fields
<1> QED
  BY <1>2, <1>3 DEF Twins, r

LEMMA TwinsAreFlagged ==
  ASSUME NEW s, NEW r, Twins(s, r)
  PROVE  r = Flagged(s, r.allowed)
BY DEF Twins, Fields, Flagged

LEMMA StorageTwins ==
  ASSUME NEW s, NEW r, Twins(s, r), NEW x
  PROVE  Twins([s EXCEPT !.storage = x], [r EXCEPT !.storage = x])
<1> DEFINE a == [s EXCEPT !.storage = x]
           b == [r EXCEPT !.storage = x]
<1>1. /\ a = [next |-> s.next, current |-> s.current, allowed |-> s.allowed,
              storage |-> x, threads |-> s.threads, finished |-> s.finished]
      /\ b = [next |-> s.next, current |-> s.current, allowed |-> r.allowed,
              storage |-> x, threads |-> s.threads, finished |-> s.finished]
  BY DEF Twins, Fields
<1> HIDE DEF a, b
<1>2. Twins(a, b)
  BY <1>1 DEF Twins, Fields
<1> QED
  BY <1>2 DEF a, b

LEMMA ThreadsTwins ==
  ASSUME NEW s, NEW r, Twins(s, r), NEW th
  PROVE  Twins([s EXCEPT !.threads = th], [r EXCEPT !.threads = th])
<1> DEFINE a == [s EXCEPT !.threads = th]
           b == [r EXCEPT !.threads = th]
<1>1. /\ a = [next |-> s.next, current |-> s.current, allowed |-> s.allowed,
              storage |-> s.storage, threads |-> th, finished |-> s.finished]
      /\ b = [next |-> s.next, current |-> s.current, allowed |-> r.allowed,
              storage |-> s.storage, threads |-> th, finished |-> s.finished]
  BY DEF Twins, Fields
<1> HIDE DEF a, b
<1>2. Twins(a, b)
  BY <1>1 DEF Twins, Fields
<1> QED
  BY <1>2 DEF a, b

LEMMA AdvanceTwins ==
  ASSUME NEW s, NEW r, Twins(s, r)
  PROVE  Twins(Advance(s), Advance(r))
<1>1. PICK th : th = [s.threads EXCEPT ![s.current].pc = @ + 1]
  OBVIOUS
<1>2. Advance(s) = [s EXCEPT !.threads = th] /\ Advance(r) = [r EXCEPT !.threads = th]
  BY <1>1 DEF Advance, Twins, Fields
<1> QED
  BY <1>2, ThreadsTwins

LEMMA JumpTwins ==
  ASSUME NEW p, NEW s, NEW r, Twins(s, r), NEW label
  PROVE  Twins(Jump(p, s, label), Jump(p, r, label))
<1>1. PICK th : th = [s.threads EXCEPT ![s.current].pc = p.labels[label]]
  OBVIOUS
<1>2. /\ Jump(p, s, label) = [s EXCEPT !.threads = th]
      /\ Jump(p, r, label) = [r EXCEPT !.threads = th]
  BY <1>1 DEF Jump, Twins, Fields
<1> QED
  BY <1>2, ThreadsTwins

LEMMA SetRegTwins ==
  ASSUME NEW s, NEW r, Twins(s, r), NEW reg, NEW v
  PROVE  Twins(SetReg(s, reg, v), SetReg(r, reg, v))
<1>1. PICK th : th = [s.threads EXCEPT ![s.current].regs = Put(@, reg, v)]
  OBVIOUS
<1>2. SetReg(s, reg, v) = [s EXCEPT !.threads = th] /\ SetReg(r, reg, v) = [r EXCEPT !.threads = th]
  BY <1>1 DEF SetReg, Twins, Fields
<1> QED
  BY <1>2, ThreadsTwins

LEMMA EndedTwins ==
  ASSUME NEW s, NEW r, Twins(s, r)
  PROVE  Twins(Ended(s), Ended(r))
<1> DEFINE fin == Put(s.finished, s.current, Regs(s))
           th  == Erase(s.threads, s.current)
           a   == Ended(s)
           b   == Ended(r)
<1>1. Regs(r) = Regs(s) /\ r.finished = s.finished /\ r.current = s.current /\ r.threads = s.threads
  BY DEF Regs, Twins
<1>2. a = [s EXCEPT !.finished = fin, !.threads = th] /\ b = [r EXCEPT !.finished = fin, !.threads = th]
  BY <1>1 DEF Ended
<1> HIDE DEF fin, th, a, b
<1>3. /\ a = [next |-> s.next, current |-> s.current, allowed |-> s.allowed,
              storage |-> s.storage, threads |-> th, finished |-> fin]
      /\ b = [next |-> s.next, current |-> s.current, allowed |-> r.allowed,
              storage |-> s.storage, threads |-> th, finished |-> fin]
  BY <1>2 DEF Twins, Fields
<1>4. Twins(a, b)
  BY <1>3 DEF Twins, Fields
<1> QED
  BY <1>4 DEF a, b

LEMMA AddThreadTwins ==
  ASSUME NEW m, NEW s, NEW r, Twins(s, r), NEW pc
  PROVE  Twins(AddThread(m, s, pc), AddThread(m, r, pc))
<1> DEFINE th == Put(s.threads, s.next, [pc |-> pc, regs |-> EmptyMap])
           x  == Storage!PrepareThread(m, s.storage, s.next)
           a  == AddThread(m, s, pc)
           b  == AddThread(m, r, pc)
<1>1. /\ a = [s EXCEPT !.threads = th, !.storage = x, !.next = s.next + 1]
      /\ b = [r EXCEPT !.threads = th, !.storage = x, !.next = s.next + 1]
  <2>1. r.next = s.next /\ r.threads = s.threads /\ r.storage = s.storage
    BY DEF Twins
  <2>2. b = [r EXCEPT !.threads = Put(r.threads, r.next, [pc |-> pc, regs |-> EmptyMap]),
                      !.storage = Storage!PrepareThread(m, r.storage, r.next), !.next = r.next + 1]
    BY DEF AddThread
  <2>3. b = [r EXCEPT !.threads = th, !.storage = x, !.next = s.next + 1]
    BY <2>1, <2>2
  <2> QED
    BY <2>3 DEF AddThread
<1> HIDE DEF th, x, a, b
<1>2. /\ a = [next |-> s.next + 1, current |-> s.current, allowed |-> s.allowed,
              storage |-> x, threads |-> th, finished |-> s.finished]
      /\ b = [next |-> s.next + 1, current |-> s.current, allowed |-> r.allowed,
              storage |-> x, threads |-> th, finished |-> s.finished]
  BY <1>1 DEF Twins, Fields
<1>3. Twins(a, b)
  BY <1>2 DEF Twins, Fields
<1> QED
  BY <1>3 DEF a, b

LEMMA EvaluateTwins ==
  ASSUME NEW m, NEW s, NEW r, Twins(s, r), NEW e, e.kind \in ExpressionKinds
  PROVE  Evaluate(m, r, e) = Evaluate(m, s, e)
BY DEF Twins, ExpressionKinds, Evaluate, EvaluateCas, EvaluateFai, Regs

\* Whichever statement it is.
LEMMA TransitionTwins ==
  ASSUME NEW p, NEW m, NEW s, NEW r, Twins(s, r),
         WellFormed(p), s.threads[s.current].pc \in DOMAIN p.statements
  PROVE  Twins(Transition(p, m, s), Transition(p, m, r))
<1> DEFINE stmt == StatementAt(p, s)
<1>1. /\ stmt.kind \in StatementKinds
      /\ stmt.kind = "assign" => stmt.expr.kind \in ExpressionKinds
  BY DEF WellFormed, StatementAt
<1>2. /\ StatementAt(p, r) = stmt /\ Regs(r) = Regs(s)
      /\ r.current = s.current /\ r.storage = s.storage
  BY DEF StatementAt, Regs, Twins
<1> HIDE DEF stmt
<1>3. CASE stmt.kind = "goto"
  BY <1>2, <1>3, JumpTwins DEF Transition, stmt
<1>4. CASE stmt.kind = "if"
  <2>1. /\ Transition(p, m, s) =
             IF Regs(s)[stmt.reg] # 0 THEN Jump(p, s, stmt.label) ELSE Advance(s)
        /\ Transition(p, m, r) =
             IF Regs(s)[stmt.reg] # 0 THEN Jump(p, r, stmt.label) ELSE Advance(r)
    BY <1>2, <1>4 DEF Transition, stmt
  <2> QED
    BY <2>1, JumpTwins, AdvanceTwins
<1>5. CASE stmt.kind = "thread_goto"
  <2>1. PICK pc : pc = p.labels[stmt.label]
    OBVIOUS
  <2>2. /\ Transition(p, m, s) = Advance(AddThread(m, s, pc))
        /\ Transition(p, m, r) = Advance(AddThread(m, r, pc))
    BY <1>2, <1>5, <2>1 DEF Transition, stmt
  <2> QED
    BY <2>2, AddThreadTwins, AdvanceTwins
<1>6. ASSUME NEW x
      PROVE  Twins(Advance([s EXCEPT !.storage = x]), Advance([r EXCEPT !.storage = x]))
  BY StorageTwins, AdvanceTwins
<1>7. ASSUME NEW x, NEW reg, NEW v
      PROVE  Twins(Advance([SetReg(s, reg, v) EXCEPT !.storage = x]),
                   Advance([SetReg(r, reg, v) EXCEPT !.storage = x]))
  <2>1. PICK a, b : a = SetReg(s, reg, v) /\ b = SetReg(r, reg, v)
    OBVIOUS
  <2>2. Twins(a, b)
    BY <2>1, SetRegTwins
  <2>3. Twins([a EXCEPT !.storage = x], [b EXCEPT !.storage = x])
    BY <2>2, StorageTwins
  <2> QED
    BY <2>1, <2>3, AdvanceTwins
<1>8. CASE stmt.kind = "assign"
  <2>1. PICK x : x = Evaluate(m, s, stmt.expr)
    OBVIOUS
  <2>2. x = Evaluate(m, r, stmt.expr)
    BY <1>1, <1>8, <2>1, EvaluateTwins
  <2>3. /\ Transition(p, m, s) = Advance([SetReg(s, stmt.reg, x.value) EXCEPT !.storage = x.storage])
        /\ Transition(p, m, r) = Advance([SetReg(r, stmt.reg, x.value) EXCEPT !.storage = x.storage])
    BY <1>2, <1>8, <2>1, <2>2 DEF Transition, Assigned, stmt
  <2> QED
    BY <1>7, <2>3
<1>9. CASE stmt.kind = "load"
  <2>1. PICK x : x = Storage!Read(m, s.storage, s.current, stmt.loc, stmt.order)
    OBVIOUS
  <2>2. /\ Transition(p, m, s) = Advance([SetReg(s, stmt.reg, x.value) EXCEPT !.storage = x.storage])
        /\ Transition(p, m, r) = Advance([SetReg(r, stmt.reg, x.value) EXCEPT !.storage = x.storage])
    BY <1>2, <1>9, <2>1 DEF Transition, Loaded, stmt
  <2> QED
    BY <1>7, <2>2
<1>10. CASE stmt.kind = "store"
  <2>1. PICK x : x = Storage!Write(m, s.storage, s.current, stmt.loc, Regs(s)[stmt.reg], stmt.order)
    OBVIOUS
  <2>2. /\ Transition(p, m, s) = Advance([s EXCEPT !.storage = x])
        /\ Transition(p, m, r) = Advance([r EXCEPT !.storage = x])
    BY <1>2, <1>10, <2>1 DEF Transition, Stored, stmt
  <2> QED
    BY <1>6, <2>2
<1>11. CASE stmt.kind \in {"cas", "fai"}
  <2>1. PICK x : x = Evaluate(m, s, stmt).storage
    OBVIOUS
  <2>2. x = Evaluate(m, r, stmt).storage
    BY <1>11, <2>1, EvaluateTwins DEF ExpressionKinds
  <2>3. /\ Transition(p, m, s) = Advance([s EXCEPT !.storage = x])
        /\ Transition(p, m, r) = Advance([r EXCEPT !.storage = x])
    BY <1>2, <1>11, <2>1, <2>2 DEF Transition, stmt
  <2> QED
    BY <1>6, <2>3
<1>12. CASE stmt.kind = "fence"
  <2>1. PICK x : x = Storage!Fence(m, s.storage, s.current, stmt.order)
    OBVIOUS
  <2>2. /\ Transition(p, m, s) = Advance([s EXCEPT !.storage = x])
        /\ Transition(p, m, r) = Advance([r EXCEPT !.storage = x])
    BY <1>2, <1>12, <2>1 DEF Transition, stmt
  <2> QED
    BY <1>6, <2>2
<1>13. CASE stmt.kind = "end"
  BY <1>2, <1>13, EndedTwins DEF Transition, stmt
<1> QED
  BY <1>1, <1>3, <1>4, <1>5, <1>8, <1>9, <1>10, <1>11, <1>12, <1>13 DEF StatementKinds

LEMMA CompletesTwins ==
  ASSUME NEW p, NEW m, NEW s, NEW r, Twins(s, r)
  PROVE  Completes(p, m, r) <=> Completes(p, m, s)
<1>1. StatementAt(p, r) = StatementAt(p, s) /\ Regs(r) = Regs(s)
  BY DEF StatementAt, Regs, Twins
<1> QED
  BY <1>1 DEF Completes

LEMMA EpsTwins ==
  ASSUME NEW m, NEW s, NEW r, Twins(s, r)
  PROVE  /\ HasEps(m, r) <=> HasEps(m, s)
         /\ \A e \in EpsStates(m, s) : \E f \in EpsStates(m, r) : Twins(e, f) /\ f.allowed = r.allowed
<1>1. HasEps(m, r) <=> HasEps(m, s)
  BY DEF HasEps, Twins
<1>2. ASSUME NEW e \in EpsStates(m, s)
      PROVE  \E f \in EpsStates(m, r) : Twins(e, f) /\ f.allowed = r.allowed
  <2>1. PICK x \in Storage!EpsStorages(m, s.storage, s.current) : e = [s EXCEPT !.storage = x]
    BY DEF EpsStates
  <2>2. x \in Storage!EpsStorages(m, r.storage, r.current)
    BY DEF Twins
  <2>3. [r EXCEPT !.storage = x] \in EpsStates(m, r)
    BY <2>2 DEF EpsStates
  <2>4. [r EXCEPT !.storage = x].allowed = r.allowed
    BY DEF Twins, Fields
  <2> QED
    BY <2>1, <2>3, <2>4, StorageTwins
<1> QED
  BY <1>1, <1>2

\* A state the program can be in stays one whatever the flag is.
LEMMA StateOKTwins ==
  ASSUME NEW p, NEW m, NEW s, StateOK(p, m, s), NEW r, Twins(s, r)
  PROVE  StateOK(p, m, r)
BY DEF StateOK, StateShape, Twins, Fields, Active

----------------------------------------------------------------------------
(***************************************************************************)
(* The exploration of ModelChecking, against the iterations of Executions.  *)
(***************************************************************************)
VARIABLES states, finalStates, generated

Exploration == INSTANCE ModelChecking

(* Exploration's copies of the operators are the same operators. *)

LEMMA ExplorationReads ==
  ASSUME NEW m, NEW s, NEW t, NEW l, NEW o
  PROVE  Exploration!Storage!Read(m, s, t, l, o) = Storage!Read(m, s, t, l, o)
BY DEF Exploration!Storage!Read, Storage!Read, Exploration!Storage!SC!Read, Storage!SC!Read,
       Exploration!Storage!SC!At, Storage!SC!At, Exploration!Storage!TSO!Read,
       Storage!TSO!Read, Exploration!Storage!TSO!At, Storage!TSO!At,
       Exploration!Storage!TSO!StoresTo, Storage!TSO!StoresTo, Exploration!Storage!TSO!Max,
       Storage!TSO!Max, Exploration!Storage!PSO!Read, Storage!PSO!Read,
       Exploration!Storage!PSO!At, Storage!PSO!At, Exploration!Storage!PSO!Queues,
       Storage!PSO!Queues, Exploration!Storage!PSO!Last, Storage!PSO!Last,
       Exploration!Storage!PSO!EmptyMap, Storage!PSO!EmptyMap, Exploration!Storage!SRA!Read,
       Storage!SRA!Read, Exploration!Storage!SRA!At, Storage!SRA!At,
       Exploration!Storage!SRA!View, Storage!SRA!View, Exploration!Storage!SRA!EmptyMap,
       Storage!SRA!EmptyMap, Exploration!Storage!SRA!Put, Storage!SRA!Put,
       Exploration!Storage!SRA!Min, Storage!SRA!Min, Exploration!Storage!SRA!ReadFrom,
       Storage!SRA!ReadFrom, Exploration!Storage!SRA!Timestamp, Storage!SRA!Timestamp,
       Exploration!Storage!SRA!Acquires, Storage!SRA!Acquires, Exploration!Storage!SRA!Join,
       Storage!SRA!Join

LEMMA ExplorationWrites ==
  ASSUME NEW m, NEW s, NEW t, NEW l, NEW v, NEW o
  PROVE  Exploration!Storage!Write(m, s, t, l, v, o) = Storage!Write(m, s, t, l, v, o)
BY DEF Exploration!Storage!Write, Storage!Write, Exploration!Storage!SC!Write,
       Storage!SC!Write, Exploration!Storage!SC!Put, Storage!SC!Put,
       Exploration!Storage!TSO!Write, Storage!TSO!Write, Exploration!Storage!TSO!Enqueue,
       Storage!TSO!Enqueue, Exploration!Storage!TSO!FlushBuffer, Storage!TSO!FlushBuffer,
       Exploration!Storage!TSO!Read, Storage!TSO!Read, Exploration!Storage!TSO!At,
       Storage!TSO!At, Exploration!Storage!TSO!StoresTo, Storage!TSO!StoresTo,
       Exploration!Storage!TSO!Max, Storage!TSO!Max, Exploration!Storage!TSO!HasEps,
       Storage!TSO!HasEps, Exploration!Storage!TSO!Put, Storage!TSO!Put,
       Exploration!Storage!TSO!Erase, Storage!TSO!Erase, Exploration!Storage!PSO!Write,
       Storage!PSO!Write, Exploration!Storage!PSO!Enqueue, Storage!PSO!Enqueue,
       Exploration!Storage!PSO!FlushBuffer, Storage!PSO!FlushBuffer,
       Exploration!Storage!PSO!Queues, Storage!PSO!Queues, Exploration!Storage!PSO!At,
       Storage!PSO!At, Exploration!Storage!PSO!Last, Storage!PSO!Last,
       Exploration!Storage!PSO!EmptyMap, Storage!PSO!EmptyMap, Exploration!Storage!PSO!Put,
       Storage!PSO!Put, Exploration!Storage!PSO!Erase, Storage!PSO!Erase,
       Exploration!Storage!SRA!Write, Storage!SRA!Write, Exploration!Storage!SRA!At,
       Storage!SRA!At, Exploration!Storage!SRA!View, Storage!SRA!View,
       Exploration!Storage!SRA!EmptyMap, Storage!SRA!EmptyMap, Exploration!Storage!SRA!Put,
       Storage!SRA!Put, Exploration!Storage!SRA!Releases, Storage!SRA!Releases

LEMMA ExplorationFlushes ==
  ASSUME NEW m, NEW s, NEW t
  PROVE  /\ Exploration!Storage!FlushThread(m, s, t) = Storage!FlushThread(m, s, t)
         /\ Exploration!Storage!PrepareThread(m, s, t) = Storage!PrepareThread(m, s, t)
         /\ \A o : Exploration!Storage!Fence(m, s, t, o) = Storage!Fence(m, s, t, o)
BY DEF Exploration!Storage!FlushThread, Storage!FlushThread, Exploration!Storage!PrepareThread,
       Storage!PrepareThread, Exploration!Storage!Fence, Storage!Fence,
       Exploration!Storage!TSO!Fence, Storage!TSO!Fence, Exploration!Storage!TSO!FlushBuffer,
       Storage!TSO!FlushBuffer, Exploration!Storage!TSO!Read, Storage!TSO!Read,
       Exploration!Storage!TSO!At, Storage!TSO!At, Exploration!Storage!TSO!StoresTo,
       Storage!TSO!StoresTo, Exploration!Storage!TSO!Max, Storage!TSO!Max,
       Exploration!Storage!TSO!HasEps, Storage!TSO!HasEps, Exploration!Storage!TSO!Erase,
       Storage!TSO!Erase, Exploration!Storage!PSO!Fence, Storage!PSO!Fence,
       Exploration!Storage!PSO!FlushBuffer, Storage!PSO!FlushBuffer,
       Exploration!Storage!PSO!Queues, Storage!PSO!Queues, Exploration!Storage!PSO!At,
       Storage!PSO!At, Exploration!Storage!PSO!Last, Storage!PSO!Last,
       Exploration!Storage!PSO!EmptyMap, Storage!PSO!EmptyMap, Exploration!Storage!PSO!Erase,
       Storage!PSO!Erase, Exploration!Storage!SRA!PrepareThread, Storage!SRA!PrepareThread,
       Exploration!Storage!SRA!EmptyMap, Storage!SRA!EmptyMap, Exploration!Storage!SRA!Put,
       Storage!SRA!Put

LEMMA ExplorationMoves ==
  ASSUME NEW m, NEW s, NEW t
  PROVE  /\ Exploration!Storage!HasEps(m, s, t) = Storage!HasEps(m, s, t)
         /\ Exploration!Storage!EpsStorages(m, s, t) = Storage!EpsStorages(m, s, t)
BY DEF Exploration!Storage!HasEps, Storage!HasEps, Exploration!Storage!EpsStorages,
       Storage!EpsStorages, Exploration!Storage!TSO!HasEps, Storage!TSO!HasEps,
       Exploration!Storage!TSO!EpsStorages, Storage!TSO!EpsStorages,
       Exploration!Storage!TSO!Propagate, Storage!TSO!Propagate, Exploration!Storage!TSO!Put,
       Storage!TSO!Put, Exploration!Storage!TSO!Erase, Storage!TSO!Erase,
       Exploration!Storage!PSO!HasEps, Storage!PSO!HasEps, Exploration!Storage!PSO!EpsStorages,
       Storage!PSO!EpsStorages, Exploration!Storage!PSO!Propagate, Storage!PSO!Propagate,
       Exploration!Storage!PSO!Queues, Storage!PSO!Queues, Exploration!Storage!PSO!At,
       Storage!PSO!At, Exploration!Storage!PSO!EmptyMap, Storage!PSO!EmptyMap,
       Exploration!Storage!PSO!Put, Storage!PSO!Put, Exploration!Storage!PSO!Erase,
       Storage!PSO!Erase, Exploration!Storage!SRA!HasEps, Storage!SRA!HasEps,
       Exploration!Storage!SRA!EpsStorages, Storage!SRA!EpsStorages,
       Exploration!Storage!SRA!IncreaseLocations, Storage!SRA!IncreaseLocations,
       Exploration!Storage!SRA!Increase, Storage!SRA!Increase, Exploration!Storage!SRA!View,
       Storage!SRA!View, Exploration!Storage!SRA!Timestamp, Storage!SRA!Timestamp,
       Exploration!Storage!SRA!At, Storage!SRA!At, Exploration!Storage!SRA!EmptyMap,
       Storage!SRA!EmptyMap, Exploration!Storage!SRA!Put, Storage!SRA!Put

LEMMA ExplorationEvaluates ==
  ASSUME NEW m, NEW s, NEW e
  PROVE  Exploration!Evaluate(m, s, e) = Evaluate(m, s, e)
BY ExplorationReads, ExplorationWrites, ExplorationFlushes
   DEF Exploration!Evaluate, Evaluate, Exploration!EvaluateCas, EvaluateCas,
       Exploration!EvaluateFai, EvaluateFai, Exploration!Compute, Compute, Exploration!Wrap,
       Wrap, Exploration!Half, Half, Exploration!Quotient, Quotient, Exploration!Regs, Regs

LEMMA ExplorationTransitions ==
  ASSUME NEW p, NEW m, NEW s
  PROVE  Exploration!Transition(p, m, s) = Transition(p, m, s)
BY ExplorationReads, ExplorationWrites, ExplorationFlushes, ExplorationEvaluates
   DEF Exploration!Transition, Transition, Exploration!StatementAt, StatementAt,
       Exploration!Regs, Regs, Exploration!Jump, Jump, Exploration!Advance, Advance,
       Exploration!AddThread, AddThread, Exploration!Assigned, Assigned, Exploration!Loaded,
       Loaded, Exploration!Stored, Stored, Exploration!Ended, Ended, Exploration!SetReg,
       SetReg, Exploration!Put, Put, Exploration!Erase, Erase, Exploration!EmptyMap, EmptyMap

LEMMA ExplorationCompletes ==
  ASSUME NEW p, NEW m, NEW s
  PROVE  Exploration!Completes(p, m, s) <=> Completes(p, m, s)
BY DEF Exploration!Completes, Completes, Exploration!StatementAt, StatementAt,
       Exploration!Regs, Regs, Exploration!RegistersRead, RegistersRead, Exploration!Evaluated,
       Evaluated, Exploration!Half, Half, Exploration!Storage!FenceThrows, Storage!FenceThrows

LEMMA ExplorationIterations ==
  ASSUME NEW m, NEW s
  PROVE  /\ Exploration!Active(s) = Active(s)
         /\ Exploration!HasActiveThreads(s) <=> HasActiveThreads(s)
         /\ Exploration!IsInterleavingPossible(s) <=> IsInterleavingPossible(s)
         /\ \A t : Exploration!SwitchTo(s, t) = SwitchTo(s, t)
         /\ Exploration!HasEps(m, s) <=> HasEps(m, s)
         /\ Exploration!EpsStates(m, s) = EpsStates(m, s)
<1>1. Exploration!Active(s) = Active(s)
  BY DEF Exploration!Active, Active
<1>2. Exploration!HasActiveThreads(s) <=> HasActiveThreads(s)
  BY <1>1 DEF Exploration!HasActiveThreads, HasActiveThreads
<1>3. Exploration!IsInterleavingPossible(s) <=> IsInterleavingPossible(s)
  BY <1>1 DEF Exploration!IsInterleavingPossible, IsInterleavingPossible,
              Exploration!Cardinality, Cardinality
<1>4. \A t : Exploration!SwitchTo(s, t) = SwitchTo(s, t)
  BY DEF Exploration!SwitchTo, SwitchTo
<1>5. Exploration!HasEps(m, s) <=> HasEps(m, s)
  BY ExplorationMoves DEF Exploration!HasEps, HasEps
<1>6. Exploration!EpsStates(m, s) = EpsStates(m, s)
  BY ExplorationMoves DEF Exploration!EpsStates, EpsStates
<1> QED
  BY <1>1, <1>2, <1>3, <1>4, <1>5, <1>6

LEMMA ExplorationStarts ==
  ASSUME NEW m
  PROVE  Exploration!InitialState(m) = InitialState(m)
<1>1. Exploration!Storage!New(m) = Storage!New(m)
  BY DEF Exploration!Storage!New, Storage!New, Exploration!Storage!SC!New, Storage!SC!New,
         Exploration!Storage!SC!EmptyMap, Storage!SC!EmptyMap, Exploration!Storage!TSO!New,
         Storage!TSO!New, Exploration!Storage!TSO!EmptyMap, Storage!TSO!EmptyMap,
         Exploration!Storage!PSO!New, Storage!PSO!New, Exploration!Storage!PSO!EmptyMap,
         Storage!PSO!EmptyMap, Exploration!Storage!SRA!New, Storage!SRA!New,
         Exploration!Storage!SRA!EmptyMap, Storage!SRA!EmptyMap
<1>2. Exploration!EmptyMap = EmptyMap
  BY DEF Exploration!EmptyMap, EmptyMap
<1>3. ASSUME NEW s
      PROVE  Exploration!AddThread(m, s, 1) = AddThread(m, s, 1)
  BY <1>2, ExplorationFlushes DEF Exploration!AddThread, AddThread, Exploration!Put, Put
<1> QED
  BY <1>1, <1>2, <1>3 DEF Exploration!InitialState, InitialState


----------------------------------------------------------------------------
(* The orders in which successors are pushed. *)

\* q lists the numbers in T, smallest first.
Ascending(T, m, q) ==
  /\ m \in Nat /\ q \in [1..m -> T]
  /\ \A i, j \in 1..m : i < j => q[i] < q[j]
  /\ \A x \in T : \E i \in 1..m : q[i] = x

LEMMA AscendingGrows ==
  ASSUME NEW k \in Nat, NEW T, T \subseteq 0..k, k \in T,
         NEW m, NEW q, Ascending(T \ {k}, m, q)
  PROVE  \E n, r : Ascending(T, n, r)
<1> DEFINE r == [i \in 1..m + 1 |-> IF i = m + 1 THEN k ELSE q[i]]
<1>1. m \in Nat /\ m + 1 \in Nat
  BY DEF Ascending
<1>2. /\ q \in [1..m -> T \ {k}]
      /\ \A i, j \in 1..m : i < j => q[i] < q[j]
      /\ \A x \in T \ {k} : \E i \in 1..m : q[i] = x
  BY DEF Ascending
<1>3. \A i \in 1..m : q[i] \in T /\ q[i] < k
  <2> TAKE i \in 1..m
  <2>1. q[i] \in T \ {k}
    BY <1>2
  <2>2. q[i] \in 0..k /\ q[i] # k
    BY <2>1
  <2> QED
    BY <2>1, <2>2
<1>4. r \in [1..m + 1 -> T]
  <2>1. ASSUME NEW i \in 1..m + 1
        PROVE  (IF i = m + 1 THEN k ELSE q[i]) \in T
    <3>1. i # m + 1 => i \in 1..m
      BY <1>1
    <3> QED
      BY <1>3, <3>1
  <2> QED
    BY <2>1
<1>5. \A i \in 1..m : i \in 1..m + 1 /\ i # m + 1 /\ r[i] = q[i]
  BY <1>1
<1>6. m + 1 \in 1..m + 1 /\ r[m + 1] = k
  BY <1>1
<1> HIDE DEF r
<1>7. ASSUME NEW i \in 1..m + 1, NEW j \in 1..m + 1, i < j
      PROVE  r[i] < r[j]
  <2>1. i \in 1..m /\ (j = m + 1 \/ j \in 1..m)
    BY <1>1, <1>7
  <2>2. CASE j = m + 1
    BY <1>3, <1>5, <1>6, <2>1, <2>2
  <2>3. CASE j \in 1..m
    <3>1. q[i] < q[j]
      BY <1>2, <1>7, <2>1, <2>3
    <3> QED
      BY <1>5, <2>1, <2>3, <3>1
  <2> QED
    BY <2>1, <2>2, <2>3
<1>8. ASSUME NEW x \in T
      PROVE  \E i \in 1..m + 1 : r[i] = x
  <2>1. CASE x = k
    BY <1>6, <2>1
  <2>2. CASE x # k
    <3>1. PICK i \in 1..m : q[i] = x
      BY <1>2, <2>2
    <3> QED
      BY <1>5, <3>1
  <2> QED
    BY <2>1, <2>2
<1>9. Ascending(T, m + 1, r)
  BY <1>1, <1>4, <1>7, <1>8 DEF Ascending
<1> QED
  BY <1>9

LEMMA AscendingExists ==
  ASSUME NEW n \in Nat, NEW T, T \subseteq 0..n - 1
  PROVE  \E m, q : Ascending(T, m, q)
<1> DEFINE Listed(U) == \E m, q : Ascending(U, m, q)
           S == {k \in Nat : \A U \in SUBSET (0..k - 1) : Listed(U)}
<1>1. 0 \in S
  <2>1. 0..0 - 1 = {}
    OBVIOUS
  <2>2. Ascending({}, 0, [i \in 1..0 |-> 0])
    BY DEF Ascending
  <2>3. \A U \in SUBSET {} : U = {}
    OBVIOUS
  <2>4. Listed({})
    BY <2>2
  <2> HIDE DEF Listed
  <2> QED
    BY <2>1, <2>3, <2>4
<1>2. ASSUME NEW k \in Nat, k \in S
      PROVE  k + 1 \in S
  <2>1. k + 1 \in Nat /\ (k + 1) - 1 = k
    OBVIOUS
  <2>2. ASSUME NEW U \in SUBSET (0..k)
        PROVE  Listed(U)
    <3>1. U \ {k} \in SUBSET (0..k - 1)
      OBVIOUS
    <3>2. PICK m, q : Ascending(U \ {k}, m, q)
      BY <1>2, <3>1
    <3>3. CASE k \in U
      BY <3>2, <3>3, AscendingGrows
    <3>4. CASE k \notin U
      <4>1. U \ {k} = U
        BY <3>4
      <4> QED
        BY <3>2, <4>1
    <3> QED
      BY <3>3, <3>4
  <2> QED
    BY <2>1, <2>2
<1> HIDE DEF S
<1>3. n \in S
  BY <1>1, <1>2, NumbersByInduction
<1> QED
  BY <1>3 DEF S

LEMMA ExplorationCounts ==
  ASSUME NEW S
  PROVE  Exploration!Cardinality(S) = Cardinality(S)
BY DEF Exploration!Cardinality, Cardinality

\* The ids of a finite map, as its traversal yields them.
LEMMA OrderedIds ==
  ASSUME NEW n \in Nat, NEW T, T \subseteq 0..n - 1
  PROVE  Exploration!InOrder(T) \in Seq(T)
<1>1. PICK m, q : Ascending(T, m, q)
  BY AscendingExists
<1>2. m \in Nat /\ q \in [1..m -> T]
  BY <1>1 DEF Ascending
<1>3. \A i, j \in 1..m : i < j => q[i] < q[j]
  BY <1>1 DEF Ascending
<1>4. q \in Bijection(1..m, T)
  <2>1. \A i \in 1..m : q[i] \in Int
    <3>1. \A x \in T : x \in Int
      OBVIOUS
    <3> QED
      BY <1>2, <3>1
  <2>2. ASSUME NEW i \in 1..m, NEW j \in 1..m, q[i] = q[j]
        PROVE  i = j
    <3>1. i \in Int /\ j \in Int
      BY <1>2
    <3>2. ~(i < j) /\ ~(j < i)
      BY <1>3, <2>1, <2>2
    <3> QED
      BY <3>1, <3>2
  <2>3. \A x \in T : \E i \in 1..m : q[i] = x
    BY <1>1 DEF Ascending
  <2> QED
    BY <1>2, <2>2, <2>3 DEF Bijection, Injection, Surjection, IsInjective
<1>5. Exploration!Cardinality(T) = m
  <2>1. ExistsBijection(1..m, T)
    BY <1>4 DEF ExistsBijection
  <2> QED
    BY <1>2, <2>1, FS_CountingElements, ExplorationCounts
<1>6. q \in [1..Exploration!Cardinality(T) -> T] /\ DOMAIN q = 1..m
  BY <1>2, <1>5
<1>7. \A i, j \in DOMAIN q : i < j => q[i] < q[j]
  BY <1>3, <1>6
<1>8. Exploration!InOrder(T) \in [1..Exploration!Cardinality(T) -> T]
  BY <1>6, <1>7 DEF Exploration!InOrder
<1> QED
  BY <1>2, <1>5, <1>8 DEF Seq

LEMMA Sequenced ==
  ASSUME NEW S, IsFiniteSet(S)
  PROVE  Exploration!SetToSeq(S) \in Seq(S)
<1>1. PICK m : m = Cardinality(S)
  OBVIOUS
<1>2. m \in Nat /\ ExistsBijection(1..m, S)
  BY <1>1, FS_CardinalityType
<1>3. PICK f : f \in Bijection(1..m, S)
  BY <1>2 DEF ExistsBijection
<1>4. f \in [1..m -> S] /\ Exploration!IsInjective(f)
  BY <1>3 DEF Bijection, Injection, IsInjective, Exploration!IsInjective
<1>5. Exploration!Cardinality(S) = m
  BY <1>1, ExplorationCounts
<1>6. Exploration!SetToSeq(S) \in [1..m -> S]
  BY <1>4, <1>5 DEF Exploration!SetToSeq
<1> QED
  BY <1>2, <1>6 DEF Seq

LEMMA FiniteRange ==
  ASSUME NEW S, IsFiniteSet(S), NEW f, DOMAIN f = S
  PROVE  IsFiniteSet({f[x] : x \in S})
<1> DEFINE T == {f[x] : x \in S}
           g == [x \in S |-> f[x]]
<1>1. g \in [S -> T]
  OBVIOUS
<1>2. \A y \in T : \E x \in S : g[x] = y
  OBVIOUS
<1>3. g \in Surjection(S, T)
  BY <1>1, <1>2 DEF Surjection
<1> QED
  BY <1>3, FS_Surjection

\* There are finitely many epsilon transitions.
LEMMA FewMoves ==
  ASSUME NEW m \in Models, NEW s, StorageShape(m, s), NEW t
  PROVE  IsFiniteSet(Storage!EpsStorages(m, s, t))
<1>1. IsFiniteSet({})
  BY FS_EmptySet
<1>2. CASE m = "sc"
  <2>1. Storage!EpsStorages(m, s, t) = {}
    BY <1>2 DEF Storage!EpsStorages
  <2> QED
    BY <1>1, <2>1
<1>3. CASE m = "tso"
  <2>1. Storage!EpsStorages(m, s, t) \in {{}, {Storage!TSO!Propagate(s, t)}}
    BY <1>3 DEF Storage!EpsStorages, Storage!TSO!EpsStorages
  <2>2. \A x : IsFiniteSet({x})
    BY FS_Singleton
  <2> QED
    BY <1>1, <2>1, <2>2
<1>4. CASE m = "pso"
  <2> DEFINE S == DOMAIN Storage!PSO!Queues(s, t)
             f == [l \in S |-> Storage!PSO!Propagate(s, t, l)]
  <2>1. IsFiniteSet(S)
    BY <1>4, OwnFinite, StorageMaps DEF Storage!PSO!Queues, StorageShape
  <2>2. IsFiniteSet({f[l] : l \in S})
    <3>1. DOMAIN f = S
      OBVIOUS
    <3> HIDE DEF f, S
    <3> QED
      BY <2>1, <3>1, FiniteRange
  <2>3. Storage!EpsStorages(m, s, t) = {f[l] : l \in S}
    BY <1>4 DEF Storage!EpsStorages, Storage!PSO!EpsStorages
  <2> QED
    BY <2>2, <2>3
<1>5. CASE m = "sra"
  <2> DEFINE S == Storage!SRA!IncreaseLocations(s, t)
             f == [l \in S |-> Storage!SRA!Increase(s, t, l)]
  <2>1. IsFiniteSet(S)
    <3>1. IsFiniteSet(DOMAIN s.stamps)
      BY <1>5 DEF StorageShape
    <3>2. S \in SUBSET DOMAIN s.stamps
      BY DEF Storage!SRA!IncreaseLocations
    <3> HIDE DEF S
    <3> QED
      BY <3>1, <3>2, FS_Subset
  <2>2. IsFiniteSet({f[l] : l \in S})
    <3>1. DOMAIN f = S
      OBVIOUS
    <3> HIDE DEF f, S
    <3> QED
      BY <2>1, <3>1, FiniteRange
  <2>3. Storage!EpsStorages(m, s, t) = {} \/ Storage!EpsStorages(m, s, t) = {f[l] : l \in S}
    BY <1>5 DEF Storage!EpsStorages, Storage!SRA!EpsStorages
  <2> QED
    BY <1>1, <2>2, <2>3
<1> QED
  BY <1>2, <1>3, <1>4, <1>5 DEF Models

\* The epsilon successors, with the flag set.
Moved(m, s) == {Flagged(e, TRUE) : e \in EpsStates(m, s)}

LEMMA MovedSequenced ==
  ASSUME NEW p, NEW m \in Models, NEW s, StateOK(p, m, s)
  PROVE  Exploration!SetToSeq(Moved(m, s)) \in Seq(Moved(m, s))
<1> DEFINE S == Storage!EpsStorages(m, s.storage, s.current)
           f == [x \in S |-> Flagged([s EXCEPT !.storage = x], TRUE)]
<1>1. IsFiniteSet(S)
  BY FewMoves DEF StateOK
<1>2. Moved(m, s) = {f[x] : x \in S}
  BY DEF Moved, EpsStates
<1>3. DOMAIN f = S
  OBVIOUS
<1> HIDE DEF f, S
<1>4. IsFiniteSet({f[x] : x \in S})
  BY <1>1, <1>3, FiniteRange
<1> QED
  BY <1>2, <1>4, Sequenced


----------------------------------------------------------------------------
(***************************************************************************)
(* Soundness: X stands for the states that the iterations reach under       *)
(* program p and memory model m.  The exploration stops between the switch  *)
(* and the step of an iteration, so that a state it queues is one of X, but *)
(* for the flag, or what a switch made of one.                              *)
(***************************************************************************)
Free(s) == Flagged(s, TRUE)

Queued(X, p, m, s) ==
  /\ StateOK(p, m, s)
  /\ s.allowed \in BOOLEAN
  /\ \/ Free(s) \in X
     \/ /\ s.allowed = FALSE /\ s.current \in Active(s)
        /\ \E r \in X : Free(s) \in Interleavings(r)

\* A sequence of such states.
Queue(X, p, m, q) == \E S : q \in Seq(S) /\ \A s \in S : Queued(X, p, m, s)

Closing(X, p, m) == \A s \in X : Successors(p, m, s) \subseteq X

LEMMA QueueParts ==
  ASSUME NEW X, NEW p, NEW m, NEW q, Queue(X, p, m, q), q # <<>>
  PROVE  Queued(X, p, m, Head(q)) /\ Queue(X, p, m, Tail(q))
BY HeadTailProperties DEF Queue

LEMMA QueueJoins ==
  ASSUME NEW X, NEW p, NEW m, NEW q, Queue(X, p, m, q), NEW r, Queue(X, p, m, r)
  PROVE  Queue(X, p, m, q \o r)
<1>1. PICK S : q \in Seq(S) /\ \A s \in S : Queued(X, p, m, s)
  BY DEF Queue
<1>2. PICK T : r \in Seq(T) /\ \A s \in T : Queued(X, p, m, s)
  BY DEF Queue
<1> DEFINE U == S \cup T
<1>3. q \in Seq(U) /\ r \in Seq(U)
  <2>1. q \in [1..Len(q) -> S] /\ Len(q) \in Nat
    BY <1>1, LenProperties
  <2>2. r \in [1..Len(r) -> T] /\ Len(r) \in Nat
    BY <1>2, LenProperties
  <2>3. q \in [1..Len(q) -> U] /\ r \in [1..Len(r) -> U]
    BY <2>1, <2>2
  <2> QED
    BY <2>1, <2>2, <2>3 DEF Seq
<1>4. q \o r \in Seq(U)
  BY <1>3, ConcatProperties
<1>5. \A s \in U : Queued(X, p, m, s)
  BY <1>1, <1>2
<1> QED
  BY <1>4, <1>5 DEF Queue

LEMMA QueueEmpty ==
  ASSUME NEW X, NEW p, NEW m
  PROVE  Queue(X, p, m, <<>>)
<1>1. PICK q, S : q = <<>> /\ S = {}
  OBVIOUS
<1>2. q \in Seq(S)
  BY <1>1
<1>3. Queue(X, p, m, q)
  BY <1>1, <1>2 DEF Queue
<1> QED
  BY <1>1, <1>3

LEMMA QueueOne ==
  ASSUME NEW X, NEW p, NEW m, NEW s, Queued(X, p, m, s)
  PROVE  Queue(X, p, m, <<s>>)
<1>1. PICK q, S : q = <<s>> /\ S = {s}
  OBVIOUS
<1>2. q \in Seq(S)
  BY <1>1
<1>3. Queue(X, p, m, q)
  BY <1>1, <1>2 DEF Queue
<1> QED
  BY <1>1, <1>3

\* Setting the flag changes nothing else.
LEMMA FlagOK ==
  ASSUME NEW p, NEW m, NEW s, StateOK(p, m, s), NEW b
  PROVE  /\ Twins(s, Flagged(s, b)) /\ Flagged(s, b).allowed = b
         /\ StateOK(p, m, Flagged(s, b))
<1>1. Fields(s)
  BY DEF StateOK, StateShape, Fields
<1>2. Twins(s, Flagged(s, b)) /\ Flagged(s, b).allowed = b
  BY <1>1, FlaggedTwins
<1> QED
  BY <1>2, StateOKTwins

\* With a current thread that is active, the state is where an iteration from
\* one of X goes on after its switch.
LEMMA QueuedMidway ==
  ASSUME NEW X, NEW p, NEW m, NEW s, Queued(X, p, m, s), s.current \in Active(s)
  PROVE  \E r \in X : Free(s) \in Interleavings(r) /\ HasActiveThreads(r)
<1>1. StateOK(p, m, s)
  BY DEF Queued
<1>2. PICK c : c = Free(s)
  OBVIOUS
<1>3. Twins(s, c) /\ c.allowed = TRUE
  BY <1>1, <1>2, FlagOK DEF Free
<1>4. c.current \in Active(c)
  BY <1>3 DEF Twins, Active
<1>5. CASE c \in X
  <2>1. SwitchTo(c, c.current) = c
    BY <1>3 DEF SwitchTo, Twins, Fields
  <2>2. c \in Interleavings(c)
    BY <1>4, <2>1 DEF Interleavings
  <2> QED
    BY <1>2, <1>4, <1>5, <2>2 DEF HasActiveThreads
<1>6. ASSUME NEW r \in X, c \in Interleavings(r)
      PROVE  HasActiveThreads(r)
  <2>1. CASE IsInterleavingPossible(r)
    BY <1>6, <2>1 DEF Interleavings, HasActiveThreads
  <2>2. CASE ~IsInterleavingPossible(r)
    BY <1>4, <1>6, <2>2 DEF Interleavings, HasActiveThreads
  <2> QED
    BY <2>1, <2>2
<1> QED
  BY <1>2, <1>5, <1>6 DEF Queued

\* Without active threads it is, but for the flag, one of X.
LEMMA QueuedFinal ==
  ASSUME NEW X, NEW p, NEW m, NEW s, Queued(X, p, m, s), ~HasActiveThreads(s)
  PROVE  s.finished \in Exploration!OutcomesOf(X)
<1>1. StateOK(p, m, s) /\ Free(s) \in X
  BY DEF Queued, HasActiveThreads
<1>2. PICK c : c = Free(s)
  OBVIOUS
<1>3. c \in X /\ Twins(s, c)
  BY <1>1, <1>2, FlagOK DEF Free
<1>4. ~HasActiveThreads(c) /\ c.finished = s.finished
  BY <1>3 DEF Twins, HasActiveThreads, Active
<1>5. ~Exploration!HasActiveThreads(c)
  BY <1>4, ExplorationIterations
<1> QED
  BY <1>3, <1>4, <1>5 DEF Exploration!OutcomesOf

LEMMA SwitchesQueued ==
  ASSUME NEW X, NEW p, NEW m, NEW s, Queued(X, p, m, s)
  PROVE  Queue(X, p, m, Exploration!Switches(s))
<1>1. StateOK(p, m, s)
  BY DEF Queued
<1>2. CASE ~IsInterleavingPossible(s)
  <2>1. Exploration!Switches(s) = <<>>
    BY <1>2, ExplorationIterations DEF Exploration!Switches
  <2> QED
    BY <2>1, QueueEmpty
<1>3. CASE IsInterleavingPossible(s)
  <2> DEFINE T == Active(s) \ {s.current}
             others == Exploration!InOrder(T)
             N == {Flagged(SwitchTo(s, t), FALSE) : t \in T}
             q == [i \in DOMAIN others |-> Flagged(SwitchTo(s, others[i]), FALSE)]
  <2>1. s.allowed = TRUE /\ s \in X
    <3>1. s.allowed = TRUE
      BY <1>3 DEF IsInterleavingPossible, Queued
    <3>2. Free(s) \in X
      BY <3>1 DEF Queued
    <3>3. Free(s) = s
      BY <1>1, <3>1 DEF Free, Flagged, StateOK, StateShape
    <3> QED
      BY <3>1, <3>2, <3>3
  <2>2. Exploration!Switches(s) = q
    BY <1>3, ExplorationIterations DEF Exploration!Switches, Flagged
  <2>3. others \in Seq(T)
    <3>1. s.next \in Nat /\ T \subseteq 0..s.next - 1
      BY <1>1 DEF StateOK
    <3> HIDE DEF T
    <3> QED
      BY <3>1, OrderedIds
  <2>4. q \in Seq(N)
    <3> HIDE DEF others, T
    <3>1. Len(others) \in Nat /\ others \in [1..Len(others) -> T]
      BY <2>3, LenProperties
    <3>2. q \in [1..Len(others) -> N]
      BY <3>1
    <3> HIDE DEF q, N
    <3> QED
      BY <3>1, <3>2, SeqDef
  <2>5. ASSUME NEW t \in T
        PROVE  Queued(X, p, m, Flagged(SwitchTo(s, t), FALSE))
    <3>1. PICK a : a = SwitchTo(s, t)
      OBVIOUS
    <3>2. PICK n : n = Flagged(a, FALSE)
      OBVIOUS
    <3>3. StateOK(p, m, a) /\ a.current = t /\ t \in Active(a) /\ Switched(s, a)
      BY <1>1, <3>1, SwitchOK
    <3>4. Twins(a, n) /\ n.allowed = FALSE /\ StateOK(p, m, n)
      <4>1. StateOK(p, m, a)
        BY <3>3
      <4>2. /\ Twins(a, Flagged(a, FALSE)) /\ Flagged(a, FALSE).allowed = FALSE
            /\ StateOK(p, m, Flagged(a, FALSE))
        BY <4>1, FlagOK
      <4> QED
        BY <3>2, <4>2
    <3>5. Free(n) = a
      BY <2>1, <3>3, <3>4 DEF Free, Flagged, Twins, Fields, Switched
    <3>6. a \in Interleavings(s)
      BY <1>3, <3>1 DEF Interleavings
    <3>7. n.current \in Active(n)
      BY <3>3, <3>4 DEF Twins, Active
    <3>8. \E r \in X : Free(n) \in Interleavings(r)
      BY <2>1, <3>5, <3>6
    <3> QED
      BY <3>1, <3>2, <3>4, <3>7, <3>8 DEF Queued
  <2>6. \A n \in N : Queued(X, p, m, n)
    BY <2>5
  <2> HIDE DEF q, N
  <2> QED
    BY <2>2, <2>4, <2>6 DEF Queue
<1> QED
  BY <1>2, <1>3

\* An epsilon transition ends an iteration.
LEMMA MovedQueued ==
  ASSUME NEW X, NEW p, NEW m \in Models, NEW s, Queued(X, p, m, s), Closing(X, p, m),
         s.current \in Active(s), HasEps(m, s), NEW e \in EpsStates(m, s)
  PROVE  Queued(X, p, m, Flagged(e, TRUE))
<1>1. StateOK(p, m, s)
  BY DEF Queued
<1>2. PICK r \in X : Free(s) \in Interleavings(r)
  BY QueuedMidway
<1>3. PICK c : c = Free(s)
  OBVIOUS
<1>4. Twins(s, c) /\ c.allowed = TRUE /\ StateOK(p, m, c)
  BY <1>1, <1>3, FlagOK DEF Free
<1>5. HasEps(m, c)
  BY <1>4, EpsTwins
<1>6. PICK f \in EpsStates(m, c) : Twins(e, f) /\ f.allowed = c.allowed
  BY <1>4, EpsTwins
<1>7. f = Flagged(e, TRUE)
  BY <1>4, <1>6, TwinsAreFlagged
<1>8. f \in X
  <2>1. f \in Successors(p, m, r)
    BY <1>2, <1>3, <1>5, <1>6 DEF Successors
  <2> QED
    BY <1>2, <2>1 DEF Closing
<1>9. StateOK(p, m, e)
  BY <1>1, EpsStep DEF StepOf
<1>10. StateOK(p, m, f) /\ f.allowed = TRUE
  BY <1>4, <1>6, <1>9, StateOKTwins
<1>11. Free(f) = f
  BY <1>10 DEF Free, Flagged, StateOK, StateShape
<1> QED
  BY <1>7, <1>8, <1>10, <1>11 DEF Queued

\* And so does the statement.
LEMMA StatementQueued ==
  ASSUME NEW X, NEW p, WellFormed(p), NEW m \in Models, NEW s, Queued(X, p, m, s),
         Closing(X, p, m), s.current \in Active(s), Completes(p, m, s), NEW b \in BOOLEAN
  PROVE  Queued(X, p, m, Transition(p, m, Flagged(s, b)))
<1>1. StateOK(p, m, s)
  BY DEF Queued
<1>2. PICK r \in X : Free(s) \in Interleavings(r)
  BY QueuedMidway
<1>3. PICK c, d : c = Free(s) /\ d = Flagged(s, b)
  OBVIOUS
<1>4. Twins(s, c) /\ c.allowed = TRUE /\ StateOK(p, m, c)
  BY <1>1, <1>3, FlagOK DEF Free
<1>5. Twins(s, d) /\ d.allowed = b /\ StateOK(p, m, d)
  BY <1>1, <1>3, FlagOK
<1>6. Twins(d, c)
  BY <1>4, <1>5 DEF Twins
<1>7. Completes(p, m, c) /\ Completes(p, m, d)
  BY <1>4, <1>5, CompletesTwins
<1>8. c.current \in Active(c) /\ d.current \in Active(d)
  BY <1>4, <1>5 DEF Twins, Active
<1>9. PICK n, f : n = Transition(p, m, d) /\ f = Transition(p, m, c)
  OBVIOUS
<1>10. StateOK(p, m, n) /\ n.allowed = b
  <2>1. StepOf(p, m, d, n)
    BY <1>5, <1>7, <1>8, <1>9, TransitionStep
  <2> QED
    BY <1>5, <2>1 DEF StepOf
<1>11. f.allowed = TRUE
  <2>1. StepOf(p, m, c, f)
    BY <1>4, <1>7, <1>8, <1>9, TransitionStep
  <2> QED
    BY <1>4, <2>1 DEF StepOf
<1>12. Twins(n, f)
  <2>1. d.threads[d.current].pc \in DOMAIN p.statements
    BY <1>5, <1>8 DEF StateOK
  <2> QED
    BY <1>6, <1>9, <2>1, TransitionTwins
<1>13. Free(n) = f
  BY <1>11, <1>12, TwinsAreFlagged DEF Free
<1>14. f \in X
  <2>1. f \in Successors(p, m, r)
    BY <1>2, <1>3, <1>7, <1>9 DEF Successors
  <2> QED
    BY <1>2, <2>1 DEF Closing
<1> QED
  BY <1>3, <1>9, <1>10, <1>13, <1>14 DEF Queued


\* R gives, for each program and memory model, states that hold the first one
\* and lead to no others: the least such R is what the iterations reach.
Closed(R) ==
  \A n \in DOMAIN Programs : \A m \in MemoryModels :
    InitialState(m) \in R[n][m] /\ Closing(R[n][m], Programs[n], m)

\* An iteration from one of X throws.
Throws(X, p, m) ==
  \E r \in X : HasActiveThreads(r) /\ \E s \in Interleavings(r) : ~Completes(p, m, s)

KeptFrom(X, q) == \E S : q \in Seq(S) /\ \A s \in S : s.finished \in Exploration!OutcomesOf(X)

\* What an execution can do as well: the outcomes kept are of final states of
\* R, and the process ends early only where an iteration of R does.
Sound(R) ==
  /\ Exploration!Outcomes \subseteq Exploration!OutcomesOf(R[name][mm])
  /\ status = "thrown" => Throws(R[name][mm], Programs[name], mm)

EInv(R) ==
  /\ name \in DOMAIN Programs
  /\ mm \in MemoryModels
  /\ Queue(R[name][mm], Programs[name], mm, states)
  /\ KeptFrom(R[name][mm], finalStates)
  /\ status = "thrown" => Throws(R[name][mm], Programs[name], mm)

LEMMA KeptMore ==
  ASSUME NEW X, NEW q, KeptFrom(X, q), NEW s, s.finished \in Exploration!OutcomesOf(X)
  PROVE  KeptFrom(X, Append(q, s))
<1>1. PICK S : q \in Seq(S) /\ \A r \in S : r.finished \in Exploration!OutcomesOf(X)
  BY DEF KeptFrom
<1> DEFINE T == S \cup {s}
<1>2. q \in Seq(T)
  BY <1>1, SeqMonotonic
<1>3. Append(q, s) \in Seq(T)
  BY <1>2, AppendProperties
<1>4. \A r \in T : r.finished \in Exploration!OutcomesOf(X)
  BY <1>1
<1> QED
  BY <1>3, <1>4 DEF KeptFrom

LEMMA ExplorationInit ==
  ASSUME NEW R, Closed(R), Exploration!Init
  PROVE  EInv(R)
<1>1. /\ name \in DOMAIN Programs /\ mm \in MemoryModels /\ status = "exploring"
      /\ states = <<Exploration!InitialState(mm)>> /\ finalStates = <<>>
  BY DEF Exploration!Init
<1>2. PICK p, m, X, s : p = Programs[name] /\ m = mm /\ X = R[name][mm] /\ s = InitialState(mm)
  OBVIOUS
<1>3. WellFormed(p) /\ m \in Models
  BY <1>1, <1>2, ProgramsAssumption DEF Models
<1>4. s \in X
  BY <1>1, <1>2 DEF Closed
<1>5. StateOK(p, m, s) /\ s.allowed = TRUE
  BY <1>2, <1>3, InitialOK
<1>6. Free(s) = s
  BY <1>5 DEF Free, Flagged, StateOK, StateShape
<1>7. Queue(X, p, m, <<s>>)
  BY <1>4, <1>5, <1>6, QueueOne DEF Queued
<1>8. KeptFrom(X, finalStates)
  <2>1. PICK q, S : q = <<>> /\ S = {}
    OBVIOUS
  <2>2. q \in Seq(S)
    BY <2>1
  <2>3. KeptFrom(X, q)
    BY <2>1, <2>2 DEF KeptFrom
  <2> QED
    BY <1>1, <2>1, <2>3
<1>9. states = <<s>>
  BY <1>1, <1>2, ExplorationStarts
<1> QED
  BY <1>1, <1>2, <1>7, <1>8, <1>9 DEF EInv

LEMMA ExplorationStep ==
  ASSUME NEW R, Closed(R), EInv(R), [Exploration!Next]_Exploration!vars
  PROVE  EInv(R)'
<1>1. PICK p, m, X, q : p = Programs[name] /\ m = mm /\ X = R[name][mm] /\ q = states
  OBVIOUS
<1>2. name \in DOMAIN Programs /\ mm \in MemoryModels
  BY DEF EInv
<1>3. WellFormed(p) /\ m \in Models /\ Closing(X, p, m)
  BY <1>1, <1>2, ProgramsAssumption DEF Models, Closed
<1>4. Queue(X, p, m, q) /\ KeptFrom(X, finalStates)
  BY <1>1 DEF EInv
<1>5. status = "thrown" => Throws(X, p, m)
  BY <1>1 DEF EInv
<1>6. CASE UNCHANGED Exploration!vars
  BY <1>6 DEF EInv, Exploration!vars
<1>7. CASE Exploration!Next
  <2>1. /\ status = "exploring" /\ states # <<>>
        /\ name' = name /\ mm' = mm
    BY <1>7 DEF Exploration!Next, Exploration!FinalState, Exploration!EndedThread,
                Exploration!Expand, Exploration!Throw, Exploration!Pop
  <2>2. PICK s : s = Head(q)
    OBVIOUS
  <2>3. Queued(X, p, m, s) /\ Queue(X, p, m, Tail(q))
    <3>1. q # <<>>
      BY <1>1, <2>1
    <3> QED
      BY <1>4, <2>2, <3>1, QueueParts
  <2>4. s = Head(states) /\ Tail(q) = Tail(states)
    BY <1>1, <2>2
  <2>5. StateOK(p, m, s)
    BY <2>3 DEF Queued
  \* What has to be shown of each action.
  <2>6. SUFFICES /\ Queue(X, p, m, states')
                 /\ KeptFrom(X, finalStates')
                 /\ status' = "thrown" => Throws(X, p, m)
    <3>1. p = Programs[name'] /\ m = mm' /\ X = R[name'][mm']
      BY <1>1, <2>1
    <3> QED
      BY <1>2, <2>1, <3>1 DEF EInv
  <2>7. CASE Exploration!FinalState
    <3>1. ~HasActiveThreads(s)
      BY <2>4, <2>7, ExplorationIterations DEF Exploration!FinalState
    <3>2. s.finished \in Exploration!OutcomesOf(X)
      BY <2>3, <3>1, QueuedFinal
    <3>3. PICK flushed :
            \/ finalStates' = finalStates
            \/ finalStates' = Append(finalStates, [s EXCEPT !.storage = flushed])
      BY <2>4, <2>7 DEF Exploration!FinalState
    <3>4. [s EXCEPT !.storage = flushed].finished = s.finished
      BY <2>5 DEF StateOK, StateShape
    <3>5. KeptFrom(X, finalStates')
      <4>1. PICK n, old : n = [s EXCEPT !.storage = flushed] /\ old = finalStates
        OBVIOUS
      <4>2. KeptFrom(X, Append(old, n))
        BY <1>4, <3>2, <3>4, <4>1, KeptMore
      <4> QED
        BY <1>4, <3>3, <4>1, <4>2
    <3>6. states' = Tail(q) \o <<>> /\ status' = status
      BY <2>4, <2>7 DEF Exploration!FinalState, Exploration!Push
    <3>7. Queue(X, p, m, Tail(q) \o <<>>)
      BY <2>3, QueueEmpty, QueueJoins
    <3> QED
      BY <1>5, <3>5, <3>6, <3>7
  <2>8. CASE Exploration!EndedThread
    <3>1. states' = Tail(q) \o Exploration!Switches(s) /\ UNCHANGED <<finalStates, status>>
      BY <2>4, <2>8 DEF Exploration!EndedThread, Exploration!Push
    <3>2. Queue(X, p, m, Tail(q) \o Exploration!Switches(s))
      BY <2>3, SwitchesQueued, QueueJoins
    <3> QED
      BY <1>4, <1>5, <3>1, <3>2
  <2>9. CASE Exploration!Expand
    <3>1. /\ states' = Tail(q) \o (Exploration!Switches(s) \o Exploration!EpsilonSuccessors(s)
                                     \o <<Exploration!StatementSuccessor(s)>>)
          /\ UNCHANGED <<finalStates, status>>
      BY <2>4, <2>9 DEF Exploration!Expand, Exploration!Push
    <3>2. s.current \in Active(s) /\ Completes(p, m, s)
      BY <1>1, <2>4, <2>9, ExplorationIterations, ExplorationCompletes
         DEF Exploration!Expand, Exploration!program
    <3>3. Queue(X, p, m, Exploration!Switches(s))
      BY <2>3, SwitchesQueued
    <3>4. Queue(X, p, m, Exploration!EpsilonSuccessors(s))
      <4>1. CASE ~HasEps(m, s)
        <5>1. Exploration!EpsilonSuccessors(s) = <<>>
          BY <1>1, <4>1, ExplorationIterations DEF Exploration!EpsilonSuccessors
        <5> QED
          BY <5>1, QueueEmpty
      <4>2. CASE HasEps(m, s)
        <5>1. Exploration!EpsilonSuccessors(s) = Exploration!SetToSeq(Moved(m, s))
          BY <1>1, <4>2, ExplorationIterations DEF Exploration!EpsilonSuccessors, Moved, Flagged
        <5>2. Exploration!SetToSeq(Moved(m, s)) \in Seq(Moved(m, s))
          BY <1>3, <2>5, MovedSequenced
        <5>3. \A e \in EpsStates(m, s) : Queued(X, p, m, Flagged(e, TRUE))
          BY <1>3, <2>3, <3>2, <4>2, MovedQueued
        <5>4. \A n \in Moved(m, s) : Queued(X, p, m, n)
          BY <5>3 DEF Moved
        <5> QED
          BY <5>1, <5>2, <5>4 DEF Queue
      <4> QED
        BY <4>1, <4>2
    <3>5. Queue(X, p, m, <<Exploration!StatementSuccessor(s)>>)
      <4>1. PICK b : b = Exploration!AllowsInterleaving(Exploration!StatementAt(p, s))
        OBVIOUS
      <4>2. b \in BOOLEAN
        BY <4>1 DEF Exploration!AllowsInterleaving
      <4>3. Exploration!StatementSuccessor(s) = Transition(p, m, Flagged(s, b))
        BY <1>1, <4>1, ExplorationTransitions
           DEF Exploration!StatementSuccessor, Exploration!program, Flagged
      <4>4. Queued(X, p, m, Transition(p, m, Flagged(s, b)))
        BY <1>3, <2>3, <3>2, <4>2, StatementQueued
      <4> QED
        BY <4>3, <4>4, QueueOne
    <3>6. Queue(X, p, m, states')
      <4>1. PICK a, e, t : /\ a = Exploration!Switches(s) /\ e = Exploration!EpsilonSuccessors(s)
                           /\ t = <<Exploration!StatementSuccessor(s)>>
        OBVIOUS
      <4>2. Queue(X, p, m, Tail(q) \o ((a \o e) \o t))
        BY <2>3, <3>3, <3>4, <3>5, <4>1, QueueJoins
      <4> QED
        BY <3>1, <4>1, <4>2
    <3> QED
      BY <1>4, <1>5, <3>1, <3>6
  <2>10. CASE Exploration!Throw
    <3>1. UNCHANGED <<states, finalStates>>
      BY <2>10 DEF Exploration!Throw
    <3>2. s.current \in Active(s) /\ ~Completes(p, m, s)
      BY <1>1, <2>4, <2>10, ExplorationIterations, ExplorationCompletes
         DEF Exploration!Throw, Exploration!program
    <3>3. PICK r \in X : Free(s) \in Interleavings(r) /\ HasActiveThreads(r)
      BY <2>3, <3>2, QueuedMidway
    <3>4. ~Completes(p, m, Free(s))
      <4>1. Twins(s, Free(s))
        BY <2>5, FlagOK DEF Free
      <4> QED
        BY <3>2, <4>1, CompletesTwins
    <3> QED
      BY <1>1, <1>4, <3>1, <3>3, <3>4 DEF Throws
  <2> QED
    BY <1>7, <2>7, <2>8, <2>9, <2>10 DEF Exploration!Next
<1> QED
  BY <1>6, <1>7

LEMMA EInvIsSound ==
  ASSUME NEW R, EInv(R)
  PROVE  Sound(R)
<1>1. PICK S : /\ finalStates \in Seq(S)
               /\ \A s \in S : s.finished \in Exploration!OutcomesOf(R[name][mm])
  BY DEF EInv, KeptFrom
<1>2. \A i \in DOMAIN finalStates : finalStates[i] \in S
  BY <1>1
<1> QED
  BY <1>1, <1>2 DEF EInv, Sound, Exploration!Outcomes

\* The exploration returns no outcome that the executions of the program do not
\* have, and ends early only if one of them does, for any programs and memory
\* models: stopping halfway through an iteration, forbidding switches after the
\* statements that cannot touch storage, the order of the queue and dropping
\* final states add nothing.
THEOREM ExplorationIsSound ==
  ASSUME NEW CONSTANT R, Closed(R)
  PROVE  Exploration!Spec => []Sound(R)
<1>1. Exploration!Init => EInv(R)
  BY ExplorationInit
<1>2. EInv(R) /\ [Exploration!Next]_Exploration!vars => EInv(R)'
  BY ExplorationStep
<1>3. EInv(R) => Sound(R)
  BY EInvIsSound
<1> QED
  BY <1>1, <1>2, <1>3, PTL DEF Exploration!Spec

=============================================================================
