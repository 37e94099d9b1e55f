--------------------------- MODULE NonDeterministic ---------------------------
(***************************************************************************)
(* One run of NonDeterministicInterpreter, and of TracingInterpreter, which *)
(* differs in what it logs only.  A step is an iteration of the loop: switch *)
(* to a random active thread when that is possible, then an epsilon          *)
(* transition of the current thread or its statement.                        *)
(*                                                                          *)
(* The program and the memory model are chosen at the start (main.cpp) and   *)
(* never change.                                                             *)
(***************************************************************************)
EXTENDS Executions

CONSTANTS Programs,     \* name -> program
          MemoryModels  \* those to run each program under

\* The programs are the parser's, the memory models those main.cpp accepts.
ASSUME ProgramsAssumption ==
  /\ \A name \in DOMAIN Programs : WellFormed(Programs[name])
  /\ MemoryModels \subseteq {"sc", "tso", "pso", "sra"}

VARIABLES name,    \* of the program
          mm,      \* memory model
          state,   \* the execution's only ProgramState
          status   \* "running", "done", or "thrown" when the process ended early

vars == <<name, mm, state, status>>

program == Programs[name]

Init ==
  /\ name \in DOMAIN Programs
  /\ mm \in MemoryModels
  /\ state = InitialState(mm)
  /\ status = "running"

Running == status = "running" /\ HasActiveThreads(state)

EpsilonStep ==
  /\ Running
  /\ \E s \in Interleavings(state) : HasEps(mm, s) /\ state' \in EpsStates(mm, s)
  /\ UNCHANGED <<name, mm, status>>

StatementStep ==
  /\ Running
  /\ \E s \in Interleavings(state) : Completes(program, mm, s) /\ state' = Transition(program, mm, s)
  /\ UNCHANGED <<name, mm, status>>

Throw ==
  /\ Running
  /\ \E s \in Interleavings(state) : ~Completes(program, mm, s)
  /\ status' = "thrown"
  /\ UNCHANGED <<name, mm, state>>

\* After the loop: storage->flush() and print.
Finish ==
  /\ status = "running" /\ ~HasActiveThreads(state)
  /\ \E flushed \in Storage!FlushAll(mm, state.storage) :
       state' = [state EXCEPT !.storage = flushed]
  /\ status' = "done"
  /\ UNCHANGED <<name, mm>>

Next == EpsilonStep \/ StatementStep \/ Throw \/ Finish

Spec == Init /\ [][Next]_vars

\* The scheduler draws uniformly: a draw that keeps being possible is made in
\* the end (with probability one), whatever is drawn in between.
StatementOf(t) ==
  StatementStep /\ \E s \in Interleavings(state) :
                     s.current = t /\ Completes(program, mm, s) /\ state' = Transition(program, mm, s)

EpsilonOf(t) ==
  EpsilonStep /\ \E s \in Interleavings(state) :
                   s.current = t /\ HasEps(mm, s) /\ state' \in EpsStates(mm, s)

Fairness(threads) ==
  /\ WF_vars(Next)
  /\ \A t \in threads : SF_vars(StatementOf(t)) /\ SF_vars(EpsilonOf(t))

----------------------------------------------------------------------------
(* Properties *)

\* The part of storage that is thread t's own: its store buffer, or its view.
Own(s, t) ==
  CASE mm = "sc" -> EmptyMap
    [] mm \in {"tso", "pso"} -> At(s.storage.buffers, t, EmptyMap)
    [] mm = "sra" -> At(s.storage.views, t, EmptyMap)

\* Type correctness.  Ids are dense and never reused, a thread is active or
\* finished and not both, and the instruction of an active thread exists: the
\* code indexes the statements with it unchecked.
TypeOK ==
  /\ status \in {"running", "done", "thrown"}
  /\ Active(state) \cup DOMAIN state.finished = 0..state.next - 1
  /\ Active(state) \cap DOMAIN state.finished = {}
  /\ state.current \in 0..state.next - 1
  /\ \A t \in Active(state) : state.threads[t].pc \in DOMAIN program.statements
  /\ mm \in {"tso", "pso"} => DOMAIN state.storage.buffers \subseteq 0..state.next - 1
  /\ mm = "sra" => DOMAIN state.storage.views = 0..state.next - 1

\* Whatever the interleaving, a thread is only changed by its own steps: while
\* others run, its registers, its instruction and its part of storage stay, and
\* once it has ended nothing but the final flush touches what it left.
ThreadsAreIsolated ==
  [][\A t \in 0..state.next - 1 :
       t # state'.current /\ status' = "running" =>
         /\ t \in Active(state) => t \in Active(state') /\ state'.threads[t] = state.threads[t]
         /\ t \in DOMAIN state.finished => /\ t \in DOMAIN state'.finished
                                           /\ state'.finished[t] = state.finished[t]
         /\ Own(state', t) = Own(state, t)]_vars

\* The run ends with every store in memory, those of threads that ended with a
\* full buffer included.
NothingLeftBuffered ==
  status = "done" /\ mm \in {"tso", "pso"} => DOMAIN state.storage.buffers = {}

\* Stores that can no longer take effect before the run ends: their thread has
\* ended, and epsilon transitions are those of active threads only.
Stranded ==
  mm \in {"tso", "pso"} /\ DOMAIN state.storage.buffers \cap DOMAIN state.finished # {}

\* A run ends, although threads wait for each other's stores, unless a store
\* somebody may be waiting for is stranded.
EndsUnlessStranded == <>(status # "running" \/ Stranded)

=============================================================================
