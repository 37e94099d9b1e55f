---------------------------- MODULE ModelChecking ----------------------------
(***************************************************************************)
(* The exploration of ModelCheckingInterpreter: a queue of states, without  *)
(* a record of those seen; a step is an iteration of the loop, which pops   *)
(* one state and pushes its successors.                                     *)
(*                                                                          *)
(* A switch of threads and the step after it are two states here, and       *)
(* is_allowed_interleaving keeps a switch from following another, or a      *)
(* statement that cannot touch storage.                                     *)
(***************************************************************************)
EXTENDS ProgramState, SequencesExt

CONSTANTS Programs,     \* name -> program
          MemoryModels  \* those to explore each program under

\* The programs are the parser's, the memory models those main.cpp accepts.
ASSUME ProgramsAssumption ==
  /\ \A name \in DOMAIN Programs : WellFormed(Programs[name])
  /\ MemoryModels \subseteq {"sc", "tso", "pso", "sra"}

VARIABLES name,         \* of the program
          mm,           \* memory model
          states,       \* the queue
          finalStates,  \* the final states kept, in the order they were found
          generated,    \* the states popped so far
          status        \* "exploring", or "thrown" when the process ended early

vars == <<name, mm, states, finalStates, generated, status>>

program == Programs[name]

Init ==
  /\ name \in DOMAIN Programs
  /\ mm \in MemoryModels
  /\ states = <<InitialState(mm)>>
  /\ finalStates = <<>>
  /\ generated = 0
  /\ status = "exploring"

----------------------------------------------------------------------------

\* find_if: a kept final state that agrees with s on every thread s has.
Repeats(s, kept) ==
  \A t \in DOMAIN s.finished : t \in DOMAIN kept.finished /\ kept.finished[t] = s.finished[t]

\* The ids in T as a std::map yields them.
InOrder(T) ==
  CHOOSE ids \in [1..Cardinality(T) -> T] :
    \A i, j \in DOMAIN ids : i < j => ids[i] < ids[j]

\* Mutant of Switches: the copies may switch again at once.
SwitchesUnlimited(s) ==
  IF ~IsInterleavingPossible(s) THEN <<>>
  ELSE LET others == InOrder(Active(s) \ {s.current})
       IN  [i \in DOMAIN others |-> SwitchTo(s, others[i])]

\* The copies with another current thread, in the order of the thread ids.
Switches(s) ==
  IF ~IsInterleavingPossible(s) THEN <<>>
  ELSE LET others == InOrder(Active(s) \ {s.current})
       IN  [i \in DOMAIN others |-> [SwitchTo(s, others[i]) EXCEPT !.allowed = FALSE]]

\* Mutant of EpsilonSuccessors: the flag of the popped state is kept.
EpsilonKeepsFlag(s) ==
  IF ~HasEps(mm, s) THEN <<>> ELSE SetToSeq(EpsStates(mm, s))

\* The order among them is that of a map's traversal; one is fixed here.
EpsilonSuccessors(s) ==
  IF ~HasEps(mm, s) THEN <<>>
  ELSE SetToSeq({[e EXCEPT !.allowed = TRUE] : e \in EpsStates(mm, s)})

\* visit(StatementNode) sets the flag for the statement about to be executed.
StatementSuccessor(s) ==
  Transition(program, mm, [s EXCEPT !.allowed = AllowsInterleaving(StatementAt(program, s))])

Pop ==
  /\ status = "exploring" /\ states # <<>>
  /\ generated' = generated + 1
  /\ UNCHANGED <<name, mm>>

Push(new) == states' = Tail(states) \o new

\* Mutant of FinalState: final when the current thread has ended.
FinalWhenCurrentEnds ==
  LET s == Head(states)
  IN  /\ Pop
      /\ s.current \notin Active(s)
      /\ finalStates' = IF \E i \in DOMAIN finalStates : Repeats(s, finalStates[i])
                        THEN finalStates ELSE Append(finalStates, s)
      /\ Push(<<>>)
      /\ UNCHANGED status

\* Every thread has ended: flush, and keep the state unless it is a repetition.
FinalState ==
  LET s == Head(states)
  IN  /\ Pop
      /\ ~HasActiveThreads(s)
      /\ \E flushed \in Storage!FlushAll(mm, s.storage) :
           finalStates' = IF \E i \in DOMAIN finalStates : Repeats(s, finalStates[i])
                          THEN finalStates
                          ELSE Append(finalStates, [s EXCEPT !.storage = flushed])
      /\ Push(<<>>)
      /\ UNCHANGED status

\* The current thread has ended: only switches go on from here.
EndedThread ==
  LET s == Head(states)
  IN  /\ Pop
      /\ HasActiveThreads(s) /\ s.current \notin Active(s)
      /\ Push(Switches(s))
      /\ UNCHANGED <<finalStates, status>>

Expand ==
  LET s == Head(states)
  IN  /\ Pop
      /\ s.current \in Active(s)
      /\ Completes(program, mm, s)
      /\ Push(Switches(s) \o EpsilonSuccessors(s) \o <<StatementSuccessor(s)>>)
      /\ UNCHANGED <<finalStates, status>>

\* A statement throws: nothing catches it before main.
Throw ==
  LET s == Head(states)
  IN  /\ Pop
      /\ s.current \in Active(s)
      /\ ~Completes(program, mm, s)
      /\ status' = "thrown"
      /\ UNCHANGED <<states, finalStates>>

Next == FinalState \/ EndedThread \/ Expand \/ Throw

Spec == Init /\ [][Next]_vars

\* What the exploration returns once the queue is empty.
Explored == status = "exploring" /\ states = <<>>

Outcomes == {finalStates[i].finished : i \in DOMAIN finalStates}

\* The outcomes of the executions that reach the states in reached.
OutcomesOf(reached) == {s.finished : s \in {r \in reached : ~HasActiveThreads(r)}}

----------------------------------------------------------------------------
(* Properties *)

\* What is left to execute, for a program whose jumps all lead forward.  A
\* statement before the end weighs more than the two it can lead to.
Work(s) ==
  SumFunction([t \in Active(s) |-> 3 ^ (Len(program.statements) - s.threads[t].pc)])

\* The epsilon transitions still possible.
Delayed(s) ==
  CASE mm = "sc"  -> 0
    [] mm = "tso" -> SumFunction([t \in DOMAIN s.storage.buffers |-> Len(s.storage.buffers[t])])
    [] mm = "pso" -> SumFunction([t \in DOMAIN s.storage.buffers |->
                       SumFunction([l \in DOMAIN s.storage.buffers[t] |-> Len(s.storage.buffers[t][l])])])
    [] mm = "sra" -> SumFunction([t \in DOMAIN s.storage.views |->
                       SumFunction([l \in DOMAIN s.storage.stamps |->
                         s.storage.stamps[l] - At(s.storage.views[t], l, 0)])])

CloserToTheEnd(r, s) ==
  \/ Work(r) < Work(s)
  \/ Work(r) = Work(s) /\ Delayed(r) < Delayed(s)
  \/ Work(r) = Work(s) /\ Delayed(r) = Delayed(s) /\ s.allowed /\ ~r.allowed

\* The exploration ends although it remembers no state: every state it pushes
\* is closer to the end than the one it popped, be it by a switch, by an
\* epsilon transition (which allows the next switch) or by a statement.
ExplorationAdvances ==
  [][status' = "exploring" =>
       \A i \in Len(states)..Len(states') : CloserToTheEnd(states'[i], Head(states))]_vars

\* An outcome reached is kept, or an equal one has been kept before.
NoOutcomeDropped ==
  [][states # <<>> /\ ~HasActiveThreads(Head(states)) => Head(states).finished \in Outcomes']_vars

=============================================================================
