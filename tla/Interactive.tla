----------------------------- MODULE Interactive -----------------------------
(***************************************************************************)
(* One run of InteractiveInterpreter and the dialogue of InteractiveCli: the *)
(* user decides on a switch of threads, on an epsilon transition and on its  *)
(* location.  A step is an answer, or what the loop does between answers.    *)
(* A line the dialogue refuses ("Try again.") changes nothing and is not a   *)
(* step.  The input may end at any time; from then on every prompt returns   *)
(* its default: no, thread 0, a location that is not offered.                *)
(***************************************************************************)
EXTENDS Executions

CONSTANTS Programs,      \* name -> program
          MemoryModels,  \* those to run each program under
          InputMayEnd,   \* whether the user may close the input
          NoLocation,    \* what the prompt for a location returns without input
          LastLines      \* and with a last line that was refused and never ended

ASSUME InteractiveAssumption ==
  /\ InputMayEnd \in BOOLEAN
  /\ \A name \in DOMAIN Programs : WellFormed(Programs[name])
  /\ MemoryModels \subseteq {"sc", "tso", "pso", "sra"}

VARIABLES name,      \* of the program
          mm,        \* memory model
          state,     \* the execution's only ProgramState
          previous,  \* history: the current thread before the iteration
          at,        \* where the loop is, or how the process ended
          closed     \* whether the input has ended

vars == <<name, mm, state, previous, at, closed>>

program == Programs[name]

Init ==
  /\ name \in DOMAIN Programs
  /\ mm \in MemoryModels
  /\ state = InitialState(mm)
  /\ previous = state.current
  /\ at = "iteration"
  /\ closed = FALSE

Stopped == at \in {"done", "thrown", "rejected"}

Goes(place, new) ==
  /\ at' = place
  /\ state' = new
  /\ previous' = IF place = "iteration" THEN new.current ELSE previous
  /\ UNCHANGED <<name, mm, closed>>

----------------------------------------------------------------------------
(* The switch *)

\* Mutant of MustSwitch: the user is always asked.
NeverMustSwitch(s) == FALSE

\* A switch is needed, without asking, when the current thread has ended.
MustSwitch(s) == IsInterleavingPossible(s) /\ s.current \notin Active(s)

\* No switch: there is nothing to switch to, or the user does not want one.
Stay ==
  /\ at = "iteration" /\ HasActiveThreads(state)
  /\ ~MustSwitch(state)
  /\ Goes("move", state)

\* should_change_thread, answered with yes.
WantSwitch ==
  /\ at = "iteration" /\ HasActiveThreads(state)
  /\ IsInterleavingPossible(state) /\ ~MustSwitch(state) /\ ~closed
  /\ Goes("thread", state)

ForcedSwitch ==
  /\ at = "iteration" /\ HasActiveThreads(state)
  /\ MustSwitch(state)
  /\ Goes("thread", state)

\* Mutant of AnswersForThread: without an answer the prompt does not return.
AnswersWhileOpen(s) == IF closed THEN {} ELSE Active(s)

\* get_new_thread_id: any active thread, the current one too; 0 without input.
AnswersForThread(s) == IF closed THEN {0} ELSE Active(s)

ChooseThread ==
  /\ at = "thread"
  /\ \E t \in AnswersForThread(state) :
       IF CanSwitchTo(state, t) THEN Goes("move", SwitchTo(state, t))
                                ELSE Goes("rejected", state)

----------------------------------------------------------------------------
(* The move of the thread chosen *)

\* should_perform_eps_transition is asked if there is one; the answer was no.
StatementMove ==
  /\ at = "move"
  /\ Completes(program, mm, state)
  /\ Goes("iteration", Transition(program, mm, state))

ThrowingMove ==
  /\ at = "move"
  /\ ~Completes(program, mm, state)
  /\ Goes("thrown", state)

\* Mutant of AsksForLocation: only the general template of
\* get_new_eps_transition_state is there.
AsksNoLocation == FALSE

\* The template has specialisations for PSO and SRA.
AsksForLocation == mm \in {"pso", "sra"}

\* get_propagate_locations and get_increase_locations.
LocationsOffered(s) ==
  IF mm = "pso" THEN DOMAIN Storage!PSO!Queues(s.storage, s.current)
                ELSE Storage!SRA!IncreaseLocations(s.storage, s.current)

\* Mutant of MovedAt: the whole buffer leaves, or the view goes all the way.
MovedAllTheWay(s, l) ==
  [s EXCEPT !.storage =
     IF mm = "pso" THEN Storage!PSO!FlushBuffer(@, s.current)
     ELSE [@ EXCEPT !.views[s.current] = Put(@, l, At(s.storage.stamps, l, 0))]]

\* The specialisations change the storage of the state itself.
MovedAt(s, l) ==
  [s EXCEPT !.storage = IF mm = "pso" THEN Storage!PSO!Propagate(@, s.current, l)
                                      ELSE Storage!SRA!Increase(@, s.current, l)]

\* The general template takes the first of the successors there are.
FirstEps(s) == CHOOSE e \in EpsStates(mm, s) : TRUE

EpsilonMove ==
  /\ at = "move" /\ HasEps(mm, state) /\ ~closed
  /\ IF AsksForLocation THEN Goes("location", state) ELSE Goes("iteration", FirstEps(state))

\* A location that is not offered is refused.
ChooseLocation ==
  /\ at = "location" /\ ~closed
  /\ \E l \in LocationsOffered(state) : Goes("iteration", MovedAt(state, l))

\* Without input the loop ends with a location that is not offered: none, or
\* that of a refused line that the input ended in the middle of, since getline
\* then leaves its string alone.  All that is left of the iteration is its
\* switch, which becomes part of the next one.
NoLocationChosen ==
  /\ at = "location" /\ closed
  /\ at' = "iteration"
  /\ \E l \in ({NoLocation} \cup LastLines) \ LocationsOffered(state) :
       state' = MovedAt(state, l)
  /\ UNCHANGED <<name, mm, previous, closed>>

----------------------------------------------------------------------------

FinalFlush ==
  /\ at = "iteration" /\ ~HasActiveThreads(state)
  /\ \E flushed \in Storage!FlushAll(mm, state.storage) :
       Goes("done", [state EXCEPT !.storage = flushed])

Close ==
  /\ InputMayEnd /\ ~closed /\ ~Stopped
  /\ closed' = TRUE
  /\ UNCHANGED <<name, mm, state, previous, at>>

Step == \/ Stay \/ WantSwitch \/ ForcedSwitch \/ ChooseThread
        \/ StatementMove \/ ThrowingMove \/ EpsilonMove \/ ChooseLocation
        \/ NoLocationChosen \/ FinalFlush

Next == Step \/ Close

Spec == Init /\ [][Next]_vars

\* Once the input has ended nothing waits for the user any more.
FairSpec == Spec /\ WF_vars(closed /\ Step)

----------------------------------------------------------------------------
(* Properties *)

\* Type correctness.  The move looks the current thread up with threads.at()
\* and an epsilon transition is offered for it: it must be active by then,
\* whatever has been answered and wherever the input ended.
TypeOK ==
  /\ at \in {"iteration", "thread", "move", "location", "done", "thrown", "rejected"}
  /\ at \in {"move", "location"} => state.current \in Active(state)
  /\ at = "location" => LocationsOffered(state) # {}
  /\ previous \in 0..state.next - 1

\* A storage without the locations that the end of the input adds to SRA's
\* timestamps, at 0 and with no message.
Cleaned(storage) ==
  IF mm = "sra"
  THEN [storage EXCEPT !.stamps = [l \in {k \in DOMAIN @ : @[k] # 0} |-> @[l]]]
  ELSE storage

\* The state at the start of the iteration.
IterationState ==
  [state EXCEPT !.current = previous, !.storage = Cleaned(@)]

Run == INSTANCE NonDeterministic WITH
         state  <- IterationState,
         status <- IF at \in {"done", "thrown"} THEN at ELSE "running"

\* Whatever the user answers, the run is one that the non-deterministic
\* interpreter could have drawn (a rejected choice only cuts it short).
ImplementsNonDeterministic == Run!Spec

\* What the answers at one iteration can make of state s.
Moves(s) ==
  (IF Completes(program, mm, s) THEN {Transition(program, mm, s)} ELSE {})
  \cup (IF ~HasEps(mm, s) THEN {}
        ELSE IF AsksForLocation THEN {MovedAt(s, l) : l \in LocationsOffered(s)}
        ELSE {FirstEps(s)})

\* The user can steer into every execution (README.md, line 42): all that an
\* iteration can do is what some answers to the prompts do.
EveryExecutionOffered ==
  at = "iteration" /\ HasActiveThreads(state) /\ ~closed =>
    LET switched == {SwitchTo(state, t) : t \in AnswersForThread(state) \ {state.current}}
        starts   == IF ~IsInterleavingPossible(state) THEN {state}
                    ELSE IF MustSwitch(state) THEN switched ELSE switched \cup {state}
    IN  Successors(program, mm, state) \subseteq UNION {Moves(s) : s \in starts}

\* A run whose input has ended does not wait or ask for ever: it comes to its
\* end, possibly by the rejection of thread 0.
EndsWithItsInput == closed ~> Stopped

\* The thread chosen is another one: get_new_thread_id "excludes
\* current_thread_id" (interactive.cpp, line 31), so no choice is rejected.
NoChoiceRejected == at # "rejected"

=============================================================================
