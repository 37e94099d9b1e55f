------------------------------- MODULE Tracing -------------------------------
(***************************************************************************)
(* TracingInterpreter (interpreter/tracing): the loop of NonDeterministic   *)
(* and what each iteration of it logs.  The text of a statement is          *)
(* NodeStringifier's; the statement stands for it here.                     *)
(***************************************************************************)
EXTENDS NonDeterministic, Printing

\* The log of an iteration that switches to state s, makes the move it names
\* and leaves state new.  Of the registers, those of the current thread are
\* logged, unless it has ended.
LogOf(s, move, new) ==
  [interleave |-> {s.current} \ {state.current},
   prefix     |-> s.current,
   move       |-> move,
   storage    |-> PrintableState(mm, new.storage),
   registers  |-> IF new.current \in Active(new) THEN {RegisterLines(Regs(new))} ELSE {}]

\* What is logged of a statement: the regular transition, and the statement.
StatementLog(s) == <<"regular transition", StatementAt(program, s)>>

\* What the next iteration can do, each with its log.
TracedIterations ==
  UNION {{[state |-> new, log |-> LogOf(s, <<"eps-transition">>, new)] :
            new \in IF HasEps(mm, s) THEN EpsStates(mm, s) ELSE {}}
         \cup {[state |-> new, log |-> LogOf(s, StatementLog(s), new)] :
                 new \in IF Completes(program, mm, s) THEN {Transition(program, mm, s)} ELSE {}}
           : s \in Interleavings(state)}

\* Behind the loop: storage->flush() and print_state.
TracedEnds ==
  {[state |-> new, log |-> FinalLines(mm, new)] :
     new \in {[state EXCEPT !.storage = flushed] : flushed \in Storage!FlushAll(mm, state.storage)}}

\* A trace tells the whole run: what is logged of an iteration decides the state
\* it leaves, though the log does not say which location an epsilon transition
\* took, nor in which order the final flush visited the threads.  A user can
\* follow, and repeat, the execution the scheduler drew.
TraceTellsTheRun ==
  status = "running" =>
    LET traced == IF HasActiveThreads(state) THEN TracedIterations ELSE TracedEnds
    IN  \A a, b \in traced : a.log = b.log => a.state = b.state

=============================================================================
