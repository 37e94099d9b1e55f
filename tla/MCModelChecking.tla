--------------------------- MODULE MCModelChecking ---------------------------
(***************************************************************************)
(* Litmus tests under the model-checking interpreter, against the outcomes  *)
(* the non-deterministic interpreter can reach, computed as a closure.      *)
(***************************************************************************)
EXTENDS ModelChecking, FiniteSetsExt

Tests == INSTANCE Litmus

Runs == INSTANCE Executions

\* The states the non-deterministic interpreter reaches from the set "seen".
RECURSIVE Closure(_, _, _, _)
Closure(p, m, seen, frontier) ==
  IF frontier = {} THEN seen
  ELSE LET next == UNION {Runs!Successors(p, m, s) : s \in frontier}
       IN  Closure(p, m, seen \cup next, next \ seen)

PossibleOutcomes(p, m) == OutcomesOf(Closure(p, m, {InitialState(m)}, {InitialState(m)}))

LitmusTests ==
  [test \in {"sb", "sb_strong", "mp", "mp_rel_acq", "lb", "single", "lock", "tally",
             "arithmetic", "label"} |->
     CASE test = "sb"         -> Tests!StoreBuffering
       [] test = "sb_strong"  -> Tests!StoreBufferingStrong
       [] test = "mp"         -> Tests!MessagePassing
       [] test = "mp_rel_acq" -> Tests!MessagePassingRelAcq
       [] test = "lb"         -> Tests!LoadBuffering
       [] test = "single"     -> Tests!SingleThread
       [] test = "lock"       -> Tests!Locks("SEQ_CST")
       [] test = "tally"      -> Tests!Tally
       [] test = "arithmetic" -> Tests!Arithmetic
       [] test = "label"      -> Tests!UnknownLabel]

\* Programs whose exploration is incomplete, each for a reason of its own.
SpawningTest == [test \in {"spawn"} |-> Tests!SpawnAndStore]
OnDemandTest == [test \in {"on_demand"} |-> Tests!SpawnOnDemand]

\* Every outcome the exploration returns is one an execution has.
OutcomesArePossible == Explored => Outcomes \subseteq PossibleOutcomes(program, mm)

\* Every outcome an execution has is returned: keeping switches away from the
\* statements that cannot touch storage, and dropping repeated final states,
\* loses none.
FindsEveryOutcome == Explored => PossibleOutcomes(program, mm) \subseteq Outcomes

\* The numbers of final states the tests expect, and of generated states the
\* README prints for store buffering under TSO and message passing under SRA.
CountsAsDocumented ==
  Explored =>
    /\ name = "sb"        => Len(finalStates) = IF mm = "sc" THEN 3 ELSE 4
    /\ name = "sb_strong" => Len(finalStates) = IF mm = "sra" THEN 4 ELSE 3
    /\ name = "mp"        => Len(finalStates) = IF mm \in {"pso", "sra"} THEN 4 ELSE 3
    /\ name \in {"lb"}    => Len(finalStates) = 3
    /\ name = "single"    => Outcomes = {[t \in {0} |-> [a |-> 3, r |-> 3]]}
    /\ name = "mp_rel_acq" /\ mm = "sra" => Len(finalStates) = 3 /\ generated = 2642
    /\ name = "sb" /\ mm = "tso" => generated = 4297
    /\ name = "mp" /\ mm = "sra" => generated = 2716

=============================================================================
