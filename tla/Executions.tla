----------------------------- MODULE Executions -----------------------------
(***************************************************************************)
(* One iteration of the loop of the non-deterministic, the tracing and the  *)
(* interactive interpreters: a switch of threads when one is possible, then *)
(* an epsilon transition of the current thread or its statement.            *)
(***************************************************************************)
EXTENDS ProgramState

\* The states the switch can leave: the thread drawn may be the current one.
Interleavings(s) ==
  IF IsInterleavingPossible(s) THEN {SwitchTo(s, t) : t \in Active(s)} ELSE {s}

\* The states after the iteration.
Successors(p, mm, s) ==
  UNION {(IF HasEps(mm, r) THEN EpsStates(mm, r) ELSE {})
         \cup (IF Completes(p, mm, r) THEN {Transition(p, mm, r)} ELSE {})
           : r \in Interleavings(s)}

=============================================================================
