------------------------------ MODULE MCWaiting ------------------------------
(***************************************************************************)
(* Threads that wait for a flag under the non-deterministic interpreter,    *)
(* with the fairness of its random scheduler.                               *)
(***************************************************************************)
EXTENDS NonDeterministic

Tests == INSTANCE Litmus

WaitingTests ==
  [test \in {"relaxed", "strong", "release"} |->
     CASE test = "relaxed" -> Tests!Waiting("RLX", "RLX")
       [] test = "strong"  -> Tests!Waiting("SEQ_CST", "RLX")
       [] test = "release" -> Tests!Waiting("REL", "ACQ")]

FairSpec == Spec /\ Fairness(0..2)

=============================================================================
