-------------------------- MODULE MCNonDeterministic --------------------------
(* Litmus tests under the non-deterministic interpreter, in all memory models. *)
EXTENDS Tracing

Tests == INSTANCE Litmus

LitmusTests ==
  [test \in {"sb", "sb_strong", "sb_fenced", "mp", "mp_seq_cst", "mp_rel_acq", "mp_fenced",
             "lb", "coherence", "2+2w", "causality", "fai", "publish", "lock", "discard",
             "spawn", "handover", "on_demand", "arithmetic", "overflow",
             "div", "div_smallest", "unassigned", "label"} |->
     CASE test = "sb"         -> Tests!StoreBuffering
       [] test = "sb_strong"  -> Tests!StoreBufferingStrong
       [] test = "sb_fenced"  -> Tests!StoreBufferingFenced
       [] test = "mp"         -> Tests!MessagePassing
       [] test = "mp_seq_cst" -> Tests!MessagePassingSeqCst
       [] test = "mp_rel_acq" -> Tests!MessagePassingRelAcq
       [] test = "mp_fenced"  -> Tests!MessagePassingFenced
       [] test = "lb"         -> Tests!LoadBuffering
       [] test = "coherence"  -> Tests!Coherence
       [] test = "2+2w"       -> Tests!TwoPlusTwoWrites
       [] test = "causality"  -> Tests!Causality
       [] test = "fai"        -> Tests!Increments("SEQ_CST")
       [] test = "publish"    -> Tests!Publish("SEQ_CST")
       [] test = "lock"       -> Tests!Locks("SEQ_CST")
       [] test = "discard"    -> Tests!Discarding("SEQ_CST")
       [] test = "handover"   -> Tests!Handover
       [] test = "spawn"      -> Tests!SpawnAndStore
       [] test = "on_demand"  -> Tests!SpawnOnDemand
       [] test = "arithmetic" -> Tests!Arithmetic
       [] test = "overflow"   -> Tests!Overflow(Half - 1)
       [] test = "div"        -> Tests!DivisionByZero
       [] test = "div_smallest" -> Tests!SmallestByMinusOne(Half - 1)
       [] test = "unassigned" -> Tests!UnassignedSource
       [] test = "label"      -> Tests!UnknownLabel]

IncrementTest == [test \in {"fai"} |-> Tests!Increments("REL_ACQ")]

\* The register r of thread t at the end, and the final memory.
Reg(t, r) == state.finished[t][r]
Memory(l) == state.storage.memory[l]

\* The outcomes the memory models exclude, test by test.
ForbiddenOutcome ==
  \/ /\ name = "sb" /\ mm = "sc"
     /\ Reg(1, "a") = 0 /\ Reg(2, "b") = 0
  \/ /\ name \in {"sb_strong", "sb_fenced"} /\ mm # "sra"
     /\ Reg(1, "a") = 0 /\ Reg(2, "b") = 0
  \/ /\ \/ name = "mp" /\ mm \in {"sc", "tso"}
        \/ name \in {"mp_seq_cst", "mp_fenced"} /\ mm # "sra"
        \/ name = "mp_rel_acq" /\ mm # "pso"
     /\ Reg(2, "a") = 1 /\ Reg(2, "b") = 0
  \/ /\ name = "lb"
     /\ Reg(1, "a") = 1 /\ Reg(2, "b") = 1
  \/ /\ name = "coherence"
     /\ Reg(2, "a") > Reg(2, "b")
  \/ /\ name = "2+2w" /\ mm \in {"sc", "tso"}
     /\ Memory("x") = 1 /\ Memory("y") = 1
  \/ /\ name = "causality"
     /\ Reg(2, "a") = 1 /\ Reg(3, "b") = 1 /\ Reg(3, "c") = 0
  \/ /\ name = "fai" /\ mm # "sra"
     /\ \/ Reg(1, "a") = Reg(2, "b")
        \/ Memory("x") # 2
  \/ /\ name = "publish" /\ mm # "sra"
     /\ Reg(2, "b") = 1 /\ Reg(2, "c") = 0
  \/ /\ name = "lock" /\ mm # "sra"
     /\ \/ Reg(1, "a") = 0 <=> Reg(2, "b") = 0
        \/ Reg(1, "a") = 0 /\ Memory("x") # 1
        \/ Reg(2, "b") = 0 /\ Memory("x") # 2
  \/ /\ name = "discard" /\ mm # "sra"
     /\ \/ Memory("x") # 3
        \/ Memory("y") \notin {1, 2}
        \/ Reg(2, "a") # Memory("y")
  \/ /\ name = "handover" /\ mm # "sra"
     /\ Reg(1, "a") = 0
  \/ /\ name = "arithmetic"
     /\ state.finished[0] # [a |-> 7, b |-> 2, c |-> 3, d |-> 21, z |-> 0, e |-> -3, f |-> 42]
  \/ /\ name = "overflow"
     /\ state.finished[0] # [a |-> Half - 1, r |-> 1, c |-> -Half, d |-> Half - 1, e |-> 1,
                             f |-> -1, g |-> -Half, h |-> 1 - Half, b |-> Half - 1, i |-> -Half]

\* A run that ends has none of the outcomes its memory model forbids: no
\* interleaving, epsilon transitions and final flush included, leads there.
NoForbiddenOutcome == status = "done" => ~ForbiddenOutcome

\* A run fails exactly where a statement has no meaning: a fence under SRA, a
\* division by zero or of the smallest integer by -1, a register never assigned,
\* a label never defined.  Any other overflow is no failure.
FailsWhereItMust ==
  LET failing == \/ name \in {"div", "div_smallest", "unassigned", "label"}
                 \/ name \in {"sb_fenced", "mp_fenced"} /\ mm = "sra"
  IN  (status = "done" => ~failing) /\ (status = "thrown" => failing)

\* Two increments of one location by one: each returns the value prior to its
\* own increment (README.md, line 17), so that they do not return the same one.
IncrementsAreAtomic == status = "done" => Reg(1, "a") # Reg(2, "b")

=============================================================================
