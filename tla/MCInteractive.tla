----------------------------- MODULE MCInteractive -----------------------------
(* Litmus tests under the interactive interpreter, in all memory models. *)
EXTENDS Interactive

Tests == INSTANCE Litmus

DialogueTests ==
  [test \in {"sb", "sb_fenced", "mp_rel_acq", "coherence", "spawn", "single", "label"} |->
     CASE test = "sb"         -> Tests!StoreBuffering
       [] test = "sb_fenced"  -> Tests!StoreBufferingFenced
       [] test = "mp_rel_acq" -> Tests!MessagePassingRelAcq
       [] test = "coherence"  -> Tests!Coherence
       [] test = "spawn"      -> Tests!SpawnAndStore
       [] test = "single"     -> Tests!SingleThread
       [] test = "label"      -> Tests!UnknownLabel]

OneTest == [test \in {"spawn"} |-> Tests!SpawnAndStore]

=============================================================================
