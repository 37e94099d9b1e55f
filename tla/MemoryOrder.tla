----------------------------- MODULE MemoryOrder -----------------------------
(* The access modes an instruction can carry (lang/memory-order.h). *)

MemoryOrders == {"SEQ_CST", "REL", "ACQ", "REL_ACQ", "RLX"}

=============================================================================
