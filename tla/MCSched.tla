------------------------------ MODULE MCSched -------------------------------
(* Small instances of Sched for TLC.                                        *)
EXTENDS Sched, TLC

CONSTANTS r1, r2, r3

MCReq2 == {r1, r2}
MCReq3 == {r1, r2, r3}

Symmetric2 == Permutations(MCReq2)
Symmetric3 == Permutations(MCReq3)

(* The failures of what the worker calls, but not those after which the     *)
(* code breaks its contract: thread creation, the worker's scratch memory   *)
(* and the allocation inside deliver_chunk.                                 *)
ServiceFaults == {"start", "prefill", "decode", "dac"}
=============================================================================
