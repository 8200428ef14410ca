----------------------------- MODULE MCPageTable -----------------------------
(* Instances of PageTable for TLC: frames of six words, and an address     *)
(* space of six tables.  Table 0 is the shared memory, 1 and 2 cover the   *)
(* addresses that the frames of the pool have, 3 and 4 are the clients'.   *)
EXTENDS PageTable
=============================================================================
