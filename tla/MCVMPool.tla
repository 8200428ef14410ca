------------------------------ MODULE MCVMPool -------------------------------
(* Instances of VMPool for TLC: two pools in an address space of 64, pages  *)
(* of two addresses.                                                       *)
EXTENDS VMPool, TLC

CONSTANTS code, heap

Bases == (code :> 16 @@ heap :> 32)
=============================================================================
