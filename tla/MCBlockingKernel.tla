-------------------------- MODULE MCBlockingKernel ---------------------------
(* Instances of BlockingKernel for TLC: three threads, of which main adds   *)
(* two; t2 is the kernel's thread2, which uses the disk.                    *)
EXTENDS BlockingKernel

CONSTANTS t1, t2, t3

AddedThreads == <<t2, t3>>
=============================================================================
