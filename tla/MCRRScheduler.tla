---------------------------- MODULE MCRRScheduler ----------------------------
(* Instances of RRScheduler for TLC: three threads, of which main adds two. *)
EXTENDS RRScheduler

CONSTANTS t1, t2, t3

AddedThreads == <<t2, t3>>
=============================================================================
