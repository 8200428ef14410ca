--------------------------- MODULE MCContFramePool ---------------------------
(* Instances of ContFramePool for TLC: pools of a few adjacent frames.      *)
EXTENDS ContFramePool

CONSTANTS kernelPool, processPool

\* The kernel pool keeps its own bitmap, the process pool is told where to.
BaseOf == [p \in Pool |-> IF p = kernelPool THEN 2 ELSE 4]
SizeOf == [p \in Pool |-> IF p = processPool THEN 4 ELSE 2]
=============================================================================
