----------------------------- MODULE RoundRobin ------------------------------
(***************************************************************************)
(* What a round-robin scheduler promises: one thread runs, the others wait *)
(* in a sequence.  The running thread goes to the end of the sequence, or  *)
(* leaves, and the first of the sequence runs.                             *)
(***************************************************************************)
EXTENDS Sequences

CONSTANTS Thread, Null

VARIABLES
    running,    \* the thread on the CPU, Null before the first one
    ready       \* the threads that wait for it, the next one first

vars == <<running, ready>>

Init == running = Null /\ ready = <<>>

Admit(t) == /\ running = Null
            /\ ready' = Append(ready, t)
            /\ UNCHANGED running

Start(t) == /\ running = Null
            /\ running' = t
            /\ UNCHANGED ready

Rotate == /\ running # Null
          /\ LET all == Append(ready, running)
             IN  running' = Head(all) /\ ready' = Tail(all)

Finish == /\ running # Null
          /\ ready # <<>>
          /\ running' = Head(ready)
          /\ ready' = Tail(ready)

Next == (\E t \in Thread : Admit(t) \/ Start(t)) \/ Rotate \/ Finish

Spec == Init /\ [][Next]_vars
=============================================================================
