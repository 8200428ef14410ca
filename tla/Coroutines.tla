------------------------------ MODULE Coroutines ------------------------------
(***************************************************************************)
(* What a context switch promises: of several actors one runs, and one     *)
(* that is switched to finds everything as it left it.                     *)
(***************************************************************************)
CONSTANTS Actor

VARIABLES
    running,    \* the actor that has the processor
    live,       \* its place, registers and stack
    context     \* those of each actor when it last gave the processor away

\* The running actor does what it likes with its own.
Work == UNCHANGED <<running, context>>

\* It gets to where it gives the processor away.
Leave ==
    /\ context' = [context EXCEPT ![running] = live']
    /\ UNCHANGED running

Enter(a) ==
    /\ context[running] = live
    /\ running' = a /\ live' = context[a]
    /\ UNCHANGED context

Next == Work \/ Leave \/ \E a \in Actor : Enter(a)
=============================================================================
