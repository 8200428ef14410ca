----------------------------- MODULE BoundedFIFO -----------------------------
(***************************************************************************)
(* What a ready queue promises its scheduler: a first-in first-out         *)
(* sequence of at most Capacity threads.  A push into a full queue is      *)
(* refused, a pop of an empty one returns the null pointer.                *)
(***************************************************************************)
EXTENDS Naturals, Sequences

CONSTANTS Capacity, Thread, Null

VARIABLES
    items,      \* the threads in the queue, oldest first
    pushed,     \* what the last push returned
    popped      \* what the last pop returned

vars == <<items, pushed, popped>>

Init == items = <<>> /\ pushed = TRUE /\ popped = Null

Accept(t) == /\ Len(items) < Capacity
             /\ items' = Append(items, t)
             /\ pushed' = TRUE
             /\ UNCHANGED popped

Refuse == /\ Len(items) = Capacity
          /\ pushed' = FALSE
          /\ UNCHANGED <<items, popped>>

Take == /\ items # <<>>
        /\ popped' = Head(items)
        /\ items' = Tail(items)
        /\ UNCHANGED pushed

TakeNothing == /\ items = <<>>
               /\ popped' = Null
               /\ UNCHANGED <<items, pushed>>

Next == (\E t \in Thread : Accept(t)) \/ Refuse \/ Take \/ TakeNothing

Spec == Init /\ [][Next]_vars
=============================================================================
