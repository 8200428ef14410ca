----------------------------- MODULE ThreadQueue -----------------------------
(***************************************************************************)
(* What the queue of P5's scheduler promises: threads leave it in the      *)
(* order in which they came, and the first occurrence of a thread can be   *)
(* taken out of the middle.  Nothing bounds it.                            *)
(***************************************************************************)
EXTENDS Integers, Sequences

CONSTANTS Thread, Null

VARIABLES
    queue,      \* the threads, oldest first
    element     \* what the last dequeue returned

vars == <<queue, element>>

Init == queue = <<>> /\ element = Null

Enter(t) == /\ queue' = Append(queue, t)
            /\ UNCHANGED element

Leave == /\ queue # <<>>
         /\ element' = Head(queue)
         /\ queue' = Tail(queue)

\* The queue without its i-th thread.
Without(i) == [k \in 1 .. Len(queue) - 1 |->
                  IF k < i THEN queue[k] ELSE queue[k + 1]]

TakeOut(t) == /\ \E i \in 1 .. Len(queue) :
                    /\ queue[i] = t
                    /\ \A j \in 1 .. i - 1 : queue[j] # t
                    /\ queue' = Without(i)
              /\ UNCHANGED element

Next == (\E t \in Thread : Enter(t) \/ TakeOut(t)) \/ Leave

Spec == Init /\ [][Next]_vars
=============================================================================
