----------------------------- MODULE ReadyQueue ------------------------------
(***************************************************************************)
(* One FIFOQueue and the calls its scheduler makes on it: resume and add   *)
(* push, yield pops.  Any thread may be pushed at any time, also one that  *)
(* is in the queue already, as nothing in the class forbids it.            *)
(* The names leave room for those of RRScheduler, whose proofs use the     *)
(* same lemmas.                                                            *)
(***************************************************************************)
EXTENDS FIFOQueue

VARIABLES
    queue,      \* the FIFOQueue object
    pushed,     \* what the last push returned
    popped      \* what the last pop returned

ringVars == <<queue, pushed, popped>>

QueueInit ==
    /\ \E junk \in [Index -> Pointer] : queue = NewQueue(junk)
    /\ pushed = TRUE
    /\ popped = Null

CallPush(t) == /\ pushed' = ~IsFull(queue)
               /\ queue' = Push(queue, t)
               /\ UNCHANGED popped

CallPop == /\ popped' = Popped(queue)
           /\ queue' = Pop(queue)
           /\ UNCHANGED pushed

QueueNext == (\E t \in Thread : CallPush(t)) \/ CallPop

QueueSpec == QueueInit /\ [][QueueNext]_ringVars

-----------------------------------------------------------------------------
\* The members keep their ranges: head and tail index the array (scheduler.H,
\* lines 66 to 69).
QueueTypeOK == queue \in Queue /\ pushed \in BOOLEAN /\ popped \in Pointer

\* q_size() returns the number of threads between head and tail, although
\* push and pop keep the two apart and never compare them.
SizeCounts == queue.size = Occupied(queue)

FIFO == INSTANCE BoundedFIFO WITH Capacity <- Slots - 1, items <- Contents(queue)

\* The ring buffer is a first-in first-out queue of Slots - 1 threads: every
\* push and pop does to Contents(queue), and returns, what BoundedFIFO says.
ImplementsFIFO == FIFO!Spec
=============================================================================
