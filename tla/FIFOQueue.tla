------------------------------ MODULE FIFOQueue ------------------------------
(***************************************************************************)
(* The circular buffer the preemptive scheduler keeps its ready threads in *)
(* (class FIFOQueue of updated_scheduler/scheduler.H), as operators on a   *)
(* record with the class's members.                                        *)
(*                                                                         *)
(* Push and Pop are compositions of the single stores the two methods      *)
(* make: a timer interrupt may arrive between two of them, and RRScheduler *)
(* takes the stores one at a time.                                         *)
(***************************************************************************)
EXTENDS Integers, Sequences

CONSTANTS
    Slots,      \* length of the array "buffer", 100 in the source
    Thread,     \* the thread control blocks
    Null        \* the null pointer

ASSUME SlotsAssumption == Slots \in Nat /\ Slots >= 2

Pointer == Thread \cup {Null}

Index == 0 .. Slots - 1

Queue == [buffer : [Index -> Pointer], head : Index, tail : Index, size : Int]

\* The constructor leaves the array alone: "junk" is what the memory held.
NewQueue(junk) == [buffer |-> junk, head |-> 0, tail |-> 0, size |-> 0]

-----------------------------------------------------------------------------
(* The stores of push and of pop, in program order.                        *)

After(i) == (i + 1) % Slots

IsEmpty(q) == q.head = q.tail

\* Mutant of IsFull: the queue counts as full one thread early.
IsFullEarly(q) == After(After(q.tail)) = q.head

IsFull(q)  == After(q.tail) = q.head

StoreTail(q, t)      == [q EXCEPT !.buffer[q.tail] = t]
SetTail(q, newTail)  == [q EXCEPT !.tail = newTail]
Grow(q)              == [q EXCEPT !.size = @ + 1]

\* Mutant of FirstItem: the thread behind the first one is read.
SecondItem(q)        == q.buffer[After(q.head)]

FirstItem(q)         == q.buffer[q.head]
AdvanceHead(q)       == [q EXCEPT !.head = After(@)]
Shrink(q)            == [q EXCEPT !.size = @ - 1]

-----------------------------------------------------------------------------
(* The two methods, run without interruption.  push returns ~IsFull(q);    *)
(* pop returns Popped(q).                                                  *)

\* Mutant of Push: the full test is dropped.
PushUnchecked(q, t) == Grow(SetTail(StoreTail(q, t), After(q.tail)))

Push(q, t) == IF IsFull(q) THEN q
              ELSE Grow(SetTail(StoreTail(q, t), After(q.tail)))

\* Mutant of Pop: size is left as it was.
PopKeepsSize(q) == IF IsEmpty(q) THEN q ELSE AdvanceHead(q)

Pop(q) == IF IsEmpty(q) THEN q ELSE Shrink(AdvanceHead(q))

Popped(q) == IF IsEmpty(q) THEN Null ELSE FirstItem(q)

-----------------------------------------------------------------------------
(* What the buffer stands for: the sequence of the pointers between head   *)
(* and tail, oldest first.                                                 *)

Occupied(q) == IF q.head <= q.tail THEN q.tail - q.head
                                   ELSE q.tail + Slots - q.head

Contents(q) == [i \in 1 .. Occupied(q) |-> q.buffer[(q.head + i - 1) % Slots]]
=============================================================================
