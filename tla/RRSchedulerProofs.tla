-------------------------- MODULE RRSchedulerProofs --------------------------
(***************************************************************************)
(* What the stores, push and pop of the ready queue do to its members and  *)
(* to the sequence it stands for, for an array of any length and any       *)
(* threads; and that it is a bounded queue.                                *)
(*                                                                         *)
(* What holds of the preemptive scheduler wherever the timer preempts, for *)
(* any threads, any length of the array and of a quantum: the types, that  *)
(* a timer interrupt is unanswered exactly while one actor owes the        *)
(* end-of-interrupt, and that interrupts are off only to start a thread.   *)
(* And what holds until a quantum first ends in the start-up code, in      *)
(* resume or in yield: threads take turns and no assertion fails.          *)
(***************************************************************************)
EXTENDS RRScheduler, ReadyQueue, FiniteSetTheorems, TLAPS

\* What % does to an index that has moved by less than the array's length:
\* the successor of head and tail, and the positions of Contents, are slots.
LEMMA Wrap ==
    ASSUME NEW i \in Nat, i < 2 * Slots
    PROVE  i % Slots = IF i < Slots THEN i ELSE i - Slots
BY SlotsAssumption

LEMMA AfterIndex ==
    ASSUME NEW i \in Index
    PROVE  /\ After(i) \in Index
           /\ After(i) = IF i = Slots - 1 THEN 0 ELSE i + 1
<1>1. i + 1 \in Nat /\ i + 1 < 2 * Slots
  BY SlotsAssumption DEF Index
<1>2. (i + 1) % Slots = IF i + 1 < Slots THEN i + 1 ELSE i + 1 - Slots
  BY <1>1, Wrap, SlotsAssumption DEF Index
<1> QED
  BY <1>1, <1>2, SlotsAssumption DEF Index, After
-----------------------------------------------------------------------------
\* The number of threads between head and tail, before and after a push and
\* a pop that succeed.
LEMMA OccupiedBounds ==
    ASSUME NEW r \in Queue
    PROVE  /\ Occupied(r) \in 0 .. Slots - 1
           /\ Occupied(r) = 0 <=> IsEmpty(r)
           /\ Occupied(r) = Slots - 1 <=> IsFull(r)
<1>1. r.head \in Index /\ r.tail \in Index
  BY DEF Queue
<1>2. After(r.tail) = IF r.tail = Slots - 1 THEN 0 ELSE r.tail + 1
  BY <1>1, AfterIndex
<1> QED
  BY <1>1, <1>2, SlotsAssumption DEF Occupied, IsEmpty, IsFull, Index

\* What a push that is not refused does to each member.
LEMMA PushMembers ==
    ASSUME NEW r \in Queue, NEW t \in Pointer, ~IsFull(r)
    PROVE  /\ Push(r, t) \in Queue
           /\ Push(r, t).head = r.head
           /\ Push(r, t).tail = After(r.tail)
           /\ Push(r, t).size = r.size + 1
           /\ Push(r, t).buffer = [r.buffer EXCEPT ![r.tail] = t]
<1>1. r.tail \in Index /\ r.size \in Int /\ r.buffer \in [Index -> Pointer]
  BY DEF Queue
<1>2. After(r.tail) \in Index
  BY <1>1, AfterIndex
<1> DEFINE stored == StoreTail(r, t)
           moved  == SetTail(stored, After(r.tail))
<1>3. /\ stored \in Queue
      /\ stored.buffer = [r.buffer EXCEPT ![r.tail] = t]
      /\ stored.head = r.head /\ stored.tail = r.tail /\ stored.size = r.size
  BY <1>1 DEF StoreTail, Queue
<1>4. /\ moved \in Queue
      /\ moved.buffer = stored.buffer /\ moved.size = r.size
      /\ moved.head = r.head /\ moved.tail = After(r.tail)
  BY <1>2, <1>3 DEF SetTail, Queue
<1>5. Push(r, t) = [moved EXCEPT !.size = @ + 1]
  BY DEF Push, Grow
<1> HIDE DEF stored, moved
<1> QED
  BY <1>1, <1>3, <1>4, <1>5 DEF Queue

\* What a pop of a queue that is not empty does to each member.
LEMMA PopMembers ==
    ASSUME NEW r \in Queue, ~IsEmpty(r)
    PROVE  /\ Pop(r) \in Queue
           /\ Pop(r).head = After(r.head)
           /\ Pop(r).tail = r.tail
           /\ Pop(r).size = r.size - 1
           /\ Pop(r).buffer = r.buffer
           /\ Popped(r) = r.buffer[r.head]
           /\ Popped(r) \in Pointer
<1>1. /\ r.head \in Index /\ r.tail \in Index /\ r.size \in Int
      /\ r.buffer \in [Index -> Pointer]
  BY DEF Queue
<1>2. After(r.head) \in Index
  BY <1>1, AfterIndex
<1> DEFINE moved == AdvanceHead(r)
<1>3. /\ moved \in Queue
      /\ moved.buffer = r.buffer /\ moved.size = r.size
      /\ moved.head = After(r.head) /\ moved.tail = r.tail
  BY <1>1, <1>2 DEF AdvanceHead, Queue
<1>4. Pop(r) = [moved EXCEPT !.size = @ - 1]
  BY DEF Pop, Shrink
<1>5. Popped(r) = r.buffer[r.head]
  BY DEF Popped, FirstItem
<1> HIDE DEF moved
<1> QED
  BY <1>1, <1>3, <1>4, <1>5 DEF Queue

LEMMA OccupiedPush ==
    ASSUME NEW r \in Queue, NEW t \in Pointer, ~IsFull(r)
    PROVE  Occupied(Push(r, t)) = Occupied(r) + 1
<1>1. r.head \in Index /\ r.tail \in Index
  BY DEF Queue
<1>2. After(r.tail) = IF r.tail = Slots - 1 THEN 0 ELSE r.tail + 1
  BY <1>1, AfterIndex
<1>3. Push(r, t).head = r.head /\ Push(r, t).tail = After(r.tail)
  BY PushMembers
<1> QED
  BY <1>1, <1>2, <1>3, SlotsAssumption DEF Occupied, IsFull, Index

LEMMA OccupiedPop ==
    ASSUME NEW r \in Queue, ~IsEmpty(r)
    PROVE  Occupied(Pop(r)) = Occupied(r) - 1
<1>1. r.head \in Index /\ r.tail \in Index
  BY DEF Queue
<1>2. After(r.head) = IF r.head = Slots - 1 THEN 0 ELSE r.head + 1
  BY <1>1, AfterIndex
<1>3. Pop(r).head = After(r.head) /\ Pop(r).tail = r.tail
  BY PopMembers
<1> QED
  BY <1>1, <1>2, <1>3, SlotsAssumption DEF Occupied, IsEmpty, Index
-----------------------------------------------------------------------------
\* The sequence a queue stands for, as a sequence of pointers.
LEMMA ContentsType ==
    ASSUME NEW r \in Queue
    PROVE  /\ Contents(r) \in Seq(Pointer)
           /\ Len(Contents(r)) = Occupied(r)
           /\ \A i \in 1 .. Occupied(r) :
                  Contents(r)[i] = r.buffer[(r.head + i - 1) % Slots]
<1>1. Occupied(r) \in Nat
  BY OccupiedBounds, SlotsAssumption
<1>2. ASSUME NEW i \in 1 .. Occupied(r)
      PROVE  r.buffer[(r.head + i - 1) % Slots] \in Pointer
  <2>1. r.head \in Index /\ r.buffer \in [Index -> Pointer]
    BY DEF Queue
  <2>2. (r.head + i - 1) \in Nat /\ (r.head + i - 1) < 2 * Slots
    BY <2>1, <1>1, OccupiedBounds, SlotsAssumption DEF Index
  <2>3. (r.head + i - 1) % Slots = IF r.head + i - 1 < Slots
                                   THEN r.head + i - 1
                                   ELSE r.head + i - 1 - Slots
    BY <2>1, <2>2, Wrap, SlotsAssumption DEF Index
  <2>4. (r.head + i - 1) % Slots \in Index
    BY <2>1, <2>2, <2>3, <1>1, SlotsAssumption DEF Index
  <2> QED
    BY <2>1, <2>4
<1> QED
  BY <1>1, <1>2 DEF Contents

\* The position in the array of the i-th thread of a queue.
LEMMA Position ==
    ASSUME NEW r \in Queue, NEW i \in Nat, i <= Occupied(r)
    PROVE  (r.head + i) % Slots = IF r.head + i < Slots THEN r.head + i
                                                        ELSE r.head + i - Slots
<1>1. r.head \in Index
  BY DEF Queue
<1>2. r.head + i \in Nat /\ r.head + i < 2 * Slots
  BY <1>1, OccupiedBounds, SlotsAssumption DEF Index
<1> QED
  BY <1>1, <1>2, Wrap, SlotsAssumption DEF Index

\* A push that is not refused appends its thread.
LEMMA PushAppends ==
    ASSUME NEW r \in Queue, NEW t \in Pointer, ~IsFull(r)
    PROVE  Contents(Push(r, t)) = Append(Contents(r), t)
<1> DEFINE p == Push(r, t)
           n == Occupied(r)
<1>1. /\ p \in Queue /\ p.head = r.head
      /\ p.buffer = [r.buffer EXCEPT ![r.tail] = t]
  BY PushMembers
<1>2. Occupied(p) = n + 1 /\ n \in 0 .. Slots - 1
  BY OccupiedPush, OccupiedBounds
<1>3. r.head \in Index /\ r.tail \in Index /\ r.buffer \in [Index -> Pointer]
  BY DEF Queue
<1>4. ASSUME NEW i \in 1 .. n
      PROVE  p.buffer[(p.head + i - 1) % Slots] = Contents(r)[i]
  <2>1. i - 1 \in Nat /\ i - 1 <= Occupied(r)
    BY <1>2
  <2>2. (r.head + (i - 1)) % Slots = IF r.head + (i - 1) < Slots
                                     THEN r.head + (i - 1)
                                     ELSE r.head + (i - 1) - Slots
    BY <2>1, Position
  <2>3. r.head + (i - 1) = r.head + i - 1
    BY <1>3 DEF Index
  <2>4. (r.head + i - 1) % Slots # r.tail
    <3>1. /\ n \in Nat /\ n < Slots
          /\ n = IF r.head <= r.tail THEN r.tail - r.head
                                     ELSE r.tail + Slots - r.head
      BY <1>2, SlotsAssumption DEF Occupied
    <3> HIDE DEF n
    <3>2. (IF r.head + (i - 1) < Slots THEN r.head + (i - 1)
                                       ELSE r.head + (i - 1) - Slots) # r.tail
      BY <3>1, <1>3, SlotsAssumption DEF Index
    <3> QED
      BY <2>2, <2>3, <3>2
  <2>5. p.buffer[(r.head + i - 1) % Slots] = r.buffer[(r.head + i - 1) % Slots]
    BY <1>1, <1>3, <2>4
  <2> QED
    BY <2>5, <1>1, ContentsType
<1>5. p.buffer[(p.head + (n + 1) - 1) % Slots] = t
  <2>1. (r.head + n) % Slots = IF r.head + n < Slots THEN r.head + n
                                                     ELSE r.head + n - Slots
    BY <1>2, Position
  <2>2. (r.head + n) % Slots = r.tail
    BY <2>1, <1>2, <1>3, SlotsAssumption DEF Index, Occupied
  <2>3. r.head + (n + 1) - 1 = r.head + n
    BY <1>2, <1>3 DEF Index
  <2> QED
    BY <2>2, <2>3, <1>1, <1>3
<1>6. /\ Contents(p) \in Seq(Pointer) /\ Len(Contents(p)) = n + 1
      /\ \A i \in 1 .. n + 1 :
             Contents(p)[i] = p.buffer[(p.head + i - 1) % Slots]
  BY <1>1, <1>2, ContentsType
<1>7. Contents(r) \in Seq(Pointer) /\ Len(Contents(r)) = n
  BY ContentsType
<1> HIDE DEF p, n
<1>8. \A i \in 1 .. n + 1 : Contents(p)[i] = Append(Contents(r), t)[i]
  <2> SUFFICES ASSUME NEW i \in 1 .. n + 1
               PROVE  Contents(p)[i] = Append(Contents(r), t)[i]
    OBVIOUS
  <2>1. CASE i = n + 1
    BY <2>1, <1>2, <1>5, <1>6, <1>7
  <2>2. CASE i \in 1 .. n
    BY <2>2, <1>2, <1>4, <1>6, <1>7
  <2> QED
    <3>1. n \in Nat
      BY <1>2, SlotsAssumption
    <3>2. i = n + 1 \/ i \in 1 .. n
      BY <3>1
    <3> QED
      BY <3>2, <2>1, <2>2
<1> QED
  BY <1>2, <1>6, <1>7, <1>8 DEF p

\* A pop of a queue that is not empty takes its first thread.
LEMMA PopTakes ==
    ASSUME NEW r \in Queue, ~IsEmpty(r)
    PROVE  /\ Contents(r) # <<>>
           /\ Popped(r) = Head(Contents(r))
           /\ Contents(Pop(r)) = Tail(Contents(r))
<1> DEFINE p == Pop(r)
           n == Occupied(r)
<1>1. /\ p \in Queue /\ p.head = After(r.head) /\ p.buffer = r.buffer
      /\ Popped(r) = r.buffer[r.head]
  BY PopMembers
<1>2. Occupied(p) = n - 1 /\ n \in 1 .. Slots - 1
  BY OccupiedPop, OccupiedBounds, SlotsAssumption
<1>3. r.head \in Index
  BY DEF Queue
<1>4. /\ Contents(r) \in Seq(Pointer) /\ Len(Contents(r)) = n
      /\ \A i \in 1 .. n : Contents(r)[i] = r.buffer[(r.head + i - 1) % Slots]
  BY ContentsType
<1>5. /\ Contents(p) \in Seq(Pointer) /\ Len(Contents(p)) = n - 1
      /\ \A i \in 1 .. n - 1 :
             Contents(p)[i] = p.buffer[(p.head + i - 1) % Slots]
  BY <1>1, <1>2, ContentsType
<1>6. Contents(r)[1] = r.buffer[r.head]
  <2>1. (r.head + 0) % Slots = r.head
    BY <1>2, <1>3, Position, SlotsAssumption DEF Index
  <2>2. r.head + 1 - 1 = r.head + 0
    BY <1>3 DEF Index
  <2> QED
    BY <1>2, <1>4, <2>1, <2>2
<1>7. ASSUME NEW i \in 1 .. n - 1
      PROVE  (p.head + i - 1) % Slots = (r.head + (i + 1) - 1) % Slots
  <2>1. After(r.head) = IF r.head = Slots - 1 THEN 0 ELSE r.head + 1
    BY <1>3, AfterIndex
  <2>2. (r.head + i) % Slots = IF r.head + i < Slots THEN r.head + i
                                                     ELSE r.head + i - Slots
    BY <1>2, Position
  <2>3. (p.head + (i - 1)) % Slots = IF p.head + (i - 1) < Slots
                                     THEN p.head + (i - 1)
                                     ELSE p.head + (i - 1) - Slots
    BY <1>1, <1>2, Position
  <2>4. p.head + (i - 1) = p.head + i - 1 /\ r.head + (i + 1) - 1 = r.head + i
    BY <1>1, <1>3, <2>1, SlotsAssumption DEF Index
  <2> QED
    BY <1>1, <1>2, <1>3, <2>1, <2>2, <2>3, <2>4, SlotsAssumption DEF Index
<1> HIDE DEF p, n
<1>8. \A i \in 1 .. n - 1 : Contents(p)[i] = Contents(r)[i + 1]
  BY <1>1, <1>2, <1>4, <1>5, <1>7
<1>9. Contents(p) = Tail(Contents(r))
  BY <1>2, <1>4, <1>5, <1>8
<1> QED
  BY <1>1, <1>2, <1>4, <1>6, <1>9 DEF p

-----------------------------------------------------------------------------
\* Each store of push and pop leaves a queue, whatever was stored before it.
LEMMA StoreTypes ==
    ASSUME NEW r \in Queue, NEW t \in Pointer, NEW i \in Index
    PROVE  /\ StoreTail(r, t) \in Queue
           /\ SetTail(r, i) \in Queue
           /\ Grow(r) \in Queue
           /\ AdvanceHead(r) \in Queue
           /\ Shrink(r) \in Queue
           /\ FirstItem(r) \in Pointer
<1>1. /\ r.head \in Index /\ r.tail \in Index /\ r.size \in Int
      /\ r.buffer \in [Index -> Pointer]
  BY DEF Queue
<1>2. After(r.head) \in Index
  BY <1>1, AfterIndex
<1>3. StoreTail(r, t) \in Queue
  BY <1>1 DEF StoreTail, Queue
<1>4. SetTail(r, i) \in Queue
  BY <1>1 DEF SetTail, Queue
<1>5. Grow(r) \in Queue
  BY <1>1 DEF Grow, Queue
<1>6. AdvanceHead(r) \in Queue
  BY <1>1, <1>2 DEF AdvanceHead, Queue
<1>7. Shrink(r) \in Queue
  BY <1>1 DEF Shrink, Queue
<1>8. FirstItem(r) \in Pointer
  BY <1>1 DEF FirstItem
<1> QED
  BY <1>3, <1>4, <1>5, <1>6, <1>7, <1>8

-----------------------------------------------------------------------------
(* Contents between two stores, where a timer interrupt may come.          *)

\* The sequence depends on the array and the two indices only.
LEMMA SameContents ==
    ASSUME NEW r, NEW p,
           p.buffer = r.buffer, p.head = r.head, p.tail = r.tail
    PROVE  /\ Contents(p) = Contents(r)
           /\ IsEmpty(p) <=> IsEmpty(r)
           /\ IsFull(p) <=> IsFull(r)
BY DEF Contents, Occupied, IsEmpty, IsFull

\* size is not looked at: its stores leave the sequence alone.
LEMMA SizeStores ==
    ASSUME NEW r \in Queue
    PROVE  /\ Contents(Grow(r)) = Contents(r) /\ Contents(Shrink(r)) = Contents(r)
           /\ IsFull(Grow(r)) <=> IsFull(r)
<1>1. /\ Grow(r).buffer = r.buffer /\ Grow(r).head = r.head /\ Grow(r).tail = r.tail
      /\ Shrink(r).buffer = r.buffer /\ Shrink(r).head = r.head
      /\ Shrink(r).tail = r.tail
  BY DEF Grow, Shrink, Queue
<1> HIDE DEF Queue
<1>2. Contents(Grow(r)) = Contents(r) /\ (IsFull(Grow(r)) <=> IsFull(r))
  BY <1>1, SameContents
<1>3. Contents(Shrink(r)) = Contents(r)
  BY <1>1, SameContents
<1> QED
  BY <1>2, <1>3

\* The slot push stores into is behind the last thread, so until tail moves the
\* sequence is the one before the call.
LEMMA TailStore ==
    ASSUME NEW r \in Queue, NEW t \in Pointer
    PROVE  /\ Contents(StoreTail(r, t)) = Contents(r)
           /\ StoreTail(r, t).buffer[StoreTail(r, t).tail] = t
           /\ StoreTail(r, t).tail = r.tail
           /\ IsFull(StoreTail(r, t)) <=> IsFull(r)
<1> DEFINE p == StoreTail(r, t)
           n == Occupied(r)
<1>1. r.head \in Index /\ r.tail \in Index /\ r.buffer \in [Index -> Pointer]
  BY DEF Queue
<1>2. /\ p.buffer = [r.buffer EXCEPT ![r.tail] = t]
      /\ p.head = r.head /\ p.tail = r.tail /\ p \in Queue
  BY <1>1, StoreTypes DEF StoreTail, Queue, Index
<1>3. Occupied(p) = n /\ (IsFull(p) <=> IsFull(r)) /\ p.buffer[p.tail] = t
  BY <1>1, <1>2 DEF Occupied, IsFull
<1>4. ASSUME NEW i \in 1 .. n
      PROVE  p.buffer[(p.head + i - 1) % Slots] = r.buffer[(r.head + i - 1) % Slots]
  <2>1. /\ n \in Nat /\ n < Slots
        /\ n = IF r.head <= r.tail THEN r.tail - r.head ELSE r.tail + Slots - r.head
    BY OccupiedBounds, SlotsAssumption DEF Occupied
  <2>2. i - 1 \in Nat /\ i - 1 <= Occupied(r)
    BY <2>1
  <2>3. (r.head + (i - 1)) % Slots = IF r.head + (i - 1) < Slots
                                     THEN r.head + (i - 1)
                                     ELSE r.head + (i - 1) - Slots
    BY <2>2, Position
  <2> HIDE DEF n
  <2>4. (r.head + (i - 1)) % Slots # r.tail
    BY <1>1, <2>1, <2>3, SlotsAssumption DEF Index
  <2>5. r.head + (i - 1) = r.head + i - 1
    BY <1>1, <2>1 DEF Index
  <2> QED
    BY <1>1, <1>2, <2>4, <2>5
<1> HIDE DEF p
<1>5. Contents(p) = Contents(r)
  BY <1>3, <1>4 DEF Contents
<1> QED
  BY <1>2, <1>3, <1>5 DEF p

\* Once the thread is stored behind the last one, moving tail appends it.
LEMMA TailMoves ==
    ASSUME NEW r \in Queue, ~IsFull(r)
    PROVE  /\ r.buffer[r.tail] \in Pointer
           /\ Contents(SetTail(r, After(r.tail))) = Append(Contents(r), r.buffer[r.tail])
<1> DEFINE t == r.buffer[r.tail]
<1>1. /\ r.tail \in Index /\ t \in Pointer /\ After(r.tail) \in Index
      /\ r.buffer \in [Index -> Pointer]
  BY AfterIndex DEF Queue
<1>2. StoreTail(r, t) = r
  BY <1>1 DEF StoreTail, Queue
<1>3. SetTail(r, After(r.tail)) \in Queue
  BY <1>1, StoreTypes
<1>4. Push(r, t) = Grow(SetTail(r, After(r.tail)))
  BY <1>2 DEF Push
<1>5. Contents(Push(r, t)) = Contents(SetTail(r, After(r.tail)))
  BY <1>3, <1>4, SizeStores
<1> QED
  BY <1>1, <1>5, PushAppends

\* Moving head takes the first thread, the one the store before it has read.
LEMMA HeadMoves ==
    ASSUME NEW r \in Queue, ~IsEmpty(r)
    PROVE  /\ Contents(r) # <<>>
           /\ FirstItem(r) = Head(Contents(r))
           /\ Contents(AdvanceHead(r)) = Tail(Contents(r))
<1>1. AdvanceHead(r) \in Queue
  <2>1. r.head \in Index
    BY DEF Queue
  <2> QED
    BY <2>1, AfterIndex DEF AdvanceHead, Queue
<1>2. Pop(r) = Shrink(AdvanceHead(r)) /\ Popped(r) = FirstItem(r)
  BY DEF Pop, Popped
<1>3. Contents(Pop(r)) = Contents(AdvanceHead(r))
  BY <1>1, <1>2, SizeStores
<1> QED
  BY <1>2, <1>3, PopTakes

\* An empty queue stands for the empty sequence.
LEMMA EmptyContents ==
    ASSUME NEW r \in Queue
    PROVE  IsEmpty(r) <=> Contents(r) = <<>>
BY OccupiedBounds, ContentsType, SlotsAssumption

-----------------------------------------------------------------------------
(* The ring buffer of scheduler.H is a bounded first-in first-out queue,   *)
(* for an array of any length, any set of threads and any initial contents *)
(* of the array.                                                           *)

QueueIInv == QueueTypeOK /\ SizeCounts

LEMMA QueueInitInv == QueueInit => QueueIInv
<1> SUFFICES ASSUME QueueInit PROVE QueueIInv
  OBVIOUS
<1>1. PICK junk \in [Index -> Pointer] : queue = NewQueue(junk)
  BY DEF QueueInit
<1>2. queue \in Queue /\ queue.head = 0 /\ queue.tail = 0 /\ queue.size = 0
  BY <1>1, SlotsAssumption DEF NewQueue, Queue, Index
<1>3. SizeCounts
  BY <1>2 DEF SizeCounts, Occupied
<1> QED
  BY <1>2, <1>3 DEF QueueInit, QueueIInv, QueueTypeOK, Pointer

LEMMA QueueNextInv == QueueIInv /\ [QueueNext]_ringVars => QueueIInv'
<1> SUFFICES ASSUME QueueIInv, [QueueNext]_ringVars PROVE QueueIInv'
  OBVIOUS
<1>1. queue \in Queue /\ pushed \in BOOLEAN /\ popped \in Pointer
  BY DEF QueueIInv, QueueTypeOK
<1>2. queue.size = Occupied(queue)
  BY DEF QueueIInv, SizeCounts
<1>3. ASSUME NEW t \in Thread, CallPush(t) PROVE QueueIInv'
  <2>1. CASE IsFull(queue)
    BY <1>1, <1>2, <1>3, <2>1 DEF CallPush, Push, QueueIInv, QueueTypeOK, SizeCounts
  <2>2. CASE ~IsFull(queue)
    <3>1. queue' \in Queue /\ queue'.size = queue.size + 1
      BY <1>1, <1>3, <2>2, PushMembers DEF CallPush, Pointer
    <3>2. Occupied(queue') = Occupied(queue) + 1
      BY <1>1, <1>3, <2>2, OccupiedPush DEF CallPush, Pointer
    <3>3. SizeCounts'
      BY <1>2, <3>1, <3>2 DEF SizeCounts
    <3> QED
      BY <1>1, <1>3, <2>2, <3>1, <3>3 DEF CallPush, QueueIInv, QueueTypeOK
  <2> QED
    BY <2>1, <2>2
<1>4. CASE CallPop
  <2>1. CASE IsEmpty(queue)
    BY <1>1, <1>2, <1>4, <2>1
       DEF CallPop, Pop, Popped, Pointer, QueueIInv, QueueTypeOK, SizeCounts
  <2>2. CASE ~IsEmpty(queue)
    <3>1. queue' \in Queue /\ queue'.size = queue.size - 1 /\ popped' \in Pointer
      BY <1>1, <1>4, <2>2, PopMembers DEF CallPop
    <3>2. Occupied(queue') = Occupied(queue) - 1
      BY <1>1, <1>4, <2>2, OccupiedPop DEF CallPop
    <3>3. SizeCounts'
      BY <1>2, <3>1, <3>2 DEF SizeCounts
    <3> QED
      BY <1>1, <1>4, <3>1, <3>3 DEF CallPop, QueueIInv, QueueTypeOK
  <2> QED
    BY <2>1, <2>2
<1>5. CASE UNCHANGED ringVars
  BY <1>5 DEF ringVars, QueueIInv, QueueTypeOK, SizeCounts
<1> QED
  BY <1>3, <1>4, <1>5 DEF QueueNext

LEMMA QueueInvariance == QueueSpec => []QueueIInv
BY QueueInitInv, QueueNextInv, PTL DEF QueueSpec

\* head and tail never leave the array, whatever its length and whatever is
\* pushed (scheduler.H, push and pop).
THEOREM QueueTypeCorrect == QueueSpec => []QueueTypeOK
<1>1. QueueIInv => QueueTypeOK
  BY DEF QueueIInv
<1> QED
  BY <1>1, QueueInvariance, PTL

\* q_size() is the number of threads between head and tail after every call.
THEOREM QueueSizeCorrect == QueueSpec => []SizeCounts
<1>1. QueueIInv => SizeCounts
  BY DEF QueueIInv
<1> QED
  BY <1>1, QueueInvariance, PTL

-----------------------------------------------------------------------------
LEMMA QueueInitRefines == QueueInit => FIFO!Init
<1> SUFFICES ASSUME QueueInit PROVE FIFO!Init
  OBVIOUS
<1>1. queue \in Queue /\ Occupied(queue) = 0
  <2>1. PICK junk \in [Index -> Pointer] : queue = NewQueue(junk)
    BY DEF QueueInit
  <2> QED
    BY <2>1, SlotsAssumption DEF NewQueue, Queue, Index, Occupied
<1>2. Contents(queue) = <<>>
  BY <1>1, ContentsType
<1> QED
  BY <1>2 DEF QueueInit, FIFO!Init

\* Each call of the class is one step of the abstract queue: a push is
\* accepted or refused, a pop takes the oldest thread or finds none.
LEMMA QueueNextRefines == QueueIInv /\ [QueueNext]_ringVars => [FIFO!Next]_(FIFO!vars)
<1> SUFFICES ASSUME QueueIInv, [QueueNext]_ringVars PROVE [FIFO!Next]_(FIFO!vars)
  OBVIOUS
<1>1. queue \in Queue
  BY DEF QueueIInv, QueueTypeOK
<1>2. /\ Contents(queue) \in Seq(Pointer) /\ Len(Contents(queue)) = Occupied(queue)
      /\ Occupied(queue) \in 0 .. Slots - 1
      /\ Occupied(queue) = 0 <=> IsEmpty(queue)
      /\ Occupied(queue) = Slots - 1 <=> IsFull(queue)
  BY <1>1, ContentsType, OccupiedBounds
<1>3. ASSUME NEW t \in Thread, CallPush(t) PROVE FIFO!Next
  <2>1. CASE IsFull(queue)
    <3>1. queue' = queue
      BY <1>3, <2>1 DEF CallPush, Push
    <3> QED
      BY <1>2, <1>3, <2>1, <3>1 DEF CallPush, FIFO!Refuse, FIFO!Next
  <2>2. CASE ~IsFull(queue)
    <3>1. Contents(queue') = Append(Contents(queue), t)
      BY <1>1, <1>3, <2>2, PushAppends DEF CallPush, Pointer
    <3>2. Len(Contents(queue)) < Slots - 1
      BY <1>2, <2>2, SlotsAssumption
    <3>3. FIFO!Accept(t)
      BY <1>3, <2>2, <3>1, <3>2 DEF CallPush, FIFO!Accept
    <3> QED
      BY <3>3 DEF FIFO!Next
  <2> QED
    BY <2>1, <2>2
<1>4. ASSUME CallPop PROVE FIFO!Next
  <2>1. CASE IsEmpty(queue)
    <3>1. queue' = queue /\ popped' = Null /\ pushed' = pushed
      BY <1>4, <2>1 DEF CallPop, Pop, Popped
    <3>2. Contents(queue) = <<>>
      BY <1>2, <2>1
    <3> QED
      BY <3>1, <3>2 DEF FIFO!TakeNothing, FIFO!Next
  <2>2. CASE ~IsEmpty(queue)
    <3>1. /\ Contents(queue) # <<>> /\ Popped(queue) = Head(Contents(queue))
          /\ Contents(queue') = Tail(Contents(queue))
      BY <1>1, <1>4, <2>2, PopTakes DEF CallPop
    <3> QED
      BY <1>4, <3>1 DEF CallPop, FIFO!Take, FIFO!Next
  <2> QED
    BY <2>1, <2>2
<1>5. ASSUME UNCHANGED ringVars PROVE UNCHANGED FIFO!vars
  BY <1>5 DEF ringVars, FIFO!vars
<1> QED
  BY <1>3, <1>4, <1>5 DEF QueueNext

\* The ring buffer of scheduler.H implements a first-in first-out queue of one
\* thread fewer than the array has slots.
THEOREM QueueRefinement == QueueSpec => ImplementsFIFO
<1>1. QueueSpec => FIFO!Init /\ [][FIFO!Next]_(FIFO!vars)
  BY QueueInitRefines, QueueNextRefines, QueueInvariance, PTL DEF QueueSpec
<1> QED
  BY <1>1 DEF ImplementsFIFO, FIFO!Spec

-----------------------------------------------------------------------------
(* The scheduler. *)

LEMMA ActorIsPointer == Actor = Pointer
BY DEF Actor, Pointer

LEMMA TailType ==
    ASSUME NEW S, NEW s \in Seq(S), s # <<>>
    PROVE  Tail(s) \in Seq(S)
OBVIOUS

-----------------------------------------------------------------------------
(* The end-of-interrupt.                                                   *)

\* The frames of handlers, as a set and not as a number.
OneOwes == IF inService THEN \E a \in Actor : handler = {a} ELSE handler = {}

\* A switch that leaves the unanswered interrupt with the one actor of "frames",
\* or lets that actor answer it.
LEMMA SwitchOwes ==
    ASSUME NEW t, NEW frames, NEW service, SwitchTo(t, frames, service),
           IF service THEN \E a \in Actor : frames = {a} ELSE frames = {}
    PROVE  OneOwes'
<1>1. /\ handler' = frames \ {t}
      /\ inService' = (service /\ t \notin frames)
  BY DEF SwitchTo
<1>2. CASE ~service
  <2>1. frames = {}
    BY <1>2
  <2> QED
    BY <1>1, <1>2, <2>1 DEF OneOwes
<1>3. CASE service
  <2>1. PICK a \in Actor : frames = {a}
    BY <1>3
  <2> QED
    BY <1>1, <1>3, <2>1 DEF OneOwes
<1> QED
  BY <1>2, <1>3

LEMMA OwesInit == Init => OneOwes
BY DEF Init, OneOwes

LEMMA OwesNext == TypeOK /\ OneOwes /\ [Next]_vars => OneOwes'
<1> SUFFICES ASSUME TypeOK, OneOwes, [Next]_vars PROVE OneOwes'
  OBVIOUS
<1>1. CASE UNCHANGED <<handler, inService>>
  BY <1>1 DEF OneOwes
<1>2. CASE Dispatch
  <2>1. SwitchTo(item[current], handler, inService)
    BY <1>2 DEF Dispatch
  <2> QED
    BY <2>1, SwitchOwes DEF OneOwes
<1>3. CASE EndOfQuantum
  <2> DEFINE t == Popped(Push(q, current))
  <2>1. /\ ~inService /\ handler = {} /\ current \in Actor
        /\ handler \cup {current} = {current}
    BY <1>3 DEF EndOfQuantum, TimerPending, OneOwes, TypeOK
  <2>2. CASE SwitchTo(t, handler \cup {current}, TRUE)
    BY <2>1, <2>2, SwitchOwes
  <2>3. CASE inService' = TRUE /\ handler' = handler \cup {current}
    BY <2>1, <2>3 DEF OneOwes
  <2> QED
    BY <1>3, <2>2, <2>3 DEF EndOfQuantum
<1>4. CASE ThreadStart
  BY <1>1, <1>4 DEF ThreadStart
<1> QED
  BY <1>1, <1>2, <1>3, <1>4 DEF Next, Kernel, Body, Timer, vars, cpuVars, PushTest,
     PushStore, PushTail, PushSize, PopTest, PopItem, PopHead, PopSize, BootAdd,
     BootDispatch, Delete, PassOnCPU, Return, Tick

-----------------------------------------------------------------------------
(* The types.                                                              *)

\* main only adds threads and dispatches the first, and pushes while there is
\* one left to add.
MainOK == /\ pc[Null] \in {"boot", "dispatch", "abort"} \cup Pushing
          /\ pc[Null] \in Pushing => toAdd # <<>>

IInv == TypeOK /\ MainOK /\ OneOwes

LEMMA InitInv == Init => IInv
<1> SUFFICES ASSUME Init PROVE IInv
  OBVIOUS
<1>1. [i \in Index |-> Null] \in [Index -> Pointer] /\ 0 \in Index
  BY SlotsAssumption DEF Pointer, Index
<1>2. q \in Queue
  BY <1>1 DEF Init, NewQueue, Queue
<1>3. pc \in [Actor -> PC] /\ pc[Null] = "boot"
  BY DEF Init, PC, Actor
<1>4. /\ newTail \in [Actor -> Index] /\ item \in [Actor -> Pointer]
      /\ saved \in [Actor -> BOOLEAN]
  BY <1>1 DEF Init, Pointer
<1>5. toAdd \in Seq(Thread)
  BY ThreadsAssumption DEF Init
<1>6. ticks \in 0 .. Hz - 1
  BY HzAssumption DEF Init
<1>7. TypeOK
  BY <1>2, <1>3, <1>4, <1>5, <1>6 DEF Init, TypeOK, Actor
<1>8. MainOK
  BY <1>3 DEF MainOK, Pushing
<1> QED
  BY <1>7, <1>8, OwesInit DEF IInv

LEMMA GotoType ==
    ASSUME TypeOK, NEW l \in PC, Goto(l)
    PROVE  /\ pc' \in [Actor -> PC]
           /\ pc'[current] = l
           /\ \A a \in Actor \ {current} : pc'[a] = pc[a]
BY DEF TypeOK, Goto

LEMMA SwitchType ==
    ASSUME NEW t \in Actor, NEW frames \in SUBSET Actor, NEW service \in BOOLEAN,
           saved' \in [Actor -> BOOLEAN], SwitchTo(t, frames, service)
    PROVE  /\ current' \in Actor
           /\ handler' \subseteq Actor
           /\ inService' \in BOOLEAN
           /\ iflag' \in BOOLEAN
BY DEF SwitchTo

\* A step that moves only the current actor, to a place where main may be if it
\* is main, keeps the places of main in order.
LEMMA MainStep ==
    ASSUME TypeOK, MainOK, NEW l \in PC, Goto(l), UNCHANGED toAdd,
           current = Null => /\ l \in {"boot", "dispatch", "abort"} \cup Pushing
                             /\ l \in Pushing => toAdd # <<>>
    PROVE  MainOK'
<1>1. Null \in Actor /\ current \in Actor
  BY DEF Actor, TypeOK
<1> QED
  BY <1>1, GotoType DEF MainOK

-----------------------------------------------------------------------------
\* What resume pushes.
LEMMA PushedType ==
    ASSUME TypeOK, MainOK, pc[current] \in Pushing
    PROVE  Pushed \in Pointer /\ (current = Null => toAdd # <<>>)
<1>1. current = Null => toAdd # <<>> /\ toAdd \in Seq(Thread)
  BY DEF TypeOK, MainOK
<1>2. current = Null => Head(toAdd) \in Thread
  BY <1>1
<1> QED
  BY <1>1, <1>2, ActorIsPointer DEF Pushed, TypeOK, Pointer

LEMMA KernelPushInv == 
    ASSUME IInv, PushTest \/ PushStore \/ PushTail \/ PushSize
    PROVE  TypeOK' /\ MainOK'
<1> USE DEF IInv
<1>0. /\ current \in Actor /\ q \in Queue /\ newTail \in [Actor -> Index]
      /\ After(q.tail) \in Index /\ 0 \in Index /\ newTail[current] \in Index
      /\ Null \in Pointer
  <2>1. q.tail \in Index
    BY DEF TypeOK, Queue
  <2> QED
    BY <2>1, AfterIndex, SlotsAssumption DEF TypeOK, Index, Pointer
<1>1. pc[current] \in Pushing
  BY DEF PushTest, PushStore, PushTail, PushSize, At, Pushing
<1>2. Pushed \in Pointer /\ (current = Null => toAdd # <<>>)
  BY <1>1, PushedType
<1>3. CASE PushTest
  <2>1. PICK l \in {"abort", "push_store"} : Goto(l)
    BY <1>3 DEF PushTest
  <2>2. l \in PC
    BY DEF PC, Pushing
  <2>3. newTail' \in [Actor -> Index]
    BY <1>3, <1>0 DEF PushTest
  <2>4. TypeOK'
    BY <1>3, <2>1, <2>2, <2>3, GotoType DEF PushTest, TypeOK, cpuVars
  <2>5. MainOK'
    BY <1>3, <1>2, <2>1, <2>2, MainStep DEF PushTest, Pushing
  <2> QED
    BY <2>4, <2>5
<1>4. CASE PushStore
  <2>1. Goto("push_tail") /\ "push_tail" \in PC
    BY <1>4 DEF PushStore, PC, Pushing
  <2>2. q' \in Queue
    BY <1>4, <1>0, <1>2, StoreTypes DEF PushStore
  <2>3. TypeOK'
    BY <1>4, <2>1, <2>2, GotoType DEF PushStore, TypeOK, cpuVars
  <2>4. MainOK'
    BY <1>4, <1>2, <2>1, MainStep DEF PushStore, Pushing
  <2> QED
    BY <2>3, <2>4
<1>5. CASE PushTail
  <2>1. Goto("push_size") /\ "push_size" \in PC
    BY <1>5 DEF PushTail, PC, Pushing
  <2>2. q' \in Queue
    BY <1>5, <1>0, StoreTypes DEF PushTail
  <2>3. newTail' \in [Actor -> Index]
    BY <1>5, <1>0 DEF PushTail
  <2>4. TypeOK'
    BY <1>5, <2>1, <2>2, <2>3, GotoType DEF PushTail, TypeOK, cpuVars
  <2>5. MainOK'
    BY <1>5, <1>2, <2>1, MainStep DEF PushTail, Pushing
  <2> QED
    BY <2>4, <2>5
<1>6. CASE PushSize
  <2>1. PICK l \in {"boot", "pop_test"} :
            Goto(l) /\ (current = Null => l = "boot")
    BY <1>6 DEF PushSize
  <2>2. l \in PC
    BY DEF PC, Popping
  <2>3. q' \in Queue
    BY <1>6, <1>0, StoreTypes DEF PushSize
  <2>4. toAdd' \in Seq(Thread)
    BY <1>6, <1>2, TailType DEF PushSize, TypeOK
  <2>5. TypeOK'
    BY <1>6, <2>1, <2>2, <2>3, <2>4, GotoType DEF PushSize, TypeOK, cpuVars
  <2>6. MainOK'
    <3>1. CASE current = Null
      <4>1. pc'[Null] = "boot"
        BY <2>1, <2>2, <3>1, GotoType
      <4> QED
        BY <4>1 DEF MainOK, Pushing
    <3>2. CASE current # Null
      <4>1. toAdd' = toAdd
        BY <1>6, <3>2 DEF PushSize
      <4> QED
        BY <2>1, <2>2, <3>2, <4>1, MainStep
    <3> QED
      BY <3>1, <3>2
  <2> QED
    BY <2>5, <2>6
<1> QED
  BY <1>3, <1>4, <1>5, <1>6

\* main never pops by yield: only a thread is at one of the stores of pop.
LEMMA KernelPopInv ==
    ASSUME IInv, PopTest \/ PopItem \/ PopHead \/ PopSize
    PROVE  TypeOK' /\ MainOK'
<1> USE DEF IInv
<1>0. /\ current \in Actor /\ q \in Queue /\ item \in [Actor -> Pointer]
      /\ 0 \in Index /\ Null \in Pointer
  BY SlotsAssumption DEF TypeOK, Index, Pointer
<1>1. current # Null
  BY DEF PopTest, PopItem, PopHead, PopSize, At, MainOK, Pushing
<1>2. CASE PopTest
  <2>1. PICK l \in {"abort", "pop_item"} : Goto(l)
    BY <1>2 DEF PopTest
  <2>2. l \in PC
    BY DEF PC, Popping
  <2>3. TypeOK'
    BY <1>2, <2>1, <2>2, GotoType DEF PopTest, TypeOK, queueVars, cpuVars
  <2>4. MainOK'
    BY <1>1, <1>2, <2>1, <2>2, MainStep DEF PopTest
  <2> QED
    BY <2>3, <2>4
<1>3. CASE PopItem
  <2>1. Goto("pop_head") /\ "pop_head" \in PC
    BY <1>3 DEF PopItem, PC, Popping
  <2>2. FirstItem(q) \in Pointer
    BY <1>0, StoreTypes
  <2>3. item' \in [Actor -> Pointer]
    BY <1>3, <1>0, <2>2 DEF PopItem
  <2>4. TypeOK'
    BY <1>3, <2>1, <2>3, GotoType DEF PopItem, TypeOK, cpuVars
  <2>5. MainOK'
    BY <1>1, <1>3, <2>1, MainStep DEF PopItem
  <2> QED
    BY <2>4, <2>5
<1>4. CASE PopHead
  <2>1. Goto("pop_size") /\ "pop_size" \in PC
    BY <1>4 DEF PopHead, PC, Popping
  <2>2. q' \in Queue
    BY <1>0, <1>4, StoreTypes DEF PopHead
  <2>3. TypeOK'
    BY <1>4, <2>1, <2>2, GotoType DEF PopHead, TypeOK, cpuVars
  <2>4. MainOK'
    BY <1>1, <1>4, <2>1, MainStep DEF PopHead
  <2> QED
    BY <2>3, <2>4
<1>5. CASE PopSize
  <2>1. PICK l \in {"abort", "dispatch"} : Goto(l)
    BY <1>5 DEF PopSize
  <2>2. l \in PC
    BY DEF PC, Popping
  <2>3. q' \in Queue
    BY <1>0, <1>5, StoreTypes DEF PopSize
  <2>4. TypeOK'
    BY <1>5, <2>1, <2>2, <2>3, GotoType DEF PopSize, TypeOK, cpuVars
  <2>5. MainOK'
    BY <1>1, <1>5, <2>1, <2>2, MainStep DEF PopSize
  <2> QED
    BY <2>4, <2>5
<1> QED
  BY <1>2, <1>3, <1>4, <1>5

LEMMA DispatchInv ==
    ASSUME IInv, Dispatch
    PROVE  TypeOK' /\ MainOK'
<1> USE DEF IInv
<1>1. /\ current \in Actor /\ item \in [Actor -> Pointer]
      /\ item[current] \in Actor /\ Null \in Pointer
      /\ handler \in SUBSET Actor /\ inService \in BOOLEAN
  BY ActorIsPointer DEF TypeOK, Pointer
<1>2. saved' \in [Actor -> BOOLEAN]
  BY <1>1 DEF Dispatch, TypeOK
<1>3. /\ current' \in Actor /\ handler' \subseteq Actor
      /\ inService' \in BOOLEAN /\ iflag' \in BOOLEAN
  <2>1. SwitchTo(item[current], handler, inService)
    BY DEF Dispatch
  <2> QED
    BY <1>1, <1>2, <2>1, SwitchType
<1>4. item' \in [Actor -> Pointer]
  BY <1>1 DEF Dispatch
<1>5. toAdd' = toAdd
  BY DEF Dispatch
<1>6. CASE current = Null
  <2>1. pc' = pc
    BY <1>6 DEF Dispatch
  <2>2. TypeOK'
    BY <1>2, <1>3, <1>4, <2>1 DEF Dispatch, TypeOK
  <2> QED
    BY <1>5, <2>1, <2>2 DEF MainOK
<1>7. CASE current # Null
  <2>1. PICK l \in {"wild", "body"} : Goto(l)
    BY <1>7 DEF Dispatch
  <2>2. l \in PC
    BY DEF PC
  <2>3. TypeOK'
    BY <1>2, <1>3, <1>4, <2>1, <2>2, GotoType DEF Dispatch, TypeOK
  <2>4. MainOK'
    BY <1>5, <1>7, <2>1, <2>2, MainStep
  <2> QED
    BY <2>3, <2>4
<1> QED
  BY <1>6, <1>7

\* main's own code, and that of the threads.
LEMMA CodeInv ==
    ASSUME IInv, BootAdd \/ BootDispatch \/ ThreadStart \/ Delete \/ Body
    PROVE  TypeOK' /\ MainOK'
<1> USE DEF IInv
<1>1. CASE BootAdd
  <2>1. Goto("push_test") /\ "push_test" \in PC
    BY <1>1 DEF BootAdd, PC, Pushing
  <2>2. TypeOK'
    BY <1>1, <2>1, GotoType DEF BootAdd, TypeOK, queueVars, cpuVars
  <2>3. MainOK'
    BY <1>1, <2>1, MainStep DEF BootAdd, Pushing
  <2> QED
    BY <2>2, <2>3
<1>2. CASE BootDispatch
  <2>1. Goto("dispatch") /\ "dispatch" \in PC
    BY <1>2 DEF BootDispatch, PC, Popping
  <2>2. item' \in [Actor -> Pointer]
    BY <1>2, ThreadsAssumption DEF BootDispatch, TypeOK, Pointer
  <2>3. TypeOK'
    BY <1>2, <2>1, <2>2, GotoType DEF BootDispatch, TypeOK, cpuVars
  <2>4. MainOK'
    BY <1>2, <2>1, MainStep DEF BootDispatch, Pushing
  <2> QED
    BY <2>3, <2>4
<1>3. CASE ThreadStart
  <2>1. PICK l \in {"abort", "body"} : Goto(l)
    BY <1>3 DEF ThreadStart
  <2>2. l \in PC
    BY DEF PC
  <2>3. current # Null
    BY <1>3 DEF ThreadStart, At, MainOK, Pushing
  <2>4. TypeOK'
    BY <1>3, <2>1, <2>2, GotoType DEF ThreadStart, TypeOK, queueVars
  <2>5. MainOK'
    BY <1>3, <2>1, <2>2, <2>3, MainStep DEF ThreadStart
  <2> QED
    BY <2>4, <2>5
<1>4. CASE Delete
  <2>1. Goto("pop_test") /\ "pop_test" \in PC
    BY <1>4 DEF Delete, PC, Popping
  <2>2. current # Null
    BY <1>4 DEF Delete, At, MainOK, Pushing
  <2>3. deleted' \subseteq Thread
    BY <1>4, <2>2 DEF Delete, TypeOK, Actor
  <2>4. TypeOK'
    BY <1>4, <2>1, <2>3, GotoType DEF Delete, TypeOK, queueVars, cpuVars
  <2>5. MainOK'
    BY <1>4, <2>1, <2>2, MainStep DEF Delete
  <2> QED
    BY <2>4, <2>5
<1>5. CASE Body
  <2>1. PICK l \in {"push_test", "delete"} : Goto(l)
    BY <1>5 DEF Body, PassOnCPU, Return
  <2>2. l \in PC
    BY DEF PC, Pushing
  <2>3. /\ current # Null
        /\ UNCHANGED <<queueVars, cpuVars, toAdd, deleted, ticks>>
    BY <1>5 DEF Body, PassOnCPU, Return, At, MainOK, Pushing
  <2>4. TypeOK'
    BY <2>1, <2>2, <2>3, GotoType DEF TypeOK, queueVars, cpuVars
  <2>5. MainOK'
    BY <2>1, <2>2, <2>3, MainStep
  <2> QED
    BY <2>4, <2>5
<1> QED
  BY <1>1, <1>2, <1>3, <1>4, <1>5

LEMMA EndOfQuantumInv ==
    ASSUME IInv, EndOfQuantum
    PROVE  TypeOK' /\ MainOK'
<1> USE DEF IInv
<1> DEFINE p == Push(q, current)
           t == Popped(p)
<1>1. /\ current \in Actor /\ current \in Pointer /\ q \in Queue
      /\ handler \cup {current} \in SUBSET Actor
  BY ActorIsPointer DEF TypeOK
<1>2. p \in Queue
  BY <1>1, PushMembers DEF Push
<1>3. Pop(p) \in Queue /\ t \in Actor
  <2>1. CASE IsEmpty(p)
    BY <1>2, <2>1 DEF Pop, Popped, Actor
  <2>2. CASE ~IsEmpty(p)
    BY <1>2, <2>2, PopMembers, ActorIsPointer
  <2> QED
    BY <2>1, <2>2
<1>4. q' \in Queue
  BY <1>1, <1>3 DEF EndOfQuantum
<1>5. ticks' \in 0 .. Hz - 1
  BY HzAssumption DEF EndOfQuantum
<1>6. UNCHANGED <<newTail, item, toAdd, deleted, saved>>
  BY DEF EndOfQuantum
<1> HIDE DEF p, t
<1>7. CASE Goto("abort") /\ iflag' = FALSE /\ inService' = TRUE
           /\ handler' = handler \cup {current} /\ UNCHANGED current
  <2>1. "abort" \in PC
    BY DEF PC
  <2>2. TypeOK'
    BY <1>1, <1>4, <1>5, <1>6, <1>7, <2>1, GotoType DEF TypeOK
  <2>3. MainOK'
    BY <1>6, <1>7, <2>1, MainStep DEF Pushing
  <2> QED
    BY <2>2, <2>3
<1>8. CASE UNCHANGED pc /\ SwitchTo(t, handler \cup {current}, TRUE)
  <2>1. saved' \in [Actor -> BOOLEAN]
    BY <1>6 DEF TypeOK
  <2>2. /\ current' \in Actor /\ handler' \subseteq Actor
        /\ inService' \in BOOLEAN /\ iflag' \in BOOLEAN
    BY <1>1, <1>3, <1>8, <2>1, SwitchType
  <2>3. TypeOK'
    BY <1>4, <1>5, <1>6, <1>8, <2>2 DEF TypeOK
  <2> QED
    BY <1>6, <1>8, <2>3 DEF MainOK
<1> QED
  BY <1>7, <1>8 DEF EndOfQuantum, p, t

LEMMA NextInv == IInv /\ [Next]_vars => IInv'
<1> SUFFICES ASSUME IInv, [Next]_vars PROVE TypeOK' /\ MainOK'
  BY OwesNext DEF IInv
<1>1. CASE Tick
  <2>1. ticks' \in 0 .. Hz - 1
    BY <1>1, HzAssumption DEF Tick, IInv, TypeOK
  <2> QED
    BY <1>1, <2>1 DEF Tick, IInv, TypeOK, MainOK, queueVars, cpuVars
<1>2. CASE UNCHANGED vars
  BY <1>2 DEF vars, IInv, TypeOK, MainOK, queueVars, cpuVars
<1> QED
  BY <1>1, <1>2, KernelPushInv, KernelPopInv, DispatchInv, CodeInv, EndOfQuantumInv
     DEF Next, Kernel, Timer

LEMMA Invariance == Spec => []IInv
BY InitInv, NextInv, PTL DEF Spec

\* Whatever the timer interrupts, the ready queue's indices, the locals and the
\* interrupt state keep their types: for any number of threads, any length of
\* the array and of a quantum, and any set of places where a quantum may end.
THEOREM TypeCorrect == Spec => []TypeOK
<1>1. IInv => TypeOK
  BY DEF IInv
<1> QED
  BY <1>1, Invariance, PTL

\* Between the handler of simple_timer.C and dispatch_interrupt: at most one
\* actor has the frame of an unanswered timer interrupt on its stack, and one
\* has it exactly while the interrupt controller holds the timer back.
THEOREM EoiCorrect == Spec => []EoiOwed
<1>1. OneOwes => EoiOwed
  BY FS_EmptySet, FS_Singleton DEF OneOwes, EoiOwed
<1>2. IInv => EoiOwed
  BY <1>1 DEF IInv
<1> QED
  BY <1>2, Invariance, PTL

-----------------------------------------------------------------------------
(* The interrupt flag.                                                     *)

\* A context saved outside a handler has the interrupts on, or is that of a
\* thread that has not started; a handler whose actor has the CPU is stuck.
MaskOK ==
    /\ MaskedOnlyToStart
    /\ \A t \in Thread \ {current} : t \notin handler => saved[t] = (pc[t] # "start")
    /\ \A t \in Thread : pc[t] = "start" => t \notin handler
    /\ \A a \in Thread \cup {current} : pc[a] = "dispatch" => item[a] \in Thread
    /\ current \in handler => pc[current] = "abort"

LEMMA MaskInit == Init => MaskOK
<1> SUFFICES ASSUME Init PROVE MaskOK
  OBVIOUS
<1>1. /\ current = Null /\ iflag /\ handler = {} /\ Null \notin Thread
      /\ pc[Null] = "boot"
      /\ \A t \in Thread : pc[t] = "start" /\ ~saved[t] /\ saved[t] \in BOOLEAN
  BY ThreadsAssumption DEF Init, Actor
<1> QED
  BY <1>1 DEF MaskOK, MaskedOnlyToStart, At

\* The CPU goes to a thread t: to its handler, which turns the interrupts on
\* when it returns, or to where t left the scheduler or starts.
LEMMA SwitchMask ==
    ASSUME IInv, IInv', MaskOK, NEW t \in Thread, NEW frames, NEW service,
           SwitchTo(t, frames, service), handler \subseteq frames,
           iflag, frames \subseteq handler \cup {current},
           item' = [item EXCEPT ![current] = Null] \/ item' = item,
           \A a \in Actor \ {current} : pc'[a] = pc[a] /\ saved'[a] = saved[a],
           pc'[current] # "start",
           current \in frames \/ saved'[current] \/ current = Null,
           pc'[current] # "dispatch" \/ current = Null \/ item'[current] \in Thread
    PROVE  MaskOK'
<1>1. /\ current' = t /\ handler' = frames \ {t}
      /\ iflag' = (t \in frames \/ saved'[t]) /\ iflag' \in BOOLEAN
      /\ t # Null /\ Thread \subseteq Actor /\ current \in Actor
      /\ item \in [Actor -> Pointer] /\ saved' \in [Actor -> BOOLEAN]
  BY ThreadsAssumption DEF SwitchTo, IInv, TypeOK, Actor
<1>2. \A a \in Thread : pc'[a] = "dispatch" => item'[a] \in Thread
  <2>1. \A a \in Thread \ {current} : item'[a] = item[a] /\ pc'[a] = pc[a]
    BY <1>1
  <2> QED
    BY <1>1, <2>1, ThreadsAssumption DEF MaskOK
<1>3. \A a \in Thread : pc'[a] = "start" => a # current /\ a \notin frames
  BY <1>1 DEF MaskOK
<1>4. \A a \in Thread : a \notin frames => saved'[a] = (pc'[a] # "start")
  BY <1>1, ThreadsAssumption DEF MaskOK
<1>5. MaskedOnlyToStart'
  BY <1>1, <1>3, <1>4 DEF MaskedOnlyToStart, At
<1> QED
  BY <1>1, <1>2, <1>3, <1>4, <1>5 DEF MaskOK

LEMMA MaskNext == IInv /\ IInv' /\ MaskOK /\ [Next]_vars => MaskOK'
<1> SUFFICES ASSUME IInv, IInv', MaskOK, [Next]_vars PROVE MaskOK'
  OBVIOUS
<1>0. /\ current \in Actor /\ pc \in [Actor -> PC] /\ item \in [Actor -> Pointer]
      /\ Null \notin Thread /\ Thread \subseteq Actor /\ iflag \in BOOLEAN
      /\ Actor \ {Null} = Thread
      /\ saved \in [Actor -> BOOLEAN] /\ saved' \in [Actor -> BOOLEAN]
  BY ThreadsAssumption DEF IInv, TypeOK, Actor
\* A step of the code outside a handler, that leaves flag and contexts alone.
<1>s. ASSUME NEW l \in PC \ {"start"}, Goto(l), UNCHANGED cpuVars, ~At("abort"),
             ~At("start"),
             l = "dispatch" => item'[current] \in Thread,
             \A a \in Actor \ {current} : item'[a] = item[a]
      PROVE  MaskOK'
  <2>1. pc'[current] = l /\ \A a \in Actor \ {current} : pc'[a] = pc[a]
    BY <1>s, GotoType DEF IInv
  <2>2. current \notin handler /\ iflag
    BY <1>0, <1>s DEF MaskOK, MaskedOnlyToStart, At
  <2> QED
    BY <1>0, <1>s, <2>1, <2>2 DEF MaskOK, MaskedOnlyToStart, At, cpuVars
<1>1. CASE PushTest \/ PushStore \/ PushTail \/ PushSize \/ PopTest \/ PopItem
           \/ PopHead \/ PopSize \/ BootAdd \/ BootDispatch \/ Delete \/ Body
  <2>1. /\ UNCHANGED cpuVars /\ ~At("abort") /\ ~At("start")
        /\ \A a \in Actor \ {current} : item'[a] = item[a]
    BY <1>0, <1>1 DEF PushTest, PushStore, PushTail, PushSize, PopTest, PopItem,
       PopHead, PopSize, BootAdd, BootDispatch, Delete, Body, PassOnCPU, Return,
       queueVars, At
  <2>2. PICK l \in PC \ {"start"} : Goto(l) /\ (l = "dispatch" => item'[current] \in Thread)
    <3>1. CASE BootDispatch
      <4>1. Goto("dispatch") /\ item'[current] = First
        BY <1>0, <3>1 DEF BootDispatch
      <4> QED
        BY <4>1, ThreadsAssumption DEF PC, Popping
    <3>2. CASE PopSize
      <4>1. CASE item[current] = Null
        BY <3>2, <4>1 DEF PopSize, PC
      <4>2. CASE item[current] # Null
        <5>1. Goto("dispatch") /\ item' = item
          BY <3>2, <4>2 DEF PopSize
        <5> QED
          BY <1>0, <4>2, <5>1 DEF PC, Popping, Pointer
      <4> QED
        BY <4>1, <4>2
    <3>3. CASE ~BootDispatch /\ ~PopSize
      <4>1. PICK l \in {"abort", "push_store", "push_tail", "push_size", "boot",
                        "pop_test", "pop_item", "pop_head", "pop_size",
                        "push_test", "delete"} : Goto(l)
        BY <1>1, <3>3 DEF PushTest, PushStore, PushTail, PushSize, PopTest, PopItem,
           PopHead, BootAdd, Delete, Body, PassOnCPU, Return
      <4> QED
        BY <4>1 DEF PC, Pushing, Popping
    <3> QED
      BY <3>1, <3>2, <3>3
  <2> QED
    BY <1>s, <2>1, <2>2
<1>2. CASE ThreadStart
  <2>1. ~iflag /\ current \notin handler /\ current \in Thread
    BY <1>0, <1>2 DEF ThreadStart, MaskOK, MaskedOnlyToStart, At, IInv, MainOK, Pushing
  <2>2. /\ iflag' = TRUE /\ Goto("body") /\ "body" \in PC
        /\ UNCHANGED <<queueVars, current, saved, handler>>
    BY <1>2, <2>1 DEF ThreadStart, PC
  <2>3. pc'[current] = "body" /\ \A a \in Actor \ {current} : pc'[a] = pc[a]
    BY <2>2, GotoType DEF IInv
  <2> QED
    BY <1>0, <2>1, <2>2, <2>3 DEF MaskOK, MaskedOnlyToStart, At, queueVars
<1>3. CASE Dispatch
  <2>1. /\ pc[current] = "dispatch" /\ item[current] \in Thread /\ iflag
        /\ SwitchTo(item[current], handler, inService)
        /\ item' = [item EXCEPT ![current] = Null]
    BY <1>0, <1>3 DEF Dispatch, At, MaskOK, MaskedOnlyToStart
  <2>2. \A a \in Actor \ {current} : pc'[a] = pc[a] /\ saved'[a] = saved[a]
    BY <1>0, <1>3 DEF Dispatch, Goto
  <2>3. /\ pc'[current] # "start"
        /\ saved'[current] \/ current = Null
        /\ pc'[current] # "dispatch" \/ current = Null
    BY <1>0, <1>3, <2>1 DEF Dispatch, Goto
  <2> QED
    BY <2>1, <2>2, <2>3, SwitchMask
<1>4. CASE EndOfQuantum
  <2> DEFINE t == Popped(Push(q, current))
  <2>1. iflag /\ ~At("start") /\ UNCHANGED <<item, saved>>
    BY <1>0, <1>4 DEF EndOfQuantum, TimerPending, MaskOK, MaskedOnlyToStart
  <2>2. CASE /\ Goto("abort") /\ iflag' = FALSE
             /\ handler' = handler \cup {current} /\ UNCHANGED current
    <3>1. pc'[current] = "abort" /\ \A a \in Actor \ {current} : pc'[a] = pc[a]
      BY <2>2, GotoType DEF IInv, PC
    <3> QED
      BY <1>0, <2>1, <2>2, <3>1 DEF MaskOK, MaskedOnlyToStart, At
  <2>3. CASE t # Null /\ UNCHANGED pc /\ SwitchTo(t, handler \cup {current}, TRUE)
    <3>1. t \in Thread
      <4>1. current' = t /\ current' \in Actor
        BY <2>3 DEF SwitchTo, IInv, TypeOK
      <4> QED
        BY <1>0, <2>3, <4>1
    <3>2. pc[current] # "dispatch" \/ item[current] \in Thread
      BY DEF MaskOK
    <3> HIDE DEF t
    <3> QED
      BY <2>1, <2>3, <3>1, <3>2, SwitchMask DEF At
  <2> QED
    BY <1>4, <2>2, <2>3 DEF EndOfQuantum
<1>5. CASE Tick \/ UNCHANGED vars
  BY <1>5 DEF Tick, vars, queueVars, cpuVars, MaskOK, MaskedOnlyToStart, At
<1> QED
  BY <1>1, <1>2, <1>3, <1>4, <1>5 DEF Next, Kernel, Timer

\* Wherever quanta may end, scheduler and start-up code included, the interrupts
\* are off only while a thread starts or when an assertion failed in the timer
\* handler: every switch to a thread that has started (threads_low_switch_to, or
\* the iret of its handler) turns them on, and enable_interrupts of thread_start
\* never fails its assertion.
THEOREM MaskedCorrect == Spec => []MaskedOnlyToStart
<1>1. MaskOK => MaskedOnlyToStart
  BY DEF MaskOK
<1> QED
  BY <1>1, MaskInit, MaskNext, Invariance, PTL DEF Spec

-----------------------------------------------------------------------------
(* Until a quantum ends where it does harm.                                *)
(*                                                                         *)
(* As long as no quantum has ended in the start-up code, in resume or in   *)
(* yield, the queue and the locals stand for one sequence, ready, whatever *)
(* place the thread on the CPU has reached.  Preemptible may be any set:   *)
(* the theorems say what holds up to the first such end of a quantum.      *)

Holds(s, t) == \E i \in 1 .. Len(s) : s[i] = t

Distinct(s) == \A i, j \in 1 .. Len(s) : i # j => s[i] # s[j]

\* As in kernel.C: main adds no thread twice, the array has room for all, and
\* some thread never returns.
KernelSetup == /\ Distinct(Added)
               /\ Len(Added) + 2 <= Slots
               /\ \E t \in Thread \ Terminating : t = First \/ Holds(Added, t)

\* Where a thread can be that waits: it has begun no store of the scheduler.
Resting == {"start", "body", "delete", "push_test"}

\* The current thread is in the queue, or has been taken out and not put back,
\* and still runs.
Inside == current # Null /\ pc[current] \in Popping \cup {"push_size"}

\* The queue with the thread that has been taken out of it.
Line == IF Inside /\ pc[current] \in {"pop_size", "dispatch"}
        THEN <<item[current]>> \o Contents(q) ELSE Contents(q)

Stands(s) == Line = IF Inside /\ current \notin deleted THEN Append(s, current) ELSE s

\* A thread that waits is not the current one nor deleted, it waits once, and it
\* has begun no store; a thread that never returns is there to be run.
Waits(s) ==
    /\ s \in Seq(Thread) /\ Len(s) <= Len(Added) /\ Distinct(s)
    /\ \A i \in 1 .. Len(s) : /\ s[i] # current /\ s[i] \notin deleted
                              /\ pc[s[i]] \in Resting
    /\ \E t \in Thread \ Terminating : t = current \/ Holds(s, t)

RunOK == current # Null => Waits(ready) /\ Stands(ready)

\* main: what it has added and what is left to add are the threads of Added.
Rest == IF pc[Null] = "push_size" THEN Tail(toAdd) ELSE toAdd

BootOK == current = Null =>
    /\ deleted = {} /\ handler = {} /\ ~inService
    /\ \A t \in Thread : pc[t] = "start" /\ ~saved[t]
    /\ Contents(q) \o Rest = Added
    /\ pc[Null] = "dispatch" => item[Null] = First /\ toAdd = <<>>

\* What the locals of push and pop are good for, at each of the stores.
PlacesOK ==
    /\ \A a \in Actor : pc[a] # "abort"
    /\ pc[current] # "wild"
    /\ pc[current] = "boot" => current = Null
    /\ pc[current] \in {"push_store", "push_tail"} =>
           newTail[current] = After(q.tail) /\ ~IsFull(q)
    /\ pc[current] = "push_tail" => q.buffer[q.tail] = Pushed
    /\ pc[current] \in {"pop_item", "pop_head"} => ~IsEmpty(q)
    /\ pc[current] = "pop_head" => item[current] = FirstItem(q)
    /\ current \in deleted => pc[current] \in Popping

\* A thread that has not started is dispatched with interrupts off.
StartOK == \A t \in Thread : pc[t] = "start" =>
    ~saved[t] /\ t \notin handler /\ (current = t => ~iflag)

\* Only a thread whose function may return comes to its end.
EndOK == \A t \in Thread : pc[t] = "delete" \/ t \in deleted => t \in Terminating

TurnInv == RunOK /\ BootOK /\ PlacesOK /\ StartOK /\ EndOK

-----------------------------------------------------------------------------
LEMMA FrontOfAppend ==
    ASSUME NEW s \in Seq(Thread), NEW x \in Thread
    PROVE  SubSeq(Append(s, x), 1, Len(Append(s, x)) - 1) = s
<1>1. Len(s) \in Nat
  OBVIOUS
<1> QED
  BY <1>1

\* ready is the only sequence the queue and the locals stand for.
LEMMA StandsIsReady ==
    ASSUME current \in Actor, NEW s \in Seq(Thread), Stands(s)
    PROVE  ready = s
BY FrontOfAppend DEF Stands, Line, Inside, ready, Actor

LEMMA InitTurn == Init => TurnInv /\ RR!Init
<1> SUFFICES ASSUME Init PROVE TurnInv /\ RR!Init
  OBVIOUS
<1>1. /\ current = Null /\ pc[Null] = "boot" /\ toAdd = Added /\ Null \notin Thread
      /\ \A t \in Thread : pc[t] = "start" /\ ~saved[t]
  BY ThreadsAssumption DEF Init, Actor
<1>2. Contents(q) = <<>>
  <2>1. q \in Queue
    BY InitInv DEF IInv, TypeOK
  <2>2. IsEmpty(q)
    BY DEF Init, NewQueue, IsEmpty
  <2> QED
    BY <2>1, <2>2, EmptyContents
<1>3. RunOK /\ StartOK /\ EndOK
  BY <1>1 DEF RunOK, StartOK, EndOK, Init
<1>4. BootOK
  <2>1. <<>> \o Added = Added
    BY ThreadsAssumption
  <2> QED
    BY <1>1, <1>2, <2>1 DEF BootOK, Rest, Init
<1>5. PlacesOK
  BY <1>1 DEF PlacesOK, Init, Actor
<1>6. RR!Init
  BY <1>1, <1>2 DEF RR!Init, ready
<1> QED
  BY <1>3, <1>4, <1>5, <1>6 DEF TurnInv

\* What the invariant says of the queue of a running thread.
LEMMA RunFacts ==
    ASSUME KernelSetup, IInv, TurnInv, current \in Thread
    PROVE  /\ Waits(ready) /\ Stands(ready) /\ ready \in Seq(Thread)
           /\ q \in Queue /\ Contents(q) \in Seq(Pointer)
           /\ ~Inside => Contents(q) = ready /\ ~IsFull(q)
           /\ current \in deleted => Line = ready /\ ready # <<>>
           /\ Inside /\ current \notin deleted => Line = Append(ready, current)
<1>1. Waits(ready) /\ Stands(ready) /\ ready \in Seq(Thread)
  BY ThreadsAssumption DEF TurnInv, RunOK, Waits
<1>2. q \in Queue /\ Contents(q) \in Seq(Pointer) /\ Len(Contents(q)) = Occupied(q)
  BY ContentsType DEF IInv, TypeOK
<1>3. ASSUME ~Inside PROVE Contents(q) = ready /\ ~IsFull(q)
  <2>1. Contents(q) = ready
    BY <1>1, <1>3 DEF Stands, Line
  <2>2. Occupied(q) <= Len(Added) /\ Occupied(q) \in Nat /\ Len(Added) \in Nat
    BY <1>1, <1>2, <2>1, ThreadsAssumption DEF Waits
  <2>3. Occupied(q) # Slots - 1
    BY <2>2, SlotsAssumption DEF KernelSetup
  <2> QED
    BY <1>2, <2>1, <2>3, OccupiedBounds
<1>4. ASSUME current \in deleted PROVE Line = ready /\ ready # <<>>
  <2>1. current \in Terminating
    BY <1>4 DEF TurnInv, EndOK
  <2>2. PICK t \in Thread \ Terminating : Holds(ready, t)
    BY <1>1, <2>1 DEF Waits
  <2> QED
    BY <1>1, <1>4, <2>2 DEF Stands, Holds
<1> QED
  BY <1>1, <1>2, <1>3, <1>4 DEF Stands

-----------------------------------------------------------------------------
(* A switch: the first of a sequence a runs, the rest waits.               *)

LEMMA RestOfDistinct ==
    ASSUME NEW a \in Seq(Thread), a # <<>>, Distinct(a)
    PROVE  /\ Head(a) \in Thread /\ Tail(a) \in Seq(Thread)
           /\ Len(Tail(a)) = Len(a) - 1 /\ Distinct(Tail(a))
           /\ Head(a) = a[1] /\ 1 \in 1 .. Len(a)
           /\ \A i \in 1 .. Len(Tail(a)) : /\ i + 1 \in 1 .. Len(a)
                                           /\ Tail(a)[i] = a[i + 1]
                                           /\ Tail(a)[i] # Head(a)
           /\ \A t : Holds(a, t) <=> t = Head(a) \/ Holds(Tail(a), t)
<1>1. Len(a) \in Nat /\ Len(a) >= 1
  OBVIOUS
<1>2. /\ Head(a) \in Thread /\ Tail(a) \in Seq(Thread)
      /\ Len(Tail(a)) = Len(a) - 1 /\ Head(a) = a[1] /\ 1 \in 1 .. Len(a)
  BY <1>1
<1>3. \A i \in 1 .. Len(Tail(a)) : i + 1 \in 1 .. Len(a) /\ Tail(a)[i] = a[i + 1]
  BY <1>1, <1>2
<1>4. \A i \in 1 .. Len(Tail(a)) : Tail(a)[i] # Head(a)
  BY <1>1, <1>2, <1>3 DEF Distinct
<1>5. Distinct(Tail(a))
  BY <1>1, <1>2, <1>3 DEF Distinct
<1>6. ASSUME NEW t, Holds(a, t) PROVE t = Head(a) \/ Holds(Tail(a), t)
  <2>1. PICK i \in 1 .. Len(a) : a[i] = t
    BY <1>6 DEF Holds
  <2>2. CASE i = 1
    BY <1>2, <2>1, <2>2
  <2>3. CASE i # 1
    <3>1. i - 1 \in 1 .. Len(Tail(a)) /\ (i - 1) + 1 = i
      BY <1>1, <1>2, <2>1, <2>3
    <3> QED
      BY <1>3, <2>1, <3>1 DEF Holds
  <2> QED
    BY <2>2, <2>3
<1>7. ASSUME NEW t, t = Head(a) \/ Holds(Tail(a), t) PROVE Holds(a, t)
  BY <1>2, <1>3, <1>7 DEF Holds
<1> QED
  BY <1>2, <1>3, <1>4, <1>5, <1>6, <1>7

LEMMA SwitchTurn ==
    ASSUME KernelSetup, IInv, TypeOK', TurnInv,
           NEW a \in Seq(Thread), a # <<>>, Len(a) <= Len(Added) + 1, Distinct(a),
           \A i \in 1 .. Len(a) : a[i] \notin deleted /\ pc'[a[i]] \in Resting,
           \E t \in Thread \ Terminating : Holds(a, t),
           NEW frames, NEW service, SwitchTo(Head(a), frames, service),
           frames \subseteq handler \cup {current},
           deleted' = deleted,
           \A t \in Thread \ {current} : saved'[t] = saved[t] /\ pc'[t] = pc[t],
           pc'[Null] # "abort",
           current \in Thread => /\ pc'[current] \notin {"start", "abort"}
                                 /\ pc'[current] = "delete" => current \in Terminating,
           Contents(q') = Tail(a)
    PROVE  TurnInv' /\ current' = Head(a) /\ ready' = Tail(a)
<1>1. /\ Head(a) \in Thread /\ Tail(a) \in Seq(Thread)
      /\ Len(Tail(a)) = Len(a) - 1 /\ Distinct(Tail(a))
      /\ Head(a) = a[1] /\ 1 \in 1 .. Len(a)
      /\ \A i \in 1 .. Len(Tail(a)) : /\ i + 1 \in 1 .. Len(a)
                                      /\ Tail(a)[i] = a[i + 1]
                                      /\ Tail(a)[i] # Head(a)
      /\ \A t : Holds(a, t) <=> t = Head(a) \/ Holds(Tail(a), t)
  BY RestOfDistinct
<1>2. /\ current' = Head(a) /\ current' \in Thread /\ current' # Null
      /\ pc'[current'] \in Resting /\ current' \notin deleted'
      /\ handler' \subseteq handler \cup {current}
      /\ iflag' = (current' \in frames \/ saved'[current'])
  BY <1>1, ThreadsAssumption DEF SwitchTo
<1>3. ~Inside'
  BY <1>2 DEF Inside, Popping, Resting
<1>4. Line' = Tail(a)
  BY <1>3 DEF Line
<1>5. Stands(Tail(a))'
  BY <1>3, <1>4 DEF Stands
<1>6. ready' = Tail(a)
  BY <1>1, <1>2, <1>5, StandsIsReady DEF ready, Line, Inside, Popping, Resting
<1>7. Waits(Tail(a))'
  <2>1. Len(Tail(a)) <= Len(Added)
    BY <1>1, ThreadsAssumption
  <2>2. \A i \in 1 .. Len(Tail(a)) : /\ Tail(a)[i] # current'
                                     /\ Tail(a)[i] \notin deleted'
                                     /\ pc'[Tail(a)[i]] \in Resting
    BY <1>1, <1>2
  <2>3. \E t \in Thread \ Terminating : t = current' \/ Holds(Tail(a), t)
    BY <1>1, <1>2
  <2> QED
    BY <1>1, <2>1, <2>2, <2>3 DEF Waits
<1>8. RunOK'
  BY <1>5, <1>6, <1>7 DEF RunOK
<1>9. BootOK'
  BY <1>2 DEF BootOK
<1>10. StartOK'
  <2> SUFFICES ASSUME NEW t \in Thread, pc'[t] = "start"
               PROVE  ~saved'[t] /\ t \notin handler' /\ (current' = t => ~iflag')
    BY DEF StartOK
  <2>1. t # current /\ pc[t] = "start" /\ saved'[t] = saved[t]
    OBVIOUS
  <2>2. ~saved[t] /\ t \notin handler
    BY <2>1 DEF TurnInv, StartOK
  <2> QED
    BY <1>2, <2>1, <2>2
<1>11. PlacesOK'
  <2>1. \A b \in Actor : pc'[b] # "abort"
    BY DEF Actor, TurnInv, PlacesOK
  <2> QED
    BY <1>2, <2>1 DEF PlacesOK, Resting
<1>12. EndOK'
  BY DEF TurnInv, EndOK
<1> QED
  BY <1>2, <1>6, <1>8, <1>9, <1>10, <1>11, <1>12 DEF TurnInv

-----------------------------------------------------------------------------
(* A step without a switch.                                                *)

\* By a thread: the queue and the locals still stand for the same sequence.
LEMMA StayTurn ==
    ASSUME KernelSetup, IInv, TurnInv, current \in Thread, current' = current,
           saved' = saved, handler' = handler,
           NEW l \in PC \ {"start", "abort"}, Goto(l),
           deleted \subseteq deleted', deleted' \subseteq deleted \cup {current},
           l = "delete" \/ current \in deleted' => current \in Terminating,
           Line' = IF Inside' /\ current \notin deleted'
                   THEN Append(ready, current) ELSE ready,
           PlacesOK'
    PROVE  TurnInv' /\ ready' = ready
<1>1. /\ Waits(ready) /\ ready \in Seq(Thread) /\ current # Null /\ current \in Actor
      /\ pc'[current] = l
      /\ \A b \in Actor \ {current} : pc'[b] = pc[b]
  BY RunFacts, GotoType, ThreadsAssumption DEF Actor, IInv
<1>2. PICK s \in Seq(Thread) : s = ready
  BY <1>1
<1>3. Stands(s)'
  BY <1>2 DEF Stands
<1>4. ready' = s
  <2>1. current' \in Actor
    BY <1>1
  <2> QED
    BY <1>3, <2>1, StandsIsReady, FrontOfAppend
       DEF ready, Stands, Line, Inside, Actor
<1>5. Waits(s)'
  <2>1. \A i \in 1 .. Len(s) : /\ s[i] \in Thread /\ s[i] # current
                               /\ s[i] \notin deleted
                               /\ pc[s[i]] \in Resting
    BY <1>1, <1>2 DEF Waits
  <2>2. \A i \in 1 .. Len(s) : s[i] \notin deleted' /\ pc'[s[i]] = pc[s[i]]
    BY <1>1, <2>1 DEF Actor
  <2> QED
    BY <1>1, <1>2, <2>1, <2>2 DEF Waits
<1>6. RunOK'
  BY <1>3, <1>4, <1>5 DEF RunOK
<1>7. BootOK'
  BY <1>1 DEF BootOK
<1>8. StartOK'
  BY <1>1 DEF TurnInv, StartOK, Actor
<1>9. EndOK'
  BY <1>1 DEF TurnInv, EndOK, Actor
<1> QED
  BY <1>2, <1>4, <1>6, <1>7, <1>8, <1>9 DEF TurnInv

\* By main, which adds its threads one after the other.
LEMMA BootTurn ==
    ASSUME IInv, TurnInv, current = Null, UNCHANGED <<cpuVars, deleted>>,
           NEW l \in PC \ {"start", "abort"}, Goto(l),
           Contents(q') \o Rest' = Added,
           l = "dispatch" => item'[Null] = First /\ toAdd' = <<>>,
           PlacesOK'
    PROVE  TurnInv' /\ ready = Contents(q) /\ ready' = Contents(q')
<1>1. /\ current' = Null /\ Null \notin Thread /\ pc'[Null] = l
      /\ \A t \in Thread : pc'[t] = pc[t]
      /\ handler' = handler /\ inService' = inService /\ saved' = saved
      /\ deleted' = deleted
  BY GotoType, ThreadsAssumption DEF cpuVars, IInv, Actor
<1>2. ready = Contents(q) /\ ready' = Contents(q')
  BY <1>1 DEF ready
<1>3. RunOK'
  BY <1>1 DEF RunOK
<1>4. BootOK'
  BY <1>1 DEF TurnInv, BootOK
<1>5. StartOK'
  BY <1>1 DEF TurnInv, StartOK
<1>6. EndOK'
  BY <1>1 DEF TurnInv, EndOK
<1> QED
  BY <1>2, <1>3, <1>4, <1>5, <1>6 DEF TurnInv

LEMMA MoveOne ==
    ASSUME NEW s \in Seq(Pointer), NEW r \in Seq(Thread), r # <<>>
    PROVE  Append(s, Head(r)) \o Tail(r) = s \o r
<1>1. Head(r) \in Pointer /\ Tail(r) \in Seq(Thread) /\ Len(Tail(r)) = Len(r) - 1
  BY DEF Pointer
<1>2. /\ Append(s, Head(r)) \in Seq(Pointer)
      /\ Len(Append(s, Head(r))) = Len(s) + 1
      /\ Len(s) \in Nat /\ Len(r) \in Nat /\ Len(r) >= 1
  BY <1>1
<1>3. Thread \subseteq Pointer
  BY DEF Pointer
<1>4. Len(Append(s, Head(r)) \o Tail(r)) = Len(s \o r)
  BY <1>1, <1>2
<1>5. ASSUME NEW i \in 1 .. Len(s) + Len(r)
      PROVE  (Append(s, Head(r)) \o Tail(r))[i] = (s \o r)[i]
  <2>1. CASE i <= Len(s)
    BY <1>1, <1>2, <2>1
  <2>2. CASE i = Len(s) + 1
    BY <1>1, <1>2, <2>2
  <2>3. CASE i > Len(s) + 1
    <3>1. (s \o r)[i] = r[i - Len(s)]
      BY <1>2, <2>3
    <3>2. (Append(s, Head(r)) \o Tail(r))[i] = Tail(r)[i - (Len(s) + 1)]
      BY <1>1, <1>2, <2>3
    <3>3. Tail(r)[i - (Len(s) + 1)] = r[i - (Len(s) + 1) + 1]
      BY <1>1, <1>2, <2>3
    <3> QED
      BY <1>2, <3>1, <3>2, <3>3
  <2> QED
    BY <1>2, <2>1, <2>2, <2>3
<1> QED
  BY <1>1, <1>2, <1>3, <1>4, <1>5

-----------------------------------------------------------------------------
(* The steps of resume.                                                    *)

\* While main adds a thread the array is not full: this one is still missing.
LEMMA BootRoom ==
    ASSUME KernelSetup, IInv, TurnInv, current = Null, pc[Null] \in Pushing \ {"push_size"}
    PROVE  /\ toAdd # <<>> /\ toAdd \in Seq(Thread) /\ ~IsFull(q)
           /\ Contents(q) \o toAdd = Added /\ Contents(q) \in Seq(Pointer)
<1>1. toAdd # <<>> /\ toAdd \in Seq(Thread) /\ Contents(q) \o toAdd = Added
  BY DEF IInv, MainOK, TypeOK, TurnInv, BootOK, Rest
<1>2. q \in Queue /\ Contents(q) \in Seq(Pointer) /\ Len(Contents(q)) = Occupied(q)
  BY ContentsType DEF IInv, TypeOK
<1>3. Len(Added) = Len(Contents(q)) + Len(toAdd) /\ Len(toAdd) >= 1
  BY <1>1, <1>2
<1>4. Occupied(q) # Slots - 1
  BY <1>1, <1>2, <1>3, SlotsAssumption, OccupiedBounds DEF KernelSetup
<1> QED
  BY <1>1, <1>2, <1>4, OccupiedBounds

LEMMA PushTurn ==
    ASSUME KernelSetup, IInv, TurnInv, PushTest \/ PushStore \/ PushTail \/ PushSize
    PROVE  TurnInv' /\ [RR!Next]_(RR!vars)
<1>0. /\ q \in Queue /\ current \in Actor /\ (current # Null => current \in Thread)
      /\ newTail \in [Actor -> Index] /\ toAdd \in Seq(Thread) /\ Null \notin Thread
      /\ "push_store" \in PC /\ "push_tail" \in PC /\ "push_size" \in PC
      /\ "boot" \in PC /\ "pop_test" \in PC
      /\ PlacesOK
  BY ThreadsAssumption DEF IInv, TypeOK, Actor, PC, Pushing, Popping, TurnInv
<1>p. pc[current] \in Pushing
  BY DEF PushTest, PushStore, PushTail, PushSize, At, Pushing
<1>d. current \notin deleted
  BY <1>0, <1>p DEF PlacesOK, Popping, Pushing
<1>u. Pushed \in Pointer
  BY <1>p, PushedType DEF IInv
<1>1. CASE PushTest
  <2>1. ~IsFull(q)
    <3>1. CASE current = Null
      BY <1>1, <3>1, BootRoom DEF PushTest, At, Pushing
    <3>2. CASE current # Null
      BY <1>0, <1>1, <3>2, RunFacts DEF PushTest, At, Inside, Popping
    <3> QED
      BY <3>1, <3>2
  <2>2. /\ Goto("push_store") /\ newTail'[current] = After(q.tail)
        /\ UNCHANGED <<q, item, cpuVars, toAdd, deleted, ticks>>
    BY <1>0, <1>1, <2>1 DEF PushTest
  <2>3. PlacesOK'
    BY <1>0, <1>d, <2>1, <2>2, GotoType DEF PlacesOK, cpuVars, IInv
  <2>4. CASE current = Null
    <3>1. Rest' = Rest /\ Contents(q') = Contents(q)
      BY <1>0, <1>1, <2>2, <2>4, GotoType DEF Rest, IInv, PushTest, At
    <3>2. Contents(q') \o Rest' = Added
      BY <2>4, <3>1 DEF TurnInv, BootOK
    <3>3. TurnInv' /\ ready' = ready
      BY <1>0, <2>2, <2>3, <2>4, <3>1, <3>2, BootTurn
    <3> QED
      BY <2>2, <3>3 DEF RR!vars, cpuVars
  <2>5. CASE current # Null
    <3>1. ~Inside /\ ~Inside' /\ Line' = Contents(q)
      BY <1>0, <1>1, <2>2, GotoType DEF Inside, Line, Popping, PushTest, At, IInv, cpuVars
    <3>2. TurnInv' /\ ready' = ready
      BY <1>0, <1>d, <2>2, <2>3, <2>5, <3>1, RunFacts, StayTurn DEF cpuVars
    <3> QED
      BY <2>2, <3>2 DEF RR!vars, cpuVars
  <2> QED
    BY <2>4, <2>5
<1>2. CASE PushStore
  <2>1. /\ Goto("push_tail") /\ q' = StoreTail(q, Pushed)
        /\ UNCHANGED <<newTail, item, cpuVars, toAdd, deleted, ticks>>
    BY <1>2 DEF PushStore
  <2>2. /\ Contents(q') = Contents(q) /\ q'.buffer[q'.tail] = Pushed
        /\ q'.tail = q.tail /\ (IsFull(q') <=> IsFull(q))
    BY <1>0, <1>u, <2>1, TailStore
  <2>3. Pushed' = Pushed
    BY <2>1 DEF Pushed, cpuVars
  <2>4. PlacesOK'
    BY <1>0, <1>2, <1>d, <2>1, <2>2, <2>3, GotoType
       DEF PlacesOK, cpuVars, IInv, PushStore, At
  <2>5. CASE current = Null
    <3>1. Rest' = Rest
      BY <1>0, <1>2, <2>1, <2>5, GotoType DEF Rest, IInv, PushStore, At
    <3>2. Contents(q') \o Rest' = Added
      BY <2>2, <2>5, <3>1 DEF TurnInv, BootOK
    <3>3. TurnInv' /\ ready' = ready
      BY <1>0, <2>1, <2>2, <2>4, <2>5, <3>2, BootTurn
    <3> QED
      BY <2>1, <3>3 DEF RR!vars, cpuVars
  <2>6. CASE current # Null
    <3>1. ~Inside /\ ~Inside' /\ Line' = Contents(q)
      BY <1>0, <1>2, <2>1, <2>2, GotoType
         DEF Inside, Line, Popping, PushStore, At, IInv, cpuVars
    <3>2. TurnInv' /\ ready' = ready
      BY <1>0, <1>d, <2>1, <2>4, <2>6, <3>1, RunFacts, StayTurn DEF cpuVars
    <3> QED
      BY <2>1, <3>2 DEF RR!vars, cpuVars
  <2> QED
    BY <2>5, <2>6
<1>3. CASE PushTail
  <2>1. /\ Goto("push_size") /\ q' = SetTail(q, newTail[current])
        /\ UNCHANGED <<item, cpuVars, toAdd, deleted, ticks>>
        /\ pc[current] = "push_tail"
    BY <1>3 DEF PushTail, At
  <2>2. Contents(q') = Append(Contents(q), Pushed)
    BY <1>0, <2>1, TailMoves DEF PlacesOK
  <2>3. PlacesOK'
    BY <1>0, <1>d, <2>1, GotoType DEF PlacesOK, cpuVars, IInv
  <2>4. CASE current = Null
    <3>1. /\ Pushed = Head(toAdd) /\ Rest' = Tail(toAdd) /\ toAdd # <<>>
          /\ Contents(q) \o toAdd = Added /\ Contents(q) \in Seq(Pointer)
      BY <1>0, <2>1, <2>4, BootRoom, GotoType DEF Pushed, Rest, IInv, Pushing
    <3>2. Contents(q') \o Rest' = Added
      BY <1>0, <2>2, <3>1, MoveOne
    <3>3. TurnInv' /\ ready = Contents(q) /\ ready' = Contents(q')
      BY <1>0, <2>1, <2>3, <2>4, <3>2, BootTurn
    <3>4. RR!Admit(Head(toAdd)) /\ Head(toAdd) \in Thread
      BY <1>0, <2>1, <2>2, <2>4, <3>1, <3>3 DEF RR!Admit, cpuVars
    <3> QED
      BY <3>3, <3>4 DEF RR!Next
  <2>5. CASE current # Null
    <3>1. ~Inside /\ Inside' /\ Line' = Append(Contents(q), current)
      BY <1>0, <2>1, <2>2, <2>5, GotoType
         DEF Inside, Line, Popping, IInv, cpuVars, Pushed
    <3>2. TurnInv' /\ ready' = ready
      BY <1>0, <1>d, <2>1, <2>3, <2>5, <3>1, RunFacts, StayTurn DEF cpuVars
    <3> QED
      BY <2>1, <3>2 DEF RR!vars, cpuVars
  <2> QED
    BY <2>4, <2>5
<1>4. CASE PushSize
  <2>1. /\ Goto(IF current = Null THEN "boot" ELSE "pop_test") /\ q' = Grow(q)
        /\ UNCHANGED <<newTail, item, cpuVars, deleted, ticks>>
        /\ toAdd' = IF current = Null THEN Tail(toAdd) ELSE toAdd
        /\ pc[current] = "push_size"
    BY <1>4 DEF PushSize, At
  <2>2. Contents(q') = Contents(q)
    BY <1>0, <2>1, SizeStores
  <2>3. PlacesOK'
    BY <1>0, <1>d, <2>1, GotoType DEF PlacesOK, cpuVars, IInv
  <2>4. CASE current = Null
    <3>1. Rest' = Rest
      BY <1>0, <2>1, <2>4, GotoType DEF Rest, IInv
    <3>2. Contents(q') \o Rest' = Added
      BY <2>2, <2>4, <3>1 DEF TurnInv, BootOK
    <3>3. TurnInv' /\ ready' = ready
      BY <1>0, <2>1, <2>2, <2>3, <2>4, <3>2, BootTurn
    <3> QED
      BY <2>1, <3>3 DEF RR!vars, cpuVars
  <2>5. CASE current # Null
    <3>1. Inside /\ Inside' /\ Line' = Contents(q) /\ Line = Contents(q)
      BY <1>0, <2>1, <2>2, <2>5, GotoType DEF Inside, Line, Popping, IInv, cpuVars
    <3>2. TurnInv' /\ ready' = ready
      BY <1>0, <1>d, <2>1, <2>3, <2>5, <3>1, RunFacts, StayTurn DEF cpuVars
    <3> QED
      BY <2>1, <3>2 DEF RR!vars, cpuVars
  <2> QED
    BY <2>4, <2>5
<1> QED
  BY <1>1, <1>2, <1>3, <1>4

-----------------------------------------------------------------------------
(* The steps of yield.                                                     *)

LEMMA Split ==
    ASSUME NEW S, NEW x \in S, NEW s \in Seq(S)
    PROVE  /\ Head(<<x>> \o s) = x /\ Tail(<<x>> \o s) = s
           /\ s # <<>> => <<Head(s)>> \o Tail(s) = s
<1>1. Head(<<x>> \o s) = x /\ Tail(<<x>> \o s) = s
  OBVIOUS
<1>2. ASSUME s # <<>> PROVE <<Head(s)>> \o Tail(s) = s
  BY <1>2
<1> QED
  BY <1>1, <1>2

LEMMA LineFacts ==
    ASSUME KernelSetup, IInv, TurnInv, current \in Thread, Inside
    PROVE  /\ Line \in Seq(Thread) /\ Line # <<>>
           /\ pc[current] \in {"pop_size", "dispatch"} =>
                  Head(Line) = item[current] /\ Tail(Line) = Contents(q)
           /\ pc[current] \notin {"pop_size", "dispatch"} => Line = Contents(q)
<1>1. (Line = ready /\ ready # <<>>) \/ Line = Append(ready, current)
  BY RunFacts
<1>2. ready \in Seq(Thread)
  BY RunFacts
<1>3. Line \in Seq(Thread) /\ Line # <<>>
  BY <1>1, <1>2
<1>4. item[current] \in Pointer /\ Contents(q) \in Seq(Pointer)
  BY RunFacts DEF IInv, TypeOK, Actor
<1>5. Head(<<item[current]>> \o Contents(q)) = item[current]
      /\ Tail(<<item[current]>> \o Contents(q)) = Contents(q)
  BY <1>4, Split
<1> QED
  BY <1>3, <1>5 DEF Line

LEMMA PopTurn ==
    ASSUME KernelSetup, IInv, TurnInv, PopTest \/ PopItem \/ PopHead \/ PopSize
    PROVE  TurnInv' /\ UNCHANGED RR!vars
<1>0. /\ q \in Queue /\ current \in Actor /\ Null \notin Thread
      /\ item \in [Actor -> Pointer] /\ PlacesOK
      /\ "pop_item" \in PC /\ "pop_head" \in PC /\ "pop_size" \in PC
      /\ "dispatch" \in PC
  BY ThreadsAssumption DEF IInv, TypeOK, PC, Popping, TurnInv
<1>p. pc[current] \in Popping \ {"dispatch"}
  BY DEF PopTest, PopItem, PopHead, PopSize, At, Popping
<1>c. current \in Thread /\ current # Null
  BY <1>0, <1>p DEF IInv, MainOK, Popping, Pushing, Actor
<1>i. /\ Inside /\ Line \in Seq(Thread) /\ Line # <<>>
      /\ pc[current] \in {"pop_size", "dispatch"} =>
             Head(Line) = item[current] /\ Tail(Line) = Contents(q)
      /\ pc[current] \notin {"pop_size", "dispatch"} => Line = Contents(q)
      /\ Line = IF current \notin deleted THEN Append(ready, current) ELSE ready
  BY <1>c, <1>p, LineFacts, RunFacts DEF Inside
\* Each store leaves the line as it is: the thread has not been switched.
<1>s. ASSUME NEW l \in Popping, l \in PC, Goto(l), PlacesOK', Line' = Line,
             UNCHANGED <<cpuVars, deleted>>
      PROVE  TurnInv' /\ UNCHANGED RR!vars
  <2>1. /\ current' = current /\ saved' = saved /\ handler' = handler
        /\ deleted' = deleted /\ l \notin {"start", "abort"}
    BY <1>s DEF cpuVars, Popping
  <2>2. Inside'
    BY <1>0, <1>c, <1>s, <2>1, GotoType DEF Inside, IInv
  <2>3. Line' = IF Inside' /\ current \notin deleted'
                THEN Append(ready, current) ELSE ready
    BY <1>i, <1>s, <2>1, <2>2
  <2>4. l # "delete" /\ (current \in deleted' => current \in Terminating)
    BY <1>c, <1>s, <2>1 DEF Popping, TurnInv, EndOK
  <2>5. TurnInv' /\ ready' = ready
    BY <1>c, <1>s, <2>1, <2>3, <2>4, StayTurn
  <2> QED
    BY <2>1, <2>5 DEF RR!vars
<1>1. CASE PopTest
  <2>1. ~IsEmpty(q)
    BY <1>0, <1>1, <1>i, EmptyContents DEF PopTest, At
  <2>2. Goto("pop_item") /\ UNCHANGED <<queueVars, cpuVars, toAdd, deleted, ticks>>
    BY <1>1, <2>1 DEF PopTest
  <2>3. PlacesOK'
    BY <1>0, <1>p, <2>1, <2>2, GotoType DEF PlacesOK, queueVars, cpuVars, IInv, Popping
  <2>4. Line' = Line
    BY <1>0, <1>1, <1>c, <2>2, GotoType
       DEF Line, Inside, Popping, PopTest, At, queueVars, cpuVars, IInv
  <2> QED
    BY <1>0, <1>s, <2>2, <2>3, <2>4 DEF Popping
<1>2. CASE PopItem
  <2>1. /\ Goto("pop_head") /\ item'[current] = FirstItem(q)
        /\ UNCHANGED <<q, newTail, cpuVars, toAdd, deleted, ticks>>
    BY <1>0, <1>2 DEF PopItem
  <2>2. ~IsEmpty(q)
    BY <1>0, <1>2 DEF PlacesOK, PopItem, At
  <2>3. PlacesOK'
    BY <1>0, <1>p, <2>1, <2>2, GotoType DEF PlacesOK, cpuVars, IInv, Popping
  <2>4. Line' = Line
    BY <1>0, <1>2, <1>c, <2>1, GotoType
       DEF Line, Inside, Popping, PopItem, At, cpuVars, IInv
  <2> QED
    BY <1>0, <1>s, <2>1, <2>3, <2>4 DEF Popping
<1>3. CASE PopHead
  <2>1. /\ Goto("pop_size") /\ q' = AdvanceHead(q) /\ pc[current] = "pop_head"
        /\ UNCHANGED <<newTail, item, cpuVars, toAdd, deleted, ticks>>
    BY <1>3 DEF PopHead, At
  <2>2. ~IsEmpty(q) /\ item[current] = FirstItem(q)
    BY <1>0, <2>1 DEF PlacesOK
  <2>3. item[current] = Head(Contents(q)) /\ Contents(q') = Tail(Contents(q))
    BY <1>0, <2>1, <2>2, HeadMoves
  <2>4. PlacesOK'
    BY <1>0, <1>p, <2>1, GotoType DEF PlacesOK, cpuVars, IInv, Popping
  <2>5. Line' = <<item[current]>> \o Contents(q')
    BY <1>0, <1>c, <2>1, GotoType DEF Line, Inside, Popping, cpuVars, IInv
  <2>6. Line = Contents(q)
    BY <1>i, <2>1
  <2>7. Line' = Line
    BY <1>c, <1>i, <2>3, <2>5, <2>6, Split
  <2> QED
    BY <1>0, <1>s, <2>1, <2>4, <2>7 DEF Popping
<1>4. CASE PopSize
  <2>1. item[current] \in Thread
    BY <1>4, <1>i DEF PopSize, At
  <2>2. /\ Goto("dispatch") /\ q' = Shrink(q) /\ pc[current] = "pop_size"
        /\ UNCHANGED <<newTail, item, cpuVars, toAdd, deleted, ticks>>
    BY <1>0, <1>4, <2>1 DEF PopSize, At
  <2>3. Contents(q') = Contents(q)
    BY <1>0, <2>2, SizeStores
  <2>4. PlacesOK'
    BY <1>0, <1>p, <2>2, GotoType DEF PlacesOK, cpuVars, IInv, Popping
  <2>5. Line' = Line
    BY <1>0, <1>c, <2>2, <2>3, GotoType DEF Line, Inside, Popping, cpuVars, IInv
  <2> QED
    BY <1>0, <1>s, <2>2, <2>4, <2>5 DEF Popping
<1> QED
  BY <1>1, <1>2, <1>3, <1>4

-----------------------------------------------------------------------------
(* The switches.                                                           *)

\* The sequence a thread that stays leaves behind: the others, then itself.
LEMMA BehindAll ==
    ASSUME KernelSetup, IInv, TurnInv, current \in Thread
    PROVE  /\ Append(ready, current) \in Seq(Thread)
           /\ Append(ready, current) # <<>>
           /\ Len(Append(ready, current)) = Len(ready) + 1
           /\ Distinct(Append(ready, current))
           /\ \A i \in 1 .. Len(ready) : Append(ready, current)[i] = ready[i]
           /\ Append(ready, current)[Len(ready) + 1] = current
           /\ \E t \in Thread \ Terminating : Holds(Append(ready, current), t)
<1>1. Waits(ready) /\ ready \in Seq(Thread) /\ Len(ready) \in Nat
  BY RunFacts
<1> DEFINE a == Append(ready, current)
<1>2. /\ a \in Seq(Thread) /\ a # <<>> /\ Len(a) = Len(ready) + 1
      /\ \A i \in 1 .. Len(ready) : a[i] = ready[i]
      /\ a[Len(ready) + 1] = current
  BY <1>1
<1> HIDE DEF a
<1>3. Distinct(a)
  BY <1>1, <1>2 DEF Waits, Distinct
<1>4. \E t \in Thread \ Terminating : Holds(a, t)
  <2>1. PICK t \in Thread \ Terminating : t = current \/ Holds(ready, t)
    BY <1>1 DEF Waits
  <2>2. 1 .. Len(ready) \subseteq 1 .. Len(a) /\ Len(ready) + 1 \in 1 .. Len(a)
    BY <1>1, <1>2
  <2>3. Holds(a, t)
    BY <1>2, <2>1, <2>2 DEF Holds
  <2> QED
    BY <2>3
<1> QED
  BY <1>2, <1>3, <1>4 DEF a

LEMMA DispatchTurn ==
    ASSUME KernelSetup, IInv, IInv', TurnInv, Dispatch
    PROVE  TurnInv' /\ [RR!Next]_(RR!vars)
<1>0. /\ q \in Queue /\ current \in Actor /\ Null \notin Thread /\ TypeOK'
      /\ pc[current] = "dispatch" /\ q' = q /\ deleted' = deleted
      /\ SwitchTo(item[current], handler, inService)
      /\ handler \subseteq handler \cup {current} /\ pc \in [Actor -> PC]
      /\ Thread \subseteq Actor /\ "wild" \in PC /\ "body" \in PC
      /\ saved \in [Actor -> BOOLEAN]
  BY ThreadsAssumption DEF IInv, TypeOK, Dispatch, At, Actor, PC
<1>1. CASE current = Null
  <2>1. /\ item[current] = First /\ pc' = pc /\ saved' = saved /\ deleted = {}
        /\ \A t \in Thread : pc[t] = "start"
        /\ Contents(q) \o toAdd = Added /\ toAdd = <<>>
    BY <1>0, <1>1 DEF Dispatch, TurnInv, BootOK, Rest
  <2>2. Contents(q) = Added
    <3>1. Contents(q) \in Seq(Pointer)
      BY <1>0, ContentsType
    <3> QED
      BY <2>1, <3>1
  <2>3. PICK a \in Seq(Thread) : a = <<First>> \o Added
    <3>1. Added \in Seq(Thread) /\ First \in Thread
      BY ThreadsAssumption
    <3>2. <<First>> \o Added \in Seq(Thread)
      BY <3>1
    <3> QED
      BY <3>2
  <2>4. /\ Added \in Seq(Thread) /\ First \in Thread /\ a # <<>>
        /\ Head(a) = First /\ Tail(a) = Added /\ Len(a) = Len(Added) + 1
        /\ \A i \in 1 .. Len(Added) : Added[i] # First
        /\ \A i \in 1 .. Len(a) : a[i] = IF i = 1 THEN First ELSE Added[i - 1]
    <3>1. Added \in Seq(Thread) /\ First \in Thread
      BY ThreadsAssumption
    <3>2. Head(a) = First /\ Tail(a) = Added /\ Len(a) = Len(Added) + 1 /\ a # <<>>
      BY <2>3, <3>1, Split
    <3>3. \A i \in 1 .. Len(a) : a[i] = IF i = 1 THEN First ELSE Added[i - 1]
      BY <2>3, <3>1
    <3> QED
      BY <3>1, <3>2, <3>3, ThreadsAssumption
  <2>5. Distinct(a)
    <3>1. ASSUME NEW i \in 1 .. Len(a), NEW j \in 1 .. Len(a), i # j
          PROVE  a[i] # a[j]
      <4>1. i # 1 => i - 1 \in 1 .. Len(Added)
        BY <2>4
      <4>2. j # 1 => j - 1 \in 1 .. Len(Added)
        BY <2>4
      <4>3. i # 1 /\ j # 1 => Added[i - 1] # Added[j - 1]
        BY <2>4, <3>1, <4>1, <4>2 DEF KernelSetup, Distinct
      <4> QED
        BY <2>4, <3>1, <4>1, <4>2, <4>3
    <3> QED
      BY <3>1 DEF Distinct
  <2>6. \A i \in 1 .. Len(a) : a[i] \notin deleted /\ pc'[a[i]] \in Resting
    BY <2>1, <2>3 DEF Resting
  <2>7. \E t \in Thread \ Terminating : Holds(a, t)
    <3>1. PICK t \in Thread \ Terminating : t = First \/ Holds(Added, t)
      BY DEF KernelSetup
    <3>2. CASE t = First
      <4>1. 1 \in 1 .. Len(a) /\ a[1] = t
        BY <2>4, <3>2
      <4> QED
        BY <3>1, <4>1 DEF Holds
    <3>3. CASE Holds(Added, t)
      <4>1. PICK i \in 1 .. Len(Added) : Added[i] = t
        BY <3>3 DEF Holds
      <4>2. i + 1 \in 1 .. Len(a) /\ i + 1 # 1 /\ (i + 1) - 1 = i
        BY <2>4
      <4>3. a[i + 1] = t
        BY <2>4, <4>1, <4>2
      <4> QED
        BY <3>1, <4>2, <4>3 DEF Holds
    <3> QED
      BY <3>1, <3>2, <3>3
  <2>8. /\ SwitchTo(Head(a), handler, inService)
        /\ \A t \in Thread \ {current} : saved'[t] = saved[t] /\ pc'[t] = pc[t]
        /\ pc'[Null] # "abort" /\ Len(a) <= Len(Added) + 1
    BY <1>0, <1>1, <2>1, <2>4
  <2>9. TurnInv' /\ current' = First /\ ready' = Added
    <3>1. Contents(q') = Tail(a)
      BY <1>0, <2>2, <2>4
    <3>2. current \notin Thread
      BY <1>0, <1>1
    <3> QED
      BY <1>0, <2>4, <2>5, <2>6, <2>7, <2>8, <3>1, <3>2, SwitchTurn
  <2>10. ready = Contents(q)
    BY <1>1 DEF ready
  <2>11. RR!Start(First)
    BY <1>1, <2>2, <2>9, <2>10 DEF RR!Start
  <2> QED
    BY <2>4, <2>9, <2>11 DEF RR!Next
<1>2. CASE current # Null
  <2>0. /\ current \in Thread /\ Inside
        /\ \A b \in Actor \ {current} : pc'[b] = pc[b] /\ saved'[b] = saved[b]
        /\ pc'[current] = IF current \in deleted THEN "wild" ELSE "body"
    BY <1>0, <1>2 DEF Inside, Popping, Actor, Dispatch, Goto
  <2>1. PICK a \in Seq(Thread) : a = Line
    BY <2>0, LineFacts
  <2>2. /\ a # <<>> /\ Head(a) = item[current] /\ Tail(a) = Contents(q)
    BY <1>0, <2>0, <2>1, LineFacts
  <2>3. Waits(ready) /\ ready \in Seq(Thread)
    BY <2>0, RunFacts
  <2>4. /\ \A t \in Thread \ {current} : saved'[t] = saved[t] /\ pc'[t] = pc[t]
        /\ pc'[Null] # "abort" /\ pc'[current] \notin {"start", "abort", "delete"}
        /\ SwitchTo(Head(a), handler, inService) /\ Contents(q') = Tail(a)
    BY <1>0, <1>2, <2>0, <2>2 DEF TurnInv, PlacesOK, Actor
  <2>5. \A i \in 1 .. Len(ready) : /\ ready[i] \in Thread \ {current}
                                   /\ ready[i] \notin deleted
                                   /\ pc'[ready[i]] \in Resting
    BY <2>3, <2>4 DEF Waits
  <2>6. CASE current \in deleted
    <3>1. a = ready /\ current \in Terminating
      BY <2>0, <2>1, <2>6, RunFacts DEF TurnInv, EndOK
    <3>2. /\ \A i \in 1 .. Len(a) : a[i] \notin deleted /\ pc'[a[i]] \in Resting
          /\ \E t \in Thread \ Terminating : Holds(a, t)
          /\ Len(a) <= Len(Added) + 1 /\ Distinct(a)
      BY <2>3, <2>5, <3>1, ThreadsAssumption DEF Waits
    <3>3. TurnInv' /\ current' = Head(a) /\ ready' = Tail(a)
      BY <1>0, <2>2, <2>4, <3>2, SwitchTurn
    <3>4. RR!Finish
      BY <1>2, <2>2, <3>1, <3>3 DEF RR!Finish
    <3> QED
      BY <3>3, <3>4 DEF RR!Next
  <2>7. CASE current \notin deleted
    <3>1. a = Append(ready, current)
      BY <2>0, <2>1, <2>7, RunFacts
    <3>2. \A i \in 1 .. Len(a) : a[i] \notin deleted /\ pc'[a[i]] \in Resting
      <4> SUFFICES ASSUME NEW i \in 1 .. Len(a)
                   PROVE  a[i] \notin deleted /\ pc'[a[i]] \in Resting
        OBVIOUS
      <4>1. CASE i \in 1 .. Len(ready)
        BY <2>0, <2>5, <3>1, <4>1, BehindAll
      <4>2. CASE i = Len(ready) + 1
        BY <2>0, <2>7, <3>1, <4>2, BehindAll DEF Resting
      <4> QED
        <5>1. Len(a) = Len(ready) + 1 /\ Len(ready) \in Nat
          BY <2>0, <2>3, <3>1, BehindAll
        <5> QED
          BY <4>1, <4>2, <5>1
    <3>3. /\ \E t \in Thread \ Terminating : Holds(a, t)
          /\ Distinct(a) /\ Len(a) <= Len(Added) + 1
      BY <2>0, <2>3, <3>1, BehindAll, ThreadsAssumption DEF Waits
    <3>4. TurnInv' /\ current' = Head(a) /\ ready' = Tail(a)
      BY <1>0, <2>2, <2>4, <3>2, <3>3, SwitchTurn
    <3>5. RR!Rotate
      BY <1>2, <3>1, <3>4 DEF RR!Rotate
    <3> QED
      BY <3>4, <3>5 DEF RR!Next
  <2> QED
    BY <2>6, <2>7
<1> QED
  BY <1>1, <1>2

\* The timer's switch: no store has begun, so the queue is ready.
LEMMA QuantumTurn ==
    ASSUME KernelSetup, IInv, IInv', TurnInv, EndOfQuantum, Place = "body"
    PROVE  TurnInv' /\ [RR!Next]_(RR!vars)
<1>0. /\ current \in Thread /\ current # Null
      /\ pc[current] \in {"body", "delete", "push_test"}
      /\ current \in Pointer /\ Null \notin Thread /\ TypeOK'
  <2>1. /\ current # Null /\ pc[current] \notin Popping
        /\ pc[current] \notin Pushing \ {"push_test"}
    BY DEF Place
  <2>2. current \in Thread /\ current \in Actor
    BY <2>1 DEF IInv, TypeOK, Actor
  <2>3. pc[current] \in PC \ {"boot", "abort", "wild"}
    BY <2>1, <2>2 DEF IInv, TypeOK, TurnInv, PlacesOK
  <2>4. pc[current] # "start"
    BY <2>2 DEF TurnInv, StartOK, EndOfQuantum, TimerPending
  <2>5. pc[current] \in {"body", "delete", "push_test"}
    BY <2>1, <2>3, <2>4 DEF PC
  <2> QED
    BY <2>1, <2>2, <2>5, ThreadsAssumption DEF IInv, Pointer
<1>1. ~Inside /\ current \notin deleted
  BY <1>0 DEF Inside, Popping, TurnInv, PlacesOK
<1>2. /\ Contents(q) = ready /\ ~IsFull(q) /\ q \in Queue
      /\ Waits(ready) /\ ready \in Seq(Thread)
  BY <1>0, <1>1, RunFacts
<1> DEFINE p == Push(q, current)
<1>3. PICK a \in Seq(Thread) : a = Append(ready, current)
  BY <1>0, BehindAll
<1>4. a # <<>> /\ Head(a) \in Thread
  BY <1>0, <1>3, BehindAll
<1>5. p \in Queue /\ Contents(p) = a
  BY <1>0, <1>2, <1>3, PushMembers, PushAppends
<1>6. ~IsEmpty(p)
  BY <1>4, <1>5, EmptyContents
<1>7. Popped(p) = Head(a) /\ Contents(Pop(p)) = Tail(a)
  BY <1>5, <1>6, PopTakes
<1>8. /\ q' = Pop(p) /\ SwitchTo(Head(a), handler \cup {current}, TRUE)
      /\ UNCHANGED <<pc, saved, deleted>>
  <2>1. Head(a) # Null
    BY <1>0, <1>4
  <2> QED
    BY <1>2, <1>7, <2>1 DEF EndOfQuantum
<1> HIDE DEF p
<1>9. \A i \in 1 .. Len(a) : a[i] \notin deleted /\ pc'[a[i]] \in Resting
  <2> SUFFICES ASSUME NEW i \in 1 .. Len(a)
               PROVE  a[i] \notin deleted /\ pc[a[i]] \in Resting
    BY <1>8
  <2>1. Len(a) = Len(ready) + 1 /\ Len(ready) \in Nat
    BY <1>0, <1>2, <1>3, BehindAll
  <2>2. CASE i \in 1 .. Len(ready)
    BY <1>0, <1>2, <1>3, <2>2, BehindAll DEF Waits
  <2>3. CASE i = Len(ready) + 1
    BY <1>0, <1>1, <1>3, <2>3, BehindAll DEF Resting
  <2> QED
    BY <2>1, <2>2, <2>3
<1>10. /\ \E t \in Thread \ Terminating : Holds(a, t)
       /\ Distinct(a) /\ Len(a) <= Len(Added) + 1
  BY <1>0, <1>2, <1>3, BehindAll, ThreadsAssumption DEF Waits
<1>11. /\ Contents(q') = Tail(a) /\ pc'[Null] # "abort"
       /\ pc'[current] \notin {"start", "abort"}
       /\ pc'[current] = "delete" => current \in Terminating
       /\ deleted' = deleted
       /\ \A t \in Thread \ {current} : saved'[t] = saved[t] /\ pc'[t] = pc[t]
  BY <1>0, <1>7, <1>8 DEF TurnInv, PlacesOK, EndOK, Actor
<1>12. TurnInv' /\ current' = Head(a) /\ ready' = Tail(a)
  BY <1>0, <1>4, <1>8, <1>9, <1>10, <1>11, SwitchTurn
<1>13. RR!Rotate
  BY <1>0, <1>3, <1>12 DEF RR!Rotate
<1> QED
  BY <1>12, <1>13 DEF RR!Next

-----------------------------------------------------------------------------
(* main's own code, and that of the threads.                               *)

LEMMA BootCodeTurn ==
    ASSUME IInv, TurnInv, BootAdd \/ BootDispatch
    PROVE  TurnInv' /\ UNCHANGED RR!vars
<1>0. /\ current = Null /\ pc[Null] = "boot" /\ PlacesOK /\ Null \in Actor
      /\ toAdd \in Seq(Thread) /\ item \in [Actor -> Pointer]
      /\ "push_test" \in PC /\ "dispatch" \in PC /\ Null \notin Thread
      /\ Contents(q) \o toAdd = Added /\ current \notin deleted
  <2>1. current \in Actor /\ pc[current] = "boot"
    BY DEF BootAdd, BootDispatch, At, IInv, TypeOK
  <2>2. current = Null
    BY <2>1 DEF TurnInv, PlacesOK
  <2> QED
    BY <2>1, <2>2, ThreadsAssumption
       DEF TurnInv, BootOK, Rest, IInv, TypeOK, PC, Pushing, Popping, Actor
<1>1. CASE BootAdd
  <2>1. /\ Goto("push_test")
        /\ UNCHANGED <<queueVars, cpuVars, toAdd, deleted, ticks>>
    BY <1>1 DEF BootAdd
  <2>2. pc'[Null] = "push_test" /\ \A b \in Actor \ {Null} : pc'[b] = pc[b]
    BY <1>0, <2>1, GotoType DEF IInv
  <2>3. PlacesOK'
    BY <1>0, <2>1, <2>2 DEF PlacesOK, queueVars, cpuVars
  <2>4. Contents(q') \o Rest' = Added
    BY <1>0, <2>1, <2>2 DEF Rest, queueVars
  <2>5. TurnInv' /\ ready' = ready
    BY <1>0, <2>1, <2>3, <2>4, BootTurn DEF queueVars
  <2> QED
    BY <2>1, <2>5 DEF RR!vars, cpuVars
<1>2. CASE BootDispatch
  <2>1. /\ Goto("dispatch") /\ item'[Null] = First /\ toAdd = <<>>
        /\ UNCHANGED <<q, newTail, cpuVars, toAdd, deleted, ticks>>
    BY <1>0, <1>2 DEF BootDispatch
  <2>2. pc'[Null] = "dispatch" /\ \A b \in Actor \ {Null} : pc'[b] = pc[b]
    BY <1>0, <2>1, GotoType DEF IInv
  <2>3. PlacesOK'
    BY <1>0, <2>1, <2>2 DEF PlacesOK, cpuVars
  <2>4. Contents(q') \o Rest' = Added
    BY <1>0, <2>1, <2>2 DEF Rest
  <2>5. TurnInv' /\ ready' = ready
    BY <1>0, <2>1, <2>3, <2>4, BootTurn
  <2> QED
    BY <2>1, <2>5 DEF RR!vars, cpuVars
<1> QED
  BY <1>1, <1>2

LEMMA ThreadCodeTurn ==
    ASSUME KernelSetup, IInv, TurnInv, ThreadStart \/ Delete \/ Body
    PROVE  TurnInv' /\ UNCHANGED RR!vars
<1>0. /\ current \in Thread /\ current \in Actor /\ PlacesOK /\ current # Null
      /\ pc[current] \in {"start", "body", "delete"} /\ Null \notin Thread
      /\ {"body", "delete", "push_test", "pop_test"} \subseteq PC
  <2>1. pc[current] \in {"start", "body", "delete"}
    BY DEF ThreadStart, Delete, Body, PassOnCPU, Return, At
  <2>2. current # Null
    BY <2>1 DEF IInv, MainOK, Pushing
  <2> QED
    BY <2>1, <2>2, ThreadsAssumption
       DEF IInv, TypeOK, Actor, TurnInv, PC, Pushing, Popping
<1>1. ~Inside /\ Contents(q) = ready /\ current \notin deleted
  BY <1>0, RunFacts DEF Inside, Popping, PlacesOK
<1>2. /\ ThreadStart => Goto("body")
      /\ Delete => Goto("pop_test")
      /\ Body => Goto("push_test") \/ (Goto("delete") /\ current \in Terminating)
  <2>1. ASSUME ThreadStart PROVE Goto("body")
    <3>1. pc[current] = "start"
      BY <2>1 DEF ThreadStart, At
    <3>2. ~iflag
      BY <1>0, <3>1 DEF TurnInv, StartOK
    <3> QED
      BY <2>1, <3>2 DEF ThreadStart
  <2>2. Delete => Goto("pop_test")
    BY DEF Delete
  <2>3. Body => Goto("push_test") \/ (Goto("delete") /\ current \in Terminating)
    BY DEF Body, PassOnCPU, Return
  <2> QED
    BY <2>1, <2>2, <2>3
<1>3. PICK l \in {"body", "delete", "push_test", "pop_test"} :
          /\ Goto(l)
          /\ l = "delete" => current \in Terminating
          /\ l = "pop_test" <=> Delete
  <2>1. ThreadStart => pc[current] = "start"
    BY DEF ThreadStart, At
  <2>2. Body => pc[current] = "body"
    BY DEF Body, PassOnCPU, Return, At
  <2>3. Delete => pc[current] = "delete"
    BY DEF Delete, At
  <2> QED
    BY <1>2, <2>1, <2>2, <2>3
<1>4. /\ UNCHANGED <<queueVars, current, saved, handler, inService, toAdd, ticks>>
      /\ deleted' = IF Delete THEN deleted \cup {current} ELSE deleted
  BY <1>0 DEF ThreadStart, Delete, Body, PassOnCPU, Return, cpuVars, At
<1>5. pc'[current] = l /\ \A b \in Actor \ {current} : pc'[b] = pc[b]
  BY <1>0, <1>3, GotoType DEF IInv
<1>6. PlacesOK'
  BY <1>0, <1>1, <1>3, <1>4, <1>5 DEF PlacesOK, Popping
<1>7. Line' = IF Inside' /\ current \notin deleted'
              THEN Append(ready, current) ELSE ready
  BY <1>0, <1>1, <1>3, <1>4, <1>5 DEF Line, Inside, Popping, queueVars
<1>8. l = "delete" \/ current \in deleted' => current \in Terminating
  BY <1>0, <1>1, <1>3, <1>4 DEF Delete, At, TurnInv, EndOK
<1>9. TurnInv' /\ ready' = ready
  BY <1>0, <1>3, <1>4, <1>6, <1>7, <1>8, StayTurn
<1> QED
  BY <1>4, <1>9 DEF RR!vars

\* A quantum ends in main's start-up code, in resume or in yield.
Disturb == EndOfQuantum /\ Place # "body"

LEMMA IdleTurn ==
    ASSUME TurnInv, Tick \/ UNCHANGED vars
    PROVE  TurnInv' /\ UNCHANGED RR!vars
<1>1. UNCHANGED <<queueVars, cpuVars, pc, toAdd, deleted>>
  BY DEF Tick, vars
<1>2. RunOK'
  BY <1>1 DEF TurnInv, RunOK, Waits, Stands, Line, Inside, ready, queueVars, cpuVars
<1>3. BootOK' /\ PlacesOK' /\ StartOK' /\ EndOK'
  BY <1>1 DEF TurnInv, BootOK, PlacesOK, StartOK, EndOK, Rest, Pushed, queueVars, cpuVars
<1>4. UNCHANGED RR!vars
  BY <1>1 DEF RR!vars, ready, queueVars, cpuVars
<1> QED
  BY <1>2, <1>3, <1>4 DEF TurnInv

LEMMA TurnNext ==
    ASSUME KernelSetup, IInv, IInv', TurnInv, Next, ~Disturb
    PROVE  TurnInv' /\ [RR!Next]_(RR!vars)
<1>1. CASE EndOfQuantum
  BY <1>1, QuantumTurn DEF Disturb
<1> QED
  BY <1>1, IdleTurn, PushTurn, PopTurn, DispatchTurn, BootCodeTurn, ThreadCodeTurn
     DEF Next, Kernel, Timer

\* A history variable: a quantum has ended where a store may have begun.
VARIABLE disturbed

Watched == /\ Spec
           /\ disturbed = FALSE
           /\ [][disturbed' = (disturbed \/ Disturb)]_<<vars, disturbed>>

UntilDisturbed == disturbed \/ TurnInv

LEMMA WatchedNext ==
    ASSUME KernelSetup, IInv, IInv', UntilDisturbed, [Next]_vars,
           [disturbed' = (disturbed \/ Disturb)]_<<vars, disturbed>>
    PROVE  UntilDisturbed' /\ [disturbed' \/ RR!Next]_(RR!vars)
<1>1. CASE disturbed
  <2>1. disturbed'
    BY <1>1
  <2> QED
    BY <2>1 DEF UntilDisturbed
<1>2. CASE ~disturbed /\ Disturb /\ disturbed' = (disturbed \/ Disturb)
  <2>1. disturbed'
    BY <1>2
  <2> QED
    BY <2>1 DEF UntilDisturbed
<1>3. CASE ~disturbed /\ UNCHANGED vars
  BY <1>3, IdleTurn DEF UntilDisturbed
<1>4. CASE ~disturbed /\ Next /\ ~Disturb
  BY <1>4, TurnNext DEF UntilDisturbed
<1> QED
  BY <1>1, <1>2, <1>3, <1>4

LEMMA WatchedInvariance ==
    ASSUME KernelSetup
    PROVE  Watched => []UntilDisturbed
<1>1. Init => UntilDisturbed
  BY InitTurn DEF UntilDisturbed
<1> QED
  BY <1>1, WatchedNext, Invariance, PTL DEF Spec, Watched

\* Wherever quanta may end, the assertions assert(ret) of resume and
\* assert(t != 0) of yield hold, and that of thread_start, until one has ended
\* in the start-up code, in resume or in yield: for any number of threads and
\* any array with a slot more than there are threads.
THEOREM NoAssertionFails ==
    ASSUME KernelSetup
    PROVE  Watched => [](disturbed \/ NoAbort)
<1>1. UntilDisturbed => disturbed \/ NoAbort
  BY DEF UntilDisturbed, TurnInv, PlacesOK, NoAbort
<1> QED
  BY <1>1, WatchedInvariance, PTL

\* Wherever quanta may end, resume, yield and the timer handler, store by store,
\* take turns as a round robin does, step by step until a quantum has ended in
\* the start-up code, in resume or in yield, and for ever if none does.
THEOREM TakesTurns ==
    ASSUME KernelSetup
    PROVE  Watched => /\ RR!Init /\ [][disturbed' \/ RR!Next]_(RR!vars)
                      /\ []~disturbed => ImplementsRoundRobin
<1>1. Init => RR!Init
  BY InitTurn
<1>2. Watched => RR!Init /\ [][disturbed' \/ RR!Next]_(RR!vars)
  BY <1>1, WatchedNext, WatchedInvariance, Invariance, PTL DEF Spec, Watched
<1>3. [](~disturbed) /\ [][disturbed' \/ RR!Next]_(RR!vars) => [][RR!Next]_(RR!vars)
  <2>1. ~disturbed' /\ [disturbed' \/ RR!Next]_(RR!vars) => [RR!Next]_(RR!vars)
    OBVIOUS
  <2> QED
    BY <2>1, PTL
<1> QED
  BY <1>2, <1>3, PTL DEF ImplementsRoundRobin, RR!Spec
=============================================================================
