----------------------------- MODULE LinkedQueue -----------------------------
(***************************************************************************)
(* The ready queue of P5 pointer by pointer: class Queue of queue.H, its   *)
(* nodes in the memory that MemPool cuts off the frames of FramePool, and  *)
(* that is never given back.                                               *)
(*                                                                         *)
(* The list has a node that holds no thread at its head; a dequeue moves   *)
(* head to the next node, whose thread it returns, and deletes the old     *)
(* head.  remove deletes the node BEFORE the one it takes out and goes on  *)
(* using it, which is harmless only because release does nothing.          *)
(*                                                                         *)
(* chain is an auxiliary variable: the nodes from head to tail.  Only      *)
(* FoundAt reads it, for the walk of remove; Linked says that the          *)
(* pointers in memory are those of chain.  The names leave room for those  *)
(* of BlockingKernel, whose ready queue this is and whose proofs these     *)
(* join.                                                                   *)
(***************************************************************************)
EXTENDS Integers, Sequences

CONSTANTS
    Element,        \* what the queue holds, the threads
    NoElement,      \* the null pointer, to a thread
    FirstFrame,     \* where FramePool begins, 0x200000
    NodeSize,       \* bytes of a node: a thread and a pointer
    ObjectSizes,    \* sizes of the other objects that operator new is asked for
    MaxAddress      \* bound on the memory used, the code has none

NoNode == 0         \* the null pointer, to a node
Addresses == FirstFrame .. MaxAddress

ASSUME LinkedAssumption ==
    /\ NoElement \notin Element
    /\ FirstFrame \in Nat \ {0} /\ MaxAddress \in Nat
    /\ NodeSize \in Nat \ {0}
    /\ ObjectSizes \subseteq Nat

VARIABLES
    start_address,  \* MemPool: the first byte not handed out
    val, next,      \* the members of the nodes, by address
    head, tail,     \* of the queue
    size,
    element,        \* what the last dequeue returned
    aborted,        \* dequeue found the queue empty: the kernel loops for ever
    chain

nodeVars == <<start_address, val, next, head, tail, size, element, aborted, chain>>

QueueInit ==
    /\ start_address = FirstFrame       \* MemPool keeps its first frame only
    /\ val = [a \in Addresses |-> NoElement]
    /\ next = [a \in Addresses |-> NoNode]
    /\ head = NoNode /\ tail = NoNode /\ size = 0
    /\ element = NoElement /\ aborted = FALSE /\ chain = <<>>

Room(n) == start_address + n - 1 <= MaxAddress

\* Mutant of Allocate: the next object begins one byte early.
AllocateShort(n) == start_address' = start_address + n - 1

\* Operator new: the object begins where the last one ended.
Allocate(n) == start_address' = start_address + n

\* Operator delete: "for now we don't release memory".
Release == UNCHANGED start_address

\* Any other object: stacks, threads, the disk.
NewObject(n) ==
    /\ Room(n)
    /\ Allocate(n)
    /\ UNCHANGED <<val, next, head, tail, size, element, aborted, chain>>

\* The scheduler's member q is constructed, and assigned a second queue: the
\* first head is never used again.
Construct ==
    /\ head = NoNode
    /\ Room(2 * NodeSize)
    /\ Allocate(2 * NodeSize)
    /\ LET dummy == start_address + NodeSize IN
       /\ val' = [val EXCEPT ![dummy] = NoElement]
       /\ next' = [next EXCEPT ![dummy] = NoNode]
       /\ head' = dummy /\ tail' = dummy
       /\ chain' = <<dummy>>
    /\ size' = 0
    /\ UNCHANGED <<element, aborted>>

-----------------------------------------------------------------------------
Ready == head # NoNode /\ ~aborted

EnqueueNode(t) ==
    /\ Ready
    /\ Room(NodeSize)
    /\ LET neo_node == start_address IN
       /\ val' = [val EXCEPT ![neo_node] = t]
       /\ next' = [next EXCEPT ![neo_node] = NoNode, ![tail] = neo_node]
       /\ tail' = neo_node
       /\ chain' = Append(chain, neo_node)
    /\ Allocate(NodeSize)
    /\ size' = size + 1
    /\ UNCHANGED <<head, element, aborted>>

DequeueNothing ==
    /\ Ready
    /\ size = 0
    /\ aborted' = TRUE
    /\ UNCHANGED <<start_address, val, next, head, tail, size, element, chain>>

\* Mutant of Dequeue: the thread is read from the head, which holds none.
DequeueHead ==
    /\ Ready
    /\ size # 0
    /\ element' = val[head]
    /\ head' = next[head]
    /\ Release
    /\ size' = size - 1
    /\ chain' = Tail(chain)
    /\ UNCHANGED <<val, next, tail, aborted>>

Dequeue ==
    /\ Ready
    /\ size # 0
    /\ element' = val[next[head]]
    /\ head' = next[head]
    /\ Release
    /\ size' = size - 1
    /\ chain' = Tail(chain)
    /\ UNCHANGED <<val, next, tail, aborted>>

\* The walk of remove stops at the i-th node, the first one before t.
FoundAt(t, i) ==
    /\ val[chain[i + 1]] = t
    /\ \A j \in 1 .. i - 1 : val[chain[j + 1]] # t

\* chain without its i-th node.
Unchained(i) == [k \in 1 .. Len(chain) - 1 |->
                    IF k < i THEN chain[k] ELSE chain[k + 1]]

\* remove of a thread that is not in the queue changes nothing.
Remove(t) ==
    /\ Ready
    /\ \E i \in 1 .. Len(chain) - 1 :
          LET pt == chain[i] IN
          /\ FoundAt(t, i)
          /\ next' = [next EXCEPT ![pt] = next[next[pt]]]
          /\ tail' = IF next[next[pt]] = NoNode THEN pt ELSE tail
          /\ chain' = Unchained(i + 1)
    /\ Release
    /\ size' = size - 1
    /\ UNCHANGED <<val, head, element, aborted>>

QueueNext ==
    \/ \E n \in ObjectSizes : NewObject(n)
    \/ Construct
    \/ \E t \in Element : EnqueueNode(t) \/ Remove(t)
    \/ Dequeue \/ DequeueNothing

QueueSpec == QueueInit /\ [][QueueNext]_nodeVars

-----------------------------------------------------------------------------
\* The pointers in memory are a list from head to tail, in the order in which
\* the nodes were allocated; no two live nodes overlap, none reaches into
\* memory still to be handed out, and size counts the nodes behind the head
\* (queue.H, lines 72 to 128).
Linked ==
    IF head = NoNode THEN chain = <<>> /\ size = 0
    ELSE /\ size >= 0 /\ Len(chain) = size + 1
         /\ chain[1] = head /\ chain[Len(chain)] = tail
         /\ \A i \in 1 .. Len(chain) - 1 : next[chain[i]] = chain[i + 1]
         /\ next[tail] = NoNode
         /\ \A i, j \in 1 .. Len(chain) : i < j => chain[i] + NodeSize <= chain[j]
         /\ \A i \in 1 .. Len(chain) : chain[i] + NodeSize <= start_address

Contents == [i \in 1 .. Len(chain) - 1 |-> val[chain[i + 1]]]

Abstract ==
    INSTANCE ThreadQueue WITH Thread <- Element, Null <- NoElement, queue <- Contents

\* The list is a first-in first-out queue from which threads can be taken out:
\* every call does to the threads behind head, and returns, what ThreadQueue
\* says, whatever else takes memory from the same pool in between.
ImplementsQueue == Abstract!Spec

=============================================================================
