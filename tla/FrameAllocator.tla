--------------------------- MODULE FrameAllocator ----------------------------
(***************************************************************************)
(* What a contiguous frame allocator promises: it hands out runs of frames *)
(* that no one holds, refuses only when there is no such run, and a run    *)
(* that is given back is exactly the one that was handed out.              *)
(***************************************************************************)
EXTENDS Integers

CONSTANTS
    Pool,       \* the pools of frames
    Extent,     \* Extent[p] is the set of the frames p manages
    MaxRequest  \* the longest run that is asked for

VARIABLES
    opened,     \* the pools that exist
    taken,      \* the runs that are not free, as records [first, len]
    got         \* what the last request returned, 0 if it was refused

vars == <<opened, taken, got>>

Cover(s) == s.first .. s.first + s.len - 1

Run(h, n) == [first |-> h, len |-> n]

\* h starts n frames of pool p that are all free.
IsFree(p, h, n) == /\ Cover(Run(h, n)) \subseteq Extent[p]
                   /\ \A s \in taken : Cover(s) \cap Cover(Run(h, n)) = {}

Init == opened = {} /\ taken = {} /\ got = 0

\* A new pool may keep one of its frames for itself.
Open(p) == /\ p \notin opened
           /\ opened' = opened \cup {p}
           /\ \/ taken' = taken
              \/ \E f \in Extent[p] : taken' = taken \cup {Run(f, 1)}
           /\ UNCHANGED got

Take(p, n) == /\ p \in opened
              /\ \E h \in Extent[p] : /\ IsFree(p, h, n)
                                      /\ taken' = taken \cup {Run(h, n)}
                                      /\ got' = h
              /\ UNCHANGED opened

Refuse(p, n) == /\ p \in opened
                /\ ~ \E h \in Extent[p] : IsFree(p, h, n)
                /\ got' = 0
                /\ UNCHANGED <<opened, taken>>

Reserve(p, h, n) == /\ p \in opened
                    /\ IsFree(p, h, n)
                    /\ taken' = taken \cup {Run(h, n)}
                    /\ UNCHANGED <<opened, got>>

GiveBack(s) == /\ s \in taken
               /\ taken' = taken \ {s}
               /\ UNCHANGED <<opened, got>>

Next == \/ \E p \in Pool : Open(p)
        \/ \E p \in Pool : \E n \in 1 .. MaxRequest : Take(p, n) \/ Refuse(p, n)
        \/ \E p \in Pool : \E h \in Extent[p] : \E n \in 1 .. MaxRequest : Reserve(p, h, n)
        \/ \E s \in taken : GiveBack(s)

Spec == Init /\ [][Next]_vars
=============================================================================
