---------------------------- MODULE AddressSpace -----------------------------
(***************************************************************************)
(* What demand paging promises of an address space: a page gets a frame    *)
(* that no page had before, keeps it, and loses it only when it is freed.  *)
(* The system takes frames for itself, too.                                *)
(***************************************************************************)
EXTENDS FiniteSets

CONSTANTS Page, Frame, NoFrame

VARIABLES
    frameOf,    \* the frame of each page, NoFrame without one
    used        \* the frames that the system has, and that pages have or have had

vars == <<frameOf, used>>

Init == frameOf = [v \in Page |-> NoFrame] /\ used \subseteq Frame

Map(v) == /\ frameOf[v] = NoFrame
          /\ \E f \in Frame \ used : /\ frameOf' = [frameOf EXCEPT ![v] = f]
                                     /\ used' = used \cup {f}

Unmap(v) == /\ frameOf[v] # NoFrame
            /\ frameOf' = [frameOf EXCEPT ![v] = NoFrame]
            /\ UNCHANGED used

Reserve == /\ \E f \in Frame \ used : used' = used \cup {f}
           /\ UNCHANGED frameOf

Next == Reserve \/ \E v \in Page : Map(v) \/ Unmap(v)

Spec == Init /\ [][Next]_vars
=============================================================================
