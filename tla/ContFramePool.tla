---------------------------- MODULE ContFramePool ----------------------------
(***************************************************************************)
(* The frame pools of updated_VirtualMemory/cont_frame_pool.C: each keeps  *)
(* two bits of state per frame, hands out contiguous runs first-fit, and   *)
(* is linked into the list that the static release_frames searches.        *)
(*                                                                         *)
(* The methods run to completion: the callers are the kernel's start-up    *)
(* code and the page-fault handler, which has interrupts off.              *)
(***************************************************************************)
EXTENDS Integers, FiniteSets

CONSTANTS
    Pool,       \* the ContFramePool objects
    NoPool,     \* the null pointer
    Base,       \* base_frame_no of each pool
    Size,       \* n_frames of each pool
    OwnInfo,    \* the pools constructed with _info_frame_no = 0
    MaxRequest  \* bound on _n_frames in a call

(* Frame 0 is in no pool, as 0 is what get_frames returns on failure.  The *)
(* kernels of this repository lay the pools out without overlap.           *)
ASSUME LayoutAssumption ==
    /\ Base \in [Pool -> Nat \ {0}] /\ Size \in [Pool -> Nat \ {0}]
    /\ \A p, o \in Pool : p # o => \/ Base[p] + Size[p] <= Base[o]
                                   \/ Base[o] + Size[o] <= Base[p]
    /\ OwnInfo \subseteq Pool /\ NoPool \notin Pool

ASSUME RequestAssumption == MaxRequest \in Nat

Frames(p) == Base[p] .. Base[p] + Size[p] - 1      \* is_belong

Frame == UNION {Frames(p) : p \in Pool}

VARIABLES
    opened,     \* the pools whose constructor has run
    state,      \* the bitmaps: the state of every frame
    nFree,      \* n_free_frames
    head, tail, \* the static list of pools
    link,       \* next of each pool
    granted,    \* the frames get_frames has returned, not yet released
    got         \* what the last get_frames returned

poolVars == <<opened, head, tail, link>>
vars     == <<poolVars, state, nFree, granted, got>>

\* The two bits of memory that nobody has written are ALLOCATED, which is 0.
Init ==
    /\ opened = {}
    /\ state = [f \in Frame |-> "ALLOCATED"]
    /\ nFree = [p \in Pool |-> 0]
    /\ head = NoPool /\ tail = NoPool
    /\ link = [p \in Pool |-> NoPool]
    /\ granted = {}
    /\ got = 0

-----------------------------------------------------------------------------
(* The constructor, with n_info_frames = 1, the value needed_info_frames   *)
(* has for every pool the assertion on _n_frames lets through.             *)

\* Mutant of Construct: a later pool is not linked behind the tail.
ConstructUnlinked(p) ==
    /\ p \notin opened
    /\ opened' = opened \cup {p}
    /\ state' = [f \in Frame |->
                    IF f \notin Frames(p) THEN state[f]
                    ELSE IF p \in OwnInfo /\ f = Base[p] THEN "HEAD" ELSE "FREE"]
    /\ nFree' = [nFree EXCEPT ![p] = IF p \in OwnInfo THEN Size[p] - 1 ELSE Size[p]]
    /\ head' = IF head = NoPool THEN p ELSE head
    /\ tail' = IF head = NoPool THEN p ELSE tail
    /\ link' = [link EXCEPT ![p] = NoPool]
    /\ UNCHANGED <<granted, got>>

\* A second pool is linked behind the first, but tail does not move.
Construct(p) ==
    /\ p \notin opened
    /\ opened' = opened \cup {p}
    /\ state' = [f \in Frame |->
                    IF f \notin Frames(p) THEN state[f]
                    ELSE IF p \in OwnInfo /\ f = Base[p] THEN "HEAD" ELSE "FREE"]
    /\ nFree' = [nFree EXCEPT ![p] = IF p \in OwnInfo THEN Size[p] - 1 ELSE Size[p]]
    /\ head' = IF head = NoPool THEN p ELSE head
    /\ tail' = IF head = NoPool THEN p ELSE tail
    /\ link' = IF head = NoPool THEN [link EXCEPT ![p] = NoPool]
                                ELSE [link EXCEPT ![tail] = p, ![p] = NoPool]
    /\ UNCHANGED <<granted, got>>

-----------------------------------------------------------------------------
(* mark_inaccessible and get_frames.                                       *)

\* mark_inaccessible(h, n): the first frame becomes the head of the sequence,
\* the others are allocated, whatever they were.
Marked(h, n) == [f \in Frame |-> IF f = h THEN "HEAD"
                                 ELSE IF f \in h + 1 .. h + n - 1 THEN "ALLOCATED"
                                 ELSE state[f]]

\* Mutant of Fits: the head of a sequence passes for a free frame.
FitsOverHeads(p, n) == {h \in Frames(p) : \A f \in h .. h + n - 1 :
                            f \in Frames(p) /\ state[f] # "ALLOCATED"}

Fits(p, n) == {h \in Frames(p) : \A f \in h .. h + n - 1 :
                                     f \in Frames(p) /\ state[f] = "FREE"}

FirstFit(p, n) == CHOOSE h \in Fits(p, n) : \A g \in Fits(p, n) : h <= g

\* Mutant of GetFrames: the frames handed out stay in n_free_frames.
GetFramesUncounted(p, n) ==
    /\ p \in opened
    /\ Fits(p, n) # {}
    /\ LET h == FirstFit(p, n)
       IN  /\ state' = Marked(h, n)
           /\ granted' = granted \cup {h}
           /\ got' = h
    /\ UNCHANGED <<poolVars, nFree>>

GetFrames(p, n) ==
    /\ p \in opened
    /\ Fits(p, n) # {}
    /\ LET h == FirstFit(p, n)
       IN  /\ state' = Marked(h, n)
           /\ granted' = granted \cup {h}
           /\ got' = h
    /\ nFree' = [nFree EXCEPT ![p] = @ - n]
    /\ UNCHANGED poolVars

GetFramesFails(p, n) ==
    /\ p \in opened
    /\ Fits(p, n) = {}
    /\ got' = 0
    /\ UNCHANGED <<poolVars, state, nFree, granted>>

\* The kernel marks memory it has not allocated, such as the hole below 16 MB.
MarkInaccessible(p, h, n) ==
    /\ p \in opened
    /\ \A f \in h .. h + n - 1 : f \in Frames(p) /\ state[f] = "FREE"
    /\ state' = Marked(h, n)
    /\ nFree' = [nFree EXCEPT ![p] = @ - n]
    /\ UNCHANGED <<poolVars, granted, got>>

-----------------------------------------------------------------------------
(* release_frames: find the pool in the list, then free the frame and the  *)
(* ALLOCATED ones that follow it in the pool.                              *)

\* The pools release_frames looks at, from head along next: the ones in every
\* set of pools that holds head and, with a pool, the next one.
FollowsNext(S) == /\ head \in S \cup {NoPool}
                  /\ \A p \in S : link[p] \in S \cup {NoPool}

Listed == {p \in Pool : \A S \in SUBSET Pool : FollowsNext(S) => p \in S}

\* The walk over the bitmap "bits" of pool p, started at f, returns at e.
IsRunEnd(bits, p, f, e) == /\ e \in f + 1 .. Base[p] + Size[p]
                           /\ e \in Frames(p) => bits[e] # "ALLOCATED"
                           /\ \A g \in f + 1 .. e - 1 : bits[g] = "ALLOCATED"

RunEnd(bits, p, f) == CHOOSE e \in f + 1 .. Base[p] + Size[p] : IsRunEnd(bits, p, f, e)

\* local_release_frames of pool p.
LocalRelease(p, f) ==
    LET end == RunEnd(state, p, f)
    IN  /\ state' = [g \in Frame |-> IF g \in f .. end - 1 THEN "FREE" ELSE state[g]]
        /\ nFree' = [nFree EXCEPT ![p] = @ + (end - f)]

ReleaseFrames(f) ==
    /\ granted' = granted \ {f}
    /\ IF \E p \in Listed : f \in Frames(p)
         THEN \E p \in Listed : f \in Frames(p) /\ LocalRelease(p, f)
         ELSE UNCHANGED <<state, nFree>>
    /\ UNCHANGED <<poolVars, got>>

-----------------------------------------------------------------------------
\* Everything but a release.
Allocate == \E p \in Pool :
    \/ Construct(p)
    \/ \E n \in 1 .. MaxRequest : GetFrames(p, n) \/ GetFramesFails(p, n)
    \/ \E h \in Frames(p), n \in 1 .. MaxRequest : MarkInaccessible(p, h, n)

\* Callers release what get_frames gave them, once.
Next == Allocate \/ \E f \in granted : ReleaseFrames(f)

Spec == Init /\ [][Next]_vars

-----------------------------------------------------------------------------
TypeOK ==
    /\ opened \subseteq Pool
    /\ state \in [Frame -> {"FREE", "ALLOCATED", "HEAD"}]
    /\ nFree \in [Pool -> Int]
    /\ head \in Pool \cup {NoPool} /\ tail \in Pool \cup {NoPool}
    /\ link \in [Pool -> Pool \cup {NoPool}]
    /\ granted \subseteq Frame
    /\ got \in Frame \cup {0}

FreeFrames(p) == {f \in Frames(p) : state[f] = "FREE"}

\* n_free_frames, which each method counts up or down on its own, is the number
\* of frames of the pool that the bitmap has as free.
FreeCount == \A p \in opened : nFree[p] = Cardinality(FreeFrames(p))

\* Every allocated frame follows, within its pool, another frame that is not
\* free: back to the head of its sequence, so a release misses none.
NoOrphan == \A p \in opened : \A f \in Frames(p) :
                state[f] = "ALLOCATED" => f - 1 \in Frames(p) /\ state[f - 1] # "FREE"

\* A frame that get_frames returned stays the head of a sequence until it is
\* released itself: no release takes another caller's sequence along.
GrantedIsHead == \A f \in granted : state[f] = "HEAD"

\* release_frames finds every pool that has been constructed.
ChainComplete == opened \subseteq Listed

-----------------------------------------------------------------------------
(* What the bitmaps stand for: the runs that start with a HEAD.            *)

PoolOf(f) == CHOOSE p \in Pool : f \in Frames(p)

taken == {[first |-> f, len |-> RunEnd(state, PoolOf(f), f) - f] :
             f \in {g \in UNION {Frames(p) : p \in opened} : state[g] = "HEAD"}}

FA == INSTANCE FrameAllocator WITH Extent <- [p \in Pool |-> Frames(p)]

\* get_frames hands out a run nobody holds, or there is none, and release_frames
\* gives back exactly the sequence that starts with the frame it is called for.
ImplementsAllocator == FA!Spec

-----------------------------------------------------------------------------
(* The two loops as the code runs them.  The actions above use what they   *)
(* compute.                                                                *)

\* Mutant of ScanLoop: a frame in use does not start the count anew.
ScanLoopNoReset(p, n) ==
    LET scan[i \in Base[p] .. Base[p] + Size[p]] ==
            [inRow \in 0 .. n - 1 |->
                LET now == IF state[i] = "FREE" THEN inRow + 1 ELSE inRow
                IN  IF i = Base[p] + Size[p] THEN 0
                    ELSE IF now = n THEN i - now + 1
                    ELSE scan[i + 1][now]]
    IN  scan[Base[p]][0]

\* get_frames(n) of pool p: count the free frames in a row, from the base on.
ScanLoop(p, n) ==
    LET scan[i \in Base[p] .. Base[p] + Size[p]] ==
            [inRow \in 0 .. n - 1 |->
                LET now == IF state[i] = "FREE" THEN inRow + 1 ELSE 0
                IN  IF i = Base[p] + Size[p] THEN 0
                    ELSE IF now = n THEN i - now + 1
                    ELSE scan[i + 1][now]]
    IN  scan[Base[p]][0]

\* local_release_frames(f) of pool p: the frame the walk from f + 1 returns at.
WalkLoop(p, f) ==
    LET walk[i \in f + 1 .. Base[p] + Size[p]] ==
            IF i = Base[p] + Size[p] \/ state[i] \in {"FREE", "HEAD"} THEN i
            ELSE walk[i + 1]
    IN  walk[f + 1]

\* The scan finds the first fit whenever there is one, also when a longer free
\* run follows a short one, and the walk stops where the run does.
LoopsCompute == \A p \in opened :
    /\ \A n \in 1 .. MaxRequest :
           ScanLoop(p, n) = IF Fits(p, n) = {} THEN 0 ELSE FirstFit(p, n)
    /\ \A f \in Frames(p) : WalkLoop(p, f) = RunEnd(state, p, f)
=============================================================================
