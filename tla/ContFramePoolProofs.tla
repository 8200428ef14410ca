------------------------- MODULE ContFramePoolProofs -------------------------
(***************************************************************************)
(* For every layout of the pools and every sequence of calls, as long as a *)
(* caller releases what it was given and once: n_free_frames counts the    *)
(* free frames, every sequence keeps its head, and no call takes a frame   *)
(* of a sequence that belongs to someone else; the list of two pools is    *)
(* complete; the pools implement FrameAllocator; and the loops of          *)
(* get_frames and local_release_frames compute what the actions use.       *)
(***************************************************************************)
EXTENDS ContFramePool, FiniteSetTheorems, WellFoundedInduction, TLAPS

-----------------------------------------------------------------------------
(* Numbers and frames.                                                     *)

\* A set of natural numbers that is not empty has a least element: what the
\* linear searches of get_frames and local_release_frames return.
LEMMA LeastExists ==
    ASSUME NEW S \in SUBSET Nat, S # {}
    PROVE  \E m \in S : \A k \in S : m <= k
<1> DEFINE R == OpToRel(<, Nat)
<1>1. IsWellFoundedOn(R, Nat)
  BY NatLessThanWellFounded
<1>2. PICK m \in S : \A k \in S : <<k, m>> \notin R
  <2> HIDE DEF R
  <2> QED
    BY <1>1, WFMin
<1>3. \A k \in S : ~(k < m)
  BY <1>2 DEF OpToRel
<1> QED
  BY <1>3

LEMMA RunCardinality ==
    ASSUME NEW h \in Nat, NEW n \in Nat
    PROVE  IsFiniteSet(h .. h + n - 1) /\ Cardinality(h .. h + n - 1) = n
<1>1. h \in Int /\ h + n - 1 \in Int
  OBVIOUS
<1>2. /\ IsFiniteSet(h .. h + n - 1)
      /\ Cardinality(h .. h + n - 1) =
             IF h > h + n - 1 THEN 0 ELSE h + n - 1 - h + 1
  BY <1>1, FS_Interval
<1> QED
  BY <1>2

\* A pool's frames are an interval of positive numbers.
LEMMA PoolFrames ==
    ASSUME NEW p \in Pool
    PROVE  /\ Base[p] \in Nat \ {0} /\ Size[p] \in Nat \ {0}
           /\ Frames(p) = Base[p] .. Base[p] + Size[p] - 1
           /\ Frames(p) \subseteq Nat \ {0}
           /\ Frames(p) \subseteq Frame
           /\ Base[p] \in Frames(p)
           /\ IsFiniteSet(Frames(p)) /\ Cardinality(Frames(p)) = Size[p]
<1>1. Base[p] \in Nat \ {0} /\ Size[p] \in Nat \ {0}
  BY LayoutAssumption
<1>2. Frames(p) \subseteq Nat \ {0} /\ Base[p] \in Frames(p)
  BY <1>1 DEF Frames
<1>3. IsFiniteSet(Frames(p)) /\ Cardinality(Frames(p)) = Size[p]
  <2>1. /\ IsFiniteSet(Base[p] .. Base[p] + Size[p] - 1)
        /\ Cardinality(Base[p] .. Base[p] + Size[p] - 1) = Size[p]
    BY <1>1, RunCardinality
  <2> QED
    BY <2>1 DEF Frames
<1> QED
  BY <1>1, <1>2, <1>3 DEF Frames, Frame

\* No frame is in two pools.
LEMMA PoolsDisjoint ==
    ASSUME NEW p \in Pool, NEW o \in Pool, NEW f \in Frames(p), f \in Frames(o)
    PROVE  p = o
<1>1. /\ Base[p] \in Nat /\ Size[p] \in Nat
      /\ Base[o] \in Nat /\ Size[o] \in Nat
  BY LayoutAssumption
<1>2. p # o => \/ Base[p] + Size[p] <= Base[o]
               \/ Base[o] + Size[o] <= Base[p]
  BY LayoutAssumption
<1> QED
  BY <1>1, <1>2 DEF Frames

LEMMA FrameNat == Frame \subseteq Nat \ {0}
BY PoolFrames DEF Frame

-----------------------------------------------------------------------------
(* The two searches.                                                       *)

\* First fit returns a frame with n free frames of the pool from it on.
LEMMA FirstFitFits ==
    ASSUME NEW p \in Pool, NEW n \in Nat, Fits(p, n) # {}
    PROVE  /\ FirstFit(p, n) \in Fits(p, n)
           /\ FirstFit(p, n) \in Frames(p)
           /\ \A f \in FirstFit(p, n) .. FirstFit(p, n) + n - 1 :
                  f \in Frames(p) /\ state[f] = "FREE"
<1>1. Fits(p, n) \subseteq Frames(p)
  BY DEF Fits
<1>2. Fits(p, n) \in SUBSET Nat
  BY <1>1, PoolFrames
<1>3. \E h \in Fits(p, n) : \A g \in Fits(p, n) : h <= g
  BY <1>2, LeastExists
<1>4. FirstFit(p, n) \in Fits(p, n)
  BY <1>3 DEF FirstFit
<1> QED
  BY <1>1, <1>4 DEF Fits

\* The walk of local_release_frames always ends, at the end of the pool at the
\* latest, and the frames it passes are ALLOCATED.
LEMMA RunEndIsEnd ==
    ASSUME NEW bits, NEW p \in Pool, NEW f \in Frames(p)
    PROVE  /\ RunEnd(bits, p, f) \in f + 1 .. Base[p] + Size[p]
           /\ RunEnd(bits, p, f) \in Nat
           /\ IsRunEnd(bits, p, f, RunEnd(bits, p, f))
<1> DEFINE last  == Base[p] + Size[p]
           stops == {e \in f + 1 .. last : e \in Frames(p) => bits[e] # "ALLOCATED"}
<1>1. /\ f \in Nat /\ last \in Nat /\ f + 1 <= last /\ last \notin Frames(p)
      /\ Base[p] <= f
  BY PoolFrames
<1>2. last \in stops /\ stops \in SUBSET Nat
  BY <1>1
<1>3. PICK e \in stops : \A k \in stops : e <= k
  BY <1>2, LeastExists
<1>4. \A g \in f + 1 .. e - 1 : bits[g] = "ALLOCATED"
  BY <1>1, <1>3
<1>5. IsRunEnd(bits, p, f, e)
  BY <1>3, <1>4 DEF IsRunEnd
<1>6. IsRunEnd(bits, p, f, RunEnd(bits, p, f)) /\ RunEnd(bits, p, f) \in f + 1 .. last
  BY <1>3, <1>5 DEF RunEnd
<1> QED
  BY <1>1, <1>6

\* The frames a release sets FREE are in the released frame's pool.
LEMMA RunInPool ==
    ASSUME NEW p \in Pool, NEW f \in Frames(p)
    PROVE  f .. RunEnd(state, p, f) - 1 \subseteq Frames(p)
BY RunEndIsEnd, PoolFrames

-----------------------------------------------------------------------------
(* The inductive invariant.                                                *)

\* The list of pools holds constructed pools only.
ListOK == /\ head \in opened \cup {NoPool}
          /\ \A p \in Pool : link[p] \in opened \cup {NoPool}

GrantedOpened == \A f \in granted : \E p \in opened : f \in Frames(p)

IInv == /\ TypeOK /\ FreeCount /\ NoOrphan /\ GrantedIsHead
        /\ ListOK /\ GrantedOpened

LEMMA ListedOpened ==
    ASSUME TypeOK, ListOK
    PROVE  Listed \subseteq opened
<1>1. opened \in SUBSET Pool /\ FollowsNext(opened)
  BY DEF TypeOK, ListOK, FollowsNext
<1> QED
  BY <1>1 DEF Listed

LEMMA InitInv == Init => IInv
BY PoolFrames DEF Init, IInv, TypeOK, FreeCount, NoOrphan, GrantedIsHead, ListOK,
                  GrantedOpened

-----------------------------------------------------------------------------
(* Marking a run of free frames: get_frames and mark_inaccessible.         *)

\* n frames from h on, all free and in pool p.
FreeRun(p, h, n) == /\ h \in Frames(p)
                    /\ \A f \in h .. h + n - 1 : f \in Frames(p) /\ state[f] = "FREE"

LEMMA MarkedState ==
    ASSUME NEW h \in Nat, NEW n \in Nat \ {0}, state' = Marked(h, n),
           NEW f \in Frame
    PROVE  /\ f \in h .. h + n - 1 => state'[f] = IF f = h THEN "HEAD" ELSE "ALLOCATED"
           /\ f \notin h .. h + n - 1 => state'[f] = state[f]
<1>1. f \in Nat
  BY FrameNat
<1> QED
  BY <1>1 DEF Marked

LEMMA MarkedCount ==
    ASSUME TypeOK, NEW p \in Pool, NEW h \in Nat, NEW n \in Nat \ {0},
           FreeRun(p, h, n), state' = Marked(h, n)
    PROVE  /\ Cardinality(FreeFrames(p)') = Cardinality(FreeFrames(p)) - n
           /\ \A o \in Pool \ {p} : FreeFrames(o)' = FreeFrames(o)
<1> DEFINE run == h .. h + n - 1
<1>1. run \subseteq FreeFrames(p)
  BY DEF FreeRun, FreeFrames
<1>2. IsFiniteSet(FreeFrames(p))
  <2>1. FreeFrames(p) \in SUBSET Frames(p)
    BY DEF FreeFrames
  <2> QED
    BY <2>1, PoolFrames, FS_Subset
<1>3. \A o \in Pool : \A f \in Frames(o) :
          state'[f] = "FREE" <=> state[f] = "FREE" /\ f \notin run
  BY MarkedState, PoolFrames DEF FreeRun
<1>4. FreeFrames(p)' = FreeFrames(p) \ run
  BY <1>3 DEF FreeFrames, Frames
<1>5. Cardinality(run) = n
  BY RunCardinality
<1>6. FreeFrames(p) \cap run = run
  BY <1>1
<1>7. Cardinality(FreeFrames(p) \ run) =
          Cardinality(FreeFrames(p)) - Cardinality(FreeFrames(p) \cap run)
  <2> HIDE DEF run
  <2> QED
    BY <1>2, FS_Difference
<1>8. Cardinality(FreeFrames(p)') = Cardinality(FreeFrames(p)) - n
  BY <1>4, <1>5, <1>6, <1>7
<1>9. ASSUME NEW o \in Pool \ {p}
      PROVE  FreeFrames(o)' = FreeFrames(o)
  <2>1. \A f \in Frames(o) : f \notin run
    BY PoolsDisjoint DEF FreeRun
  <2> QED
    BY <1>3, <2>1 DEF FreeFrames, Frames
<1> QED
  BY <1>8, <1>9

LEMMA MarkedNoOrphan ==
    ASSUME TypeOK, NoOrphan, NEW p \in Pool, NEW h \in Nat, NEW n \in Nat \ {0},
           FreeRun(p, h, n), state' = Marked(h, n), opened' = opened
    PROVE  NoOrphan'
<1> SUFFICES ASSUME NEW o \in opened, NEW f \in Frames(o), state'[f] = "ALLOCATED"
             PROVE  f - 1 \in Frames(o) /\ state'[f - 1] # "FREE"
  BY DEF NoOrphan, Frames
<1>1. o \in Pool /\ f \in Nat \ {0} /\ f \in Frame
  BY PoolFrames DEF TypeOK
<1>2. CASE f \in h + 1 .. h + n - 1
  <2>1. f \in Frames(p) /\ f - 1 \in h .. h + n - 1 /\ f - 1 \in Frames(p)
    BY <1>1, <1>2 DEF FreeRun
  <2>2. o = p
    BY <1>1, <2>1, PoolsDisjoint
  <2>3. f - 1 \in Frame
    BY <2>1, PoolFrames
  <2> QED
    BY <2>1, <2>2, <2>3, MarkedState
<1>3. CASE f \notin h + 1 .. h + n - 1
  <2>1. f # h
    BY <1>1, MarkedState
  <2>2. f \notin h .. h + n - 1
    BY <1>1, <1>3, <2>1
  <2>3. state[f] = "ALLOCATED"
    BY <1>1, <2>2, MarkedState
  <2>4. f - 1 \in Frames(o) /\ state[f - 1] # "FREE"
    BY <2>3 DEF NoOrphan
  <2>5. f - 1 \notin h .. h + n - 1
    BY <2>4 DEF FreeRun
  <2>6. f - 1 \in Frame
    BY <1>1, <2>4, PoolFrames
  <2> QED
    BY <2>4, <2>5, <2>6, MarkedState
<1> QED
  BY <1>2, <1>3

\* What marking does to the invariant, whatever becomes of "granted" as long as
\* it only gains the head of the run.
LEMMA MarkedInv ==
    ASSUME IInv, NEW p \in opened, NEW h \in Nat, NEW n \in Nat \ {0},
           FreeRun(p, h, n), state' = Marked(h, n),
           nFree' = [nFree EXCEPT ![p] = @ - n],
           UNCHANGED poolVars, granted' \in {granted, granted \cup {h}},
           got' \in Frame \cup {0}
    PROVE  IInv'
<1>1. /\ TypeOK /\ FreeCount /\ NoOrphan /\ GrantedIsHead /\ ListOK /\ GrantedOpened
      /\ p \in Pool /\ h \in Frames(p) /\ h \in Frame /\ state[h] = "FREE"
  BY PoolFrames DEF IInv, TypeOK, FreeRun
<1>2. TypeOK'
  BY <1>1 DEF TypeOK, Marked, poolVars
<1>3. FreeCount'
  <2>1. \A o \in opened : nFree[o] = Cardinality(FreeFrames(o))
    BY <1>1 DEF FreeCount
  <2>2. \A o \in opened : nFree'[o] = Cardinality(FreeFrames(o)')
    BY <1>1, <2>1, MarkedCount DEF TypeOK
  <2> QED
    BY <2>2 DEF FreeCount, poolVars
<1>4. NoOrphan'
  BY <1>1, MarkedNoOrphan DEF poolVars
<1>5. GrantedIsHead'
  <2> SUFFICES ASSUME NEW f \in granted' PROVE state'[f] = "HEAD"
    BY DEF GrantedIsHead
  <2>1. CASE f = h
    BY <1>1, <2>1, MarkedState
  <2>2. CASE f # h
    <3>1. f \in granted /\ f \in Frame /\ state[f] = "HEAD"
      BY <1>1, <2>2 DEF GrantedIsHead, TypeOK
    <3>2. f \notin h .. h + n - 1
      BY <3>1 DEF FreeRun
    <3> QED
      BY <3>1, <3>2, MarkedState
  <2> QED
    BY <2>1, <2>2
<1>6. ListOK' /\ GrantedOpened'
  BY <1>1 DEF ListOK, GrantedOpened, poolVars, Frames
<1> QED
  BY <1>2, <1>3, <1>4, <1>5, <1>6 DEF IInv


-----------------------------------------------------------------------------
(* Releasing a sequence.                                                   *)

\* The frames that local_release_frames sets free when called for f.
Released(p, f) == f .. RunEnd(state, p, f) - 1

LEMMA ReleasedFacts ==
    ASSUME NEW p \in Pool, NEW f \in Frames(p), state[f] = "HEAD"
    PROVE  /\ f \in Nat /\ RunEnd(state, p, f) - f \in Nat \ {0}
           /\ Released(p, f) = f .. f + (RunEnd(state, p, f) - f) - 1
           /\ Released(p, f) \subseteq Frames(p)
           /\ f \in Released(p, f)
           /\ \A g \in Released(p, f) : g # f => state[g] = "ALLOCATED"
<1>1. /\ f \in Nat /\ RunEnd(state, p, f) \in Nat /\ f + 1 <= RunEnd(state, p, f)
      /\ IsRunEnd(state, p, f, RunEnd(state, p, f))
  BY RunEndIsEnd, PoolFrames
<1>2. Released(p, f) \subseteq Frames(p)
  BY RunInPool DEF Released
<1> QED
  BY <1>1, <1>2 DEF Released, IsRunEnd

LEMMA ReleasedCount ==
    ASSUME NEW p \in Pool, NEW f \in Frames(p), state[f] = "HEAD", LocalRelease(p, f)
    PROVE  /\ Cardinality(FreeFrames(p)') =
                  Cardinality(FreeFrames(p)) + (RunEnd(state, p, f) - f)
           /\ \A o \in Pool \ {p} : FreeFrames(o)' = FreeFrames(o)
<1> DEFINE run == Released(p, f)
<1>1. \A o \in Pool : \A g \in Frames(o) :
          state'[g] = "FREE" <=> state[g] = "FREE" \/ g \in run
  BY PoolFrames DEF LocalRelease, Released
<1>2. FreeFrames(p)' = FreeFrames(p) \cup run
  BY <1>1, ReleasedFacts DEF FreeFrames, Frames
<1>3. FreeFrames(p) \cap run = {}
  BY ReleasedFacts DEF FreeFrames
<1>4. IsFiniteSet(run) /\ Cardinality(run) = RunEnd(state, p, f) - f
  BY ReleasedFacts, RunCardinality
<1>5. IsFiniteSet(FreeFrames(p)) /\ Cardinality(FreeFrames(p)) \in Nat
  <2>1. FreeFrames(p) \in SUBSET Frames(p)
    BY DEF FreeFrames
  <2>2. IsFiniteSet(FreeFrames(p))
    BY <2>1, PoolFrames, FS_Subset
  <2> QED
    BY <2>2, FS_CardinalityType
<1>6. Cardinality(FreeFrames(p) \cup run) =
          Cardinality(FreeFrames(p)) + Cardinality(run)
              - Cardinality(FreeFrames(p) \cap run)
  <2> HIDE DEF run
  <2> QED
    BY <1>4, <1>5, FS_Union
<1>7. Cardinality(FreeFrames(p)') = Cardinality(FreeFrames(p)) + (RunEnd(state, p, f) - f)
  <2>1. Cardinality(FreeFrames(p) \cap run) = 0
    BY <1>3, FS_EmptySet
  <2>2. RunEnd(state, p, f) - f \in Nat
    BY ReleasedFacts
  <2> DEFINE k == RunEnd(state, p, f) - f
             c == Cardinality(FreeFrames(p))
  <2>3. c \in Nat /\ k \in Nat /\ Cardinality(FreeFrames(p) \cup run) = c + k - 0
    BY <1>4, <1>5, <1>6, <2>1, <2>2
  <2> HIDE DEF k, c
  <2>4. Cardinality(FreeFrames(p) \cup run) = c + k
    BY <2>3
  <2> QED
    BY <1>2, <2>4 DEF k, c
<1>8. ASSUME NEW o \in Pool \ {p}
      PROVE  FreeFrames(o)' = FreeFrames(o)
  <2>1. \A g \in Frames(o) : g \notin run
    BY PoolsDisjoint, ReleasedFacts
  <2> QED
    BY <1>1, <2>1 DEF FreeFrames, Frames
<1> QED
  BY <1>7, <1>8

LEMMA ReleasedNoOrphan ==
    ASSUME TypeOK, NoOrphan, NEW p \in Pool, NEW f \in Frames(p), state[f] = "HEAD",
           LocalRelease(p, f), opened' = opened
    PROVE  NoOrphan'
<1> SUFFICES ASSUME NEW o \in opened, NEW g \in Frames(o), state'[g] = "ALLOCATED"
             PROVE  g - 1 \in Frames(o) /\ state'[g - 1] # "FREE"
  BY DEF NoOrphan, Frames
<1>1. o \in Pool /\ g \in Nat \ {0} /\ g \in Frame
  BY PoolFrames DEF TypeOK
<1>2. g \notin Released(p, f) /\ state[g] = "ALLOCATED"
  BY <1>1 DEF LocalRelease, Released
<1>3. g - 1 \in Frames(o) /\ state[g - 1] # "FREE"
  BY <1>2 DEF NoOrphan
<1>4. g - 1 \notin Released(p, f)
  <2> SUFFICES ASSUME g - 1 \in Released(p, f) PROVE FALSE
    OBVIOUS
  <2>1. o = p
    BY <1>1, <1>3, PoolsDisjoint, ReleasedFacts
  <2>2. g = RunEnd(state, p, f)
    BY <1>1, <1>2, RunEndIsEnd, PoolFrames DEF Released
  <2> QED
    BY <1>2, <2>1, <2>2, RunEndIsEnd DEF IsRunEnd
<1>5. g - 1 \in Frame
  BY <1>1, <1>3, PoolFrames
<1> QED
  BY <1>3, <1>4, <1>5 DEF LocalRelease, Released

LEMMA ReleaseInv ==
    ASSUME IInv, NEW f \in granted, ReleaseFrames(f)
    PROVE  IInv'
<1>1. /\ TypeOK /\ FreeCount /\ NoOrphan /\ GrantedIsHead /\ ListOK /\ GrantedOpened
      /\ f \in Frame /\ state[f] = "HEAD" /\ UNCHANGED poolVars /\ got' = got
      /\ granted' = granted \ {f}
  BY DEF IInv, TypeOK, GrantedIsHead, ReleaseFrames
<1>2. ListOK' /\ GrantedOpened'
  BY <1>1 DEF ListOK, GrantedOpened, poolVars, Frames
<1>3. CASE UNCHANGED <<state, nFree>>
  <2>1. TypeOK' /\ GrantedIsHead'
    BY <1>1, <1>3 DEF TypeOK, GrantedIsHead, poolVars
  <2>2. FreeCount' /\ NoOrphan'
    BY <1>1, <1>3 DEF FreeCount, NoOrphan, FreeFrames, Frames, poolVars
  <2> QED
    BY <1>2, <2>1, <2>2 DEF IInv
<1>4. ASSUME NEW p \in Listed, f \in Frames(p), LocalRelease(p, f)
      PROVE  IInv'
  <2>1. p \in opened /\ p \in Pool
    BY <1>1, ListedOpened DEF TypeOK
  <2>2. RunEnd(state, p, f) - f \in Int
    BY <1>1, <1>4, <2>1, ReleasedFacts
  <2>3. TypeOK'
    BY <1>1, <1>4, <2>1, <2>2 DEF TypeOK, LocalRelease, poolVars
  <2>4. FreeCount'
    <3>1. \A o \in opened : nFree[o] = Cardinality(FreeFrames(o))
      BY <1>1 DEF FreeCount
    <3>2. nFree' = [nFree EXCEPT ![p] = @ + (RunEnd(state, p, f) - f)]
      BY <1>4 DEF LocalRelease
    <3>3. \A o \in opened : nFree'[o] = Cardinality(FreeFrames(o)')
      BY <1>1, <1>4, <2>1, <3>1, <3>2, ReleasedCount DEF TypeOK
    <3> QED
      BY <1>1, <3>3 DEF FreeCount, poolVars
  <2>5. NoOrphan'
    BY <1>1, <1>4, <2>1, ReleasedNoOrphan DEF poolVars
  <2>6. GrantedIsHead'
    <3> SUFFICES ASSUME NEW g \in granted' PROVE state'[g] = "HEAD"
      BY DEF GrantedIsHead
    <3>1. g \in Frame /\ g # f /\ state[g] = "HEAD"
      BY <1>1 DEF GrantedIsHead, TypeOK
    <3>2. g \notin Released(p, f)
      BY <1>1, <1>4, <2>1, <3>1, ReleasedFacts
    <3> QED
      BY <1>4, <3>1, <3>2 DEF LocalRelease, Released
  <2> QED
    BY <1>2, <2>3, <2>4, <2>5, <2>6 DEF IInv
<1> QED
  BY <1>3, <1>4 DEF ReleaseFrames


-----------------------------------------------------------------------------
(* Constructing a pool.                                                    *)

LEMMA ConstructInv ==
    ASSUME IInv, NEW p \in Pool, Construct(p)
    PROVE  IInv'
<1>1. /\ TypeOK /\ FreeCount /\ NoOrphan /\ GrantedIsHead /\ ListOK /\ GrantedOpened
      /\ p \notin opened /\ opened' = opened \cup {p} /\ opened \subseteq Pool
      /\ UNCHANGED <<granted, got>>
  BY DEF IInv, TypeOK, Construct
<1>2. \A f \in Frame : state'[f] = IF f \notin Frames(p) THEN state[f]
                                   ELSE IF p \in OwnInfo /\ f = Base[p] THEN "HEAD"
                                   ELSE "FREE"
  BY DEF Construct
<1>3. \A o \in opened : \A f \in Frames(o) : f \in Frame /\ state'[f] = state[f]
  BY <1>1, <1>2, PoolsDisjoint, PoolFrames
<1>4. \A f \in Frames(p) : f \in Frame /\ state'[f] # "ALLOCATED"
  BY <1>2, PoolFrames
<1>5. TypeOK'
  <2>1. nFree' \in [Pool -> Int]
    <3>1. Size[p] \in Int /\ Size[p] - 1 \in Int
      BY LayoutAssumption
    <3> QED
      BY <1>1, <3>1 DEF TypeOK, Construct
  <2>2. state' \in [Frame -> {"FREE", "ALLOCATED", "HEAD"}]
    BY <1>1 DEF TypeOK, Construct
  <2>3. /\ head' \in Pool \cup {NoPool} /\ tail' \in Pool \cup {NoPool}
        /\ link' \in [Pool -> Pool \cup {NoPool}]
    BY <1>1 DEF TypeOK, Construct
  <2> QED
    BY <1>1, <2>1, <2>2, <2>3 DEF TypeOK
<1>6. FreeCount'
  <2>1. ASSUME NEW o \in opened PROVE nFree'[o] = Cardinality(FreeFrames(o)')
    <3>1. FreeFrames(o)' = FreeFrames(o)
      BY <1>3 DEF FreeFrames, Frames
    <3>2. nFree'[o] = nFree[o]
      BY <1>1 DEF Construct, TypeOK
    <3> QED
      BY <1>1, <3>1, <3>2 DEF FreeCount
  <2>2. nFree'[p] = Cardinality(FreeFrames(p)')
    <3>1. /\ IsFiniteSet(Frames(p)) /\ Cardinality(Frames(p)) = Size[p]
          /\ Base[p] \in Frames(p)
      BY PoolFrames
    <3>2. nFree'[p] = IF p \in OwnInfo THEN Size[p] - 1 ELSE Size[p]
      BY <1>1 DEF Construct, TypeOK
    <3>3. CASE p \in OwnInfo
      <4>1. FreeFrames(p)' = Frames(p) \ {Base[p]}
        BY <1>2, <3>3, PoolFrames DEF FreeFrames, Frames
      <4>2. Cardinality(Frames(p) \ {Base[p]}) = Cardinality(Frames(p)) - 1
        BY <3>1, FS_RemoveElement
      <4> QED
        BY <3>1, <3>2, <3>3, <4>1, <4>2
    <3>4. CASE p \notin OwnInfo
      <4>1. FreeFrames(p)' = Frames(p)
        BY <1>2, <3>4, PoolFrames DEF FreeFrames, Frames
      <4> QED
        BY <3>1, <3>2, <3>4, <4>1
    <3> QED
      BY <3>3, <3>4
  <2> QED
    BY <1>1, <2>1, <2>2 DEF FreeCount
<1>7. NoOrphan'
  <2> SUFFICES ASSUME NEW o \in opened', NEW f \in Frames(o), state'[f] = "ALLOCATED"
               PROVE  f - 1 \in Frames(o) /\ state'[f - 1] # "FREE"
    BY DEF NoOrphan, Frames
  <2>1. o \in opened
    BY <1>1, <1>4
  <2>2. f - 1 \in Frames(o) /\ state[f - 1] # "FREE"
    BY <1>1, <1>3, <2>1 DEF NoOrphan
  <2> QED
    BY <1>3, <2>1, <2>2
<1>8. GrantedIsHead'
  BY <1>1, <1>3 DEF GrantedIsHead, GrantedOpened
<1>9. ListOK'
  BY <1>1 DEF ListOK, Construct, TypeOK
<1>10. GrantedOpened'
  BY <1>1 DEF GrantedOpened, Frames
<1> QED
  BY <1>5, <1>6, <1>7, <1>8, <1>9, <1>10 DEF IInv

-----------------------------------------------------------------------------
LEMMA NextInv == IInv /\ [Next]_vars => IInv'
<1> SUFFICES ASSUME IInv, [Next]_vars PROVE IInv'
  OBVIOUS
<1>1. ASSUME NEW p \in Pool, Construct(p) PROVE IInv'
  BY <1>1, ConstructInv
<1>2. ASSUME NEW p \in Pool, NEW n \in 1 .. MaxRequest, GetFrames(p, n) PROVE IInv'
  <2>1. n \in Nat \ {0} /\ Fits(p, n) # {} /\ p \in opened
    BY <1>2, RequestAssumption DEF GetFrames
  <2>2. FreeRun(p, FirstFit(p, n), n) /\ FirstFit(p, n) \in Nat /\ FirstFit(p, n) \in Frame
    BY <2>1, FirstFitFits, PoolFrames DEF FreeRun
  <2> QED
    BY <1>2, <2>1, <2>2, MarkedInv DEF GetFrames
<1>3. ASSUME NEW p \in Pool, NEW n \in 1 .. MaxRequest, GetFramesFails(p, n)
      PROVE  IInv'
  <2>1. UNCHANGED <<poolVars, state, nFree, granted>> /\ got' = 0
    BY <1>3 DEF GetFramesFails
  <2> QED
    BY <2>1 DEF IInv, TypeOK, FreeCount, NoOrphan, GrantedIsHead, ListOK,
                GrantedOpened, FreeFrames, Frames, poolVars
<1>4. ASSUME NEW p \in Pool, NEW h \in Frames(p), NEW n \in 1 .. MaxRequest,
             MarkInaccessible(p, h, n)
      PROVE  IInv'
  <2>1. n \in Nat \ {0} /\ p \in opened /\ h \in Nat /\ FreeRun(p, h, n)
    BY <1>4, RequestAssumption, PoolFrames DEF MarkInaccessible, FreeRun
  <2>2. got \in Frame \cup {0}
    BY DEF IInv, TypeOK
  <2> QED
    BY <1>4, <2>1, <2>2, MarkedInv DEF MarkInaccessible
<1>5. ASSUME NEW f \in granted, ReleaseFrames(f) PROVE IInv'
  BY <1>5, ReleaseInv
<1>6. CASE UNCHANGED vars
  BY <1>6 DEF vars, IInv, TypeOK, FreeCount, NoOrphan, GrantedIsHead, ListOK,
              GrantedOpened, FreeFrames, Frames, poolVars
<1> QED
  BY <1>1, <1>2, <1>3, <1>4, <1>5, <1>6 DEF Next, Allocate

LEMMA Invariance == Spec => []IInv
BY InitInv, NextInv, PTL DEF Spec

\* The bitmaps, counters and list keep their types.
THEOREM TypeCorrect == Spec => []TypeOK
<1>1. IInv => TypeOK
  BY DEF IInv
<1> QED
  BY <1>1, Invariance, PTL

\* n_free_frames_left() is the number of free frames of the pool, after any
\* calls of the constructor, get_frames, mark_inaccessible and release_frames.
THEOREM FreeCountCorrect == Spec => []FreeCount
<1>1. IInv => FreeCount
  BY DEF IInv
<1> QED
  BY <1>1, Invariance, PTL

\* No allocated frame is cut off from the head of its sequence, so releasing
\* the heads gives every frame back.
THEOREM NoOrphans == Spec => []NoOrphan
<1>1. IInv => NoOrphan
  BY DEF IInv
<1> QED
  BY <1>1, Invariance, PTL

\* A sequence is safe from the calls of others until its owner releases it.
THEOREM GrantedSafe == Spec => []GrantedIsHead
<1>1. IInv => GrantedIsHead
  BY DEF IInv
<1> QED
  BY <1>1, Invariance, PTL

-----------------------------------------------------------------------------
(* The list of pools, which is complete while there are two at most.       *)

TwoPools == \A p, o, r \in Pool : p = o \/ o = r \/ p = r

\* tail stays where head is, so the second pool is linked behind the first.
ChainOK == /\ opened = {} => head = NoPool
           /\ opened # {} => head \in opened /\ tail = head
           /\ \A p \in opened \ {head} : link[head] = p

LEMMA ChainNext == TwoPools /\ IInv /\ ChainOK /\ [Next]_vars => ChainOK'
<1> SUFFICES ASSUME TwoPools, IInv, ChainOK, [Next]_vars PROVE ChainOK'
  OBVIOUS
<1>1. ASSUME NEW p \in Pool, Construct(p) PROVE ChainOK'
  <2>1. /\ opened' = opened \cup {p} /\ p \notin opened /\ opened \subseteq Pool
        /\ link \in [Pool -> Pool \cup {NoPool}] /\ NoPool \notin Pool
    BY <1>1, LayoutAssumption DEF Construct, IInv, TypeOK
  <2>2. CASE opened = {}
    <3>1. head' = p /\ tail' = p
      BY <1>1, <2>2 DEF Construct, ChainOK
    <3> QED
      BY <2>1, <2>2, <3>1 DEF ChainOK
  <2>3. CASE opened # {}
    <3>1. /\ head \in opened /\ tail = head /\ head # NoPool /\ head # p
          /\ head' = head /\ tail' = head
          /\ link' = [link EXCEPT ![head] = p, ![p] = NoPool]
      BY <1>1, <2>1, <2>3 DEF Construct, ChainOK
    <3>2. link'[head] = p
      BY <2>1, <3>1
    <3>3. \A o \in opened' \ {head} : o = p
      BY <2>1, <3>1 DEF TwoPools
    <3> QED
      BY <2>1, <3>1, <3>2, <3>3 DEF ChainOK
  <2> QED
    BY <2>2, <2>3
<1>2. CASE UNCHANGED poolVars
  BY <1>2 DEF ChainOK, poolVars
<1> QED
  BY <1>1, <1>2 DEF Next, Allocate, GetFrames, GetFramesFails, MarkInaccessible,
                    ReleaseFrames, vars

\* With a kernel pool and a process pool, as in every kernel.C, release_frames
\* finds the pool of any frame, although the constructor never moves tail.
THEOREM ChainIsComplete ==
    ASSUME TwoPools
    PROVE  Spec => []ChainComplete
<1>1. Init => ChainOK
  BY DEF Init, ChainOK
<1>2. ASSUME IInv, ChainOK PROVE ChainComplete
  <2> SUFFICES ASSUME NEW p \in opened, NEW S \in SUBSET Pool, FollowsNext(S)
               PROVE  p \in S
    BY <1>2 DEF ChainComplete, Listed, IInv, TypeOK
  <2>1. head \in S
    BY <1>2, LayoutAssumption DEF ChainOK, FollowsNext, IInv, TypeOK
  <2>2. CASE p = head
    BY <2>1, <2>2
  <2>3. CASE p # head
    <3>1. link[head] = p /\ p # NoPool
      BY <1>2, <2>3, LayoutAssumption DEF ChainOK, IInv, TypeOK
    <3> QED
      BY <2>1, <3>1 DEF FollowsNext
  <2> QED
    BY <2>2, <2>3
<1> QED
  BY <1>1, <1>2, ChainNext, Invariance, PTL DEF Spec

-----------------------------------------------------------------------------
(* The frame pools implement FrameAllocator: the bitmaps stand for the set *)
(* of the sequences in use, get_frames adds one that is disjoint from the  *)
(* others, and release_frames removes the one that starts with its frame.  *)

LEMMA PoolOfFrame ==
    ASSUME NEW p \in Pool, NEW f \in Frames(p)
    PROVE  PoolOf(f) = p
<1>1. PoolOf(f) \in Pool /\ f \in Frames(PoolOf(f))
  BY DEF PoolOf
<1> QED
  BY <1>1, PoolsDisjoint

\* A walk has one end.
LEMMA RunEndUnique ==
    ASSUME NEW bits, NEW p \in Pool, NEW f \in Frames(p), NEW e, IsRunEnd(bits, p, f, e)
    PROVE  e = RunEnd(bits, p, f)
<1> DEFINE r == RunEnd(bits, p, f)
<1>1. /\ e \in Nat /\ r \in Nat /\ f \in Nat /\ IsRunEnd(bits, p, f, r)
      /\ Base[p] \in Nat /\ Size[p] \in Nat /\ Base[p] <= f
  <2>1. f \in Nat /\ Base[p] \in Nat /\ Size[p] \in Nat /\ Base[p] <= f
    BY PoolFrames
  <2>2. r \in Nat /\ IsRunEnd(bits, p, f, r)
    BY RunEndIsEnd
  <2>3. e \in Nat
    BY <2>1 DEF IsRunEnd
  <2> QED
    BY <2>1, <2>2, <2>3
<1> HIDE DEF r
<1>2. ~(e < r)
  <2> SUFFICES ASSUME e < r PROVE FALSE
    OBVIOUS
  <2>1. e \in f + 1 .. r - 1 /\ e \in Frames(p)
    BY <1>1 DEF IsRunEnd, Frames
  <2> QED
    BY <1>1, <2>1 DEF IsRunEnd
<1>3. ~(r < e)
  <2> SUFFICES ASSUME r < e PROVE FALSE
    OBVIOUS
  <2>1. r \in f + 1 .. e - 1 /\ r \in Frames(p)
    BY <1>1 DEF IsRunEnd, Frames
  <2> QED
    BY <1>1, <2>1 DEF IsRunEnd
<1> QED
  BY <1>1, <1>2, <1>3 DEF r

\* A change of the bitmap that keeps the frames of a walk ALLOCATED and the one
\* after them not so, keeps the end of the walk.
LEMMA RunEndKept ==
    ASSUME NEW bits, NEW other, NEW p \in Pool, NEW f \in Frames(p),
           \A g \in f + 1 .. RunEnd(bits, p, f) - 1 : other[g] = "ALLOCATED",
           RunEnd(bits, p, f) \in Frames(p) => other[RunEnd(bits, p, f)] # "ALLOCATED"
    PROVE  RunEnd(other, p, f) = RunEnd(bits, p, f)
<1>1. IsRunEnd(other, p, f, RunEnd(bits, p, f))
  BY RunEndIsEnd DEF IsRunEnd
<1> QED
  BY <1>1, RunEndUnique

-----------------------------------------------------------------------------
(* The sequences and the frames they cover.                                *)

Heads == {g \in UNION {Frames(p) : p \in opened} : state[g] = "HEAD"}

Sequence(bits, f) == [first |-> f, len |-> RunEnd(bits, PoolOf(f), f) - f]

LEMMA TakenIsSequences == taken = {Sequence(state, f) : f \in Heads}
BY DEF taken, Sequence, Heads

LEMMA SequenceFacts ==
    ASSUME NEW bits, NEW p \in Pool, NEW f \in Frames(p)
    PROVE  /\ Sequence(bits, f).first = f
           /\ Sequence(bits, f).len = RunEnd(bits, p, f) - f
           /\ FA!Cover(Sequence(bits, f)) = f .. RunEnd(bits, p, f) - 1
<1>1. PoolOf(f) = p
  BY PoolOfFrame
<1>2. f \in Nat /\ RunEnd(bits, p, f) \in Nat
  BY RunEndIsEnd, PoolFrames
<1>3. /\ Sequence(bits, f).first = f
      /\ Sequence(bits, f).len = RunEnd(bits, p, f) - f
  BY <1>1 DEF Sequence
<1> QED
  BY <1>2, <1>3 DEF FA!Cover

\* The frames a sequence covers are not free.
LEMMA CoveredNotFree ==
    ASSUME TypeOK, NEW p \in Pool, NEW f \in Frames(p), state[f] = "HEAD",
           NEW g \in FA!Cover(Sequence(state, f))
    PROVE  g \in Frames(p) /\ state[g] # "FREE"
<1>1. g \in Released(p, f)
  BY SequenceFacts DEF Released
<1> QED
  BY <1>1, ReleasedFacts

\* Every frame that is not free is in the sequence of a head of its pool.
LEMMA NotFreeCovered ==
    ASSUME TypeOK, NoOrphan, NEW p \in opened, NEW f \in Frames(p), state[f] # "FREE"
    PROVE  \E h \in Frames(p) : /\ state[h] = "HEAD"
                                /\ f \in FA!Cover(Sequence(state, h))
<1> DEFINE start == {h \in Frames(p) : /\ h <= f /\ state[h] # "FREE"
                                       /\ \A x \in h + 1 .. f : state[x] = "ALLOCATED"}
<1>1. /\ p \in Pool /\ Frames(p) \subseteq Nat \ {0} /\ Frames(p) \subseteq Frame
      /\ f \in start
  BY PoolFrames DEF TypeOK
<1>2. start \in SUBSET Nat
  BY <1>1
<1>3. PICK h \in start : \A k \in start : h <= k
  BY <1>1, <1>2, LeastExists
<1>4. h \in Frames(p) /\ h \in Nat \ {0} /\ h <= f /\ f \in Nat
  BY <1>1, <1>3
<1>5. state[h] # "ALLOCATED"
  <2> SUFFICES ASSUME state[h] = "ALLOCATED" PROVE FALSE
    OBVIOUS
  <2>1. h - 1 \in Frames(p) /\ state[h - 1] # "FREE"
    BY <1>4 DEF NoOrphan
  <2>2. \A x \in (h - 1) + 1 .. f : state[x] = "ALLOCATED"
    BY <1>3, <1>4
  <2>3. h - 1 \in start
    BY <1>4, <2>1, <2>2
  <2> QED
    BY <1>3, <1>4, <2>3
<1>6. state[h] = "HEAD"
  BY <1>1, <1>3, <1>4, <1>5 DEF TypeOK
<1>7. /\ RunEnd(state, p, h) \in Nat
      /\ IsRunEnd(state, p, h, RunEnd(state, p, h))
  BY <1>1, <1>4, RunEndIsEnd
<1>8. ~(RunEnd(state, p, h) <= f)
  <2> SUFFICES ASSUME RunEnd(state, p, h) <= f PROVE FALSE
    OBVIOUS
  <2>1. RunEnd(state, p, h) \in h + 1 .. f
    BY <1>4, <1>7 DEF IsRunEnd
  <2>2. state[RunEnd(state, p, h)] = "ALLOCATED"
    BY <1>3, <2>1
  <2>3. RunEnd(state, p, h) \in Frames(p)
    BY <1>1, <1>4, <1>7, <2>1, PoolFrames
  <2> QED
    BY <1>7, <2>2, <2>3 DEF IsRunEnd
<1>9. f \in FA!Cover(Sequence(state, h))
  BY <1>1, <1>4, <1>7, <1>8, SequenceFacts
<1> QED
  BY <1>4, <1>6, <1>9

\* In the bitmap of a constructed pool, free and covered by no sequence is the
\* same: the abstract allocator sees exactly the runs get_frames looks for.
LEMMA FreeMeansUncovered ==
    ASSUME TypeOK, NoOrphan, NEW p \in opened, NEW f \in Frames(p)
    PROVE  state[f] = "FREE" <=> \A s \in taken : f \notin FA!Cover(s)
<1>1. ASSUME NEW s \in taken, f \in FA!Cover(s)
      PROVE  state[f] # "FREE"
  <2>1. PICK h \in Heads : s = Sequence(state, h)
    BY TakenIsSequences
  <2>2. PICK o \in Pool : h \in Frames(o) /\ state[h] = "HEAD"
    BY DEF Heads, TypeOK
  <2> QED
    BY <1>1, <2>1, <2>2, CoveredNotFree
<1>2. ASSUME state[f] # "FREE"
      PROVE  \E s \in taken : f \in FA!Cover(s)
  <2>1. PICK h \in Frames(p) : state[h] = "HEAD" /\ f \in FA!Cover(Sequence(state, h))
    BY <1>2, NotFreeCovered
  <2>2. Sequence(state, h) \in taken
    BY <2>1, TakenIsSequences DEF Heads
  <2> QED
    BY <2>1, <2>2
<1> QED
  BY <1>1, <1>2

LEMMA FitsMeansIsFree ==
    ASSUME TypeOK, NoOrphan, NEW p \in opened, NEW h \in Frames(p),
           NEW n \in Nat \ {0}
    PROVE  FA!IsFree(p, h, n) <=> FreeRun(p, h, n)
<1>1. p \in Pool
  BY DEF TypeOK
<1>2. FA!Cover(FA!Run(h, n)) = h .. h + n - 1
  BY DEF FA!Cover, FA!Run
<1>3. FA!IsFree(p, h, n) <=>
          /\ h .. h + n - 1 \subseteq Frames(p)
          /\ \A s \in taken : FA!Cover(s) \cap (h .. h + n - 1) = {}
  BY <1>1, <1>2 DEF FA!IsFree
<1>4. ASSUME h .. h + n - 1 \subseteq Frames(p)
      PROVE  (\A s \in taken : FA!Cover(s) \cap (h .. h + n - 1) = {})
                 <=> \A f \in h .. h + n - 1 : state[f] = "FREE"
  BY <1>4, FreeMeansUncovered
<1> QED
  BY <1>3, <1>4 DEF FreeRun

-----------------------------------------------------------------------------
(* The steps.                                                              *)

\* Marking a free run adds one sequence and leaves the others as they are.
LEMMA MarkedTakes ==
    ASSUME TypeOK, NoOrphan, NEW p \in opened, NEW h \in Frames(p),
           NEW n \in Nat \ {0}, FreeRun(p, h, n), state' = Marked(h, n),
           opened' = opened
    PROVE  taken' = taken \cup {FA!Run(h, n)}
<1>1. /\ p \in Pool /\ opened \subseteq Pool /\ h \in Nat /\ h \in Frame
      /\ Base[p] \in Nat /\ Size[p] \in Nat
  BY PoolFrames DEF TypeOK
<1>2. Heads' = Heads \cup {h}
  <2>1. \A o \in opened : \A g \in Frames(o) :
            state'[g] = "HEAD" <=> state[g] = "HEAD" \/ g = h
    <3> SUFFICES ASSUME NEW o \in opened, NEW g \in Frames(o)
                 PROVE  state'[g] = "HEAD" <=> state[g] = "HEAD" \/ g = h
      OBVIOUS
    <3>1. g \in Frame
      BY <1>1, PoolFrames
    <3>2. CASE g \in h .. h + n - 1
      <4>1. state[g] = "FREE"
        BY <3>2 DEF FreeRun
      <4> QED
        BY <1>1, <3>1, <3>2, <4>1, MarkedState
    <3>3. CASE g \notin h .. h + n - 1
      <4>1. h \in h .. h + n - 1
        BY <1>1
      <4> QED
        BY <1>1, <3>1, <3>3, <4>1, MarkedState
    <3> QED
      BY <3>2, <3>3
  <2> QED
    BY <2>1 DEF Heads, Frames
<1>3. ASSUME NEW g \in Heads
      PROVE  Sequence(state', g) = Sequence(state, g)
  <2>1. PICK o \in opened : g \in Frames(o) /\ state[g] = "HEAD"
    BY DEF Heads
  <2> DEFINE e == RunEnd(state, o, g)
  <2>2. /\ o \in Pool /\ e \in Nat /\ IsRunEnd(state, o, g, e) /\ g \in Nat
        /\ Released(o, g) \subseteq Frames(o)
    BY <1>1, <2>1, RunEndIsEnd, ReleasedFacts, PoolFrames
  <2>3. \A x \in g + 1 .. e - 1 : state'[x] = "ALLOCATED"
    <3> SUFFICES ASSUME NEW x \in g + 1 .. e - 1 PROVE state'[x] = "ALLOCATED"
      OBVIOUS
    <3>1. state[x] = "ALLOCATED" /\ x \in Frames(o)
      BY <2>2 DEF IsRunEnd, Released
    <3>2. x \notin h .. h + n - 1 /\ x \in Frame
      BY <2>2, <3>1, PoolFrames DEF FreeRun
    <3> QED
      BY <1>1, <3>1, <3>2, MarkedState
  <2>4. ASSUME e \in Frames(o) PROVE state'[e] # "ALLOCATED"
    <3>1. e \in Frame /\ state[e] # "ALLOCATED"
      BY <2>2, <2>4, PoolFrames DEF IsRunEnd
    <3>2. CASE e \in h .. h + n - 1
      <4>1. e - 1 \in Frames(o) /\ state[e - 1] # "FREE"
        BY <2>1, <2>2, ReleasedFacts DEF Released, IsRunEnd
      <4>2. e = h
        BY <2>2, <3>2, <4>1, <1>1 DEF FreeRun
      <4> QED
        BY <1>1, <3>1, <3>2, <4>2, MarkedState
    <3>3. CASE e \notin h .. h + n - 1
      <4> HIDE DEF e
      <4> QED
        BY <1>1, <3>1, <3>3, MarkedState
    <3> QED
      BY <3>2, <3>3
  <2>5. RunEnd(state', o, g) = e
    <3> HIDE DEF e
    <3> QED
      BY <2>1, <2>2, <2>3, <2>4, RunEndKept DEF e
  <2> QED
    BY <2>1, <2>2, <2>5, PoolOfFrame DEF Sequence
<1>4. Sequence(state', h) = FA!Run(h, n)
  <2>1. h + n \in h + 1 .. Base[p] + Size[p]
    <3>1. h + n - 1 \in Frames(p)
      BY <1>1 DEF FreeRun
    <3> QED
      BY <1>1, <3>1 DEF Frames
  <2>2. \A g \in h + 1 .. (h + n) - 1 : state'[g] = "ALLOCATED"
    <3> SUFFICES ASSUME NEW g \in h + 1 .. (h + n) - 1 PROVE state'[g] = "ALLOCATED"
      OBVIOUS
    <3>1. g \in h .. h + n - 1 /\ g # h
      BY <1>1
    <3>2. g \in Frame
      BY <1>1, <3>1, PoolFrames DEF FreeRun
    <3> QED
      BY <1>1, <3>1, <3>2, MarkedState
  <2>3. ASSUME h + n \in Frames(p) PROVE state'[h + n] # "ALLOCATED"
    <3>1. h + n \notin h .. h + n - 1 /\ h + n \in Frame
      BY <1>1, <2>3, PoolFrames
    <3>2. state[h + n] # "ALLOCATED"
      <4>1. h + n - 1 \in h .. h + n - 1
        BY <1>1
      <4>2. state[h + n - 1] = "FREE"
        BY <4>1 DEF FreeRun
      <4>3. (h + n) - 1 = h + n - 1
        BY <1>1
      <4> QED
        BY <1>1, <2>3, <4>2, <4>3 DEF NoOrphan
    <3> QED
      BY <1>1, <3>1, <3>2, MarkedState
  <2>4. IsRunEnd(state', p, h, h + n)
    BY <2>1, <2>2, <2>3 DEF IsRunEnd
  <2>5. RunEnd(state', p, h) = h + n
    BY <1>1, <2>4, RunEndUnique
  <2>6. PoolOf(h) = p
    BY <1>1, PoolOfFrame
  <2> QED
    BY <1>1, <2>5, <2>6 DEF Sequence, FA!Run
<1>5. taken' = {Sequence(state', g) : g \in Heads'}
  BY DEF taken, Sequence, Heads, PoolOf, Frames, RunEnd, IsRunEnd
<1> QED
  BY <1>2, <1>3, <1>4, <1>5, TakenIsSequences


\* Freeing the sequence of a head takes it out, and no other.
LEMMA ReleasedGivesBack ==
    ASSUME TypeOK, NEW p \in opened, NEW f \in Frames(p), state[f] = "HEAD",
           LocalRelease(p, f), opened' = opened
    PROVE  taken' = taken \ {Sequence(state, f)}
<1>1. p \in Pool /\ opened \subseteq Pool /\ f \in Nat
  BY PoolFrames DEF TypeOK
<1>2. \A g \in Frame : state'[g] = IF g \in Released(p, f) THEN "FREE" ELSE state[g]
  BY DEF LocalRelease, Released
<1>3. /\ Released(p, f) \subseteq Frames(p) /\ f \in Released(p, f)
      /\ \A g \in Released(p, f) : g # f => state[g] = "ALLOCATED"
  BY <1>1, ReleasedFacts
<1>4. Heads' = Heads \ {f}
  <2>1. \A o \in opened : \A g \in Frames(o) :
            state'[g] = "HEAD" <=> state[g] = "HEAD" /\ g # f
    BY <1>1, <1>2, <1>3, PoolFrames
  <2> QED
    BY <2>1 DEF Heads, Frames
<1>5. ASSUME NEW g \in Heads \ {f}
      PROVE  Sequence(state', g) = Sequence(state, g)
  <2>1. PICK o \in opened : g \in Frames(o) /\ state[g] = "HEAD"
    BY DEF Heads
  <2>2. /\ o \in Pool /\ g \in Nat /\ RunEnd(state, o, g) \in Nat
        /\ IsRunEnd(state, o, g, RunEnd(state, o, g))
        /\ Released(o, g) \subseteq Frames(o)
    BY <1>1, <2>1, RunEndIsEnd, ReleasedFacts, PoolFrames
  <2>3. ASSUME NEW x \in g + 1 .. RunEnd(state, o, g) - 1
        PROVE  state'[x] = "ALLOCATED"
    <3>1. state[x] = "ALLOCATED" /\ x \in Frames(o) /\ x \in Frame /\ x \in Nat
      BY <2>2, PoolFrames DEF IsRunEnd, Released
    <3>2. x \notin Released(p, f)
      <4> SUFFICES ASSUME x \in Released(p, f) PROVE FALSE
        OBVIOUS
      <4>1. CASE g < f
        <5>1. f \in g + 1 .. RunEnd(state, o, g) - 1
          BY <1>1, <2>2, <3>1, <4>1, RunEndIsEnd DEF Released
        <5> QED
          BY <2>2, <5>1 DEF IsRunEnd
      <4>2. CASE f < g
        <5>1. g \in Released(p, f)
          BY <1>1, <2>2, <3>1, <4>2, RunEndIsEnd DEF Released
        <5> QED
          BY <1>3, <2>1, <5>1
      <4> QED
        BY <1>1, <2>2, <4>1, <4>2
    <3> QED
      BY <1>2, <3>1, <3>2
  <2>4. ASSUME RunEnd(state, o, g) \in Frames(o)
        PROVE  state'[RunEnd(state, o, g)] # "ALLOCATED"
    <3>1. RunEnd(state, o, g) \in Frame /\ state[RunEnd(state, o, g)] # "ALLOCATED"
      BY <2>2, <2>4, PoolFrames DEF IsRunEnd
    <3> QED
      BY <1>2, <3>1
  <2>5. RunEnd(state', o, g) = RunEnd(state, o, g)
    BY <2>1, <2>2, <2>3, <2>4, RunEndKept
  <2> QED
    BY <2>1, <2>2, <2>5, PoolOfFrame DEF Sequence
<1>6. \A g \in Heads \ {f} : Sequence(state, g) # Sequence(state, f)
  BY DEF Sequence
<1>7. taken' = {Sequence(state', g) : g \in Heads'}
  BY DEF taken, Sequence, Heads, PoolOf, Frames, RunEnd, IsRunEnd
<1> QED
  BY <1>4, <1>5, <1>6, <1>7, TakenIsSequences

\* A pool that is constructed is empty, or holds the frame of its own bitmap.
LEMMA ConstructOpens ==
    ASSUME TypeOK, NEW p \in Pool, Construct(p)
    PROVE  FA!Open(p)
<1>1. /\ p \notin opened /\ opened' = opened \cup {p} /\ got' = got
      /\ opened \subseteq Pool
  BY DEF Construct, TypeOK
<1>2. \A g \in Frame : state'[g] = IF g \notin Frames(p) THEN state[g]
                                   ELSE IF p \in OwnInfo /\ g = Base[p] THEN "HEAD"
                                   ELSE "FREE"
  BY DEF Construct
<1>3. \A o \in opened : \A g \in Frames(o) : state'[g] = state[g]
  BY <1>1, <1>2, PoolsDisjoint, PoolFrames
<1>4. ASSUME NEW g \in Heads
      PROVE  Sequence(state', g) = Sequence(state, g)
  <2>1. PICK o \in opened : g \in Frames(o) /\ state[g] = "HEAD"
    BY DEF Heads
  <2>2. /\ o \in Pool /\ IsRunEnd(state, o, g, RunEnd(state, o, g))
        /\ Released(o, g) \subseteq Frames(o)
    BY <1>1, <2>1, RunEndIsEnd, ReleasedFacts
  <2>3. \A x \in g + 1 .. RunEnd(state, o, g) - 1 : state'[x] = "ALLOCATED"
    <3> SUFFICES ASSUME NEW x \in g + 1 .. RunEnd(state, o, g) - 1
                 PROVE  state'[x] = "ALLOCATED"
      OBVIOUS
    <3>1. g \in Nat /\ RunEnd(state, o, g) \in Nat
      BY <2>1, <2>2, RunEndIsEnd, PoolFrames
    <3>2. x \in Frames(o) /\ state[x] = "ALLOCATED"
      BY <2>2, <3>1 DEF IsRunEnd, Released
    <3> QED
      BY <1>3, <3>2
  <2>4. RunEnd(state, o, g) \in Frames(o) => state'[RunEnd(state, o, g)] # "ALLOCATED"
    BY <1>3, <2>2 DEF IsRunEnd
  <2>5. RunEnd(state', o, g) = RunEnd(state, o, g)
    BY <2>1, <2>2, <2>3, <2>4, RunEndKept
  <2> QED
    BY <2>1, <2>2, <2>5, PoolOfFrame DEF Sequence
<1>5. taken' = {Sequence(state', g) : g \in Heads'}
  BY DEF taken, Sequence, Heads, PoolOf, Frames, RunEnd, IsRunEnd
<1>6. CASE p \notin OwnInfo
  <2>1. Heads' = Heads
    BY <1>1, <1>2, <1>3, <1>6, PoolFrames DEF Heads, Frames
  <2>2. taken' = taken
    BY <1>4, <1>5, <2>1, TakenIsSequences
  <2> QED
    BY <1>1, <2>2 DEF FA!Open
<1>7. CASE p \in OwnInfo
  <2>1. Base[p] \in Frames(p) /\ Base[p] \in Nat
    BY PoolFrames
  <2>2. Heads' = Heads \cup {Base[p]}
    <3>1. \A g \in Frames(p) : state'[g] = "HEAD" <=> g = Base[p]
      BY <1>2, <1>7, PoolFrames
    <3> QED
      BY <1>1, <1>3, <2>1, <3>1 DEF Heads, Frames
  <2>3. IsRunEnd(state', p, Base[p], Base[p] + 1)
    <3>1. \A g \in Frames(p) : g # Base[p] => state'[g] = "FREE"
      BY <1>2, PoolFrames
    <3>2. Base[p] \in Nat /\ Size[p] \in Nat \ {0}
      BY PoolFrames
    <3>3. Base[p] + 1 \in Base[p] + 1 .. Base[p] + Size[p] /\ Base[p] + 1 # Base[p]
      BY <3>2
    <3>4. Base[p] + 1 .. (Base[p] + 1) - 1 = {}
      BY <3>2
    <3> QED
      BY <3>1, <3>3, <3>4 DEF IsRunEnd
  <2>4. RunEnd(state', p, Base[p]) = Base[p] + 1
    BY <2>1, <2>3, RunEndUnique
  <2>5. Sequence(state', Base[p]) = FA!Run(Base[p], 1)
    BY <2>1, <2>4, PoolOfFrame DEF Sequence, FA!Run
  <2>6. taken' = taken \cup {FA!Run(Base[p], 1)}
    BY <1>4, <1>5, <2>2, <2>5, TakenIsSequences
  <2> QED
    BY <1>1, <2>1, <2>6 DEF FA!Open
<1> QED
  BY <1>6, <1>7

LEMMA InitRefines == Init => FA!Init
<1> SUFFICES ASSUME Init PROVE FA!Init
  OBVIOUS
<1>1. opened = {} /\ got = 0
  BY DEF Init
<1>2. taken = {}
  BY <1>1 DEF taken
<1> QED
  BY <1>1, <1>2 DEF FA!Init

LEMMA GetFramesTakes ==
    ASSUME IInv, NEW p \in Pool, NEW n \in 1 .. MaxRequest, GetFrames(p, n)
    PROVE  FA!Take(p, n)
<1> DEFINE h == FirstFit(p, n)
<1>1. /\ TypeOK /\ NoOrphan /\ n \in Nat \ {0} /\ p \in opened /\ Fits(p, n) # {}
      /\ state' = Marked(h, n) /\ got' = h /\ opened' = opened
  BY RequestAssumption DEF IInv, GetFrames, poolVars
<1>2. FreeRun(p, h, n) /\ h \in Frames(p)
  BY <1>1, FirstFitFits DEF FreeRun
<1> HIDE DEF h
<1>3. FA!IsFree(p, h, n)
  BY <1>1, <1>2, FitsMeansIsFree
<1>4. taken' = taken \cup {FA!Run(h, n)}
  BY <1>1, <1>2, MarkedTakes
<1> QED
  BY <1>1, <1>2, <1>3, <1>4 DEF FA!Take

LEMMA GetFramesFailsRefuses ==
    ASSUME IInv, NEW p \in Pool, NEW n \in 1 .. MaxRequest, GetFramesFails(p, n)
    PROVE  FA!Refuse(p, n)
<1>1. /\ TypeOK /\ NoOrphan /\ n \in Nat \ {0} /\ p \in opened /\ Fits(p, n) = {}
      /\ got' = 0 /\ UNCHANGED <<poolVars, state>>
  BY RequestAssumption DEF IInv, GetFramesFails
<1>2. \A h \in Frames(p) : ~FA!IsFree(p, h, n)
  BY <1>1, FitsMeansIsFree DEF Fits, FreeRun
<1>3. taken' = taken
  BY <1>1 DEF taken, PoolOf, Frames, RunEnd, IsRunEnd, poolVars
<1> QED
  BY <1>1, <1>2, <1>3 DEF FA!Refuse, poolVars

LEMMA MarkInaccessibleReserves ==
    ASSUME IInv, NEW p \in Pool, NEW h \in Frames(p), NEW n \in 1 .. MaxRequest,
           MarkInaccessible(p, h, n)
    PROVE  FA!Reserve(p, h, n)
<1>1. /\ TypeOK /\ NoOrphan /\ n \in Nat \ {0} /\ p \in opened /\ FreeRun(p, h, n)
      /\ state' = Marked(h, n) /\ opened' = opened /\ got' = got
  BY RequestAssumption DEF IInv, MarkInaccessible, FreeRun, poolVars
<1>2. FA!IsFree(p, h, n)
  BY <1>1, FitsMeansIsFree
<1>3. taken' = taken \cup {FA!Run(h, n)}
  BY <1>1, MarkedTakes
<1> QED
  BY <1>1, <1>2, <1>3 DEF FA!Reserve

\* A frame of a pool that the list has lost is not released: a stutter.
LEMMA ReleaseFramesGivesBack ==
    ASSUME IInv, NEW f \in granted, ReleaseFrames(f)
    PROVE  (\E s \in taken : FA!GiveBack(s)) \/ UNCHANGED FA!vars
<1>1. /\ TypeOK /\ NoOrphan /\ ListOK /\ state[f] = "HEAD"
      /\ UNCHANGED poolVars /\ got' = got /\ opened' = opened
  BY DEF IInv, GrantedIsHead, ReleaseFrames, poolVars
<1>2. CASE UNCHANGED <<state, nFree>>
  <2>1. taken' = taken
    BY <1>1, <1>2 DEF taken, PoolOf, Frames, RunEnd, IsRunEnd
  <2> QED
    BY <1>1, <2>1 DEF FA!vars
<1>3. ASSUME NEW p \in Listed, f \in Frames(p), LocalRelease(p, f)
      PROVE  \E s \in taken : FA!GiveBack(s)
  <2>1. p \in opened
    BY <1>1, ListedOpened
  <2>2. taken' = taken \ {Sequence(state, f)}
    BY <1>1, <1>3, <2>1, ReleasedGivesBack
  <2>3. Sequence(state, f) \in taken
    BY <1>1, <1>3, <2>1, TakenIsSequences DEF Heads
  <2> QED
    BY <1>1, <2>2, <2>3 DEF FA!GiveBack
<1> QED
  BY <1>2, <1>3 DEF ReleaseFrames

LEMMA NextRefines == IInv /\ [Next]_vars => [FA!Next]_(FA!vars)
<1> SUFFICES ASSUME IInv, [Next]_vars PROVE [FA!Next]_(FA!vars)
  OBVIOUS
<1>1. ASSUME NEW p \in Pool, Construct(p) PROVE FA!Next
  <2>1. FA!Open(p)
    BY <1>1, ConstructOpens DEF IInv
  <2> QED
    BY <2>1 DEF FA!Next
<1>2. ASSUME NEW p \in Pool, NEW n \in 1 .. MaxRequest, GetFrames(p, n) PROVE FA!Next
  <2>1. FA!Take(p, n)
    BY <1>2, GetFramesTakes
  <2> QED
    BY <2>1 DEF FA!Next
<1>3. ASSUME NEW p \in Pool, NEW n \in 1 .. MaxRequest, GetFramesFails(p, n)
      PROVE  FA!Next
  <2>1. FA!Refuse(p, n)
    BY <1>3, GetFramesFailsRefuses
  <2> QED
    BY <2>1 DEF FA!Next
<1>4. ASSUME NEW p \in Pool, NEW h \in Frames(p), NEW n \in 1 .. MaxRequest,
             MarkInaccessible(p, h, n)
      PROVE  FA!Next
  <2>1. FA!Reserve(p, h, n)
    BY <1>4, MarkInaccessibleReserves
  <2> QED
    BY <1>4, <2>1 DEF FA!Next
<1>5. ASSUME NEW f \in granted, ReleaseFrames(f) PROVE [FA!Next]_(FA!vars)
  <2>1. (\E s \in taken : FA!GiveBack(s)) \/ UNCHANGED FA!vars
    BY <1>5, ReleaseFramesGivesBack
  <2> QED
    BY <2>1 DEF FA!Next
<1>6. CASE UNCHANGED vars
  <2>1. taken' = taken
    BY <1>6 DEF vars, poolVars, taken, PoolOf, Frames, RunEnd, IsRunEnd
  <2> QED
    BY <1>6, <2>1 DEF vars, poolVars, FA!vars
<1> QED
  BY <1>1, <1>2, <1>3, <1>4, <1>5, <1>6 DEF Next, Allocate

\* For every layout and every sequence of calls the frame pools behave as the
\* abstract allocator: get_frames returns a run nobody holds and 0 only when
\* there is none, release_frames gives back one sequence and no more.
THEOREM Refinement == Spec => ImplementsAllocator
<1> QED
  BY InitRefines, NextRefines, Invariance, PTL DEF Spec, ImplementsAllocator, FA!Spec

-----------------------------------------------------------------------------
(* The loops.  Each is a recursive function; what it should return is one  *)
(* that satisfies the same equation, so the equation has a solution, and   *)
(* from the end of the pool down all solutions agree.                      *)

LEMMA Downward ==
    ASSUME NEW a \in Nat, NEW b \in Nat, NEW S, a <= b => b \in S,
           \A i \in a .. b - 1 : i + 1 \in S => i \in S
    PROVE  \A i \in a .. b : i \in S
<1> DEFINE bad == {k \in Nat : b - k \in a .. b /\ b - k \notin S}
<1> SUFFICES ASSUME bad # {} PROVE FALSE
  <2>1. ASSUME NEW i \in a .. b, i \notin S PROVE b - i \in bad
    BY <2>1
  <2> QED
    BY <2>1
<1>1. PICK k \in bad : \A l \in bad : k <= l
  BY LeastExists
<1>2. k # 0
  BY <1>1
<1>3. k - 1 \in Nat /\ k - 1 \notin bad /\ b - (k - 1) = b - k + 1
  BY <1>1, <1>2
<1>4. b - k + 1 \in S /\ b - k \in a .. b - 1
  BY <1>1, <1>2, <1>3
<1> QED
  BY <1>1, <1>4

\* The walk passes the frame i or ends at it.
LEMMA RunEndStep ==
    ASSUME TypeOK, NEW p \in Pool, NEW i \in Base[p] + 1 .. Base[p] + Size[p]
    PROVE  RunEnd(state, p, i - 1) =
               IF i = Base[p] + Size[p] \/ state[i] \in {"FREE", "HEAD"} THEN i
               ELSE RunEnd(state, p, i)
<1> DEFINE last == Base[p] + Size[p]
           end  == RunEnd(state, p, i)
<1>1. /\ Base[p] \in Nat /\ Size[p] \in Nat /\ i \in Nat /\ i - 1 \in Frames(p)
      /\ i - 1 + 1 = i /\ last \notin Frames(p)
  BY PoolFrames DEF Frames
<1>2. CASE i = last \/ state[i] \in {"FREE", "HEAD"}
  <2>1. IsRunEnd(state, p, i - 1, i)
    BY <1>1, <1>2 DEF IsRunEnd
  <2> QED
    BY <1>1, <1>2, <2>1, RunEndUnique
<1>3. CASE ~(i = last \/ state[i] \in {"FREE", "HEAD"})
  <2>1. i \in Frames(p)
    BY <1>1, <1>3 DEF Frames
  <2>2. state[i] = "ALLOCATED"
    BY <1>3, <2>1 DEF TypeOK, Frame
  <2>3. IsRunEnd(state, p, i, end) /\ end \in Nat
    BY <2>1, RunEndIsEnd
  <2>4. IsRunEnd(state, p, i - 1, end)
    <3> HIDE DEF end
    <3>1. end \in i .. last /\ \A g \in i .. end - 1 : g = i \/ g \in i + 1 .. end - 1
      BY <1>1, <2>3 DEF IsRunEnd
    <3> QED
      BY <1>1, <2>2, <2>3, <3>1 DEF IsRunEnd
  <2> QED
    BY <1>1, <1>3, <2>4, RunEndUnique
<1> QED
  BY <1>2, <1>3

WalkStep(p, f, walk) ==
    [i \in f + 1 .. Base[p] + Size[p] |->
        IF i = Base[p] + Size[p] \/ state[i] \in {"FREE", "HEAD"} THEN i
        ELSE walk[i + 1]]

LEMMA WalkComputes ==
    ASSUME TypeOK, NEW p \in Pool, NEW f \in Frames(p)
    PROVE  WalkLoop(p, f) = RunEnd(state, p, f)
<1> DEFINE last == Base[p] + Size[p]
           ends == [i \in f + 1 .. last |-> RunEnd(state, p, i - 1)]
           walk == CHOOSE g : g = WalkStep(p, f, g)
           same == {i \in f + 1 .. last : walk[i] = ends[i]}
<1>1. /\ Base[p] \in Nat /\ Size[p] \in Nat /\ f \in Nat /\ last \in Nat
      /\ f + 1 <= last /\ f + 1 - 1 = f /\ Base[p] <= f
  BY PoolFrames DEF Frames
<1>2. \A i \in f + 1 .. last :
          ends[i] = IF i = last \/ state[i] \in {"FREE", "HEAD"} THEN i ELSE ends[i + 1]
  <2> SUFFICES ASSUME NEW i \in f + 1 .. last
               PROVE  ends[i] = IF i = last \/ state[i] \in {"FREE", "HEAD"} THEN i
                                ELSE ends[i + 1]
    OBVIOUS
  <2>1. RunEnd(state, p, i - 1) =
            IF i = last \/ state[i] \in {"FREE", "HEAD"} THEN i ELSE RunEnd(state, p, i)
    BY <1>1, RunEndStep
  <2>2. i # last => i + 1 \in f + 1 .. last /\ i + 1 - 1 = i
    BY <1>1
  <2> QED
    BY <2>1, <2>2
<1>3. ends = WalkStep(p, f, ends)
  BY <1>2 DEF WalkStep
<1>4. walk = WalkStep(p, f, walk)
  <2> HIDE DEF ends
  <2> QED
    BY <1>3
<1>5. WalkLoop(p, f) = walk[f + 1]
  BY DEF WalkLoop, WalkStep
<1> HIDE DEF walk, ends
<1>6. \A i \in f + 1 .. last :
          walk[i] = IF i = last \/ state[i] \in {"FREE", "HEAD"} THEN i ELSE walk[i + 1]
  BY <1>4 DEF WalkStep
<1>7. last \in same
  BY <1>1, <1>2, <1>6
<1>8. \A i \in f + 1 .. last - 1 : i + 1 \in same => i \in same
  BY <1>1, <1>2, <1>6
<1>9. \A i \in f + 1 .. last : i \in same
  <2> HIDE DEF same
  <2>1. f + 1 \in Nat
    BY <1>1
  <2> QED
    BY <1>1, <1>7, <1>8, <2>1, Downward
<1> QED
  BY <1>1, <1>5, <1>9 DEF ends

\* Where the scan of pool p ends that is at frame i and has counted r frames: the
\* last frames of the runs of n that begin with these r, or at i or later.
RunEnds(p, n, i, r) ==
    {e \in i .. Base[p] + Size[p] - 1 :
        /\ e - n + 1 = i - r \/ e - n + 1 >= i
        /\ \A f \in i .. e : f >= e - n + 1 => state[f] = "FREE"}

Earliest(S) == CHOOSE e \in S : \A d \in S : e <= d

ScanValue(p, n, i, r) ==
    IF RunEnds(p, n, i, r) = {} THEN 0 ELSE Earliest(RunEnds(p, n, i, r)) - n + 1

LEMMA EarliestIs ==
    ASSUME NEW S \in SUBSET Nat, NEW e \in S, \A d \in S : e <= d
    PROVE  Earliest(S) = e
<1>1. Earliest(S) \in S /\ \A d \in S : Earliest(S) <= d
  BY DEF Earliest
<1> DEFINE m == Earliest(S)
<1>2. m \in Nat /\ e \in Nat /\ m <= e /\ e <= m
  BY <1>1
<1> HIDE DEF m
<1>3. m = e
  BY <1>2
<1> QED
  BY <1>3 DEF m

LEMMA RunEndsMember ==
    ASSUME NEW p, NEW n, NEW i, NEW r, NEW e
    PROVE  e \in RunEnds(p, n, i, r) <=>
               /\ e \in i .. Base[p] + Size[p] - 1
               /\ e - n + 1 = i - r \/ e - n + 1 >= i
               /\ \A f \in i .. e : f >= e - n + 1 => state[f] = "FREE"
BY DEF RunEnds

\* Counting on by one frame.
LEMMA ScanValueStep ==
    ASSUME NEW p \in Pool, NEW n \in Nat \ {0}, NEW i \in Base[p] .. Base[p] + Size[p],
           NEW r \in 0 .. n - 1,
           NEW now, now = IF state[i] = "FREE" THEN r + 1 ELSE 0
    PROVE  /\ now # n => now \in 0 .. n - 1
           /\ ScanValue(p, n, i, r) = IF i = Base[p] + Size[p] THEN 0
                                      ELSE IF now = n THEN i - now + 1
                                      ELSE ScanValue(p, n, i + 1, now)
<1> DEFINE last == Base[p] + Size[p]
           here == RunEnds(p, n, i, r)
           next == RunEnds(p, n, i + 1, now)
<1>1. /\ Base[p] \in Nat /\ Size[p] \in Nat /\ i \in Nat /\ r \in Nat /\ last \in Nat
      /\ last - 1 = Base[p] + Size[p] - 1
      /\ now # n => now \in 0 .. n - 1
  <2>1. Base[p] \in Nat /\ Size[p] \in Nat
    BY PoolFrames
  <2> QED
    BY <2>1
<1>2. \A e : e \in here <=>
          /\ e \in i .. Base[p] + Size[p] - 1
          /\ e - n + 1 = i - r \/ e - n + 1 >= i
          /\ \A f \in i .. e : f >= e - n + 1 => state[f] = "FREE"
  BY RunEndsMember
<1>3. \A e : e \in next <=>
          /\ e \in i + 1 .. Base[p] + Size[p] - 1
          /\ e - n + 1 = i + 1 - now \/ e - n + 1 >= i + 1
          /\ \A f \in i + 1 .. e : f >= e - n + 1 => state[f] = "FREE"
  BY RunEndsMember
<1>4. here \in SUBSET Nat /\ next \in SUBSET Nat
  BY <1>1 DEF RunEnds
<1>5. /\ ScanValue(p, n, i, r) = IF here = {} THEN 0 ELSE Earliest(here) - n + 1
      /\ ScanValue(p, n, i + 1, now) = IF next = {} THEN 0 ELSE Earliest(next) - n + 1
  BY DEF ScanValue
<1> HIDE DEF here, next
<1>6. CASE i = last
  BY <1>1, <1>2, <1>5, <1>6
<1>7. CASE i # last /\ now = n
  <2>1. r = n - 1 /\ state[i] = "FREE" /\ i \in i .. last - 1
    BY <1>1, <1>7
  <2>2. i \in here
    BY <1>1, <1>2, <2>1
  <2>3. \A d \in here : i <= d
    BY <1>1, <1>2
  <2>4. Earliest(here) = i
    BY <1>4, <2>2, <2>3, EarliestIs
  <2> QED
    BY <1>1, <1>5, <1>7, <2>2, <2>4
<1>8. CASE i # last /\ now # n
  <2>1. \A e \in next : e \in here
    <3> SUFFICES ASSUME NEW e \in next PROVE e \in here
      OBVIOUS
    <3>1. /\ e \in Nat /\ e \in i .. last - 1
          /\ e - n + 1 = i + 1 - now \/ e - n + 1 >= i + 1
          /\ \A f \in i + 1 .. e : f >= e - n + 1 => state[f] = "FREE"
      BY <1>1, <1>3
    <3>2. e - n + 1 = i - r \/ e - n + 1 >= i
      BY <1>1, <3>1
    <3>3. i >= e - n + 1 => state[i] = "FREE"
      BY <1>1, <3>1
    <3>4. \A f \in i .. e : f = i \/ f \in i + 1 .. e
      BY <1>1, <3>1
    <3>5. \A f \in i .. e : f >= e - n + 1 => state[f] = "FREE"
      BY <3>1, <3>3, <3>4
    <3> QED
      BY <1>1, <1>2, <3>1, <3>2, <3>5
  <2>2. ASSUME NEW e \in here, \A d \in here : e <= d PROVE e \in next
    <3>1. /\ e \in Nat /\ e \in i .. last - 1
          /\ e - n + 1 = i - r \/ e - n + 1 >= i
          /\ \A f \in i .. e : f >= e - n + 1 => state[f] = "FREE"
      BY <1>1, <1>2
    <3>2. e # i
      BY <1>1, <1>8, <3>1
    <3>3. e \in i + 1 .. last - 1
      BY <1>1, <3>1, <3>2
    <3>4. \A f \in i + 1 .. e : f >= e - n + 1 => state[f] = "FREE"
      BY <1>1, <3>1
    <3>5. CASE state[i] = "FREE"
      <4>1. now = r + 1
        BY <3>5
      <4>2. e - n + 1 # i \/ r = 0
        <5> SUFFICES ASSUME e - n + 1 = i, r # 0 PROVE FALSE
          OBVIOUS
        <5>1. /\ e - r \in Nat /\ e - r \in i .. last - 1 /\ e - r - n + 1 = i - r
              /\ e - r < e /\ i .. e - r \subseteq i .. e
          BY <1>1, <1>8, <3>1
        <5>2. \A f \in i .. e - r : state[f] = "FREE"
          BY <1>1, <3>1, <5>1
        <5>3. e - r \in here
          BY <1>1, <1>2, <5>1, <5>2
        <5> QED
          BY <1>1, <2>2, <3>1, <5>1, <5>3
      <4>3. e - n + 1 = i + 1 - now \/ e - n + 1 >= i + 1
        BY <1>1, <3>1, <4>1, <4>2
      <4> QED
        BY <1>1, <1>3, <3>3, <3>4, <4>3
    <3>6. CASE state[i] # "FREE"
      <4>1. now = 0 /\ ~(i >= e - n + 1)
        BY <1>1, <3>1, <3>6
      <4>2. e - n + 1 >= i + 1
        BY <1>1, <3>1, <4>1
      <4> QED
        BY <1>1, <1>3, <3>3, <3>4, <4>2
    <3> QED
      BY <3>5, <3>6
  <2>3. CASE here = {}
    <3>1. next = {}
      BY <2>1, <2>3
    <3> QED
      BY <1>5, <1>8, <1>1, <2>3, <3>1
  <2>4. CASE here # {}
    <3>1. PICK e \in here : \A d \in here : e <= d
      BY <1>4, <2>4, LeastExists
    <3>2. e \in next /\ \A d \in next : e <= d
      BY <2>1, <2>2, <3>1
    <3>3. Earliest(here) = e
      BY <1>4, <3>1, EarliestIs
    <3>4. Earliest(next) = e
      BY <1>4, <3>2, EarliestIs
    <3> QED
      BY <1>1, <1>5, <1>8, <2>4, <3>2, <3>3, <3>4
  <2> QED
    BY <2>3, <2>4
<1> QED
  BY <1>1, <1>6, <1>7, <1>8

\* What the scan of the whole pool finds.
LEMMA ScanValueIsFit ==
    ASSUME NEW p \in Pool, NEW n \in Nat \ {0}
    PROVE  ScanValue(p, n, Base[p], 0) = IF Fits(p, n) = {} THEN 0 ELSE FirstFit(p, n)
<1> DEFINE all == RunEnds(p, n, Base[p], 0)
<1>1. /\ Base[p] \in Nat /\ Size[p] \in Nat
      /\ Frames(p) = Base[p] .. Base[p] + Size[p] - 1
  BY PoolFrames
<1>2. ASSUME NEW e \in all PROVE e - n + 1 \in Fits(p, n) /\ e \in Nat
  <2>1. /\ e \in Base[p] .. Base[p] + Size[p] - 1 /\ e - n + 1 >= Base[p]
        /\ \A f \in Base[p] .. e : f >= e - n + 1 => state[f] = "FREE"
    BY <1>1, <1>2 DEF RunEnds
  <2>2. e - n + 1 \in Frames(p) /\ e - n + 1 + n - 1 = e
    BY <1>1, <2>1
  <2>3. \A f \in e - n + 1 .. e : f \in Frames(p) /\ state[f] = "FREE"
    BY <1>1, <2>1
  <2> QED
    BY <1>1, <2>1, <2>2, <2>3 DEF Fits
<1>3. ASSUME NEW h \in Fits(p, n) PROVE h + n - 1 \in all /\ h \in Nat
  <2>1. /\ h \in Nat /\ h \in Frames(p)
        /\ \A f \in h .. h + n - 1 : f \in Frames(p) /\ state[f] = "FREE"
    BY <1>1 DEF Fits
  <2>2. h + n - 1 \in Frames(p) /\ h + n - 1 - n + 1 = h /\ h >= Base[p]
    <3>1. h + n - 1 \in h .. h + n - 1
      BY <2>1
    <3> QED
      BY <1>1, <2>1, <3>1
  <2>3. \A f \in Base[p] .. h + n - 1 : f >= h => state[f] = "FREE"
    BY <1>1, <2>1
  <2> QED
    BY <1>1, <2>1, <2>2, <2>3 DEF RunEnds
<1> HIDE DEF all
<1>4. CASE Fits(p, n) = {}
  <2>1. all = {}
    BY <1>2, <1>4
  <2> QED
    BY <1>4, <2>1 DEF ScanValue, all
<1>5. CASE Fits(p, n) # {}
  <2>1. PICK h \in Fits(p, n) : \A g \in Fits(p, n) : h <= g
    <3>1. Fits(p, n) \in SUBSET Nat
      BY <1>3
    <3> QED
      BY <1>5, <3>1, LeastExists
  <2>2. h + n - 1 \in all /\ h \in Nat
    BY <1>3
  <2>3. \A d \in all : h + n - 1 <= d
    <3> SUFFICES ASSUME NEW d \in all PROVE h + n - 1 <= d
      OBVIOUS
    <3>1. h <= d - n + 1 /\ d \in Nat
      BY <1>2, <2>1
    <3> QED
      BY <2>2, <3>1
  <2>4. all \in SUBSET Nat
    BY <1>2
  <2>5. Earliest(all) = h + n - 1
    BY <2>2, <2>3, <2>4, EarliestIs
  <2>6. FirstFit(p, n) = h
    <3>1. FirstFit(p, n) \in Fits(p, n) /\ \A g \in Fits(p, n) : FirstFit(p, n) <= g
      BY <2>1 DEF FirstFit
    <3>2. FirstFit(p, n) \in Nat
      BY <1>3, <3>1
    <3> QED
      BY <2>1, <2>2, <3>1, <3>2
  <2>7. all # {} /\ ScanValue(p, n, Base[p], 0) = h
    BY <2>2, <2>5 DEF ScanValue, all
  <2> QED
    BY <1>5, <2>6, <2>7
<1> QED
  BY <1>4, <1>5

ScanStep(p, n, scan) ==
    [i \in Base[p] .. Base[p] + Size[p] |->
        [inRow \in 0 .. n - 1 |->
            LET now == IF state[i] = "FREE" THEN inRow + 1 ELSE 0
            IN  IF i = Base[p] + Size[p] THEN 0
                ELSE IF now = n THEN i - now + 1
                ELSE scan[i + 1][now]]]

LEMMA ScanStepValue ==
    ASSUME NEW p \in Pool, NEW n \in Nat \ {0}, NEW scan, scan = ScanStep(p, n, scan),
           NEW i \in Base[p] .. Base[p] + Size[p], NEW r \in 0 .. n - 1,
           NEW now, now = IF state[i] = "FREE" THEN r + 1 ELSE 0
    PROVE  scan[i][r] = IF i = Base[p] + Size[p] THEN 0
                        ELSE IF now = n THEN i - now + 1 ELSE scan[i + 1][now]
<1>1. scan[i] = [inRow \in 0 .. n - 1 |->
                    IF i = Base[p] + Size[p] THEN 0
                    ELSE IF (IF state[i] = "FREE" THEN inRow + 1 ELSE 0) = n
                         THEN i - (IF state[i] = "FREE" THEN inRow + 1 ELSE 0) + 1
                         ELSE scan[i + 1][IF state[i] = "FREE" THEN inRow + 1 ELSE 0]]
  BY Zenon DEF ScanStep
<1> QED
  BY <1>1

LEMMA ScanComputes ==
    ASSUME NEW p \in Pool, NEW n \in Nat \ {0}
    PROVE  ScanLoop(p, n) = IF Fits(p, n) = {} THEN 0 ELSE FirstFit(p, n)
<1> DEFINE last   == Base[p] + Size[p]
           values == [i \in Base[p] .. last |-> [r \in 0 .. n - 1 |-> ScanValue(p, n, i, r)]]
           scan   == CHOOSE g : g = ScanStep(p, n, g)
           same   == {i \in Base[p] .. last : \A r \in 0 .. n - 1 :
                         scan[i][r] = ScanValue(p, n, i, r)}
<1>1. Base[p] \in Nat /\ Size[p] \in Nat /\ last \in Nat /\ Base[p] <= last
  BY PoolFrames
<1>2. values = ScanStep(p, n, values)
  <2>1. ASSUME NEW i \in Base[p] .. last, NEW r \in 0 .. n - 1,
               NEW now, now = IF state[i] = "FREE" THEN r + 1 ELSE 0
        PROVE  ScanValue(p, n, i, r) = IF i = last THEN 0 ELSE IF now = n THEN i - now + 1
                                       ELSE values[i + 1][now]
    <3>1. /\ now # n => now \in 0 .. n - 1
          /\ ScanValue(p, n, i, r) = IF i = last THEN 0 ELSE IF now = n THEN i - now + 1
                                     ELSE ScanValue(p, n, i + 1, now)
      BY <2>1, ScanValueStep
    <3>2. i # last => i + 1 \in Base[p] .. last
      BY <1>1
    <3> QED
      BY <3>1, <3>2
  <2>2. ASSUME NEW i \in Base[p] .. last
        PROVE  values[i] = [r \in 0 .. n - 1 |->
                               LET now == IF state[i] = "FREE" THEN r + 1 ELSE 0
                               IN  IF i = last THEN 0
                                   ELSE IF now = n THEN i - now + 1
                                   ELSE values[i + 1][now]]
    <3> SUFFICES ASSUME NEW r \in 0 .. n - 1
                 PROVE  ScanValue(p, n, i, r) =
                            LET now == IF state[i] = "FREE" THEN r + 1 ELSE 0
                            IN  IF i = last THEN 0 ELSE IF now = n THEN i - now + 1
                                ELSE values[i + 1][now]
      OBVIOUS
    <3> QED
      BY <2>1
  <2>3. values = [i \in Base[p] .. last |-> values[i]]
    OBVIOUS
  <2> HIDE DEF values
  <2>4. values = [i \in Base[p] .. last |-> [r \in 0 .. n - 1 |->
                               LET now == IF state[i] = "FREE" THEN r + 1 ELSE 0
                               IN  IF i = last THEN 0
                                   ELSE IF now = n THEN i - now + 1
                                   ELSE values[i + 1][now]]]
    BY <2>2, <2>3, Zenon
  <2> QED
    BY <2>4, Zenon DEF ScanStep
<1>3. scan = ScanStep(p, n, scan)
  <2> HIDE DEF values
  <2> QED
    BY <1>2
<1>4. ScanLoop(p, n) = scan[Base[p]][0]
  BY DEF ScanLoop, ScanStep
<1> HIDE DEF scan, values
<1>5. ASSUME NEW i \in Base[p] .. last, i = last \/ i + 1 \in same
      PROVE  i \in same
  <2> SUFFICES ASSUME NEW r \in 0 .. n - 1 PROVE scan[i][r] = ScanValue(p, n, i, r)
    OBVIOUS
  <2>1. PICK now : now = IF state[i] = "FREE" THEN r + 1 ELSE 0
    OBVIOUS
  <2>2. /\ now # n => now \in 0 .. n - 1
        /\ ScanValue(p, n, i, r) = IF i = last THEN 0 ELSE IF now = n THEN i - now + 1
                                   ELSE ScanValue(p, n, i + 1, now)
    BY <2>1, ScanValueStep
  <2>3. scan[i][r] = IF i = last THEN 0 ELSE IF now = n THEN i - now + 1
                     ELSE scan[i + 1][now]
    BY <1>3, <2>1, ScanStepValue
  <2>4. i # last /\ now # n => scan[i + 1][now] = ScanValue(p, n, i + 1, now)
    BY <1>5, <2>2
  <2> QED
    BY <2>2, <2>3, <2>4
<1>6. \A i \in Base[p] .. last : i \in same
  <2>1. last \in same
    BY <1>1, <1>5
  <2>2. \A i \in Base[p] .. last - 1 : i + 1 \in same => i \in same
    BY <1>1, <1>5
  <2> HIDE DEF same
  <2> QED
    BY <1>1, <2>1, <2>2, Downward
<1>7. scan[Base[p]][0] = ScanValue(p, n, Base[p], 0)
  BY <1>1, <1>6
<1> QED
  BY <1>4, <1>7, ScanValueIsFit

\* The counting loop of get_frames returns the first fit, or 0 when there is
\* none, and the loop of local_release_frames stops where the sequence does.
THEOREM LoopsAreRight == Spec => []LoopsCompute
<1>1. IInv => LoopsCompute
  <2> SUFFICES ASSUME IInv, NEW p \in opened
               PROVE  /\ \A n \in 1 .. MaxRequest :
                             ScanLoop(p, n) = IF Fits(p, n) = {} THEN 0
                                              ELSE FirstFit(p, n)
                      /\ \A f \in Frames(p) : WalkLoop(p, f) = RunEnd(state, p, f)
    BY DEF LoopsCompute
  <2>1. TypeOK /\ p \in Pool
    BY DEF IInv, TypeOK
  <2>2. \A n \in 1 .. MaxRequest : n \in Nat \ {0}
    BY RequestAssumption
  <2> QED
    BY <2>1, <2>2, ScanComputes, WalkComputes
<1> QED
  BY <1>1, Invariance, PTL
=============================================================================
