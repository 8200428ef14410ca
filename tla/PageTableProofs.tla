--------------------------- MODULE PageTableProofs ---------------------------
(***************************************************************************)
(* What holds of PageTable for frames of any number of words and pools of  *)
(* any layout: each page has a frame of its own, the handler leaves the    *)
(* shared memory alone, and its own faults nest to a depth of four.        *)
(***************************************************************************)
EXTENDS PageTable, FiniteSetTheorems, SequenceTheorems,
        WellFoundedInduction, TLAPS

-----------------------------------------------------------------------------
(* What is assumed of an instance. *)

\* The handler clears other frames than the new tables, which are used as they are.
ZeroedMemory == PowerOn \subseteq {Absent}

\* What one access takes at most: the handler maps frame 0 when there are none.
EnoughFrames == Headroom >= 7

\* All memory that is used is between the shared memory and the last four megabytes.
PagesInRange == PoolFrames \cup UserPages \cup FreedPages \subseteq DataPages

\* The store of free_page is to some page table.
FreesHitTables == \A v \in FreedPages : Table(v) + WordSize * Slot(v) < Entries - 1

\* But for the first and the last, no frame of the pool is alone in a table's range.
NoLoneFrame ==
    \A f, g, h \in PoolFrames :
        f < g /\ g < h => \E e \in PoolFrames \ {g} : Table(e) = Table(g)

Ordinary == /\ ZeroedMemory /\ EnoughFrames
            /\ PagesInRange /\ FreesHitTables /\ NoLoneFrame

-----------------------------------------------------------------------------
(* The invariant. *)

Slots == 0 .. Entries - 1

DataTables == 1 .. Entries - 2      \* the entries of the directory for DataPages

Given == taken \ {Directory, SharedTable}

Activation == [page : Page, table : Frame \cup {NoFrame}]

TypeOK ==
    /\ mem \in [Frame -> [Slots -> Word]]
    /\ taken \subseteq PoolFrames
    /\ \/ goal = Idle
       \/ goal.op = "touch" /\ goal.page \in UserPages
       \/ goal.op = "free" /\ goal.page \in FreedPages
    /\ stack \in Seq(Activation)

\* Frames are handed out from the lowest up.
TakenOK ==
    /\ {Directory, SharedTable} \subseteq taken
    /\ \A f \in taken, g \in PoolFrames : g < f => g \in taken

DirectoryOK ==
    /\ mem[Directory][0] = SharedTable /\ mem[Directory][Entries - 1] = Directory
    /\ \A t \in DataTables : mem[Directory][t] \in Given \cup {Absent}
    /\ \A t, u \in DataTables :
           mem[Directory][t] = mem[Directory][u] /\ t # u => mem[Directory][t] = Absent

\* A page's frame is its own, and no table.
FramesOK ==
    /\ \A v \in DataPages : Translate(v) \in Given \cup {Absent}
    /\ \A v, w \in DataPages :
           Translate(v) = Translate(w) /\ v # w => Translate(v) = Absent
    /\ \A v \in DataPages, t \in DataTables :
           Translate(v) = mem[Directory][t] => Translate(v) = Absent

\* Only tables have other words than Absent.
ClearOK ==
    \A f \in PoolFrames \ {Directory, SharedTable} :
        \/ \E t \in DataTables : mem[Directory][t] = f
        \/ \A i \in Slots : mem[f][i] = Absent

\* The page of the instruction of the client.
Access == IF goal.op = "free" THEN Misdirected(goal.page) ELSE goal.page

\* An activation with a table that has not been cleared yet.
Clearing(k) == stack[k].table # NoFrame

\* Each activation but the first is for the page that has the number of the
\* table of the one before, and only the last has no table yet.
ChainOK ==
    /\ Handling => goal # Idle /\ stack[1].page = Access
    /\ \A k \in 1 .. Len(stack) - 1 : Clearing(k) /\ stack[k + 1].page = stack[k].table
    /\ Handling /\ Top.table = NoFrame => Translate(Top.page) = Absent
    /\ \A k \in 1 .. Len(stack) : Clearing(k) =>
           /\ stack[k].page \in DataPages
           /\ stack[k].table \in Given
           /\ mem[Directory][Table(stack[k].page)] = stack[k].table

\* Nothing has been taken since a table whose own address has no table; the second
\* table follows the first one in the pool; the third is in its own page's range.
DepthOK ==
    /\ Len(stack) <= 4
    /\ \A k \in 1 .. Len(stack) :
           Clearing(k) /\ mem[Directory][Table(stack[k].table)] = Absent
               => \A g \in taken : g <= stack[k].table
    /\ Len(stack) >= 2 /\ Clearing(2) =>
           /\ stack[1].table < stack[2].table
           /\ \A g \in PoolFrames : ~(stack[1].table < g /\ g < stack[2].table)
    /\ Len(stack) >= 3 /\ Clearing(3) => Table(stack[3].table) = Table(stack[3].page)
    /\ Len(stack) = 4 => ~Clearing(4)

\* The page to be mapped before the topmost loop, or the client, can go on.
Pending == IF ~Handling THEN Access
           ELSE IF Top.table = NoFrame THEN Top.page ELSE Top.table

Deep == IF Handling /\ Top.table = NoFrame THEN Len(stack) - 1 ELSE Len(stack)

Needed == Deep + (IF Translate(Pending) # Absent THEN 0
                  ELSE IF mem[Directory][Table(Pending)] # Absent THEN 1
                  ELSE 7 - 2 * Deep)

BudgetOK == goal # Idle => Cardinality(Free) >= Needed

MemoryOK == TakenOK /\ DirectoryOK /\ FramesOK /\ ClearOK

IInv == TypeOK /\ MemoryOK /\ ChainOK /\ DepthOK /\ BudgetOK

-----------------------------------------------------------------------------
(* Pages, and the tables and slots they have. *)

LEMMA Numbers ==
    /\ Entries \in Nat /\ Entries > 3 /\ Entries * Entries \in Nat
    /\ Frame = Page /\ Page \subseteq Nat
    /\ 0 \in Slots /\ Entries - 1 \in Slots /\ DataTables \subseteq Slots
    /\ 0 \notin DataTables /\ Entries - 1 \notin DataTables
    /\ Absent \notin Frame /\ NoFrame \notin Frame /\ Absent \in Word /\ Frame \subseteq Word
<1>1. Entries \in Nat /\ Entries > 3 /\ Entries * Entries \in Nat
  BY PoolAssumption
<1>2. Frame = Page /\ Page \subseteq Nat
  BY <1>1 DEF Frame, Page, LastFrame
<1>3. /\ 0 \in Slots /\ Entries - 1 \in Slots /\ DataTables \subseteq Slots
      /\ 0 \notin DataTables /\ Entries - 1 \notin DataTables
  BY <1>1 DEF Slots, DataTables
<1> QED
  BY <1>1, <1>2, <1>3, PoolAssumption DEF Word

LEMMA Division ==
    ASSUME NEW v \in Nat
    PROVE  /\ Table(v) \in Nat /\ Slot(v) \in Slots
           /\ v = Entries * Table(v) + Slot(v)
BY PoolAssumption DEF Table, Slot, Slots

\* Division has one result.
LEMMA DivisionUnique ==
    ASSUME NEW v \in Nat, NEW t \in Nat, NEW i \in Slots, v = Entries * t + i
    PROVE  Table(v) = t /\ Slot(v) = i
<1> DEFINE q == Table(v)
           r == Slot(v)
<1>0. q \in Nat /\ r \in Slots /\ v = Entries * q + r
  BY Division
<1> HIDE DEF q, r
<1>1. q \in Nat /\ r \in Nat /\ r < Entries /\ v = Entries * q + r /\ i \in Nat /\ i < Entries
      /\ Entries \in Nat
  <2>1. Entries \in Nat /\ Entries - 1 \in Nat
    BY PoolAssumption
  <2>2. \A k \in Slots : k \in Nat /\ k < Entries
    BY <2>1 DEF Slots
  <2> QED
    BY <1>0, <2>1, <2>2
<1>2. ~(q < t)
  <2> SUFFICES ASSUME q < t PROVE FALSE
    OBVIOUS
  <2>1. q + 1 <= t
    BY <1>1
  <2>2. Entries * (q + 1) <= Entries * t
    BY <1>1, <2>1
  <2>3. Entries * (q + 1) = Entries * q + Entries
    BY <1>1
  <2> QED
    BY <1>1, <2>2, <2>3
<1>3. ~(t < q)
  <2> SUFFICES ASSUME t < q PROVE FALSE
    OBVIOUS
  <2>1. t + 1 <= q
    BY <1>1
  <2>2. Entries * (t + 1) <= Entries * q
    BY <1>1, <2>1
  <2>3. Entries * (t + 1) = Entries * t + Entries
    BY <1>1
  <2> QED
    BY <1>1, <2>2, <2>3
<1>4. q = t
  BY <1>1, <1>2, <1>3
<1>5. Entries * q = Entries * t /\ Entries * t \in Nat
  BY <1>1, <1>4
<1>6. r = i
  BY <1>1, <1>5
<1> QED
  BY <1>4, <1>6 DEF q, r

LEMMA SamePlace ==
    ASSUME NEW v \in Nat, NEW w \in Nat, Table(v) = Table(w), Slot(v) = Slot(w)
    PROVE  v = w
BY Division

LEMMA TableOrder ==
    ASSUME NEW v \in Nat, NEW w \in Nat, v <= w
    PROVE  Table(v) <= Table(w)
<1> DEFINE q == Table(v)
           r == Table(w)
           i == Slot(v)
           j == Slot(w)
<1>0. /\ q \in Nat /\ i \in Slots /\ v = Entries * q + i
      /\ r \in Nat /\ j \in Slots /\ w = Entries * r + j
  BY Division
<1> HIDE DEF q, r, i, j
<1>1. q \in Nat /\ r \in Nat /\ i \in Nat /\ j \in Nat /\ j < Entries /\ Entries \in Nat
      /\ v = Entries * q + i /\ w = Entries * r + j
  <2>1. Entries \in Nat /\ Entries - 1 \in Nat
    BY PoolAssumption
  <2>2. \A k \in Slots : k \in Nat /\ k < Entries
    BY <2>1 DEF Slots
  <2> QED
    BY <1>0, <2>1, <2>2
<1>2. ~(r < q)
  <2> SUFFICES ASSUME r < q PROVE FALSE
    OBVIOUS
  <2>1. r + 1 <= q
    BY <1>1
  <2>2. Entries * (r + 1) <= Entries * q
    BY <1>1, <2>1
  <2>3. Entries * (r + 1) = Entries * r + Entries
    BY <1>1
  <2> QED
    BY <1>1, <2>2, <2>3
<1>3. q <= r
  BY <1>1, <1>2
<1> QED
  BY <1>3 DEF q, r

\* The page at a place.
LEMMA PageAt ==
    ASSUME NEW t \in Slots, NEW i \in Slots
    PROVE  /\ Entries * t + i \in Page
           /\ Table(Entries * t + i) = t /\ Slot(Entries * t + i) = i
           /\ t \in DataTables => Entries * t + i \in DataPages
<1>1. t \in Nat /\ i \in Nat /\ t <= Entries - 1 /\ i <= Entries - 1 /\ Entries \in Nat
      /\ Entries - 1 \in Nat /\ Entries - 2 \in Nat
  BY PoolAssumption DEF Slots
<1>2. Entries * t \in Nat /\ Entries * t + i \in Nat
  BY <1>1
<1>3. Entries * t <= Entries * (Entries - 1) /\ Entries * (Entries - 1) = Entries * Entries - Entries
      /\ Entries * Entries \in Nat
  BY <1>1
<1>4. Entries * t + i \in Page
  BY <1>1, <1>2, <1>3 DEF Page
<1>5. Table(Entries * t + i) = t /\ Slot(Entries * t + i) = i
  BY <1>1, <1>2, DivisionUnique
<1>6. ASSUME t \in DataTables PROVE Entries * t + i \in DataPages
  <2>1. 1 <= t /\ t <= Entries - 2
    BY <1>6 DEF DataTables
  <2>2. Entries * 1 <= Entries * t /\ Entries * t <= Entries * (Entries - 2)
        /\ Entries * (Entries - 2) = Entries * (Entries - 1) - Entries
    BY <1>1, <2>1
  <2> QED
    BY <1>1, <1>2, <1>3, <2>2 DEF DataPages
<1> QED
  BY <1>4, <1>5, <1>6

LEMMA DataPage ==
    ASSUME NEW v \in DataPages
    PROVE  v \in Nat /\ v \in Page /\ v \in Frame /\ Table(v) \in DataTables /\ Slot(v) \in Slots
<1> DEFINE q == Table(v)
           i == Slot(v)
<1>1. Entries \in Nat /\ Entries > 3 /\ Entries - 1 \in Nat /\ Entries * Entries \in Nat
      /\ Entries * (Entries - 1) = Entries * Entries - Entries
  BY PoolAssumption
<1>2. v \in Nat /\ Entries <= v /\ v < Entries * (Entries - 1)
  BY <1>1 DEF DataPages
<1>3. q \in Nat /\ i \in Slots /\ v = Entries * q + i
  BY <1>2, Division
<1>4. v \in Page /\ v \in Frame
  BY <1>1, <1>2, Numbers DEF Page
<1> HIDE DEF q, i
<1>5. i \in Nat /\ i < Entries
  BY <1>1, <1>3 DEF Slots
<1>6. q # 0
  BY <1>1, <1>2, <1>3, <1>5
<1>7. ~(Entries - 1 <= q)
  <2> SUFFICES ASSUME Entries - 1 <= q PROVE FALSE
    OBVIOUS
  <2>1. Entries * (Entries - 1) <= Entries * q
    BY <1>1, <1>3
  <2> QED
    BY <1>1, <1>2, <1>3, <1>5, <2>1
<1>8. q \in DataTables
  BY <1>1, <1>3, <1>6, <1>7 DEF DataTables
<1> QED
  BY <1>2, <1>3, <1>4, <1>8 DEF q, i

\* The recursive entry: the last page is the directory, those before it the tables.
LEMMA SystemPages ==
    /\ DirectoryPage \in Page
    /\ Table(DirectoryPage) = Entries - 1 /\ Slot(DirectoryPage) = Entries - 1
    /\ \A t \in Slots : /\ TablePage(t) \in Page
                        /\ Table(TablePage(t)) = Entries - 1 /\ Slot(TablePage(t)) = t
<1>1. Entries \in Nat /\ Entries - 1 \in Slots
  BY Numbers
<1>2. Entries * (Entries - 1) + (Entries - 1) = DirectoryPage
  BY <1>1 DEF DirectoryPage
<1>3. \A t \in Slots : Entries * (Entries - 1) + t = TablePage(t)
  BY DEF TablePage
<1> QED
  BY <1>1, <1>2, <1>3, PageAt

LEMMA Remainder ==
    ASSUME NEW n \in Nat, NEW m \in Nat, n < m
    PROVE  n % m = n
OBVIOUS

\* The store of free_page goes to the first word of a page table.
LEMMA FreedTable ==
    ASSUME Ordinary, NEW v \in FreedPages
    PROVE  /\ Table(v) + WordSize * Slot(v) \in DataTables
           /\ Misdirected(v) = TablePage(Table(v) + WordSize * Slot(v))
<1> DEFINE t == Table(v) + WordSize * Slot(v)
<1>1. v \in DataPages /\ Table(v) \in DataTables /\ Slot(v) \in Slots
  BY DataPage DEF Ordinary, PagesInRange
<1>2. t < Entries - 1
  BY DEF Ordinary, FreesHitTables
<1>3. Entries \in Nat /\ Entries > 3 /\ Entries * Entries \in Nat
  BY Numbers
<1>4. Table(v) \in Nat /\ Table(v) >= 1 /\ Slot(v) \in Nat
  BY <1>1, <1>3 DEF DataTables, Slots
<1>5. t \in DataTables
  BY <1>2, <1>3, <1>4 DEF DataTables, WordSize
<1>6. TablePage(Table(v)) + Slot(v) * WordSize = TablePage(t)
  BY <1>3, <1>4 DEF TablePage, WordSize
<1>7. TablePage(t) \in Page
  BY <1>5, SystemPages, Numbers
<1>8. TablePage(t) \in Nat /\ TablePage(t) < Entries * Entries
  BY <1>3, <1>7 DEF Page
<1>9. TablePage(t) % (Entries * Entries) = TablePage(t)
  BY <1>3, <1>8, Remainder
<1> QED
  BY <1>5, <1>6, <1>9 DEF Misdirected

LEMMA PoolFacts ==
    ASSUME Ordinary
    PROVE  /\ Directory \in PoolFrames /\ SharedTable \in PoolFrames /\ Directory # SharedTable
           /\ \A f \in PoolFrames : /\ f \in DataPages /\ f \in Frame /\ f \in Nat
                                    /\ f >= Entries /\ f # Absent /\ f # NoFrame
           /\ IsFiniteSet(PoolFrames)
<1>1. PoolFrames \subseteq DataPages
  BY DEF Ordinary, PagesInRange
<1>2. PoolFrames \subseteq Entries .. LastFrame /\ Entries \in Nat /\ LastFrame \in Int
  BY PoolAssumption, Numbers DEF LastFrame
<1>3. IsFiniteSet(PoolFrames)
  <2>1. IsFiniteSet(Entries .. LastFrame)
    BY <1>2, FS_Interval
  <2> QED
    BY <1>2, <2>1, FS_Subset
<1>4. \A f \in PoolFrames : f \in DataPages /\ f \in Frame /\ f \in Nat /\ f >= Entries
  BY <1>1, <1>2, DataPage
<1>5. Absent \notin Frame /\ NoFrame \notin Frame
  BY Numbers
<1>6. Directory \in PoolFrames /\ SharedTable \in PoolFrames /\ Directory # SharedTable
  BY PoolAssumption DEF Directory, SharedTable
<1> QED
  BY <1>3, <1>4, <1>5, <1>6

\* What the processor makes of the addresses of the recursive entry.
LEMMA SystemTranslation ==
    ASSUME DirectoryOK
    PROVE  /\ Translate(DirectoryPage) = Directory
           /\ \A t \in Slots : Translate(TablePage(t)) = mem[Directory][t]
<1>1. Directory # Absent
  BY PoolAssumption, Numbers DEF Directory, Frame, LastFrame
<1>2. mem[Directory][Entries - 1] = Directory
  BY DEF DirectoryOK
<1> QED
  BY <1>1, <1>2, SystemPages, Zenon DEF Translate

-----------------------------------------------------------------------------
(* Frames of the pool. *)

LEMMA LeastExists ==
    ASSUME NEW S \in SUBSET Nat, S # {}
    PROVE  \E m \in S : \A k \in S : m <= k
<1> DEFINE R == OpToRel(<, Nat)
<1>1. IsWellFoundedOn(R, Nat)
  BY NatLessThanWellFounded
<1>2. PICK m \in S : \A k \in S : <<k, m>> \notin R
  <2> HIDE DEF R
  <2> QED
    BY <1>1, WFMin
<1>3. \A k \in S : ~(k < m)
  BY <1>2 DEF OpToRel
<1> QED
  BY <1>3

\* get_frames takes the lowest free frame, which is behind all that are taken.
LEMMA GetFrameFacts ==
    ASSUME Ordinary, TypeOK, TakenOK, Free # {}
    PROVE  /\ GetFrame \in PoolFrames \ taken /\ GetFrame \notin {Directory, SharedTable}
           /\ \A f \in taken : f < GetFrame
           /\ \A f \in PoolFrames : f < GetFrame => f \in taken
           /\ GetFrame \in Nat /\ GetFrame \in Frame /\ GetFrame \in DataPages
           /\ GetFrame # Absent /\ GetFrame # NoFrame
<1>1. Free \in SUBSET Nat /\ taken \subseteq PoolFrames
  BY PoolFacts DEF Free, TypeOK
<1>2. \E f \in Free : \A g \in Free : f <= g
  BY <1>1, LeastExists
<1>3. GetFrame \in Free /\ \A g \in Free : GetFrame <= g
  BY <1>2 DEF GetFrame
<1>4. GetFrame \in PoolFrames \ taken /\ GetFrame \in Nat
  BY <1>1, <1>3 DEF Free
<1>5. ASSUME NEW f \in taken PROVE f < GetFrame
  <2>1. f \in Nat /\ f # GetFrame
    BY <1>1, <1>4, PoolFacts
  <2>2. ~(GetFrame < f)
    BY <1>4 DEF TakenOK
  <2> QED
    BY <1>4, <2>1, <2>2
<1>6. ASSUME NEW f \in PoolFrames, f < GetFrame PROVE f \in taken
  <2>1. f \in Nat
    BY PoolFacts
  <2>2. f \notin Free
    BY <1>3, <1>4, <1>6, <2>1
  <2> QED
    BY <2>2 DEF Free
<1> QED
  BY <1>4, <1>5, <1>6, PoolFacts DEF TakenOK

LEMMA FreeIsFinite ==
    ASSUME Ordinary
    PROVE  IsFiniteSet(Free) /\ Cardinality(Free) \in Nat /\ (Free = {} <=> Cardinality(Free) = 0)
<1>1. IsFiniteSet(Free)
  BY PoolFacts, FS_Subset DEF Free
<1> QED
  BY <1>1, FS_CardinalityType, FS_EmptySet

\* What taking a frame does.
LEMMA TakeFrame ==
    ASSUME Ordinary, TypeOK, TakenOK, Free # {}, Take
    PROVE  /\ taken' = taken \cup {GetFrame} /\ taken' \subseteq PoolFrames /\ TakenOK'
           /\ Cardinality(Free)' = Cardinality(Free) - 1
<1>1. taken' = taken \cup {GetFrame}
  BY DEF Take
<1>2. /\ GetFrame \in PoolFrames \ taken
      /\ \A f \in taken : f < GetFrame
      /\ \A f \in PoolFrames : f < GetFrame => f \in taken
  BY GetFrameFacts
<1>3. Free' = Free \ {GetFrame} /\ GetFrame \in Free
  BY <1>1, <1>2 DEF Free
<1>4. Cardinality(Free') = Cardinality(Free) - 1
  BY <1>3, FreeIsFinite, FS_RemoveElement
<1>5. taken' \subseteq PoolFrames
  BY <1>1, <1>2 DEF TypeOK
<1>6. TakenOK'
  BY <1>1, <1>2 DEF TakenOK, Directory, SharedTable
<1> QED
  BY <1>1, <1>4, <1>5, <1>6

-----------------------------------------------------------------------------
(* The stores of the handler and of free_page. *)

\* A table is in use: its words are in memory that is neither the directory nor shared.
LEMMA TableFacts ==
    ASSUME Ordinary, TypeOK, TakenOK, DirectoryOK,
           NEW t \in DataTables, mem[Directory][t] # Absent
    PROVE  /\ mem[Directory][t] \in Given /\ mem[Directory][t] \in taken
           /\ mem[Directory][t] \in PoolFrames \ {Directory, SharedTable}
           /\ mem[Directory][t] \in Frame /\ mem[Directory][t] \in Nat
           /\ mem[Directory][t] >= Entries
<1>1. mem[Directory][t] \in Given
  BY DEF DirectoryOK
<1> QED
  BY <1>1, PoolFacts DEF Given, TypeOK

\* The directory gets a table, for a page or because free_page writes to it.  The new
\* table has no pages, as its frame has never been written to.
LEMMA TableAdded ==
    ASSUME Ordinary, TypeOK, MemoryOK, Free # {}, Take,
           NEW t \in DataTables, mem[Directory][t] = Absent,
           mem' = [mem EXCEPT ![Directory][t] = GetFrame]
    PROVE  /\ MemoryOK' /\ mem' \in [Frame -> [Slots -> Word]] /\ taken' \subseteq PoolFrames
           /\ \A f \in Frame : f # Directory => mem'[f] = mem[f]
           /\ \A u \in Slots : mem'[Directory][u] = IF u = t THEN GetFrame ELSE mem[Directory][u]
           /\ \A v \in DataPages : Translate(v)' = Translate(v)
<1> DEFINE g == GetFrame
<1>1. /\ TakenOK /\ DirectoryOK /\ FramesOK /\ ClearOK
      /\ mem \in [Frame -> [Slots -> Word]] /\ taken \subseteq PoolFrames
  BY DEF MemoryOK, TypeOK
<1>2. /\ g \in PoolFrames \ taken /\ g \notin {Directory, SharedTable}
      /\ g \in Frame /\ g # Absent /\ g \in Word
  BY <1>1, GetFrameFacts, Numbers
<1>3. /\ taken' = taken \cup {g} /\ taken' \subseteq PoolFrames /\ TakenOK'
  BY <1>1, TakeFrame
<1> HIDE DEF g
<1>4. Directory \in Frame /\ DataTables \subseteq Slots /\ 0 \notin DataTables /\ Entries - 1 \notin DataTables
      /\ 0 \in Slots /\ Entries - 1 \in Slots
  BY PoolFacts, Numbers
<1>5. mem' = [mem EXCEPT ![Directory] = [mem[Directory] EXCEPT ![t] = g]]
  BY DEF g
<1>6. /\ mem' \in [Frame -> [Slots -> Word]]
      /\ \A f \in Frame : f # Directory => mem'[f] = mem[f]
      /\ \A u \in Slots : mem'[Directory][u] = IF u = t THEN g ELSE mem[Directory][u]
  BY <1>1, <1>2, <1>4, <1>5
<1>7. \A u \in DataTables : mem[Directory][u] # g
  BY <1>1, <1>2 DEF DirectoryOK, Given
<1>8. \A i \in Slots : mem'[g][i] = Absent
  <2>1. \A i \in Slots : mem[g][i] = Absent
    BY <1>1, <1>2, <1>7 DEF ClearOK
  <2> QED
    BY <1>2, <1>6, <2>1
<1>9. ASSUME NEW v \in DataPages PROVE Translate(v)' = Translate(v)
  <2>1. Table(v) \in DataTables /\ Table(v) \in Slots /\ Slot(v) \in Slots
    BY <1>4, DataPage
  <2>2. CASE Table(v) = t
    <3>1. Translate(v) = Absent
      BY <2>2 DEF Translate
    <3>2. Translate(v)' = mem'[g][Slot(v)]
      BY <1>2, <1>6, <2>1, <2>2 DEF Translate, Directory
    <3> QED
      BY <1>8, <2>1, <3>1, <3>2
  <2>3. CASE Table(v) # t
    <3>1. mem'[Directory][Table(v)] = mem[Directory][Table(v)]
      BY <1>6, <2>1, <2>3
    <3>2. CASE mem[Directory][Table(v)] = Absent
      BY <3>1, <3>2 DEF Translate, Directory
    <3>3. CASE mem[Directory][Table(v)] # Absent
      <4>1. mem[Directory][Table(v)] \in Frame /\ mem[Directory][Table(v)] # Directory
        BY <1>1, <2>1, <3>3, TableFacts
      <4>2. mem'[mem[Directory][Table(v)]] = mem[mem[Directory][Table(v)]]
        BY <1>6, <4>1
      <4> QED
        BY <3>1, <3>3, <4>2 DEF Translate, Directory
    <3> QED
      BY <3>2, <3>3
  <2> QED
    BY <2>2, <2>3
<1>10. DirectoryOK'
  <2>1. mem'[Directory][0] = SharedTable /\ mem'[Directory][Entries - 1] = Directory
    BY <1>1, <1>4, <1>6 DEF DirectoryOK
  <2>2. \A u \in DataTables : mem'[Directory][u] \in Given' \cup {Absent}
    BY <1>1, <1>2, <1>3, <1>4, <1>6 DEF DirectoryOK, Given, Directory, SharedTable
  <2>3. \A u, w \in DataTables :
            mem'[Directory][u] = mem'[Directory][w] /\ u # w => mem'[Directory][u] = Absent
    BY <1>1, <1>4, <1>6, <1>7 DEF DirectoryOK
  <2> QED
    BY <2>1, <2>2, <2>3 DEF DirectoryOK, Directory, SharedTable
<1>11. FramesOK'
  <2>1. \A v \in DataPages : Translate(v)' \in Given' \cup {Absent}
    BY <1>1, <1>3, <1>9 DEF FramesOK, Given, Directory, SharedTable
  <2>2. \A v, w \in DataPages :
            Translate(v)' = Translate(w)' /\ v # w => Translate(v)' = Absent
    BY <1>1, <1>9 DEF FramesOK
  <2>3. ASSUME NEW v \in DataPages, NEW u \in DataTables, Translate(v)' = mem'[Directory][u]
        PROVE  Translate(v)' = Absent
    <3>1. Translate(v) \in Given \cup {Absent}
      BY <1>1 DEF FramesOK
    <3>2. Translate(v) # g
      BY <1>2, <3>1 DEF Given
    <3> QED
      BY <1>1, <1>4, <1>6, <1>9, <2>3, <3>2 DEF FramesOK
  <2> QED
    BY <2>1, <2>2, <2>3 DEF FramesOK, Directory
<1>12. ClearOK'
  <2> SUFFICES ASSUME NEW f \in PoolFrames \ {Directory, SharedTable}
               PROVE  \/ \E u \in DataTables : mem'[Directory][u] = f
                      \/ \A i \in Slots : mem'[f][i] = Absent
    BY DEF ClearOK, Directory, SharedTable
  <2>1. f \in Frame /\ f # Absent /\ mem'[f] = mem[f]
    BY <1>6, PoolFacts
  <2>2. CASE \A i \in Slots : mem[f][i] = Absent
    BY <2>1, <2>2
  <2>3. CASE \E u \in DataTables : mem[Directory][u] = f
    BY <1>4, <1>6, <2>1, <2>3
  <2> QED
    BY <1>1, <2>2, <2>3 DEF ClearOK
<1>13. MemoryOK'
  BY <1>3, <1>10, <1>11, <1>12 DEF MemoryOK
<1> QED
  BY <1>3, <1>6, <1>9, <1>13 DEF g

\* A word of a table is written: one page's frame changes.
LEMMA TableWritten ==
    ASSUME Ordinary, TypeOK, MemoryOK, taken \subseteq taken',
           NEW t \in DataTables, mem[Directory][t] # Absent, NEW i \in Slots, NEW w \in Word,
           mem' = [mem EXCEPT ![mem[Directory][t]][i] = w]
    PROVE  /\ mem' \in [Frame -> [Slots -> Word]]
           /\ \A f \in Frame : f # mem[Directory][t] => mem'[f] = mem[f]
           /\ mem'[Directory] = mem[Directory]
           /\ \A v \in DataPages :
                  Translate(v)' = IF Table(v) = t /\ Slot(v) = i THEN w ELSE Translate(v)
           /\ DirectoryOK' /\ ClearOK'
<1> DEFINE F == mem[Directory][t]
<1>1. /\ TakenOK /\ DirectoryOK /\ FramesOK /\ ClearOK
      /\ mem \in [Frame -> [Slots -> Word]]
  BY DEF MemoryOK, TypeOK
<1>2. /\ F \in Frame /\ F # Directory /\ F # Absent /\ Directory \in Frame
  BY <1>1, TableFacts, PoolFacts
<1>3. mem' = [mem EXCEPT ![F] = [mem[F] EXCEPT ![i] = w]]
  OBVIOUS
<1>4. F = mem[Directory][t]
  OBVIOUS
<1> HIDE DEF F
<1>5. /\ mem' \in [Frame -> [Slots -> Word]]
      /\ \A f \in Frame : f # F => mem'[f] = mem[f]
      /\ mem'[Directory] = mem[Directory]
      /\ \A j \in Slots : mem'[F][j] = IF j = i THEN w ELSE mem[F][j]
  <2> DEFINE row == [mem[F] EXCEPT ![i] = w]
  <2>1. mem[F] \in [Slots -> Word]
    BY <1>1, <1>2
  <2>2. row \in [Slots -> Word] /\ \A j \in Slots : row[j] = IF j = i THEN w ELSE mem[F][j]
    BY <2>1
  <2>3. mem' = [mem EXCEPT ![F] = row]
    BY <1>3
  <2> HIDE DEF row
  <2> QED
    BY <1>1, <1>2, <2>2, <2>3
<1>6. ASSUME NEW v \in DataPages
      PROVE  Translate(v)' = IF Table(v) = t /\ Slot(v) = i THEN w ELSE Translate(v)
  <2>1. Table(v) \in DataTables /\ Slot(v) \in Slots
    BY DataPage
  <2>2. CASE Table(v) = t
    <3>1. Translate(v) = mem[F][Slot(v)] /\ Translate(v)' = mem'[F][Slot(v)]
      BY <1>2, <1>4, <1>5, <2>2 DEF Translate, Directory
    <3> QED
      BY <1>5, <2>1, <2>2, <3>1
  <2>3. CASE Table(v) # t
    <3>1. CASE mem[Directory][Table(v)] = Absent
      BY <1>5, <2>3, <3>1 DEF Translate, Directory
    <3>2. CASE mem[Directory][Table(v)] # Absent
      <4>1. mem[Directory][Table(v)] \in Frame
        BY <1>1, <2>1, <3>2, TableFacts
      <4>2. mem[Directory][Table(v)] # F
        BY <1>1, <1>4, <2>1, <2>3, <3>2 DEF DirectoryOK
      <4>3. mem'[mem[Directory][Table(v)]] = mem[mem[Directory][Table(v)]]
        BY <1>5, <4>1, <4>2
      <4> QED
        BY <1>5, <2>3, <3>2, <4>3 DEF Translate, Directory
    <3> QED
      BY <3>1, <3>2
  <2> QED
    BY <2>2, <2>3
<1>7. DirectoryOK'
  BY <1>1, <1>5 DEF DirectoryOK, Given, Directory, SharedTable
<1>8. ClearOK'
  <2> SUFFICES ASSUME NEW f \in PoolFrames \ {Directory, SharedTable}
               PROVE  \/ \E u \in DataTables : mem'[Directory][u] = f
                      \/ \A j \in Slots : mem'[f][j] = Absent
    BY DEF ClearOK, Directory, SharedTable
  <2>1. CASE f = F
    BY <1>4, <1>5, <2>1
  <2>2. CASE f # F
    <3>1. mem'[f] = mem[f]
      BY <1>5, <2>2, PoolFacts
    <3> QED
      BY <1>1, <1>5, <3>1 DEF ClearOK
  <2> QED
    BY <2>1, <2>2
<1> QED
  BY <1>4, <1>5, <1>6, <1>7, <1>8

\* A page gets a frame.
LEMMA PageMapped ==
    ASSUME Ordinary, TypeOK, MemoryOK, Free # {}, Take,
           NEW v \in DataPages, mem[Directory][Table(v)] # Absent,
           mem' = [mem EXCEPT ![mem[Directory][Table(v)]][Slot(v)] = GetFrame]
    PROVE  /\ MemoryOK' /\ mem' \in [Frame -> [Slots -> Word]] /\ taken' \subseteq PoolFrames
           /\ \A f \in Frame : f # mem[Directory][Table(v)] => mem'[f] = mem[f]
           /\ mem'[Directory] = mem[Directory]
           /\ \A w \in DataPages : Translate(w)' = IF w = v THEN GetFrame ELSE Translate(w)
<1> DEFINE g == GetFrame
<1>1. TakenOK /\ DirectoryOK /\ FramesOK /\ taken \subseteq PoolFrames
  BY DEF MemoryOK, TypeOK
<1>2. /\ g \in PoolFrames \ taken /\ g \notin {Directory, SharedTable}
      /\ g # Absent /\ g \in Word
  BY <1>1, GetFrameFacts, Numbers
<1>3. taken' = taken \cup {g} /\ taken' \subseteq PoolFrames /\ TakenOK'
  BY <1>1, TakeFrame
<1>4. Table(v) \in DataTables /\ Slot(v) \in Slots
  BY DataPage
<1>5. /\ mem' \in [Frame -> [Slots -> Word]]
      /\ \A f \in Frame : f # mem[Directory][Table(v)] => mem'[f] = mem[f]
      /\ mem'[Directory] = mem[Directory]
      /\ \A w \in DataPages :
             Translate(w)' = IF Table(w) = Table(v) /\ Slot(w) = Slot(v) THEN g ELSE Translate(w)
      /\ DirectoryOK' /\ ClearOK'
  BY <1>2, <1>3, <1>4, TableWritten
<1> HIDE DEF g
<1>6. ASSUME NEW w \in DataPages PROVE Translate(w)' = IF w = v THEN g ELSE Translate(w)
  <2>1. Table(w) = Table(v) /\ Slot(w) = Slot(v) <=> w = v
    BY DataPage, SamePlace
  <2> QED
    BY <1>5, <2>1
<1>7. FramesOK'
  <2>1. \A w \in DataPages : Translate(w) \in Given \cup {Absent} /\ Translate(w) # g
    BY <1>1, <1>2 DEF FramesOK, Given
  <2>2. \A t \in DataTables : mem[Directory][t] # g
    BY <1>1, <1>2 DEF DirectoryOK, Given
  <2>3. \A w \in DataPages : Translate(w)' \in Given' \cup {Absent}
    BY <1>2, <1>3, <1>6, <2>1 DEF Given, Directory, SharedTable
  <2>4. \A w, x \in DataPages :
            Translate(w)' = Translate(x)' /\ w # x => Translate(w)' = Absent
    BY <1>1, <1>6, <2>1 DEF FramesOK
  <2>5. \A w \in DataPages, t \in DataTables :
            Translate(w)' = mem'[Directory][t] => Translate(w)' = Absent
    BY <1>1, <1>5, <1>6, <2>2 DEF FramesOK
  <2> QED
    BY <2>3, <2>4, <2>5 DEF FramesOK, Directory
<1>8. MemoryOK'
  BY <1>3, <1>5, <1>7 DEF MemoryOK
<1> QED
  BY <1>3, <1>5, <1>6, <1>8 DEF g

\* free_page clears the first word of a table.
LEMMA EntryCleared ==
    ASSUME Ordinary, TypeOK, MemoryOK, UNCHANGED taken,
           NEW t \in DataTables, mem[Directory][t] # Absent,
           mem' = [mem EXCEPT ![mem[Directory][t]][0] = Absent]
    PROVE  /\ MemoryOK' /\ mem' \in [Frame -> [Slots -> Word]]
           /\ \A f \in Frame : f # mem[Directory][t] => mem'[f] = mem[f]
           /\ Entries * t \in DataPages
           /\ \A v \in DataPages : Translate(v)' = IF v = Entries * t THEN Absent ELSE Translate(v)
<1>1. TakenOK /\ DirectoryOK /\ FramesOK
  BY DEF MemoryOK
<1>2. 0 \in Slots /\ Absent \in Word /\ t \in Slots
  BY Numbers
<1>3. /\ mem' \in [Frame -> [Slots -> Word]]
      /\ \A f \in Frame : f # mem[Directory][t] => mem'[f] = mem[f]
      /\ mem'[Directory] = mem[Directory]
      /\ \A v \in DataPages :
             Translate(v)' = IF Table(v) = t /\ Slot(v) = 0 THEN Absent ELSE Translate(v)
      /\ DirectoryOK' /\ ClearOK'
  BY <1>2, TableWritten
<1>4. Entries * t \in DataPages /\ Table(Entries * t) = t /\ Slot(Entries * t) = 0
  <2>1. Entries * t + 0 = Entries * t
    BY <1>2, Numbers DEF Slots
  <2> QED
    BY <1>2, <2>1, PageAt
<1>5. ASSUME NEW v \in DataPages
      PROVE  Translate(v)' = IF v = Entries * t THEN Absent ELSE Translate(v)
  <2>1. Table(v) = t /\ Slot(v) = 0 <=> v = Entries * t
    BY <1>4, DataPage, SamePlace
  <2> QED
    BY <1>3, <2>1
<1>6. FramesOK'
  <2>1. \A v \in DataPages : Translate(v)' \in Given' \cup {Absent}
    BY <1>1, <1>5 DEF FramesOK, Given, Directory, SharedTable
  <2>2. \A v, w \in DataPages :
            Translate(v)' = Translate(w)' /\ v # w => Translate(v)' = Absent
    BY <1>1, <1>5 DEF FramesOK
  <2>3. \A v \in DataPages, u \in DataTables :
            Translate(v)' = mem'[Directory][u] => Translate(v)' = Absent
    BY <1>1, <1>3, <1>5 DEF FramesOK
  <2> QED
    BY <2>1, <2>2, <2>3 DEF FramesOK, Directory
<1>7. TakenOK'
  BY <1>1 DEF TakenOK, Directory, SharedTable
<1>8. MemoryOK'
  BY <1>3, <1>6, <1>7 DEF MemoryOK
<1> QED
  BY <1>3, <1>4, <1>5, <1>8

\* The frame that the loop over a new table clears is a page's, and is clear already.
LEMMA ClearedIsClear ==
    ASSUME Ordinary, TypeOK, MemoryOK, NEW v \in DataPages, Translate(v) # Absent,
           mem' = [mem EXCEPT ![Translate(v)] = [i \in 0 .. Entries - 1 |-> Absent]]
    PROVE  mem' = mem
<1> DEFINE f == Translate(v)
<1>1. f \in Given /\ \A t \in DataTables : mem[Directory][t] # f
  BY DEF MemoryOK, FramesOK
<1>2. f \in PoolFrames \ {Directory, SharedTable} /\ f \in Frame
  BY <1>1, PoolFacts DEF Given, TypeOK
<1> HIDE DEF f
<1>3. \A i \in Slots : mem[f][i] = Absent
  BY <1>1, <1>2 DEF MemoryOK, ClearOK
<1>4. mem[f] = [i \in Slots |-> Absent]
  <2>1. mem[f] \in [Slots -> Word]
    BY <1>2 DEF TypeOK
  <2> QED
    BY <1>3, <2>1
<1>5. mem' = [mem EXCEPT ![f] = mem[f]]
  BY <1>4 DEF f, Slots
<1> QED
  BY <1>2, <1>5 DEF TypeOK

-----------------------------------------------------------------------------
(* The activations of the handler. *)

\* The pages that anyone may fault on: a data page, or a table that free_page writes to.
Faulting(v) == v \in DataPages \/ (goal.op = "free" /\ \E t \in DataTables : v = TablePage(t))

LEMMA AccessFacts ==
    ASSUME Ordinary, TypeOK, goal # Idle
    PROVE  Faulting(Access)
<1>1. CASE goal.op = "touch" /\ goal.page \in UserPages
  BY <1>1 DEF Ordinary, PagesInRange, Access, Faulting
<1>2. CASE goal.op = "free" /\ goal.page \in FreedPages
  BY <1>2, FreedTable DEF Access, Faulting
<1> QED
  BY <1>1, <1>2 DEF TypeOK

\* A page that is neither is in the directory itself.
LEMMA FaultingFacts ==
    ASSUME Ordinary, TypeOK, MemoryOK, NEW v, Faulting(v)
    PROVE  /\ v \in Page /\ Table(v) \in Slots /\ Slot(v) \in Slots
           /\ Translate(TablePage(Table(v))) = mem[Directory][Table(v)]
           /\ v \in DataPages => Table(v) \in DataTables
           /\ v \notin DataPages => /\ Table(v) = Entries - 1
                                   /\ mem[Directory][Table(v)] = Directory
                                   /\ Slot(v) \in DataTables
                                   /\ Translate(v) = mem[Directory][Slot(v)]
<1>1. DirectoryOK
  BY DEF MemoryOK
<1>2. CASE v \in DataPages
  BY <1>1, <1>2, DataPage, SystemTranslation, Numbers
<1>3. CASE v \notin DataPages
  <2>1. PICK t \in DataTables : v = TablePage(t)
    BY <1>3 DEF Faulting
  <2>2. t \in Slots /\ Entries - 1 \in Slots
    BY Numbers
  <2>3. v \in Page /\ Table(v) = Entries - 1 /\ Slot(v) = t
    BY <2>1, <2>2, SystemPages
  <2>4. mem[Directory][Entries - 1] = Directory
    BY <1>1 DEF DirectoryOK
  <2> QED
    BY <1>1, <1>3, <2>1, <2>2, <2>3, <2>4, SystemTranslation
<1> QED
  BY <1>2, <1>3

LEMMA NonEmptyFacts ==
    ASSUME NEW S, NEW s \in Seq(S), s # <<>>
    PROVE  Len(s) \in Nat /\ Len(s) > 0 /\ \A k \in 1 .. Len(s) : s[k] \in S
OBVIOUS

\* Where the top activation comes from.
LEMMA TopFacts ==
    ASSUME Ordinary, IInv, Handling
    PROVE  /\ Len(stack) \in 1 .. 4 /\ Top = stack[Len(stack)] /\ Top \in Activation
           /\ goal # Idle /\ Faulting(Top.page)
           /\ Len(stack) = 1 => Top.page = Access
           /\ Len(stack) > 1 => Top.page = stack[Len(stack) - 1].table /\ Top.page \in DataPages
           /\ \A k \in 1 .. Len(stack) - 1 : Clearing(k)
           /\ \A k \in 1 .. Len(stack) : stack[k] \in Activation
<1>1. TypeOK /\ ChainOK /\ DepthOK
  BY DEF IInv
<1>2. stack \in Seq(Activation) /\ stack # <<>> /\ Len(stack) <= 4
  BY <1>1 DEF TypeOK, Handling, DepthOK
<1>3. Len(stack) \in 1 .. 4 /\ \A k \in 1 .. Len(stack) : stack[k] \in Activation
  <2>1. Len(stack) \in Nat /\ Len(stack) > 0 /\ \A k \in 1 .. Len(stack) : stack[k] \in Activation
    BY <1>2, NonEmptyFacts
  <2>2. Len(stack) <= 4
    BY <1>2
  <2>3. \A n \in Nat : n > 0 /\ n <= 4 => n \in 1 .. 4
    OBVIOUS
  <2>4. Len(stack) \in Nat /\ Len(stack) > 0
    BY <2>1
  <2>5. Len(stack) \in 1 .. 4
    BY <2>2, <2>3, <2>4
  <2> QED
    BY <2>1, <2>5
<1>4. Top = stack[Len(stack)] /\ Top \in Activation
  BY <1>3 DEF Top
<1>5. goal # Idle /\ stack[1].page = Access
      /\ \A k \in 1 .. Len(stack) - 1 : Clearing(k) /\ stack[k + 1].page = stack[k].table
  BY <1>1 DEF ChainOK
<1>6. ASSUME Len(stack) > 1
      PROVE  Top.page = stack[Len(stack) - 1].table /\ Top.page \in DataPages
  <2> DEFINE k == Len(stack) - 1
  <2>1. k \in 1 .. Len(stack) - 1 /\ k \in 1 .. Len(stack) /\ k + 1 = Len(stack)
    BY <1>3, <1>6
  <2>2. Clearing(k) /\ stack[k + 1].page = stack[k].table
    BY <1>5, <2>1
  <2>3. stack[k].table \in Given
    BY <1>1, <2>1, <2>2 DEF ChainOK
  <2> QED
    BY <1>1, <1>4, <2>1, <2>2, <2>3, PoolFacts DEF Given, TypeOK
<1>7. Faulting(Top.page)
  BY <1>1, <1>3, <1>4, <1>5, <1>6, AccessFacts DEF Faulting
<1> QED
  BY <1>3, <1>4, <1>5, <1>6, <1>7

\* Every table but the top activation's has a table of its own for its address.
LEMMA LowerTables ==
    ASSUME Ordinary, IInv, Handling, NEW k \in 1 .. Len(stack) - 1,
           k < Len(stack) - 1 \/ mem[Directory][Table(Top.page)] # Absent
    PROVE  mem[Directory][Table(stack[k].table)] # Absent
<1>1. TypeOK /\ MemoryOK /\ ChainOK
  BY DEF IInv
<1>2. stack[k + 1].page = stack[k].table /\ Len(stack) \in 1 .. 4
  BY <1>1, TopFacts DEF ChainOK
<1>3. CASE k < Len(stack) - 1
  <2>1. k + 1 \in 1 .. Len(stack) - 1 /\ k + 1 \in 1 .. Len(stack)
    BY <1>2, <1>3
  <2>2. Clearing(k + 1)
    BY <2>1, TopFacts
  <2>3. mem[Directory][Table(stack[k + 1].page)] = stack[k + 1].table /\ stack[k + 1].table \in Given
    BY <1>1, <2>1, <2>2 DEF ChainOK
  <2>4. stack[k + 1].table # Absent
    BY <1>1, <2>3, PoolFacts DEF Given, TypeOK
  <2> QED
    BY <1>2, <2>3, <2>4
<1>4. CASE k = Len(stack) - 1
  <2>1. Top.page = stack[k].table
    BY <1>2, <1>4, TopFacts
  <2> QED
    BY <1>4, <2>1
<1> QED
  BY <1>2, <1>3, <1>4

LEMMA PopFacts ==
    ASSUME NEW S, NEW s \in Seq(S), s # <<>>
    PROVE  /\ SubSeq(s, 1, Len(s) - 1) \in Seq(S)
           /\ Len(SubSeq(s, 1, Len(s) - 1)) = Len(s) - 1
           /\ \A k \in 1 .. Len(s) - 1 : SubSeq(s, 1, Len(s) - 1)[k] = s[k]
<1> DEFINE n == Len(s) - 1
<1>1. n \in Nat /\ \A k \in 1 .. n : s[k] \in S
  BY NonEmptyFacts
<1> HIDE DEF n
<1>2. /\ SubSeq(s, 1, n) \in Seq(S)
      /\ Len(SubSeq(s, 1, n)) = IF 1 <= n THEN n - 1 + 1 ELSE 0
      /\ \A k \in 1 .. n - 1 + 1 : SubSeq(s, 1, n)[k] = s[1 + k - 1]
  BY <1>1, SubSeqProperties
<1>3. Len(SubSeq(s, 1, n)) = n /\ \A k \in 1 .. n : SubSeq(s, 1, n)[k] = s[k]
  BY <1>1, <1>2
<1> QED
  BY <1>2, <1>3 DEF n

\* The handler returns: the one before goes on with the page that it faulted on.
LEMMA PopKeeps ==
    ASSUME Ordinary, IInv, Handling, Pop, UNCHANGED goal, taken \subseteq taken',
           mem[Directory][Table(Top.page)] # Absent,
           Len(stack) = 1 \/ mem'[Directory] = mem[Directory]
    PROVE  /\ stack' \in Seq(Activation) /\ ChainOK' /\ DepthOK'
           /\ Pending' = Top.page /\ Deep' = Len(stack) - 1
<1> DEFINE n == Len(stack)
<1>1. TypeOK /\ MemoryOK /\ ChainOK /\ DepthOK
  BY DEF IInv
<1>2. stack \in Seq(Activation) /\ stack # <<>>
  BY <1>1 DEF TypeOK, Handling
<1>3. /\ stack' \in Seq(Activation) /\ Len(stack') = n - 1
      /\ \A k \in 1 .. n - 1 : stack'[k] = stack[k]
  BY <1>2, PopFacts DEF Pop
<1>4. /\ n \in 1 .. 4 /\ goal # Idle
      /\ n = 1 => Top.page = Access
      /\ n > 1 => Top.page = stack[n - 1].table
      /\ \A k \in 1 .. n - 1 : Clearing(k)
  BY TopFacts
<1> HIDE DEF n
<1>5. Access' = Access /\ goal' # Idle
  BY <1>4 DEF Access, Misdirected, Idle
<1>6. \A k \in 1 .. n - 1 : Clearing(k)' /\ Clearing(k)
  BY <1>3, <1>4 DEF Clearing
<1>7. CASE n = 1
  <2>1. Len(stack') = 0 /\ stack' = <<>>
    BY <1>3, <1>7, EmptySeq
  <2>2. ~Handling' /\ Pending' = Access' /\ Deep' = 0
    BY <2>1 DEF Handling, Pending, Deep, Access, Misdirected
  <2>3. ChainOK' /\ DepthOK'
    BY <2>1, <2>2 DEF ChainOK, DepthOK
  <2> QED
    BY <1>3, <1>4, <1>5, <1>7, <2>2, <2>3 DEF n
<1>8. CASE n > 1
  <2>1. mem'[Directory] = mem[Directory]
    <3>1. n # 1
      BY <1>4, <1>8
    <3> QED
      BY <3>1 DEF n
  <2>2. n - 1 \in 1 .. n - 1 /\ 1 \in 1 .. n - 1 /\ stack' # <<>>
    BY <1>3, <1>4, <1>8
  <2>3. Top' = stack[n - 1] /\ Top'.table # NoFrame /\ Handling'
    BY <1>3, <1>4, <2>2 DEF Top, Handling, Clearing
  <2>4. Pending' = Top.page /\ Deep' = n - 1
    BY <1>3, <1>4, <1>8, <2>3 DEF Pending, Deep, Handling
  <2>5. ChainOK'
    <3>1. stack'[1].page = Access' /\ goal' # Idle
      BY <1>1, <1>3, <1>5, <2>2 DEF ChainOK
    <3>2. ASSUME NEW k \in 1 .. Len(stack') - 1
          PROVE  Clearing(k)' /\ stack'[k + 1].page = stack'[k].table
      <4>1. k \in 1 .. n - 1 /\ k + 1 \in 1 .. n - 1
        BY <1>3, <1>4
      <4> QED
        BY <1>1, <1>3, <1>6, <4>1 DEF ChainOK, n
    <3>3. ASSUME NEW k \in 1 .. Len(stack')
          PROVE  /\ stack'[k].page \in DataPages
                 /\ stack'[k].table \in Given'
                 /\ mem'[Directory][Table(stack'[k].page)] = stack'[k].table
      <4>1. k \in 1 .. n - 1 /\ k \in 1 .. n
        BY <1>3, <1>4
      <4> QED
        BY <1>1, <1>3, <1>6, <2>1, <4>1 DEF ChainOK, n, Given, Directory, SharedTable
    <3> QED
      BY <2>3, <3>1, <3>2, <3>3 DEF ChainOK, Directory
  <2>6. DepthOK'
    <3>1. ASSUME NEW k \in 1 .. Len(stack')
          PROVE  mem'[Directory][Table(stack'[k].table)] # Absent
      <4>1. k \in 1 .. n - 1
        BY <1>3
      <4> QED
        BY <1>3, <2>1, <4>1, LowerTables DEF n
    <3>2. Len(stack') <= 4 /\ Len(stack') # 4
      BY <1>3, <1>4
    <3>3. ASSUME Len(stack') >= 2
          PROVE  /\ stack'[1].table < stack'[2].table
                 /\ \A g \in PoolFrames : ~(stack'[1].table < g /\ g < stack'[2].table)
      <4>1. 1 \in 1 .. n - 1 /\ 2 \in 1 .. n - 1 /\ n >= 2
        BY <1>3, <1>4, <3>3
      <4> QED
        BY <1>1, <1>3, <1>6, <4>1 DEF DepthOK, n
    <3>4. ASSUME Len(stack') >= 3
          PROVE  Table(stack'[3].table) = Table(stack'[3].page)
      <4>1. 3 \in 1 .. n - 1 /\ n >= 3
        BY <1>3, <1>4, <3>4
      <4> QED
        BY <1>1, <1>3, <1>6, <4>1 DEF DepthOK, n
    <3> QED
      BY <3>1, <3>2, <3>3, <3>4 DEF DepthOK, Directory
  <2> QED
    BY <1>3, <2>4, <2>5, <2>6 DEF n
<1> QED
  BY <1>4, <1>7, <1>8

-----------------------------------------------------------------------------
(* Frames that an access still needs. *)

LEMMA DeepFacts ==
    ASSUME Ordinary, IInv, Handling
    PROVE  /\ Len(stack) \in 1 .. 4
           /\ Top.table = NoFrame => Pending = Top.page /\ Deep = Len(stack) - 1
           /\ Top.table # NoFrame => Pending = Top.table /\ Deep = Len(stack) /\ Len(stack) <= 3
<1>1. DepthOK
  BY DEF IInv
<1>2. Len(stack) \in 1 .. 4 /\ Top = stack[Len(stack)]
  BY TopFacts
<1>3. Top.table # NoFrame => Len(stack) # 4
  BY <1>1, <1>2 DEF DepthOK, Clearing
<1> QED
  BY <1>2, <1>3 DEF Pending, Deep

\* While there is something to map there is a frame for it.
LEMMA FrameLeft ==
    ASSUME Ordinary, IInv, Handling, Top.table = NoFrame
    PROVE  /\ Free # {} /\ Cardinality(Free) \in Nat
           /\ mem[Directory][Table(Top.page)] # Absent => Cardinality(Free) >= Len(stack)
           /\ mem[Directory][Table(Top.page)] = Absent => Cardinality(Free) >= 8 - Len(stack)
<1>1. /\ BudgetOK /\ ChainOK
  BY DEF IInv
<1>2. goal # Idle
  BY TopFacts
<1>3. Cardinality(Free) >= Needed /\ Translate(Top.page) = Absent
  BY <1>1, <1>2 DEF BudgetOK, ChainOK
<1>4. Len(stack) \in 1 .. 4 /\ Pending = Top.page /\ Deep = Len(stack) - 1
  BY DeepFacts
<1>5. Cardinality(Free) \in Nat /\ (Free = {} <=> Cardinality(Free) = 0)
  BY FreeIsFinite
<1>6. CASE mem[Directory][Table(Top.page)] # Absent
  <2>1. Needed = Len(stack)
    BY <1>3, <1>4, <1>6 DEF Needed
  <2> QED
    BY <1>3, <1>4, <1>5, <1>6, <2>1
<1>7. CASE mem[Directory][Table(Top.page)] = Absent
  <2>1. Needed = 8 - Len(stack)
    BY <1>3, <1>4, <1>7 DEF Needed
  <2>2. Cardinality(Free) >= 8 - Len(stack) /\ Cardinality(Free) # 0
    <3>1. Cardinality(Free) >= 8 - Len(stack)
      BY <1>3, <2>1
    <3>2. \A c \in Nat, n \in 1 .. 4 : c >= 8 - n => c # 0
      OBVIOUS
    <3> QED
      BY <1>4, <1>5, <3>1, <3>2
  <2> QED
    BY <1>5, <1>7, <2>2
<1> QED
  BY <1>6, <1>7

-----------------------------------------------------------------------------
(* The steps. *)

LEMMA InitInv == ASSUME Ordinary, Init PROVE IInv
<1>1. PICK w \in PowerOn :
          mem = [f \in Frame |->
                     CASE f = Directory   -> NewDirectory
                       [] f = SharedTable -> [i \in 0 .. Entries - 1 |-> i]
                       [] f < Entries     -> [i \in 0 .. Entries - 1 |-> 0]
                       [] OTHER           -> [i \in 0 .. Entries - 1 |-> w]]
  BY DEF Init
<1>2. /\ taken = {Directory, SharedTable} /\ goal = Idle /\ stack = <<>>
  BY DEF Init
<1>3. w = Absent /\ Entries \in Nat /\ Entries > 3
  BY Numbers DEF Ordinary, ZeroedMemory
<1>4. /\ mem = [f \in Frame |->
                     CASE f = Directory   -> NewDirectory
                       [] f = SharedTable -> [i \in Slots |-> i]
                       [] f < Entries     -> [i \in Slots |-> 0]
                       [] OTHER           -> [i \in Slots |-> Absent]]
      /\ Directory \in Frame /\ SharedTable \in Frame /\ Directory # SharedTable
      /\ Directory \in PoolFrames /\ SharedTable \in PoolFrames
  BY <1>1, <1>3, PoolFacts DEF Slots
<1>5. mem[Directory] = NewDirectory
  <2>1. mem[Directory] = CASE Directory = Directory   -> NewDirectory
                           [] Directory = SharedTable -> [i \in Slots |-> i]
                           [] Directory < Entries     -> [i \in Slots |-> 0]
                           [] OTHER                   -> [i \in Slots |-> Absent]
    BY <1>4, Zenon
  <2>2. ~(Directory < Entries)
    BY <1>3 DEF Directory
  <2> QED
    BY <1>4, <2>1, <2>2
<1>6. NewDirectory \in [Slots -> Word]
  <2>1. SharedTable \in Word /\ Entries \in Word /\ Absent \in Word
    BY <1>4, Numbers DEF Directory
  <2> QED
    BY <2>1 DEF NewDirectory, Slots
<1>7. mem \in [Frame -> [Slots -> Word]]
  <2>1. Slots \subseteq Frame
    <3>1. Entries - 1 <= Entries * Entries - 1 /\ Entries * Entries \in Nat
      BY <1>3
    <3> QED
      BY <1>3, <3>1, Numbers DEF Slots, Page
  <2>2. /\ [i \in Slots |-> i] \in [Slots -> Word] /\ [i \in Slots |-> 0] \in [Slots -> Word]
        /\ [i \in Slots |-> Absent] \in [Slots -> Word]
    BY <2>1, Numbers
  <2> QED
    BY <1>4, <1>6, <2>2
<1>8. /\ mem[Directory][0] = SharedTable /\ mem[Directory][Entries - 1] = Directory
      /\ \A t \in DataTables : mem[Directory][t] = Absent
  BY <1>3, <1>5 DEF NewDirectory, DataTables, Directory
<1>9. \A v \in DataPages : Translate(v) = Absent
  BY <1>8, DataPage DEF Translate
<1>10. TakenOK
  <2>1. ASSUME NEW f \in taken, NEW g \in PoolFrames, g < f PROVE g \in taken
    <3>1. g \in Nat /\ g >= Entries
      BY PoolFacts
    <3> QED
      BY <1>2, <1>3, <2>1, <3>1 DEF Directory, SharedTable
  <2> QED
    BY <1>2, <2>1 DEF TakenOK
<1>11. DirectoryOK /\ FramesOK
  BY <1>8, <1>9 DEF DirectoryOK, FramesOK
<1>12. ClearOK
  <2>1. ASSUME NEW f \in PoolFrames \ {Directory, SharedTable} PROVE mem[f] = [i \in Slots |-> Absent]
    <3>1. f \in Frame /\ f \in Nat /\ f >= Entries
      BY PoolFacts
    <3>2. ~(f < Entries)
      BY <1>3, <3>1
    <3> QED
      BY <1>4, <3>1, <3>2
  <2> QED
    BY <2>1 DEF ClearOK
<1>13. TypeOK
  BY <1>2, <1>4, <1>7, EmptySeq DEF TypeOK
<1>14. ChainOK /\ DepthOK /\ BudgetOK
  BY <1>2 DEF ChainOK, DepthOK, BudgetOK, Handling
<1> QED
  BY <1>10, <1>11, <1>12, <1>13, <1>14 DEF IInv, MemoryOK

LEMMA BeginStep ==
    ASSUME Ordinary, IInv,
           NEW op \in {"touch", "free"},
           NEW v \in IF op = "touch" THEN UserPages ELSE FreedPages, Begin(op, v)
    PROVE  IInv'
<1>1. /\ TypeOK /\ MemoryOK /\ ChainOK /\ DepthOK /\ ~Handling
      /\ goal' = [op |-> op, page |-> v] /\ mem' = mem /\ taken' = taken /\ stack' = stack
      /\ Cardinality(Free) >= Headroom
  BY DEF IInv, Begin
<1>2. stack = <<>> /\ stack' = <<>> /\ Len(stack) = 0
  BY <1>1, EmptySeq DEF Handling
<1>3. TypeOK'
  BY <1>1 DEF TypeOK
<1>4. MemoryOK'
  BY <1>1 DEF MemoryOK, TakenOK, DirectoryOK, FramesOK, ClearOK, Translate, Given,
              Directory, SharedTable
<1>5. ChainOK' /\ DepthOK'
  BY <1>2 DEF ChainOK, DepthOK, Handling
<1>6. BudgetOK'
  <2>1. Deep' = 0
    BY <1>2 DEF Deep, Handling
  <2>2. Needed' \in {0, 1, 7}
    BY <2>1 DEF Needed
  <2>3. Cardinality(Free)' = Cardinality(Free) /\ Cardinality(Free) \in Nat
    BY <1>1, FreeIsFinite DEF Free
  <2>4. Headroom >= 7 /\ Headroom \in Nat
    BY PoolAssumption DEF Ordinary, EnoughFrames
  <2> QED
    BY <1>1, <2>2, <2>3, <2>4 DEF BudgetOK
<1> QED
  BY <1>3, <1>4, <1>5, <1>6 DEF IInv

\* The end of a call.
LEMMA IdleStep ==
    ASSUME TypeOK, ~Handling, goal' = Idle, UNCHANGED stack,
           mem' \in [Frame -> [Slots -> Word]], UNCHANGED taken, MemoryOK'
    PROVE  IInv'
<1>1. stack = <<>> /\ stack' = <<>> /\ Len(stack) = 0
  BY EmptySeq DEF Handling
<1>2. TypeOK'
  BY DEF TypeOK
<1>3. ChainOK' /\ DepthOK' /\ BudgetOK'
  BY <1>1 DEF ChainOK, DepthOK, BudgetOK, Handling
<1> QED
  BY <1>2, <1>3 DEF IInv

LEMMA TouchStep ==
    ASSUME Ordinary, IInv, Touch
    PROVE  IInv' /\ mem' = mem
<1>1. TypeOK /\ MemoryOK /\ ~Handling /\ goal' = Idle /\ UNCHANGED <<mem, taken, stack>>
  BY DEF IInv, Touch
<1>2. MemoryOK'
  BY <1>1 DEF MemoryOK, TakenOK, DirectoryOK, FramesOK, ClearOK, Translate, Given,
              Directory, SharedTable
<1> QED
  BY <1>1, <1>2, IdleStep DEF TypeOK

\* The store of free_page takes away one page's frame, or nothing.
LEMMA FreePageStep ==
    ASSUME Ordinary, IInv, FreePage
    PROVE  /\ IInv' /\ goal.page \in FreedPages /\ taken' = taken
           /\ \E t \in DataTables :
                  /\ t = Table(goal.page) + WordSize * Slot(goal.page)
                  /\ Entries * t \in DataPages
                  /\ mem[Directory][t] # Absent
                  /\ \A f \in Frame : f # mem[Directory][t] => mem'[f] = mem[f]
                  /\ \A v \in DataPages :
                         Translate(v)' = IF v = Entries * t THEN Absent ELSE Translate(v)
<1>1. /\ TypeOK /\ MemoryOK /\ DirectoryOK
      /\ ~Handling /\ goal.op = "free" /\ Translate(Touched) # Absent
      /\ Store(Touched, 0, Absent) /\ goal' = Idle /\ UNCHANGED <<taken, stack>>
  BY DEF IInv, MemoryOK, FreePage
<1>2. goal.page \in FreedPages
  BY <1>1 DEF TypeOK, Idle
<1> DEFINE t == Table(goal.page) + WordSize * Slot(goal.page)
<1>3. t \in DataTables /\ Touched = TablePage(t)
  BY <1>1, <1>2, FreedTable DEF Touched
<1> HIDE DEF t
<1>4. Translate(Touched) = mem[Directory][t]
  BY <1>1, <1>3, SystemTranslation, Numbers
<1>5. mem[Directory][t] # Absent /\ mem' = [mem EXCEPT ![mem[Directory][t]][0] = Absent]
  BY <1>1, <1>4 DEF Store
<1>6. /\ MemoryOK' /\ mem' \in [Frame -> [Slots -> Word]]
      /\ \A f \in Frame : f # mem[Directory][t] => mem'[f] = mem[f]
      /\ Entries * t \in DataPages
      /\ \A v \in DataPages : Translate(v)' = IF v = Entries * t THEN Absent ELSE Translate(v)
  BY <1>1, <1>3, <1>5, EntryCleared
<1>7. IInv'
  BY <1>1, <1>6, IdleStep
<1> QED
  BY <1>1, <1>2, <1>3, <1>5, <1>6, <1>7 DEF t

LEMMA PushFacts ==
    ASSUME NEW S, NEW s \in Seq(S), NEW x \in S
    PROVE  /\ Append(s, x) \in Seq(S) /\ Append(s, x) # <<>>
           /\ Len(Append(s, x)) = Len(s) + 1
           /\ \A k \in 1 .. Len(s) : Append(s, x)[k] = s[k]
           /\ Append(s, x)[Len(s) + 1] = x
OBVIOUS

\* The page that an instruction faults on, and the activations at that time.
LEMMA FaultFacts ==
    ASSUME Ordinary, IInv, Handling \/ goal # Idle, Translate(Touched) = Absent
    PROVE  /\ goal # Idle /\ Touched = Pending /\ Touched \in Page
           /\ Len(stack) \in 0 .. 3 /\ Deep = Len(stack)
           /\ \A k \in 1 .. Len(stack) : Clearing(k)
           /\ Len(stack) = 0 => Touched = Access
           /\ Len(stack) > 0 => Handling /\ Touched = stack[Len(stack)].table
<1>1. TypeOK /\ MemoryOK /\ ChainOK /\ DirectoryOK
  BY DEF IInv, MemoryOK
<1>2. CASE ~Handling
  <2>1. stack = <<>> /\ Len(stack) = 0
    BY <1>2, EmptySeq DEF Handling
  <2>2. goal # Idle /\ Touched = Access /\ Pending = Access /\ Deep = 0
    BY <1>2, <2>1 DEF Touched, Access, Pending, Deep
  <2>3. Access \in Page
    BY <1>1, <2>2, AccessFacts, FaultingFacts
  <2> QED
    BY <2>1, <2>2, <2>3
<1>3. CASE Handling
  <2>1. /\ goal # Idle /\ Len(stack) \in 1 .. 4 /\ Top = stack[Len(stack)]
        /\ \A k \in 1 .. Len(stack) - 1 : Clearing(k)
    BY <1>3, TopFacts
  <2>2. Top.table # NoFrame
    <3>1. Directory # Absent
      BY PoolFacts
    <3>2. Touched # DirectoryPage
      BY <1>1, <3>1, SystemTranslation
    <3> QED
      BY <1>3, <3>2 DEF Touched
  <2>3. /\ Touched = Top.table /\ Pending = Top.table /\ Deep = Len(stack) /\ Len(stack) <= 3
    BY <1>3, <2>2, DeepFacts DEF Touched
  <2>4. \A k \in 1 .. Len(stack) : Clearing(k)
    BY <2>1, <2>2 DEF Clearing
  <2>5. Top.table \in Page
    <3>1. stack[Len(stack)].table \in Given
      <4>1. \A k \in 1 .. Len(stack) : Clearing(k) => stack[k].table \in Given
        BY <1>1 DEF ChainOK
      <4>2. Len(stack) \in 1 .. Len(stack)
        <5>1. Len(stack) \in 1 .. 4
          BY <2>1
        <5>2. \A n \in 1 .. 4 : n \in 1 .. n
          OBVIOUS
        <5> QED
          BY <5>1, <5>2
      <4> QED
        BY <2>4, <4>1, <4>2
    <3> QED
      BY <1>1, <2>1, <3>1, PoolFacts, Numbers DEF Given, TypeOK
  <2> QED
    BY <1>3, <2>1, <2>3, <2>4, <2>5
<1> QED
  BY <1>2, <1>3

LEMMA FaultStep ==
    ASSUME Ordinary, IInv, Fault
    PROVE  IInv' /\ mem' = mem /\ taken' = taken
<1> DEFINE n == Len(stack)
           a == [page |-> Touched, table |-> NoFrame]
<1>1. /\ TypeOK /\ MemoryOK /\ ChainOK /\ DepthOK /\ BudgetOK
      /\ mem' = mem /\ taken' = taken /\ goal' = goal /\ stack' = Append(stack, a)
      /\ Translate(Touched) = Absent
  BY DEF IInv, Fault
<1>2. /\ goal # Idle /\ Touched = Pending /\ Touched \in Page
      /\ n \in 0 .. 3 /\ Deep = n
      /\ \A k \in 1 .. n : Clearing(k)
      /\ n = 0 => Touched = Access
      /\ n > 0 => Handling /\ Touched = stack[n].table
  BY FaultFacts DEF Fault
<1>3. a \in Activation /\ a.table = NoFrame /\ a.page = Touched
  BY <1>2 DEF Activation
<1> HIDE DEF a
<1>4. /\ stack' \in Seq(Activation) /\ stack' # <<>> /\ Len(stack') = n + 1
      /\ \A k \in 1 .. n : stack'[k] = stack[k]
      /\ stack'[n + 1] = a
  BY <1>1, <1>3, PushFacts DEF TypeOK
<1>5. Handling' /\ Top' = a
  BY <1>4 DEF Handling, Top
<1> HIDE DEF n
<1>6. /\ \A k \in 1 .. n : Clearing(k)' /\ k \in 1 .. Len(stack)
      /\ \A k \in 1 .. n + 1 : Clearing(k)' => k \in 1 .. n
  <2>1. \A k \in 1 .. n : Clearing(k)'
    BY <1>2, <1>4 DEF Clearing
  <2>2. 1 .. n = 1 .. Len(stack)
    BY DEF n
  <2>3. ASSUME NEW k \in 1 .. n + 1, Clearing(k)' PROVE k \in 1 .. n
    <3>1. k # n + 1
      BY <1>3, <1>4, <2>3 DEF Clearing
    <3> QED
      BY <1>2, <3>1
  <2> QED
    BY <2>1, <2>2, <2>3
<1>7. TypeOK'
  BY <1>1, <1>4 DEF TypeOK
<1>8. MemoryOK'
  BY <1>1 DEF MemoryOK, TakenOK, DirectoryOK, FramesOK, ClearOK, Translate, Given,
              Directory, SharedTable
<1>9. ChainOK'
  <2>1. stack'[1].page = Access' /\ goal' # Idle
    <3>1. Access' = Access
      BY <1>1 DEF Access, Misdirected
    <3>2. CASE n = 0
      BY <1>1, <1>2, <1>3, <1>4, <3>1, <3>2
    <3>3. CASE n > 0
      <4>1. 1 \in 1 .. n
        BY <1>2, <3>3
      <4> QED
        BY <1>1, <1>2, <1>4, <3>1, <3>3, <4>1 DEF ChainOK
    <3> QED
      BY <1>2, <3>2, <3>3
  <2>2. ASSUME NEW k \in 1 .. Len(stack') - 1
        PROVE  Clearing(k)' /\ stack'[k + 1].page = stack'[k].table
    <3>1. k \in 1 .. n /\ n > 0
      BY <1>2, <1>4
    <3>2. CASE k < n
      <4>1. k \in 1 .. Len(stack) - 1 /\ k + 1 \in 1 .. n
        BY <1>2, <3>1, <3>2 DEF n
      <4> QED
        BY <1>1, <1>4, <1>6, <3>1, <4>1 DEF ChainOK
    <3>3. CASE k = n
      BY <1>2, <1>3, <1>4, <1>6, <3>1, <3>3
    <3> QED
      BY <1>2, <3>1, <3>2, <3>3
  <2>3. ASSUME NEW k \in 1 .. Len(stack'), Clearing(k)'
        PROVE  /\ stack'[k].page \in DataPages
               /\ stack'[k].table \in Given'
               /\ mem'[Directory][Table(stack'[k].page)] = stack'[k].table
    <3>1. k \in 1 .. n
      BY <1>4, <1>6, <2>3
    <3>2. k \in 1 .. Len(stack) /\ Clearing(k)
      BY <1>2, <1>6, <3>1
    <3> QED
      BY <1>1, <1>4, <3>1, <3>2 DEF ChainOK, Given, Directory, SharedTable
  <2>4. Translate(Top.page)' = Absent
    BY <1>1, <1>3, <1>5 DEF Translate, Directory
  <2> QED
    BY <2>1, <2>2, <2>3, <2>4 DEF ChainOK, Directory
<1>10. DepthOK'
  <2>1. Len(stack') <= 4
    BY <1>2, <1>4
  <2>2. ASSUME NEW k \in 1 .. Len(stack'), Clearing(k)',
               mem'[Directory][Table(stack'[k].table)] = Absent
        PROVE  \A g \in taken' : g <= stack'[k].table
    <3>1. k \in 1 .. n /\ k \in 1 .. Len(stack) /\ Clearing(k)
      BY <1>2, <1>4, <1>6, <2>2
    <3> QED
      BY <1>1, <1>4, <2>2, <3>1 DEF DepthOK
  <2>3. ASSUME Len(stack') >= 2, Clearing(2)'
        PROVE  /\ stack'[1].table < stack'[2].table
               /\ \A g \in PoolFrames : ~(stack'[1].table < g /\ g < stack'[2].table)
    <3>1. 2 \in 1 .. n + 1
      BY <1>2, <1>4, <2>3
    <3>2. 2 \in 1 .. n
      BY <1>6, <2>3, <3>1
    <3>3. 1 \in 1 .. n /\ n >= 2 /\ Clearing(2)
      BY <1>2, <3>2
    <3> QED
      BY <1>1, <1>4, <3>2, <3>3 DEF DepthOK, n
  <2>4. ASSUME Len(stack') >= 3, Clearing(3)'
        PROVE  Table(stack'[3].table) = Table(stack'[3].page)
    <3>1. 3 \in 1 .. n + 1
      BY <1>2, <1>4, <2>4
    <3>2. 3 \in 1 .. n
      BY <1>6, <2>4, <3>1
    <3>3. n >= 3 /\ Clearing(3)
      BY <1>2, <3>2
    <3> QED
      BY <1>1, <1>4, <3>2, <3>3 DEF DepthOK, n
  <2>5. Len(stack') = 4 => ~Clearing(4)'
    <3> SUFFICES ASSUME Len(stack') = 4, Clearing(4)' PROVE FALSE
      OBVIOUS
    <3>1. n + 1 = 4 /\ 4 \in 1 .. n + 1
      BY <1>2, <1>4
    <3>2. 4 \in 1 .. n
      BY <1>6, <3>1
    <3> QED
      BY <1>2, <3>2
  <2> QED
    BY <2>1, <2>2, <2>3, <2>4, <2>5 DEF DepthOK, Directory
<1>11. BudgetOK'
  <2>1. Pending' = Pending /\ Deep' = Deep
    BY <1>2, <1>3, <1>4, <1>5 DEF Pending, Deep
  <2>2. Needed' = Needed
    BY <1>1, <2>1 DEF Needed, Translate, Directory
  <2>3. Cardinality(Free)' = Cardinality(Free)
    BY <1>1 DEF Free
  <2> QED
    BY <1>1, <1>2, <2>2, <2>3 DEF BudgetOK
<1> QED
  BY <1>1, <1>7, <1>8, <1>9, <1>10, <1>11 DEF IInv

\* The handler at its entry, with the directory to look in.
LEMMA EntryFacts ==
    ASSUME Ordinary, IInv, AtEntry
    PROVE  /\ Handling /\ Top.table = NoFrame /\ Faulting(Top.page)
           /\ Translate(DirectoryPage) = Directory /\ Translate(Top.page) = Absent
           /\ Translate(TablePage(Table(Top.page))) = mem[Directory][Table(Top.page)]
           /\ TablePresent <=> mem[Directory][Table(Top.page)] # Absent
<1>1. TypeOK /\ MemoryOK /\ DirectoryOK /\ ChainOK
  BY DEF IInv, MemoryOK
<1>2. Handling /\ Top.table = NoFrame /\ Faulting(Top.page)
  BY TopFacts DEF AtEntry
<1>3. Translate(DirectoryPage) = Directory
  BY <1>1, SystemTranslation
<1>4. Translate(TablePage(Table(Top.page))) = mem[Directory][Table(Top.page)]
  BY <1>1, <1>2, FaultingFacts
<1> QED
  BY <1>1, <1>2, <1>3, <1>4 DEF ChainOK, TablePresent

\* The page gets the frame, or, when free_page faulted, the page is that of a table.
LEMMA MapPageStep ==
    ASSUME Ordinary, IInv, MapPage
    PROVE  /\ IInv'
           /\ GetFrame \in Frame \ taken /\ taken' = taken \cup {GetFrame}
           /\ \A f \in Frame : f < Entries => mem'[f] = mem[f]
           /\ \/ /\ Top.page \in DataPages /\ Translate(Top.page) = Absent
                 /\ \A w \in DataPages :
                        Translate(w)' = IF w = Top.page THEN GetFrame ELSE Translate(w)
              \/ \A w \in DataPages : Translate(w)' = Translate(w)
<1>0. PICK p : p = Top.page
  OBVIOUS
<1>1. /\ TypeOK /\ MemoryOK /\ TakenOK /\ DirectoryOK /\ ChainOK
      /\ AtEntry /\ TablePresent /\ Take /\ Pop /\ goal' = goal
      /\ Store(TablePage(Table(p)), Slot(p), GetFrame)
  BY <1>0 DEF IInv, MemoryOK, MapPage
<1>2. /\ Handling /\ Top.table = NoFrame /\ Faulting(p) /\ Translate(p) = Absent
      /\ mem[Directory][Table(p)] # Absent
      /\ mem' = [mem EXCEPT ![mem[Directory][Table(p)]][Slot(p)] = GetFrame]
  BY <1>0, <1>1, EntryFacts DEF Store
<1>3. /\ Free # {} /\ Cardinality(Free) \in Nat /\ Cardinality(Free) >= Len(stack)
      /\ Len(stack) \in 1 .. 4 /\ goal # Idle
      /\ Len(stack) > 1 => p \in DataPages
  BY <1>0, <1>2, FrameLeft, TopFacts
<1>4. /\ GetFrame \in Frame /\ GetFrame \notin taken /\ GetFrame # Absent
      /\ taken' = taken \cup {GetFrame} /\ Cardinality(Free)' = Cardinality(Free) - 1
  BY <1>1, <1>3, GetFrameFacts, TakeFrame
<1>5. /\ MemoryOK' /\ mem' \in [Frame -> [Slots -> Word]] /\ taken' \subseteq PoolFrames
      /\ \A f \in Frame : f < Entries => mem'[f] = mem[f]
      /\ Translate(p)' # Absent
      /\ Len(stack) = 1 \/ mem'[Directory] = mem[Directory]
      /\ \/ /\ p \in DataPages
            /\ \A w \in DataPages : Translate(w)' = IF w = p THEN GetFrame ELSE Translate(w)
         \/ \A w \in DataPages : Translate(w)' = Translate(w)
  <2>1. CASE p \in DataPages
    <3>1. /\ MemoryOK' /\ mem' \in [Frame -> [Slots -> Word]] /\ taken' \subseteq PoolFrames
          /\ \A f \in Frame : f # mem[Directory][Table(p)] => mem'[f] = mem[f]
          /\ mem'[Directory] = mem[Directory]
          /\ \A w \in DataPages : Translate(w)' = IF w = p THEN GetFrame ELSE Translate(w)
      BY <1>1, <1>2, <1>3, <2>1, PageMapped
    <3>2. \A f \in Frame : f < Entries => mem'[f] = mem[f]
      <4>1. Table(p) \in DataTables
        BY <2>1, DataPage
      <4>2. mem[Directory][Table(p)] \in Nat /\ mem[Directory][Table(p)] >= Entries
        BY <1>1, <1>2, <4>1, TableFacts
      <4>3. ASSUME NEW f \in Frame, f < Entries PROVE f # mem[Directory][Table(p)]
        BY <4>2, <4>3, Numbers
      <4> QED
        BY <3>1, <4>3
    <3>3. Translate(p)' # Absent
      BY <1>4, <2>1, <3>1
    <3> QED
      BY <2>1, <3>1, <3>2, <3>3
  <2>2. CASE p \notin DataPages
    <3>1. /\ mem[Directory][Table(p)] = Directory /\ Slot(p) \in DataTables
          /\ mem[Directory][Slot(p)] = Absent /\ Table(p) = Entries - 1 /\ Slot(p) \in Slots
      BY <1>1, <1>2, <2>2, FaultingFacts
    <3>2. mem' = [mem EXCEPT ![Directory][Slot(p)] = GetFrame]
      BY <1>2, <3>1
    <3>3. /\ MemoryOK' /\ mem' \in [Frame -> [Slots -> Word]] /\ taken' \subseteq PoolFrames
          /\ \A f \in Frame : f # Directory => mem'[f] = mem[f]
          /\ \A u \in Slots :
                 mem'[Directory][u] = IF u = Slot(p) THEN GetFrame ELSE mem[Directory][u]
          /\ \A v \in DataPages : Translate(v)' = Translate(v)
      BY <1>1, <1>3, <3>1, <3>2, TableAdded
    <3>4. Translate(p)' # Absent
      <4>1. mem'[Directory][Entries - 1] = Directory
        BY <3>3 DEF MemoryOK, DirectoryOK, Directory
      <4>2. mem'[Directory][Slot(p)] = GetFrame /\ Directory # Absent
        BY <3>1, <3>3, PoolFacts
      <4>3. Translate(p)' = GetFrame
        BY <3>1, <4>1, <4>2 DEF Translate, Directory
      <4> QED
        BY <1>4, <4>3
    <3>5. \A f \in Frame : f < Entries => mem'[f] = mem[f]
      BY <3>3, PoolAssumption DEF Directory
    <3>6. Len(stack) = 1
      BY <1>3, <2>2
    <3> QED
      BY <3>3, <3>4, <3>5, <3>6
  <2> QED
    BY <2>1, <2>2
<1>6. /\ stack' \in Seq(Activation) /\ ChainOK' /\ DepthOK'
      /\ Pending' = p /\ Deep' = Len(stack) - 1
  BY <1>0, <1>1, <1>2, <1>4, <1>5, PopKeeps
<1>7. BudgetOK'
  <2>1. Translate(Pending)' # Absent
    BY <1>5, <1>6 DEF Translate, Directory
  <2>2. Needed' = Len(stack) - 1
    BY <1>3, <1>6, <2>1 DEF Needed
  <2> QED
    BY <1>3, <1>4, <2>2 DEF BudgetOK
<1>8. TypeOK'
  BY <1>1, <1>5, <1>6 DEF TypeOK
<1> QED
  BY <1>0, <1>2, <1>4, <1>5, <1>6, <1>7, <1>8 DEF IInv

\* The third table is in the range of its own page, since the second is not alone in its.
LEMMA ThirdTable ==
    ASSUME Ordinary, IInv, Handling, Top.table = NoFrame, Len(stack) = 3, Free # {},
           mem[Directory][Table(Top.page)] = Absent
    PROVE  Table(GetFrame) = Table(Top.page)
<1>1. TypeOK /\ MemoryOK /\ TakenOK /\ ChainOK /\ DepthOK
  BY DEF IInv, MemoryOK
<1>2. PICK first, second : first = stack[1].table /\ second = stack[2].table
  OBVIOUS
<1>3. /\ Top.page = second /\ Clearing(1) /\ Clearing(2)
  BY <1>2, TopFacts
<1>4. /\ stack[2].page = first
      /\ mem[Directory][Table(stack[2].page)] = second
      /\ first \in Given /\ second \in Given
  <2>1. \A k \in 1 .. 2 : Clearing(k)
    BY <1>3
  <2>2. 1 \in 1 .. 2 /\ 2 \in 1 .. 2 /\ 1 .. 2 \subseteq 1 .. Len(stack)
        /\ 1 .. 2 = 1 .. Len(stack) - 1 /\ 1 + 1 = 2
    OBVIOUS
  <2>3. stack[1 + 1].page = stack[1].table
    BY <1>1, <2>2 DEF ChainOK
  <2>4. \A k \in 1 .. 2 : /\ stack[k].table \in Given
                          /\ mem[Directory][Table(stack[k].page)] = stack[k].table
    BY <1>1, <2>1, <2>2 DEF ChainOK
  <2> QED
    BY <1>2, <2>2, <2>3, <2>4
<1>5. /\ first < second
      /\ \A h \in PoolFrames : ~(first < h /\ h < second)
      /\ \A h \in taken : h <= second
  <2>1. 2 \in 1 .. Len(stack)
    OBVIOUS
  <2>2. \A h \in taken : h <= second
    BY <1>1, <1>2, <1>3, <2>1 DEF DepthOK
  <2> QED
    BY <1>1, <1>2, <1>3, <2>2 DEF DepthOK
<1>6. /\ first \in PoolFrames /\ second \in PoolFrames /\ GetFrame \in PoolFrames
      /\ first \in Nat /\ second \in Nat /\ GetFrame \in Nat
      /\ second < GetFrame
      /\ \A h \in PoolFrames : h < GetFrame => h \in taken
  BY <1>1, <1>4, GetFrameFacts, PoolFacts DEF Given, TypeOK
<1>7. second # Absent
  BY <1>6, PoolFacts
<1>8. Table(first) # Table(second)
  BY <1>3, <1>4, <1>7
<1>9. PICK e \in PoolFrames \ {second} : Table(e) = Table(second)
  BY <1>5, <1>6 DEF Ordinary, NoLoneFrame
<1>10. e \in Nat /\ Table(e) \in Nat /\ Table(first) \in Nat /\ Table(second) \in Nat /\ Table(GetFrame) \in Nat
  BY <1>6, <1>9, PoolFacts, Division
<1>11. ~(e < second)
  <2> SUFFICES ASSUME e < second PROVE FALSE
    OBVIOUS
  <2>1. e <= first
    BY <1>5, <1>6, <1>9, <1>10
  <2>2. Table(e) <= Table(first) /\ Table(first) <= Table(second)
    BY <1>5, <1>6, <1>10, <2>1, TableOrder
  <2> QED
    BY <1>8, <1>9, <1>10, <2>2
<1>12. GetFrame <= e
  <2>1. second < e
    BY <1>6, <1>9, <1>10, <1>11
  <2>2. ~(e < GetFrame)
    BY <1>5, <1>6, <1>9, <1>10, <2>1
  <2> QED
    BY <1>6, <1>10, <2>2
<1>13. Table(second) <= Table(GetFrame) /\ Table(GetFrame) <= Table(e)
  BY <1>6, <1>10, <1>12, TableOrder
<1>14. Table(GetFrame) = Table(second)
  BY <1>9, <1>10, <1>13
<1> QED
  BY <1>3, <1>14

LEMMA TableNoted ==
    ASSUME NEW s \in Seq(Activation), NEW n \in 1 .. Len(s), NEW f \in Frame
    PROVE  LET r == [s EXCEPT ![n].table = f]
           IN  /\ r \in Seq(Activation) /\ Len(r) = Len(s)
               /\ \A k \in 1 .. Len(s) : r[k].page = s[k].page
               /\ \A k \in 1 .. Len(s) : r[k].table = IF k = n THEN f ELSE s[k].table
<1> DEFINE a == [s[n] EXCEPT !.table = f]
<1>1. s[n] \in Activation
  OBVIOUS
<1>2. a \in Activation /\ a.page = s[n].page /\ a.table = f
  BY <1>1 DEF Activation
<1>3. [s EXCEPT ![n].table = f] = [s EXCEPT ![n] = a]
  OBVIOUS
<1> HIDE DEF a
<1>4. /\ [s EXCEPT ![n] = a] \in Seq(Activation) /\ Len([s EXCEPT ![n] = a]) = Len(s)
      /\ \A k \in 1 .. Len(s) : [s EXCEPT ![n] = a][k] = IF k = n THEN a ELSE s[k]
  BY <1>2
<1> QED
  BY <1>2, <1>3, <1>4

LEMMA NewTableStep ==
    ASSUME Ordinary, IInv, NewTable
    PROVE  /\ IInv'
           /\ GetFrame \in Frame \ taken /\ taken' = taken \cup {GetFrame}
           /\ \A f \in Frame : f < Entries => mem'[f] = mem[f]
           /\ \A w \in DataPages : Translate(w)' = Translate(w)
<1>1. PICK p, n, g, t : p = Top.page /\ n = Len(stack) /\ g = GetFrame /\ t = Table(p)
  OBVIOUS
<1>2. /\ TypeOK /\ MemoryOK /\ TakenOK /\ DirectoryOK /\ ChainOK /\ DepthOK
      /\ AtEntry /\ ~TablePresent /\ Take /\ goal' = goal
      /\ Store(DirectoryPage, t, g)
      /\ stack' = [stack EXCEPT ![n].table = g]
  BY <1>1 DEF IInv, MemoryOK, NewTable
<1>3. /\ Handling /\ Top.table = NoFrame /\ Faulting(p)
      /\ mem[Directory][t] = Absent
      /\ mem' = [mem EXCEPT ![Directory][t] = g]
  BY <1>1, <1>2, EntryFacts DEF Store
<1>4. p \in DataPages /\ t \in DataTables /\ t \in Slots
  <2>1. Directory # Absent
    BY PoolFacts
  <2> QED
    BY <1>1, <1>2, <1>3, <2>1, FaultingFacts
<1>5. /\ n \in 1 .. 4 /\ goal # Idle /\ Top = stack[n] /\ stack[n].page = p
      /\ n = 1 => p = Access
      /\ n > 1 => p = stack[n - 1].table
      /\ \A k \in 1 .. n - 1 : Clearing(k)
      /\ \A k \in 1 .. n : stack[k] \in Activation
      /\ Free # {} /\ Cardinality(Free) \in Nat /\ Cardinality(Free) >= 8 - n
  BY <1>1, <1>3, TopFacts, FrameLeft
<1>6. /\ g \in Frame /\ g \notin taken /\ g # Absent /\ g # NoFrame /\ g \in Nat
      /\ g \in DataPages /\ g \in Page /\ g \notin {Directory, SharedTable}
      /\ \A f \in taken : f < g
      /\ \A f \in PoolFrames : f < g => f \in taken
      /\ taken' = taken \cup {g} /\ Cardinality(Free)' = Cardinality(Free) - 1
  BY <1>1, <1>2, <1>5, GetFrameFacts, TakeFrame, Numbers
<1>7. /\ MemoryOK' /\ mem' \in [Frame -> [Slots -> Word]] /\ taken' \subseteq PoolFrames
      /\ \A f \in Frame : f # Directory => mem'[f] = mem[f]
      /\ \A u \in Slots : mem'[Directory][u] = IF u = t THEN g ELSE mem[Directory][u]
      /\ \A v \in DataPages : Translate(v)' = Translate(v)
  BY <1>1, <1>2, <1>3, <1>4, <1>5, TableAdded
<1>8. /\ stack' \in Seq(Activation) /\ Len(stack') = n
      /\ \A k \in 1 .. n : stack'[k].page = stack[k].page
      /\ \A k \in 1 .. n : stack'[k].table = IF k = n THEN g ELSE stack[k].table
  <2>1. stack \in Seq(Activation) /\ n = Len(stack) /\ n \in 1 .. Len(stack)
    <3>1. \A i \in 1 .. 4 : i \in 1 .. i
      OBVIOUS
    <3> QED
      BY <1>1, <1>2, <1>5, <3>1 DEF TypeOK
  <2> QED
    BY <1>2, <1>6, <2>1, TableNoted
<1>9. /\ \A k \in 1 .. n : Clearing(k)'
      /\ Handling' /\ Top' = stack'[n] /\ Top'.table = g
  <2>1. n \in 1 .. n
    BY <1>5
  <2>2. stack' # <<>>
    BY <1>5, <1>8
  <2> QED
    BY <1>5, <1>6, <1>8, <2>1, <2>2 DEF Clearing, Handling, Top
<1>10. TypeOK'
  BY <1>2, <1>7, <1>8 DEF TypeOK
<1>11. ChainOK'
  <2>1. stack'[1].page = Access' /\ goal' # Idle
    <3>1. Access' = Access
      BY <1>2 DEF Access, Misdirected
    <3>2. stack[1].page = Access /\ 1 \in 1 .. n
      BY <1>2, <1>3, <1>5 DEF ChainOK
    <3> QED
      BY <1>2, <1>5, <1>8, <3>1, <3>2
  <2>2. ASSUME NEW k \in 1 .. Len(stack') - 1
        PROVE  Clearing(k)' /\ stack'[k + 1].page = stack'[k].table
    <3>1. k \in 1 .. n /\ k + 1 \in 1 .. n /\ k # n /\ k \in 1 .. n - 1
      BY <1>5, <1>8
    <3>2. k \in 1 .. Len(stack) - 1
      BY <1>1, <3>1
    <3>3. stack[k + 1].page = stack[k].table
      BY <1>2, <3>2 DEF ChainOK
    <3> QED
      BY <1>8, <1>9, <3>1, <3>3
  <2>3. ASSUME NEW k \in 1 .. Len(stack')
        PROVE  /\ stack'[k].page \in DataPages
               /\ stack'[k].table \in Given'
               /\ mem'[Directory][Table(stack'[k].page)] = stack'[k].table
    <3>1. k \in 1 .. n
      BY <1>8
    <3>2. CASE k = n
      <4>1. stack'[k].page = p /\ stack'[k].table = g
        BY <1>5, <1>8, <3>1, <3>2
      <4>2. g \in Given'
        BY <1>6 DEF Given, Directory, SharedTable
      <4> QED
        BY <1>1, <1>4, <1>7, <4>1, <4>2
    <3>3. CASE k # n
      <4>1. k \in 1 .. n - 1 /\ k \in 1 .. Len(stack)
        BY <1>1, <1>5, <3>1, <3>3
      <4>2. stack'[k].page = stack[k].page /\ stack'[k].table = stack[k].table
        BY <1>8, <3>1, <3>3
      <4>3. /\ stack[k].page \in DataPages /\ stack[k].table \in Given
            /\ mem[Directory][Table(stack[k].page)] = stack[k].table
        BY <1>2, <1>5, <4>1 DEF ChainOK
      <4>4. Table(stack[k].page) \in Slots /\ Table(stack[k].page) # t
        <5>1. stack[k].table # Absent
          BY <1>2, <4>3, PoolFacts DEF Given, TypeOK
        <5> QED
          BY <1>3, <4>3, <5>1, DataPage, Numbers
      <4>5. Given \subseteq Given'
        BY <1>6 DEF Given, Directory, SharedTable
      <4> QED
        BY <1>7, <4>2, <4>3, <4>4, <4>5
    <3> QED
      BY <3>2, <3>3
  <2>4. Top'.table # NoFrame
    BY <1>6, <1>9
  <2> QED
    BY <2>1, <2>2, <2>3, <2>4 DEF ChainOK, Directory
<1>12. n # 4
  <2> SUFFICES ASSUME n = 4 PROVE FALSE
    OBVIOUS
  <2>1. 3 \in 1 .. n - 1 /\ n - 1 = 3
    BY <1>5
  <2>2. Clearing(3) /\ p = stack[3].table /\ 3 \in 1 .. Len(stack) /\ Len(stack) >= 3
    <3>1. Clearing(3)
      BY <1>5, <2>1
    <3>2. n > 1 /\ stack[n - 1] = stack[3]
      BY <2>1
    <3>3. p = stack[3].table
      BY <1>5, <3>2
    <3>4. 3 \in 1 .. Len(stack) /\ Len(stack) >= 3
      BY <1>1
    <3> QED
      BY <3>1, <3>3, <3>4
  <2>3. Table(stack[3].table) = Table(stack[3].page)
    BY <1>2, <2>2 DEF DepthOK
  <2>4. stack[3].table \in Given /\ mem[Directory][Table(stack[3].page)] = stack[3].table
    BY <1>2, <2>2 DEF ChainOK
  <2>5. stack[3].table # Absent
    BY <1>2, <2>4, PoolFacts DEF Given, TypeOK
  <2> QED
    BY <1>1, <1>3, <2>2, <2>3, <2>4, <2>5
<1>13. n = 3 => Table(g) = Table(p)
  BY <1>1, <1>3, <1>5, ThirdTable
<1>14. DepthOK'
  <2>1. ASSUME NEW k \in 1 .. Len(stack'),
               mem'[Directory][Table(stack'[k].table)] = Absent
        PROVE  \A h \in taken' : h <= stack'[k].table
    <3>1. k \in 1 .. n
      BY <1>8
    <3>2. CASE k = n
      <4>1. stack'[k].table = g
        BY <1>8, <3>1, <3>2
      <4>2. ASSUME NEW h \in taken' PROVE h <= g
        <5>1. (h \in taken /\ h < g /\ h \in Nat) \/ h = g
          BY <1>2, <1>6, PoolFacts DEF TypeOK
        <5> QED
          BY <1>6, <5>1
      <4> QED
        BY <4>1, <4>2
    <3>3. CASE k # n
      <4>1. k \in 1 .. n - 1 /\ k \in 1 .. Len(stack) /\ k \in 1 .. Len(stack) - 1
        BY <1>1, <1>5, <3>1, <3>3
      <4>2. stack'[k].table = stack[k].table
        BY <1>8, <3>1, <3>3
      <4>3. Table(stack[k].table) \in Slots
        <5>1. stack[k].table \in Given
          BY <1>2, <1>5, <4>1 DEF ChainOK
        <5>2. stack[k].table \in DataPages
          BY <1>2, <5>1, PoolFacts DEF Given, TypeOK
        <5> QED
          BY <5>2, DataPage, Numbers
      <4>4. mem[Directory][Table(stack[k].table)] = Absent /\ Table(stack[k].table) # t
        BY <1>6, <1>7, <2>1, <4>2, <4>3
      <4>5. CASE k < Len(stack) - 1
        BY <1>3, <4>1, <4>4, <4>5, LowerTables
      <4>6. CASE ~(k < Len(stack) - 1)
        <5>1. k = n - 1 /\ n > 1
          BY <1>1, <1>5, <4>1, <4>6
        <5> QED
          BY <1>1, <1>5, <4>4, <5>1
      <4> QED
        BY <4>5, <4>6
    <3> QED
      BY <3>2, <3>3
  <2>2. ASSUME n >= 2
        PROVE  /\ stack'[1].table < stack'[2].table
               /\ \A h \in PoolFrames : ~(stack'[1].table < h /\ h < stack'[2].table)
    <3>1. 1 \in 1 .. n - 1 /\ 1 \in 1 .. n /\ 2 \in 1 .. n /\ 1 # n /\ Clearing(1)
          /\ 1 \in 1 .. Len(stack)
      BY <1>1, <1>5, <2>2
    <3>2. CASE n = 2
      <4>1. stack'[1].table = p /\ stack'[2].table = g
        BY <1>5, <1>8, <3>1, <3>2
      <4>2. stack[1].table = p /\ p \in Given
        BY <1>2, <1>5, <3>1, <3>2 DEF ChainOK
      <4>3. \A h \in taken : h <= p
        BY <1>1, <1>2, <1>3, <3>1, <4>2 DEF DepthOK
      <4>4. p \in taken /\ p < g /\ p \in Nat
        BY <1>2, <1>6, <4>2, PoolFacts DEF Given, TypeOK
      <4>5. ASSUME NEW h \in PoolFrames, p < h, h < g PROVE FALSE
        <5>1. h \in taken /\ h \in Nat
          BY <1>6, <4>5, PoolFacts
        <5> QED
          BY <4>3, <4>4, <4>5, <5>1
      <4> QED
        BY <4>1, <4>4, <4>5
    <3>3. CASE n # 2
      <4>1. 2 \in 1 .. n - 1 /\ Len(stack) >= 2 /\ Clearing(2)
        BY <1>1, <1>5, <2>2, <3>3
      <4>2. stack'[1].table = stack[1].table /\ stack'[2].table = stack[2].table
        BY <1>8, <3>1, <3>3
      <4> QED
        BY <1>2, <4>1, <4>2 DEF DepthOK
    <3> QED
      BY <3>2, <3>3
  <2>3. ASSUME n >= 3
        PROVE  Table(stack'[3].table) = Table(stack'[3].page)
    <3>1. n = 3 /\ 3 \in 1 .. n
      BY <1>5, <1>12, <2>3
    <3> QED
      BY <1>5, <1>8, <1>13, <3>1
  <2>4. Len(stack') <= 4 /\ Len(stack') # 4
    BY <1>5, <1>8, <1>12
  <2> QED
    BY <1>8, <2>1, <2>2, <2>3, <2>4 DEF DepthOK, Directory
<1>15. BudgetOK'
  <2>1. Pending' = g /\ Deep' = n
    BY <1>6, <1>8, <1>9 DEF Pending, Deep
  <2>2. n = 3 => mem'[Directory][Table(Pending')] # Absent
    BY <1>1, <1>4, <1>6, <1>7, <1>13, <2>1
  <2>3. Needed' <= 7 - n
    <3>0. n \in Int
      BY <1>5
    <3>1. \/ Needed' = n + 0 \/ Needed' = n + 1
          \/ Needed' = n + (7 - 2 * n) /\ mem'[Directory][Table(Pending')] = Absent
      BY <2>1 DEF Needed, Directory
    <3>3. Needed' \in {n, n + 1, n + (7 - 2 * n)} /\ (n = 3 => Needed' \in {n, n + 1})
      BY <2>2, <3>0, <3>1
    <3>2. n \in {1, 2, 3}
      BY <1>5, <1>12
    <3> QED
      BY <3>2, <3>3
  <2>4. Cardinality(Free)' >= 7 - n
    BY <1>5, <1>6
  <2>5. Needed' \in Int
    BY <1>5, <2>1 DEF Needed
  <2>6. Cardinality(Free)' \in Int
    BY <1>5, <1>6
  <2> QED
    BY <1>5, <2>3, <2>4, <2>5, <2>6 DEF BudgetOK
<1>16. \A f \in Frame : f < Entries => mem'[f] = mem[f]
  BY <1>7, PoolAssumption DEF Directory
<1> QED
  BY <1>1, <1>6, <1>7, <1>10, <1>11, <1>14, <1>15, <1>16 DEF IInv

\* The loop clears a frame that is clear, and the handler returns.
LEMMA ClearTableStep ==
    ASSUME Ordinary, IInv, ClearTable
    PROVE  IInv' /\ mem' = mem /\ taken' = taken
<1>1. PICK p, n : p = Top.page /\ n = Len(stack)
  OBVIOUS
<1>2. /\ TypeOK /\ MemoryOK /\ ChainOK /\ BudgetOK
      /\ Handling /\ Top.table # NoFrame /\ Translate(Top.table) # Absent
      /\ mem' = [mem EXCEPT ![Translate(Top.table)] = [i \in 0 .. Entries - 1 |-> Absent]]
      /\ Pop /\ taken' = taken /\ goal' = goal
  BY DEF IInv, ClearTable
<1>3. n \in 1 .. 4 /\ Top = stack[n] /\ goal # Idle /\ Pending = Top.table /\ Deep = n
  BY <1>1, <1>2, TopFacts, DeepFacts
<1>4. /\ Top.page \in DataPages /\ Top.table \in Given
      /\ mem[Directory][Table(Top.page)] = Top.table
  <2>1. n \in 1 .. n /\ Clearing(n)
    BY <1>2, <1>3 DEF Clearing
  <2>2. \A k \in 1 .. n : Clearing(k) =>
            /\ stack[k].page \in DataPages /\ stack[k].table \in Given
            /\ mem[Directory][Table(stack[k].page)] = stack[k].table
    BY <1>1, <1>2 DEF ChainOK
  <2> QED
    BY <1>3, <2>1, <2>2
<1>5. Top.table \in DataPages /\ Top.table # Absent
  BY <1>2, <1>4, PoolFacts DEF Given, TypeOK
<1>6. mem' = mem
  BY <1>2, <1>5, ClearedIsClear
<1>7. /\ stack' \in Seq(Activation) /\ ChainOK' /\ DepthOK'
      /\ Pending' = p /\ Deep' = n - 1
  BY <1>1, <1>2, <1>4, <1>5, <1>6, PopKeeps
<1>8. TypeOK'
  BY <1>2, <1>6, <1>7 DEF TypeOK
<1>9. MemoryOK'
  <2>1. TakenOK'
    BY <1>2 DEF MemoryOK, TakenOK, Directory, SharedTable
  <2>2. DirectoryOK'
    BY <1>2, <1>6 DEF MemoryOK, DirectoryOK, Given, Directory, SharedTable
  <2>3. FramesOK'
    BY <1>2, <1>6 DEF MemoryOK, FramesOK, Translate, Given, Directory, SharedTable
  <2>4. ClearOK'
    BY <1>2, <1>6 DEF MemoryOK, ClearOK, Directory, SharedTable
  <2> QED
    BY <2>1, <2>2, <2>3, <2>4 DEF MemoryOK
<1>10. BudgetOK'
  <2>1. Needed = n
    BY <1>2, <1>3 DEF Needed
  <2>2. Needed' \in {n - 1, n}
    <3>1. mem'[Directory][Table(Pending')] # Absent
      BY <1>1, <1>4, <1>5, <1>6, <1>7
    <3> QED
      BY <1>3, <1>7, <3>1 DEF Needed, Directory
  <2>3. Cardinality(Free)' = Cardinality(Free) /\ Cardinality(Free) \in Nat
    BY <1>2, FreeIsFinite DEF Free
  <2>4. Cardinality(Free) >= n
    BY <1>2, <1>3, <2>1 DEF BudgetOK
  <2> QED
    BY <1>3, <2>2, <2>3, <2>4 DEF BudgetOK
<1> QED
  BY <1>2, <1>6, <1>7, <1>8, <1>9, <1>10 DEF IInv

-----------------------------------------------------------------------------
(* Every step, and every behavior. *)

\* How a step of the handler or of the client changes what pages have.
LEMMA NextFacts ==
    ASSUME Ordinary, IInv, Next
    PROVE  /\ IInv'
           /\ \A f \in Frame : f < Entries => mem'[f] = mem[f]
           /\ \/ /\ taken' = taken
                 /\ \/ \A w \in DataPages : Translate(w)' = Translate(w)
                    \/ \E v \in DataPages : \A w \in DataPages :
                           Translate(w)' = IF w = v THEN Absent ELSE Translate(w)
              \/ /\ GetFrame \in Frame \ taken /\ taken' = taken \cup {GetFrame}
                 /\ \/ \A w \in DataPages : Translate(w)' = Translate(w)
                    \/ \E v \in DataPages :
                           /\ Translate(v) = Absent
                           /\ \A w \in DataPages :
                                  Translate(w)' = IF w = v THEN GetFrame ELSE Translate(w)
<1>1. ASSUME NEW v \in UserPages, Begin("touch", v)
      PROVE  IInv' /\ mem' = mem /\ taken' = taken
  <2>1. IInv'
    BY <1>1, BeginStep
  <2> QED
    BY <1>1, <2>1 DEF Begin
<1>2. ASSUME NEW v \in FreedPages, Begin("free", v)
      PROVE  IInv' /\ mem' = mem /\ taken' = taken
  <2>1. IInv'
    BY <1>2, BeginStep
  <2> QED
    BY <1>2, <2>1 DEF Begin
<1>3. CASE IInv' /\ mem' = mem /\ taken' = taken
  <2>1. \A w : Translate(w)' = Translate(w)
    BY <1>3 DEF Translate, Directory
  <2> QED
    BY <1>3, <2>1
<1>4. CASE Touch
  BY <1>3, <1>4, TouchStep DEF Touch
<1>5. CASE FreePage
  <2>1. IInv' /\ taken' = taken
    BY <1>5, FreePageStep
  <2>2. PICK t \in DataTables :
            /\ Entries * t \in DataPages
            /\ mem[Directory][t] # Absent
            /\ \A f \in Frame : f # mem[Directory][t] => mem'[f] = mem[f]
            /\ \A v \in DataPages :
                   Translate(v)' = IF v = Entries * t THEN Absent ELSE Translate(v)
    BY <1>5, FreePageStep
  <2>3. \A f \in Frame : f < Entries => mem'[f] = mem[f]
    <3>1. mem[Directory][t] \in Nat /\ mem[Directory][t] >= Entries
      BY <2>2, TableFacts DEF IInv, MemoryOK
    <3>2. ASSUME NEW f \in Frame, f < Entries PROVE f # mem[Directory][t]
      BY <3>1, <3>2, Numbers
    <3> QED
      BY <2>2, <3>2
  <2> QED
    BY <2>1, <2>2, <2>3
<1>6. CASE Fault
  BY <1>3, <1>6, FaultStep
<1>7. CASE MapPage
  BY <1>7, MapPageStep
<1>8. CASE NewTable
  BY <1>8, NewTableStep
<1>9. CASE ClearTable
  BY <1>3, <1>9, ClearTableStep
<1> QED
  BY <1>1, <1>2, <1>3, <1>4, <1>5, <1>6, <1>7, <1>8, <1>9 DEF Next, Client, Step

LEMMA StutterFacts ==
    ASSUME IInv, UNCHANGED vars
    PROVE  IInv' /\ mem' = mem /\ UNCHANGED AS!vars
<1>1. mem' = mem /\ taken' = taken /\ goal' = goal /\ stack' = stack
  BY DEF vars
<1>2. TypeOK' /\ MemoryOK'
  BY <1>1 DEF IInv, TypeOK, MemoryOK, TakenOK, DirectoryOK, FramesOK, ClearOK, Translate,
              Given, Directory, SharedTable
<1>3. ChainOK' /\ DepthOK'
  BY <1>1 DEF IInv, ChainOK, DepthOK, Handling, Access, Misdirected, Clearing, Top, Translate,
              Given, Directory, SharedTable
<1>4. Pending' = Pending /\ Deep' = Deep
  BY <1>1 DEF Pending, Deep, Handling, Access, Misdirected, Top
<1>5. Needed' = Needed
  BY <1>1, <1>4 DEF Needed, Translate, Directory
<1>6. BudgetOK'
  BY <1>1, <1>5 DEF IInv, BudgetOK, Free
<1>7. UNCHANGED AS!vars
  BY <1>1 DEF AS!vars, frameOf, Translate, Directory
<1> QED
  BY <1>1, <1>2, <1>3, <1>6, <1>7 DEF IInv

LEMMA Invariance == ASSUME Ordinary PROVE Spec => []IInv
<1>1. Init => IInv
  BY InitInv
<1>2. IInv /\ [Next]_vars => IInv'
  BY NextFacts, StutterFacts
<1> QED
  BY <1>1, <1>2, PTL DEF Spec

\* The handler's own faults nest to a depth of at most four, however the frames of
\* the pool lie in the address space: the stack of handle_fault is bounded.
THEOREM NestingShallow == ASSUME Ordinary PROVE Spec => []ShallowNesting
<1>1. IInv => ShallowNesting
  BY DEF IInv, DepthOK, ShallowNesting
<1> QED
  BY <1>1, Invariance, PTL

\* A page has a frame that has been taken from the pool and is no other page's and no
\* page table, and the entries of the directory are distinct tables (handle_fault).
THEOREM MemorySound == ASSUME Ordinary PROVE Spec => [](TypeOK /\ MemoryOK)
<1>1. IInv => TypeOK /\ MemoryOK
  BY DEF IInv
<1> QED
  BY <1>1, Invariance, PTL

\* No store of handle_fault or free_page is to a frame of the memory that the kernel
\* shares, which the first page table maps.
THEOREM SharedMemorySafe == ASSUME Ordinary PROVE Spec => SharedMemoryUntouched
<1>1. 0 .. Entries - 1 \subseteq Frame /\ \A f \in 0 .. Entries - 1 : f < Entries
  <2>1. Entries \in Nat /\ Entries - 1 <= Entries * Entries - 1 /\ Entries * Entries \in Nat
    BY PoolAssumption
  <2> QED
    BY <2>1, Numbers DEF Page
<1>2. IInv /\ [Next]_vars => [\A f \in 0 .. Entries - 1 : mem'[f] = mem[f]]_vars
  BY <1>1, NextFacts
<1> QED
  BY <1>2, Invariance, PTL DEF Spec, SharedMemoryUntouched

-----------------------------------------------------------------------------
(* Paging is an address space. *)

LEMMA InitRefines == ASSUME Ordinary, Init PROVE AS!Init
<1>1. \A v \in DataPages : Translate(v) = Absent
  <2>1. mem[Directory] = NewDirectory
    <3>1. PICK w \in PowerOn :
              mem = [f \in Frame |->
                        CASE f = Directory   -> NewDirectory
                          [] f = SharedTable -> [i \in 0 .. Entries - 1 |-> i]
                          [] f < Entries     -> [i \in 0 .. Entries - 1 |-> 0]
                          [] OTHER           -> [i \in 0 .. Entries - 1 |-> w]]
      BY DEF Init
    <3>2. /\ Directory \in Frame /\ Directory # SharedTable
          /\ ~(Directory < Entries)
      BY PoolFacts, PoolAssumption DEF Directory
    <3>3. mem[Directory] = CASE Directory = Directory   -> NewDirectory
                             [] Directory = SharedTable -> [i \in 0 .. Entries - 1 |-> i]
                             [] Directory < Entries     -> [i \in 0 .. Entries - 1 |-> 0]
                             [] OTHER                   -> [i \in 0 .. Entries - 1 |-> w]
      BY <3>1, <3>2, Zenon
    <3> QED
      BY <3>2, <3>3
  <2>2. \A t \in DataTables : mem[Directory][t] = Absent
    BY <2>1, Numbers DEF NewDirectory, DataTables
  <2> QED
    BY <2>2, DataPage DEF Translate
<1>2. frameOf = [v \in DataPages |-> NoFrame]
  BY <1>1 DEF frameOf
<1>3. taken \subseteq Frame
  BY PoolFacts DEF Init
<1> QED
  BY <1>2, <1>3 DEF AS!Init

LEMMA NextRefines ==
    ASSUME Ordinary, IInv, Next
    PROVE  AS!Next \/ UNCHANGED AS!vars
<1>0. \A v \in DataPages : /\ Translate(v) \in Frame \cup {Absent}
                           /\ frameOf[v] = IF Translate(v) = Absent THEN NoFrame ELSE Translate(v)
  <2>1. ASSUME NEW v \in DataPages PROVE Translate(v) \in Frame \cup {Absent}
    BY PoolFacts DEF IInv, TypeOK, MemoryOK, FramesOK, Given
  <2> QED
    BY <2>1 DEF frameOf
<1>1. ASSUME \A w \in DataPages : Translate(w)' = Translate(w)
      PROVE  frameOf' = frameOf
  BY <1>1 DEF frameOf
<1>2. ASSUME NEW v \in DataPages, NEW a,
             \A w \in DataPages : Translate(w)' = IF w = v THEN a ELSE Translate(w)
      PROVE  frameOf' = [frameOf EXCEPT ![v] = IF a = Absent THEN NoFrame ELSE a]
  BY <1>2 DEF frameOf
<1>3. CASE taken' = taken
  <2>1. CASE \A w \in DataPages : Translate(w)' = Translate(w)
    BY <1>1, <1>3, <2>1 DEF AS!vars
  <2>2. ASSUME NEW v \in DataPages,
               \A w \in DataPages : Translate(w)' = IF w = v THEN Absent ELSE Translate(w)
        PROVE  AS!Next \/ UNCHANGED AS!vars
    <3>1. CASE Translate(v) = Absent
      <4>1. \A w \in DataPages : Translate(w)' = Translate(w)
        BY <2>2, <3>1
      <4> QED
        BY <2>1, <4>1
    <3>2. CASE Translate(v) # Absent
      <4>1. frameOf' = [frameOf EXCEPT ![v] = NoFrame]
        BY <1>2, <2>2
      <4>2. frameOf[v] # NoFrame
        BY <1>0, <3>2, Numbers
      <4>3. AS!Unmap(v)
        BY <1>3, <4>1, <4>2 DEF AS!Unmap
      <4> QED
        BY <4>3 DEF AS!Next
    <3> QED
      BY <3>1, <3>2
  <2> QED
    BY <1>3, <2>1, <2>2, NextFacts
<1>4. CASE taken' = taken \cup {GetFrame} /\ GetFrame \in Frame \ taken
  <2>1. CASE \A w \in DataPages : Translate(w)' = Translate(w)
    <3>1. AS!Reserve
      BY <1>1, <1>4, <2>1 DEF AS!Reserve
    <3> QED
      BY <3>1 DEF AS!Next
  <2>2. ASSUME NEW v \in DataPages, Translate(v) = Absent,
               \A w \in DataPages : Translate(w)' = IF w = v THEN GetFrame ELSE Translate(w)
        PROVE  AS!Next
    <3>1. frameOf' = [frameOf EXCEPT ![v] = GetFrame]
      BY <1>2, <1>4, <2>2, Numbers
    <3>2. frameOf[v] = NoFrame
      BY <1>0, <2>2
    <3>3. AS!Map(v)
      BY <1>4, <3>1, <3>2 DEF AS!Map
    <3> QED
      BY <3>3 DEF AS!Next
  <2>3. taken' # taken
    BY <1>4
  <2> QED
    BY <2>1, <2>2, <2>3, NextFacts
<1> QED
  BY <1>3, <1>4, NextFacts

\* Each page fault of a client gives the page a frame that no page had before, which
\* it keeps until free_page takes it away; the handler takes frames for tables.
THEOREM Refinement == ASSUME Ordinary PROVE Spec => ImplementsAddressSpace
<1>1. Init => AS!Init
  BY InitRefines
<1>2. IInv /\ [Next]_vars => [AS!Next]_(AS!vars)
  BY NextRefines, StutterFacts
<1> QED
  BY <1>1, <1>2, Invariance, PTL DEF Spec, AS!Spec, ImplementsAddressSpace
=============================================================================
