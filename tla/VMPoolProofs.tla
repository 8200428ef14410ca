---------------------------- MODULE VMPoolProofs -----------------------------
(***************************************************************************)
(* What the records of the virtual-memory pools say of the memory that is  *)
(* handed out, for any number of pools, as long as no pool reaches into    *)
(* the next one or around the end of the address space.                    *)
(***************************************************************************)
EXTENDS VMPool, WellFoundedInduction, TLAPS

-----------------------------------------------------------------------------
(* Room.                                                                   *)

(* Every record takes at most "longest" addresses, and the address space   *)
(* holds that many for all the records of a pool: from the base of each    *)
(* pool to the base of the next, and below the lowest one, where a pool    *)
(* goes on after it has marked its last record as released.                *)
Roomy(longest) ==
    /\ MaxRegions # 0 /\ PageSize <= longest
    /\ \A size \in Size : (size \div PageSize + 1) * PageSize <= longest
    /\ \A p \in Pool : /\ MaxRegions * longest <= Base[p]
                       /\ Base[p] + MaxRegions * longest <= Space
    /\ \A p, o \in Pool : p # o => \/ Base[p] + MaxRegions * longest <= Base[o]
                                   \/ Base[o] + MaxRegions * longest <= Base[p]

Spacious == \E longest \in Nat : Roomy(longest)

Longest == CHOOSE longest \in Nat : Roomy(longest)

\* How far i records reach.
Reach(i) == i * Longest

LEMMA LongestRoomy == Spacious => Longest \in Nat /\ Roomy(Longest)
BY DEF Spacious, Longest

LEMMA ReachFacts ==
    ASSUME Spacious, NEW i \in Nat
    PROVE  /\ Reach(i) \in Nat
           /\ Reach(i + 1) = Reach(i) + Longest
           /\ i <= MaxRegions => Reach(i) <= Reach(MaxRegions)
<1>1. Longest \in Nat /\ MaxRegions \in Nat
  BY LongestRoomy, SizesAssumption
<1>2. Reach(i) \in Nat /\ Reach(i + 1) = Reach(i) + Longest
  BY <1>1 DEF Reach
<1>3. ASSUME i <= MaxRegions PROVE Reach(i) <= Reach(MaxRegions)
  <2>1. PICK k \in Nat : MaxRegions = i + k
    BY <1>1, <1>3
  <2>2. (i + k) * Longest = i * Longest + k * Longest /\ k * Longest \in Nat
    BY <1>1
  <2> QED
    BY <1>1, <1>2, <2>1, <2>2 DEF Reach
<1> QED
  BY <1>2, <1>3

LEMMA Room ==
    ASSUME Spacious, NEW p \in Pool
    PROVE  /\ Longest \in Nat /\ PageSize <= Longest /\ Longest <= Reach(MaxRegions)
           /\ Base[p] \in Nat /\ Base[p] > 0 /\ Longest < Space
           /\ Reach(MaxRegions) \in Nat /\ Reach(MaxRegions) <= Base[p]
           /\ Base[p] + Reach(MaxRegions) <= Space
           /\ \A o \in Pool : p # o => \/ Base[p] + Reach(MaxRegions) <= Base[o]
                                       \/ Base[o] + Reach(MaxRegions) <= Base[p]
<1>1. /\ Longest \in Nat /\ Roomy(Longest) /\ Base[p] \in Nat /\ Space \in Nat
      /\ PageSize \in Nat \ {0} /\ MaxRegions \in Nat \ {0}
  BY LongestRoomy, SizesAssumption DEF Roomy, Address
<1>2. Reach(1) = Longest /\ Reach(1) <= Reach(MaxRegions)
  BY <1>1, ReachFacts DEF Reach
<1> QED
  BY <1>1, <1>2, ReachFacts DEF Roomy, Reach

LEMMA Remainder ==
    ASSUME NEW a \in Address
    PROVE  a % Space = a /\ (0 + 0 - 1) % Space = Space - 1
BY SizesAssumption DEF Address

\* allocate rounds up to whole pages, so a region is longer than it was asked for.
LEMMA LengthFacts ==
    ASSUME Spacious, NEW p \in Pool, NEW size \in Size
    PROVE  /\ size \in Nat /\ RegionLength(size) \in Address
           /\ size < RegionLength(size) /\ RegionLength(size) <= Longest
<1> DEFINE length == (size \div PageSize + 1) * PageSize
<1>1. /\ PageSize \in Nat \ {0} /\ size \in Nat /\ Space \in Nat
      /\ Longest \in Nat /\ Longest < Space /\ length <= Longest
  BY SizesAssumption, LongestRoomy, Room DEF Address, Roomy
<1>2. PICK pages \in Nat : pages = size \div PageSize
  BY <1>1
<1>3. size < (pages + 1) * PageSize /\ (pages + 1) * PageSize \in Nat
  BY <1>1, <1>2
<1>4. size < length /\ length \in Address
  BY <1>1, <1>2, <1>3 DEF Address
<1> QED
  BY <1>1, <1>4, Remainder DEF RegionLength

-----------------------------------------------------------------------------
(* The inductive invariant.                                                *)

Region == [base : Address, len : Address]

\* The record that marks a released region.
Mark == [base |-> 0, len |-> 0]

End(r) == r.base + r.len

\* The i-th record r of pool p is in the pool's own addresses, where the records
\* are until one is marked, or below every pool, where allocation then goes on.
High(p, i, r) == r.len > 0 /\ Base[p] <= r.base /\ End(r) <= Base[p] + Reach(i)

Low(i, r) == r.len > 0 /\ End(r) <= Reach(i)

TypeOK == /\ list \in Seq(Pool)
          /\ regions \in [Pool -> Seq(Region)]
          /\ held \subseteq [pool : Pool, record : Nat, start : Address, size : Size]
          /\ hung \in BOOLEAN

Marked(p) == \E i \in 1 .. Len(regions[p]) : regions[p][i] = Mark

LengthsOK == \A p \in Pool : /\ Len(regions[p]) <= MaxRegions
                             /\ p \in Constructed <=> regions[p] # <<>>

RecordsOK == \A p \in Pool : \A i \in 1 .. Len(regions[p]) :
    \/ regions[p][i] = Mark
    \/ High(p, i, regions[p][i])
    \/ Low(i, regions[p][i]) /\ \E k \in 1 .. i - 1 : regions[p][k] = Mark

\* The regions in a pool's own addresses follow one another.
OrderOK == \A p \in Pool : \A i, j \in 1 .. Len(regions[p]) :
    /\ i < j
    /\ High(p, i, regions[p][i])
    /\ High(p, j, regions[p][j])
    => End(regions[p][i]) <= regions[p][j].base

\* Until a record is marked, each but the first is that of a held region.
UnmarkedOK == \A p \in Pool : ~Marked(p) /\ regions[p] # <<>> =>
    /\ regions[p][1] = [base |-> Base[p], len |-> PageSize]
    /\ \A i \in 2 .. Len(regions[p]) : \E b \in held : b.pool = p /\ b.record = i

\* What is held is recorded, each region in a record of its own.
HeldOK == /\ \A b \in held : b.record \in 2 .. Len(regions[b.pool]) /\ Recorded(b)
          /\ \A b, c \in held : b.pool = c.pool /\ b.record = c.record => b = c

IInv == TypeOK /\ LengthsOK /\ RecordsOK /\ OrderOK /\ UnmarkedOK /\ HeldOK

-----------------------------------------------------------------------------
(* Which addresses a record contains.                                      *)

LEMMA MarkContainsAll ==
    ASSUME NEW a \in Address
    PROVE  Contains(Mark, a)
BY Remainder, SizesAssumption DEF Contains, Mark, Address

LEMMA RegionContains ==
    ASSUME Spacious, NEW p \in Pool, NEW i \in Nat, i <= MaxRegions, NEW r \in Region,
           High(p, i, r) \/ Low(i, r), NEW a \in Address
    PROVE  Contains(r, a) <=> r.base <= a /\ a < End(r)
<1>1. /\ r.base \in Nat /\ r.len \in Nat /\ a \in Nat /\ Space \in Nat
      /\ Base[p] \in Nat /\ Reach(i) \in Nat /\ Reach(i) <= Reach(MaxRegions)
      /\ Base[p] + Reach(MaxRegions) <= Space /\ Reach(MaxRegions) \in Nat
  BY Room, ReachFacts, SizesAssumption DEF Region, Address
<1>2. r.len > 0 /\ r.base + r.len <= Space
  BY <1>1 DEF High, Low, End
<1>3. (r.base + r.len - 1) \in Address
  BY <1>1, <1>2 DEF Address
<1>4. (r.base + r.len - 1) % Space = r.base + r.len - 1
  BY <1>3, Remainder
<1> QED
  BY <1>1, <1>4 DEF Contains, End

\* What holds of the i-th record of a pool whatever kind it is of.
LEMMA RecordFacts ==
    ASSUME Spacious, IInv, NEW p \in Pool, NEW i \in 1 .. Len(regions[p])
    PROVE  /\ i \in Nat /\ i <= MaxRegions /\ Len(regions[p]) \in Nat
           /\ regions[p][i] \in Region /\ regions[p] \in Seq(Region)
           /\ \/ regions[p][i] = Mark
              \/ High(p, i, regions[p][i])
              \/ Low(i, regions[p][i]) /\ \E k \in 1 .. i - 1 : regions[p][k] = Mark
<1>1. regions[p] \in Seq(Region) /\ Len(regions[p]) \in Nat /\ MaxRegions \in Nat
  BY SizesAssumption DEF IInv, TypeOK
<1>2. Len(regions[p]) <= MaxRegions
  BY DEF IInv, LengthsOK
<1> QED
  BY <1>1, <1>2 DEF IInv, RecordsOK

\* A held region's record is no mark.
LEMMA HeldFacts ==
    ASSUME Spacious, IInv, NEW b \in held
    PROVE  /\ b.pool \in Pool /\ b.record \in 2 .. Len(regions[b.pool])
           /\ b.record \in 1 .. Len(regions[b.pool]) /\ b.record \in Nat
           /\ b.size \in Size /\ b.start \in Address
           /\ regions[b.pool][b.record] = [base |-> b.start, len |-> RegionLength(b.size)]
           /\ regions[b.pool][b.record] # Mark
           /\ Contains(regions[b.pool][b.record], b.start)
           /\ b.start < End(regions[b.pool][b.record])
           /\ \/ High(b.pool, b.record, regions[b.pool][b.record])
              \/ /\ Low(b.record, regions[b.pool][b.record])
                 /\ \E k \in 1 .. b.record - 1 : regions[b.pool][k] = Mark
<1>1. /\ b.pool \in Pool /\ b.size \in Size /\ b.start \in Address /\ b.record \in Nat
      /\ b.record \in 2 .. Len(regions[b.pool])
      /\ regions[b.pool][b.record] = [base |-> b.start, len |-> RegionLength(b.size)]
  BY DEF IInv, TypeOK, HeldOK, Recorded
<1>2. Len(regions[b.pool]) \in Nat
  BY <1>1 DEF IInv, TypeOK
<1>3. b.record \in 1 .. Len(regions[b.pool])
  BY <1>1, <1>2
<1>4. RegionLength(b.size) > 0 /\ RegionLength(b.size) \in Nat /\ b.start \in Nat
  <2>1. /\ RegionLength(b.size) \in Address /\ b.size \in Nat
        /\ b.size < RegionLength(b.size)
    BY <1>1, LengthFacts
  <2> QED
    BY <1>1, <2>1, SizesAssumption DEF Address
<1>5. /\ regions[b.pool][b.record] # Mark
      /\ b.start < End(regions[b.pool][b.record])
      /\ regions[b.pool][b.record].base = b.start
  BY <1>1, <1>4 DEF Mark, End
<1>6. /\ regions[b.pool][b.record] \in Region /\ b.record <= MaxRegions
      /\ \/ High(b.pool, b.record, regions[b.pool][b.record])
         \/ /\ Low(b.record, regions[b.pool][b.record])
            /\ \E k \in 1 .. b.record - 1 : regions[b.pool][k] = Mark
  BY <1>1, <1>3, <1>5, RecordFacts
<1>7. Contains(regions[b.pool][b.record], b.start)
  BY <1>1, <1>4, <1>5, <1>6, RegionContains
<1> QED
  BY <1>1, <1>3, <1>5, <1>6, <1>7

LEMMA InitInv == Init => IInv
<1> SUFFICES ASSUME Init PROVE IInv
  OBVIOUS
<1>1. /\ \A p \in Pool : regions[p] = <<>> /\ Len(regions[p]) = 0
      /\ held = {} /\ list = <<>> /\ Len(list) = 0 /\ hung = FALSE
  BY DEF Init
<1>2. TypeOK
  <2>1. regions \in [Pool -> Seq(Region)]
    <3> DEFINE S == Seq(Region)
    <3>1. <<>> \in S
      OBVIOUS
    <3> HIDE DEF S
    <3>2. regions \in [Pool -> S]
      BY <3>1 DEF Init
    <3> QED
      BY <3>2 DEF S
  <2>2. list \in Seq(Pool)
    BY <1>1
  <2>3. held \subseteq [pool : Pool, record : Nat, start : Address, size : Size]
    BY <1>1
  <2> QED
    BY <1>1, <2>1, <2>2, <2>3 DEF TypeOK
<1>3. LengthsOK
  <2>1. Constructed = {}
    BY <1>1 DEF Constructed
  <2> QED
    BY <1>1, <2>1, SizesAssumption DEF LengthsOK
<1>4. RecordsOK /\ OrderOK
  BY <1>1 DEF RecordsOK, OrderOK
<1>5. UnmarkedOK /\ HeldOK
  BY <1>1 DEF UnmarkedOK, HeldOK
<1> QED
  BY <1>2, <1>3, <1>4, <1>5 DEF IInv

-----------------------------------------------------------------------------
(* A new record: the first, which is the pool's table, or an allocation.   *)

\* The list of pools grows by p, or not at all.
LEMMA GrownPools ==
    ASSUME TypeOK, NEW p \in Pool, list' = Append(list, p)
    PROVE  /\ list' \in Seq(Pool)
           /\ \A o : o \in Constructed' <=> o \in Constructed \/ o = p
<1>1. /\ list' \in Seq(Pool) /\ Len(list') = Len(list) + 1 /\ Len(list) \in Nat
      /\ \A i \in 1 .. Len(list) : list'[i] = list[i]
      /\ list'[Len(list) + 1] = p
  BY DEF TypeOK
<1>2. \A i \in 1 .. Len(list) + 1 : i \in 1 .. Len(list) \/ i = Len(list) + 1
  BY <1>1
<1>3. 1 .. Len(list) \subseteq 1 .. Len(list') /\ Len(list) + 1 \in 1 .. Len(list')
  BY <1>1
<1> QED
  BY <1>1, <1>2, <1>3 DEF Constructed

LEMMA ConstructInv ==
    ASSUME Spacious, IInv, NEW p \in Pool, Construct(p)
    PROVE  IInv'
<1> DEFINE table == [base |-> Base[p], len |-> PageSize]
<1>1. /\ regions[p] = <<>> /\ regions \in [Pool -> Seq(Region)]
      /\ regions' = [regions EXCEPT ![p] = <<table>>]
      /\ list' = Append(list, p) /\ held' = held /\ hung' = hung
  BY DEF Construct, IInv, TypeOK, LengthsOK
<1>2. /\ table \in Region /\ MaxRegions >= 1 /\ MaxRegions \in Nat
      /\ High(p, 1, table) /\ table # Mark
  <2>1. /\ Base[p] \in Nat /\ Base[p] > 0 /\ PageSize \in Nat \ {0} /\ PageSize <= Longest
        /\ Space \in Nat /\ Longest < Space /\ Longest \in Nat /\ MaxRegions \in Nat \ {0}
        /\ Base[p] \in Address /\ PageSize \in Address
    BY Room, LongestRoomy, SizesAssumption DEF Address, Roomy
  <2>2. Reach(1) = Longest
    BY <2>1 DEF Reach
  <2> QED
    BY <2>1, <2>2 DEF Region, High, End, Mark
<1> HIDE DEF table
<1>3. /\ regions'[p] = <<table>> /\ Len(regions'[p]) = 1 /\ regions'[p][1] = table
      /\ regions'[p] # <<>>
      /\ <<table>> \in Seq(Region)
      /\ \A o \in Pool \ {p} : regions'[o] = regions[o]
  BY <1>1, <1>2
<1>4. /\ list' \in Seq(Pool)
      /\ \A o : o \in Constructed' <=> o \in Constructed \/ o = p
  BY <1>1, GrownPools DEF IInv
<1>5. TypeOK'
  BY <1>1, <1>3, <1>4 DEF IInv, TypeOK
<1>6. LengthsOK'
  BY <1>2, <1>3, <1>4 DEF IInv, LengthsOK
<1>7. RecordsOK'
  BY <1>2, <1>3 DEF IInv, RecordsOK
<1>8. OrderOK'
  BY <1>3 DEF IInv, OrderOK
<1>9. ASSUME NEW b \in held PROVE b.pool # p /\ b.pool \in Pool
  <2>1. b.pool \in Pool /\ b.record \in 1 .. Len(regions[b.pool])
    BY HeldFacts
  <2>2. 1 .. Len(regions[p]) = {}
    BY <1>1
  <2> QED
    BY <2>1, <2>2
<1>10. UnmarkedOK'
  BY <1>1, <1>3 DEF IInv, UnmarkedOK, Marked, table
<1>11. HeldOK'
  BY <1>1, <1>3, <1>9 DEF IInv, HeldOK, Recorded
<1> QED
  BY <1>5, <1>6, <1>7, <1>8, <1>10, <1>11 DEF IInv

\* Allocation goes on behind the last record, or at address 0 behind a mark.
LEMMA NewRegion ==
    ASSUME Spacious, IInv, NEW p \in Pool, NEW size \in Size,
           regions[p] # <<>>, Len(regions[p]) < MaxRegions,
           NEW start, start = NextFree(regions[p]),
           NEW n, n = Len(regions[p]),
           NEW new, new = [base |-> start, len |-> RegionLength(size)]
    PROVE  /\ n \in Nat \ {0} /\ start \in Address /\ new \in Region /\ new # Mark
           /\ \/ /\ High(p, n + 1, new) /\ High(p, n, regions[p][n])
                 /\ start = End(regions[p][n])
              \/ /\ Low(n + 1, new) /\ start < Base[p]
                 /\ \E k \in 1 .. n : regions[p][k] = Mark
<1> DEFINE last == regions[p][n]
<1>1. n \in Nat \ {0} /\ n \in 1 .. Len(regions[p])
  BY DEF IInv, TypeOK
<1>2. /\ last \in Region
      /\ last = Mark \/ High(p, n, last)
         \/ (Low(n, last) /\ \E k \in 1 .. n - 1 : regions[p][k] = Mark)
  BY <1>1, RecordFacts
<1>3. /\ Reach(n) \in Nat /\ Reach(n + 1) = Reach(n) + Longest
      /\ Reach(n + 1) <= Reach(MaxRegions)
  <2>1. n + 1 \in Nat /\ n + 1 <= MaxRegions
    BY <1>1, SizesAssumption
  <2> QED
    BY <1>1, <2>1, ReachFacts
<1>4. /\ Longest \in Nat /\ Base[p] \in Nat /\ Base[p] > 0 /\ Space \in Nat
      /\ Reach(MaxRegions) \in Nat /\ Reach(MaxRegions) <= Base[p]
      /\ Base[p] + Reach(MaxRegions) <= Space
  BY Room, SizesAssumption
<1>5. RegionLength(size) \in Nat /\ 0 < RegionLength(size) /\ RegionLength(size) <= Longest
      /\ RegionLength(size) \in Address
  <2>1. size \in Nat /\ RegionLength(size) \in Address
        /\ size < RegionLength(size) /\ RegionLength(size) <= Longest
    BY LengthFacts
  <2> QED
    BY <2>1, SizesAssumption DEF Address
<1>6. last.base \in Nat /\ last.len \in Nat /\ start = End(last) % Space
  BY <1>2, SizesAssumption DEF Region, Address, NextFree, End
<1>7. new.base = start /\ new.len = RegionLength(size) /\ new # Mark
  BY <1>5 DEF Mark
<1> HIDE DEF last
<1>8. CASE last = Mark
  <2>1. End(last) = 0 /\ 0 \in Address
    BY <1>8, <1>4, SizesAssumption DEF Mark, End, Address
  <2>2. start = 0
    BY <1>6, <2>1, Remainder
  <2>3. Low(n + 1, new)
    BY <1>3, <1>4, <1>5, <1>7, <2>2 DEF Low, End
  <2>4. \E k \in 1 .. n : regions[p][k] = Mark
    BY <1>1, <1>8 DEF last
  <2> QED
    BY <1>1, <1>4, <1>5, <1>7, <2>1, <2>2, <2>3, <2>4 DEF Region
<1>9. CASE High(p, n, last)
  <2>1. End(last) \in Nat /\ Base[p] <= End(last) /\ End(last) <= Base[p] + Reach(n)
    BY <1>4, <1>6, <1>9 DEF High, End
  <2>2. End(last) \in Address
    BY <1>3, <1>4, <1>5, <2>1 DEF Address
  <2>3. start = End(last)
    BY <1>6, <2>2, Remainder
  <2>4. High(p, n + 1, new)
    <3>1. End(last) + RegionLength(size) <= Base[p] + Reach(n + 1)
      BY <1>3, <1>4, <1>5, <2>1
    <3> QED
      BY <1>5, <1>7, <2>1, <2>3, <3>1 DEF High, End
  <2> QED
    BY <1>1, <1>5, <1>7, <1>9, <2>2, <2>3, <2>4 DEF Region, last
<1>10. CASE Low(n, last) /\ \E k \in 1 .. n - 1 : regions[p][k] = Mark
  <2>1. End(last) \in Nat /\ End(last) <= Reach(n)
    BY <1>6, <1>10 DEF Low, End
  <2>2. End(last) < Base[p]
    BY <1>3, <1>4, <1>5, <2>1
  <2>3. End(last) \in Address
    BY <1>4, <2>1, <2>2 DEF Address
  <2>4. start = End(last)
    BY <1>6, <2>3, Remainder
  <2>5. Low(n + 1, new)
    <3>1. End(last) + RegionLength(size) <= Reach(n + 1)
      BY <1>3, <1>4, <1>5, <2>1
    <3> QED
      BY <1>5, <1>7, <2>4, <3>1 DEF Low, End
  <2>6. \E k \in 1 .. n : regions[p][k] = Mark
    BY <1>1, <1>10
  <2> QED
    BY <1>1, <1>5, <1>7, <2>2, <2>3, <2>4, <2>5, <2>6 DEF Region
<1> QED
  BY <1>2, <1>8, <1>9, <1>10

LEMMA AllocateInv ==
    ASSUME Spacious, IInv, NEW p \in Pool, NEW size \in Size, Allocate(p, size)
    PROVE  IInv'
<1> DEFINE records == regions[p]
           n       == Len(records)
           start   == NextFree(records)
           new     == [base |-> start, len |-> RegionLength(size)]
<1>0. PICK given : given = [pool |-> p, record |-> n + 1, start |-> start, size |-> size]
  OBVIOUS
<1>1. /\ p \in Constructed /\ n < MaxRegions /\ MaxRegions \in Nat
      /\ regions' = [regions EXCEPT ![p] = Append(records, new)]
      /\ held' = held \cup {given} /\ list' = list /\ hung' = hung
      /\ regions \in [Pool -> Seq(Region)] /\ records \in Seq(Region)
  BY <1>0, SizesAssumption DEF Allocate, IInv, TypeOK
<1>2. records # <<>>
  BY <1>1 DEF IInv, LengthsOK
<1>3. /\ n \in Nat \ {0} /\ start \in Address /\ new \in Region /\ new # Mark
      /\ \/ /\ High(p, n + 1, new) /\ High(p, n, records[n]) /\ start = End(records[n])
         \/ /\ Low(n + 1, new) /\ start < Base[p]
            /\ \E k \in 1 .. n : records[k] = Mark
  <2>1. /\ records = regions[p] /\ n = Len(regions[p]) /\ start = NextFree(regions[p])
        /\ new = [base |-> start, len |-> RegionLength(size)]
    OBVIOUS
  <2> HIDE DEF records, n, start, new
  <2> QED
    BY <1>1, <1>2, <2>1, NewRegion
<1>4. /\ new.base = start /\ given.pool = p /\ given.record = n + 1
      /\ given.start = start /\ given.size = size
      /\ given \in [pool : Pool, record : Nat, start : Address, size : Size]
      /\ new = [base |-> given.start, len |-> RegionLength(given.size)]
  BY <1>0, <1>3
<1> HIDE DEF new, start
<1>5. /\ regions'[p] = Append(records, new)
      /\ \A o \in Pool \ {p} : regions'[o] = regions[o]
  BY <1>1
<1>6. /\ regions'[p] \in Seq(Region) /\ Len(regions'[p]) = n + 1
      /\ \A i \in 1 .. n : regions'[p][i] = records[i]
      /\ regions'[p][n + 1] = new /\ regions'[p] # <<>>
  BY <1>1, <1>3, <1>5
<1> HIDE DEF n, records
<1>7. n = Len(regions[p]) /\ records = regions[p]
  BY DEF n, records
<1>8. \A i \in 1 .. n + 1 : i \in 1 .. n \/ i = n + 1
  BY <1>3
<1>9. TypeOK'
  BY <1>1, <1>4, <1>5, <1>6 DEF IInv, TypeOK
<1>10. LengthsOK'
  <2>1. Constructed' = Constructed
    BY <1>1 DEF Constructed
  <2>2. n + 1 <= MaxRegions
    BY <1>1, <1>3
  <2> QED
    BY <1>1, <1>5, <1>6, <2>1, <2>2 DEF IInv, LengthsOK
<1>11. RecordsOK'
  <2>1. ASSUME NEW i \in 1 .. n + 1
        PROVE  \/ regions'[p][i] = Mark
               \/ High(p, i, regions'[p][i])
               \/ /\ Low(i, regions'[p][i])
                  /\ \E k \in 1 .. i - 1 : regions'[p][k] = Mark
    <3>1. CASE i \in 1 .. n
      <4>1. \/ records[i] = Mark
            \/ High(p, i, records[i])
            \/ Low(i, records[i]) /\ \E k \in 1 .. i - 1 : records[k] = Mark
        BY <1>7, <3>1 DEF IInv, RecordsOK
      <4>2. 1 .. i - 1 \subseteq 1 .. n
        BY <1>3, <3>1
      <4> QED
        BY <1>6, <3>1, <4>1, <4>2
    <3>2. CASE i = n + 1
      <4>1. i - 1 = n
        BY <1>3, <3>2
      <4> QED
        BY <1>3, <1>6, <3>2, <4>1
    <3> QED
      BY <1>8, <3>1, <3>2
  <2> QED
    BY <2>1, <1>5, <1>6 DEF IInv, RecordsOK
<1>12. OrderOK'
  <2>1. ASSUME NEW i \in 1 .. n + 1, NEW j \in 1 .. n + 1, i < j,
               High(p, i, regions'[p][i]), High(p, j, regions'[p][j])
        PROVE  End(regions'[p][i]) <= regions'[p][j].base
    <3>1. i \in 1 .. n /\ regions'[p][i] = records[i]
      BY <1>3, <1>6, <2>1
    <3>2. CASE j \in 1 .. n
      BY <1>6, <1>7, <2>1, <3>1, <3>2 DEF IInv, OrderOK
    <3>3. CASE j = n + 1
      <4>1. regions'[p][j] = new /\ Base[p] <= start
        BY <1>4, <1>6, <2>1, <3>3 DEF High
      <4>2. High(p, n, records[n]) /\ start = End(records[n])
        <5>1. ~(start < Base[p])
          BY <1>3, <4>1, Room, SizesAssumption DEF Address
        <5> QED
          BY <1>3, <5>1
      <4>3. n \in 1 .. n /\ records[n] \in Region
        BY <1>1, <1>3, <1>7
      <4>4. i = n \/ End(records[i]) <= records[n].base
        BY <1>3, <1>7, <2>1, <3>1, <4>2, <4>3 DEF IInv, OrderOK
      <4>5. /\ records[n].base \in Nat /\ records[n].len \in Nat
            /\ records[i].base \in Nat /\ records[i].len \in Nat
        <5>1. records[i] \in Region
          BY <1>1, <1>7, <3>1
        <5> QED
          BY <4>3, <5>1, SizesAssumption DEF Region, Address
      <4> QED
        BY <1>4, <3>1, <4>1, <4>2, <4>4, <4>5 DEF End
    <3> QED
      BY <1>8, <3>2, <3>3
  <2> QED
    BY <2>1, <1>5, <1>6 DEF IInv, OrderOK
<1>13. UnmarkedOK'
  <2>1. ASSUME ~Marked(p)'
        PROVE  /\ regions'[p][1] = [base |-> Base[p], len |-> PageSize]
               /\ \A i \in 2 .. n + 1 : \E b \in held' : b.pool = p /\ b.record = i
    <3>1. ~Marked(p)
      BY <1>3, <1>6, <1>7, <2>1 DEF Marked
    <3>2. /\ records[1] = [base |-> Base[p], len |-> PageSize]
          /\ \A i \in 2 .. n : \E b \in held : b.pool = p /\ b.record = i
      BY <1>2, <1>7, <3>1 DEF IInv, UnmarkedOK
    <3>3. 1 \in 1 .. n /\ \A i \in 2 .. n + 1 : i \in 2 .. n \/ i = n + 1
      BY <1>3
    <3> QED
      BY <1>1, <1>4, <1>6, <3>2, <3>3
  <2>2. ASSUME NEW o \in Pool \ {p}, ~Marked(o)', regions'[o] # <<>>
        PROVE  /\ regions'[o][1] = [base |-> Base[o], len |-> PageSize]
               /\ \A i \in 2 .. Len(regions'[o]) :
                     \E b \in held' : b.pool = o /\ b.record = i
    <3>1. regions'[o] = regions[o] /\ ~Marked(o)
      BY <1>5, <2>2 DEF Marked
    <3> QED
      BY <1>1, <2>2, <3>1 DEF IInv, UnmarkedOK
  <2> QED
    BY <1>6, <2>1, <2>2 DEF UnmarkedOK
<1>14. HeldOK'
  <2>1. ASSUME NEW c \in held
        PROVE  /\ c.record \in 2 .. Len(regions'[c.pool]) /\ Recorded(c)'
               /\ c.pool = p => c.record # n + 1
    <3>1. c.pool \in Pool /\ c.record \in 2 .. Len(regions[c.pool]) /\ Recorded(c)
          /\ c.record \in 1 .. Len(regions[c.pool])
      BY HeldFacts DEF IInv, HeldOK
    <3>2. CASE c.pool = p
      <4>1. c.record \in 2 .. n /\ c.record \in 1 .. n /\ c.record # n + 1
            /\ c.record \in 2 .. n + 1
        BY <1>3, <1>7, <3>1, <3>2
      <4> QED
        BY <1>6, <1>7, <3>1, <3>2, <4>1 DEF Recorded
    <3>3. CASE c.pool # p
      BY <1>5, <3>1, <3>3 DEF Recorded
    <3> QED
      BY <3>2, <3>3
  <2>2. given.record \in 2 .. Len(regions'[given.pool]) /\ Recorded(given)'
    <3>1. n + 1 \in 2 .. n + 1
      BY <1>3
    <3> QED
      BY <1>4, <1>6, <3>1 DEF Recorded
  <2> QED
    BY <1>1, <1>4, <2>1, <2>2 DEF IInv, HeldOK
<1> QED
  BY <1>9, <1>10, <1>11, <1>12, <1>13, <1>14 DEF IInv

-----------------------------------------------------------------------------
(* A release.                                                              *)

LEMMA LeastExists ==
    ASSUME NEW S \in SUBSET Nat, S # {}
    PROVE  \E m \in S : \A k \in S : m <= k
<1> DEFINE R == OpToRel(<, Nat)
<1>1. IsWellFoundedOn(R, Nat)
  BY NatLessThanWellFounded
<1>2. PICK m \in S : \A k \in S : <<k, m>> \notin R
  <2> HIDE DEF R
  <2> QED
    BY <1>1, WFMin
<1>3. \A k \in S : ~(k < m)
  BY <1>2 DEF OpToRel
<1> QED
  BY <1>3

\* The search of release ends at one record, which becomes a mark, and the
\* others stay as they are.
LEMMA ClearedFacts ==
    ASSUME NEW records \in Seq(Region), NEW a \in Address,
           NEW own \in 1 .. Len(records), Contains(records[own], a)
    PROVE  /\ Cleared(records, a) \in Seq(Region)
           /\ Len(Cleared(records, a)) = Len(records)
           /\ \E first \in 1 .. own :
                  /\ Contains(records[first], a)
                  /\ \A j \in 1 .. first - 1 : ~Contains(records[j], a)
                  /\ Cleared(records, a)[first] = Mark
                  /\ \A i \in 1 .. Len(records) : i # first =>
                         Cleared(records, a)[i] = records[i]
<1> DEFINE cleared == Cleared(records, a)
           known   == {i \in 1 .. Len(records) : Contains(records[i], a)}
<1>1. Mark \in Region
  BY SizesAssumption DEF Mark, Region, Address
<1>2. /\ \A i \in 1 .. Len(records) : cleared[i] =
             IF Contains(records[i], a) /\ \A j \in 1 .. i - 1 : ~Contains(records[j], a)
             THEN Mark ELSE records[i]
      /\ cleared \in [1 .. Len(records) -> Region]
  BY <1>1 DEF Cleared, Mark
<1>3. cleared \in Seq(Region) /\ Len(cleared) = Len(records)
  <2> HIDE DEF cleared
  <2> QED
    BY <1>2
<1>4. PICK first \in known : \A i \in known : first <= i
  <2>1. known \in SUBSET Nat /\ known # {}
    OBVIOUS
  <2> QED
    BY <2>1, LeastExists
<1>5. /\ first \in 1 .. own /\ first \in 1 .. Len(records)
      /\ Contains(records[first], a)
      /\ \A j \in 1 .. first - 1 : ~Contains(records[j], a)
  BY <1>4
<1>6. cleared[first] = Mark
  BY <1>2, <1>5
<1>7. ASSUME NEW i \in 1 .. Len(records), i # first PROVE cleared[i] = records[i]
  <2>1. SUFFICES ASSUME Contains(records[i], a) PROVE first \in 1 .. i - 1
    BY <1>2, <1>5
  <2> QED
    BY <2>1, <1>4, <1>5, <1>7
<1> QED
  BY <1>3, <1>5, <1>6, <1>7

\* Another held region of the pool has a record that the search does not end at:
\* if it lies in the pool's addresses, so does what comes before it, and if it
\* lies below them, a mark comes before it.
LEMMA FirstIsNotAnothers ==
    ASSUME Spacious, IInv, NEW b \in held, NEW c \in held, b # c, b.pool = c.pool,
           NEW first \in 1 .. b.record,
           Contains(regions[b.pool][first], b.start),
           \A j \in 1 .. first - 1 : ~Contains(regions[b.pool][j], b.start)
    PROVE  c.record # first
<1> SUFFICES ASSUME c.record = first PROVE FALSE
  OBVIOUS
<1> DEFINE p == b.pool
           r == regions[p][first]
           o == regions[p][b.record]
<1>1. /\ p \in Pool /\ b.record \in Nat /\ b.start \in Address
      /\ first \in 1 .. Len(regions[p]) /\ b.record \in 1 .. Len(regions[p])
      /\ b.record # first
  BY HeldFacts DEF IInv, HeldOK
<1>2. first < b.record /\ first \in Nat
  BY <1>1
<1>3. \A j \in 1 .. first - 1 : regions[p][j] # Mark
  BY <1>1, MarkContainsAll
<1>4. High(p, first, r)
  BY <1>3, HeldFacts
<1>5. /\ r \in Region /\ o \in Region /\ first <= MaxRegions /\ b.record <= MaxRegions
  BY <1>1, RecordFacts
<1>6. r.base <= b.start /\ b.start < End(r)
  BY <1>1, <1>2, <1>4, <1>5, RegionContains
<1>7. b.start < End(o) /\ o.base = b.start /\ b.start \in Nat
  <2>1. b.start < End(o) /\ o = [base |-> b.start, len |-> RegionLength(b.size)]
    BY HeldFacts
  <2>2. b.start \in Nat
    BY <1>1, SizesAssumption DEF Address
  <2> QED
    BY <2>1, <2>2
<1>8. ~High(p, b.record, o)
  <2>1. ASSUME High(p, b.record, o) PROVE End(r) <= o.base
    BY <1>1, <1>2, <1>4, <2>1 DEF IInv, OrderOK
  <2> QED
    BY <2>1, <1>5, <1>6, <1>7, SizesAssumption DEF End, Region, Address
<1>9. Low(b.record, o)
  BY <1>8, HeldFacts
<1>10. /\ Reach(b.record) <= Reach(MaxRegions) /\ Reach(MaxRegions) <= Base[p]
       /\ Reach(b.record) \in Nat /\ Reach(MaxRegions) \in Nat /\ Base[p] \in Nat
  BY <1>1, <1>5, ReachFacts, Room
<1>11. /\ End(o) <= Reach(b.record) /\ Base[p] <= r.base
       /\ r.base \in Nat /\ End(o) \in Nat
  BY <1>4, <1>5, <1>9, SizesAssumption DEF Low, High, End, Region, Address
<1> HIDE DEF r, o, p
<1> QED
  BY <1>6, <1>7, <1>10, <1>11

LEMMA ReleaseInv ==
    ASSUME Spacious, IInv, NEW b \in held, Release(b)
    PROVE  IInv'
<1> DEFINE p == b.pool
           records == regions[p]
<1>1. /\ p \in Pool /\ b.record \in 1 .. Len(records) /\ b.start \in Address
      /\ records \in Seq(Region) /\ Contains(records[b.record], b.start)
      /\ regions \in [Pool -> Seq(Region)]
      /\ regions' = [regions EXCEPT ![p] = Cleared(records, b.start)]
      /\ list' = list /\ held' = held \ {b} /\ hung' \in BOOLEAN
      /\ b.record \in Nat
  BY HeldFacts DEF Release, IInv, TypeOK
<1>2. /\ regions'[p] = Cleared(records, b.start)
      /\ \A o \in Pool \ {p} : regions'[o] = regions[o]
  BY <1>1
<1>3. regions'[p] \in Seq(Region) /\ Len(regions'[p]) = Len(records)
  BY <1>1, <1>2, ClearedFacts
<1>4. PICK first \in 1 .. b.record :
             /\ Contains(records[first], b.start)
             /\ \A j \in 1 .. first - 1 : ~Contains(records[j], b.start)
             /\ regions'[p][first] = Mark
             /\ \A i \in 1 .. Len(records) : i # first => regions'[p][i] = records[i]
  <2> HIDE DEF records, p
  <2>1. \E first \in 1 .. b.record :
           /\ Contains(records[first], b.start)
           /\ \A j \in 1 .. first - 1 : ~Contains(records[j], b.start)
           /\ Cleared(records, b.start)[first] = Mark
           /\ \A i \in 1 .. Len(records) : i # first =>
                  Cleared(records, b.start)[i] = records[i]
    BY <1>1, ClearedFacts
  <2> QED
    BY <1>2, <2>1
<1>5. first \in 1 .. Len(records) /\ Len(records) \in Nat
  BY <1>1, <1>4
<1>6. \A i \in 1 .. Len(records) : regions'[p][i] = Mark \/ regions'[p][i] = records[i]
  BY <1>4
<1>7. \A i : ~High(p, i, Mark) /\ ~Low(i, Mark)
  BY DEF High, Low, Mark
<1> HIDE DEF records
<1>8. TypeOK'
  BY <1>1, <1>2, <1>3 DEF IInv, TypeOK, records
<1>9. LengthsOK'
  <2>1. Constructed' = Constructed
    BY <1>1 DEF Constructed
  <2>2. regions'[p] # <<>> /\ regions[p] # <<>> /\ Len(regions[p]) = Len(regions'[p])
    BY <1>1, <1>3, <1>5 DEF records
  <2> QED
    BY <2>1, <2>2, <1>2 DEF IInv, LengthsOK
<1>10. RecordsOK'
  <2>1. ASSUME NEW i \in 1 .. Len(regions'[p])
        PROVE  \/ regions'[p][i] = Mark
               \/ High(p, i, regions'[p][i])
               \/ /\ Low(i, regions'[p][i])
                  /\ \E k \in 1 .. i - 1 : regions'[p][k] = Mark
    <3>1. i \in 1 .. Len(records) /\ 1 .. i - 1 \subseteq 1 .. Len(records)
      BY <1>3, <1>5
    <3>2. \/ records[i] = Mark
          \/ High(p, i, records[i])
          \/ Low(i, records[i]) /\ \E k \in 1 .. i - 1 : records[k] = Mark
      BY <1>1, <3>1 DEF IInv, RecordsOK, records
    <3> QED
      BY <1>6, <3>1, <3>2
  <2> QED
    BY <2>1, <1>2 DEF IInv, RecordsOK
<1>11. OrderOK'
  <2>1. ASSUME NEW i \in 1 .. Len(regions'[p]), NEW j \in 1 .. Len(regions'[p]),
               i < j, High(p, i, regions'[p][i]), High(p, j, regions'[p][j])
        PROVE  End(regions'[p][i]) <= regions'[p][j].base
    <3>1. regions'[p][i] = records[i] /\ regions'[p][j] = records[j]
      BY <1>3, <1>6, <1>7, <2>1
    <3> QED
      BY <1>1, <1>3, <2>1, <3>1 DEF IInv, OrderOK, records
  <2> QED
    BY <2>1, <1>2 DEF IInv, OrderOK
<1>12. UnmarkedOK'
  <2>1. Marked(p)'
    BY <1>3, <1>4, <1>5 DEF Marked
  <2>2. ASSUME NEW o \in Pool \ {p} PROVE Marked(o)' <=> Marked(o)
    BY <1>2 DEF Marked
  <2> QED
    BY <1>1, <1>2, <2>1, <2>2 DEF IInv, UnmarkedOK
<1>13. HeldOK'
  <2>1. ASSUME NEW c \in held \ {b}
        PROVE  c.record \in 2 .. Len(regions'[c.pool]) /\ Recorded(c)'
    <3>1. c.pool \in Pool /\ c.record \in 2 .. Len(regions[c.pool]) /\ Recorded(c)
          /\ c.record \in 1 .. Len(regions[c.pool])
      BY HeldFacts DEF IInv, HeldOK
    <3>2. CASE c.pool = p
      <4>1. c.record # first
        BY <1>1, <1>4, <3>2, FirstIsNotAnothers DEF records
      <4>2. regions'[p][c.record] = records[c.record]
        BY <1>4, <3>1, <3>2, <4>1 DEF records
      <4> QED
        BY <1>3, <3>1, <3>2, <4>2 DEF Recorded, records
    <3>3. CASE c.pool # p
      BY <1>2, <3>1, <3>3 DEF Recorded
    <3> QED
      BY <3>2, <3>3
  <2> QED
    BY <1>1, <2>1 DEF IInv, HeldOK
<1> QED
  BY <1>8, <1>9, <1>10, <1>11, <1>12, <1>13 DEF IInv

LEMMA NextInv ==
    ASSUME Spacious, IInv, [Next]_vars
    PROVE  IInv'
<1>1. ASSUME NEW p \in Pool, Construct(p) PROVE IInv'
  BY <1>1, ConstructInv
<1>2. ASSUME NEW p \in Pool, NEW size \in Size, Allocate(p, size) PROVE IInv'
  BY <1>2, AllocateInv
<1>3. ASSUME NEW b \in held, Release(b) PROVE IInv'
  BY <1>3, ReleaseInv
<1>4. ASSUME UNCHANGED vars PROVE IInv'
  <2>1. list' = list /\ regions' = regions /\ held' = held /\ hung' = hung
    BY <1>4 DEF vars
  <2>2. TypeOK' /\ LengthsOK'
    BY <2>1 DEF IInv, TypeOK, LengthsOK, Constructed
  <2>3. RecordsOK' /\ OrderOK'
    BY <2>1 DEF IInv, RecordsOK, OrderOK
  <2>4. UnmarkedOK' /\ HeldOK'
    BY <2>1 DEF IInv, UnmarkedOK, HeldOK, Marked, Recorded
  <2> QED
    BY <2>2, <2>3, <2>4 DEF IInv
<1>5. ASSUME Next PROVE IInv'
  <2>1. ASSUME Acquire PROVE IInv'
    BY <1>1, <1>2, <2>1 DEF Acquire
  <2>2. ASSUME \E b \in held : Release(b) PROVE IInv'
    BY <1>3, <2>2
  <2> QED
    BY <1>5, <2>1, <2>2 DEF Next
<1> QED
  BY <1>4, <1>5

LEMMA Invariance == ASSUME Spacious PROVE Spec => []IInv
<1>1. Init => IInv
  BY InitInv
<1>2. IInv /\ [Next]_vars => IInv'
  BY NextInv
<1> QED
  BY <1>1, <1>2, PTL DEF Spec

-----------------------------------------------------------------------------
(* What follows for the clients.                                           *)

\* Without a mark every region is in its pool's own addresses.
LEMMA UnreleasedFacts ==
    ASSUME Spacious, IInv, \A p \in Constructed : ~Released(p),
           NEW p \in Pool, NEW i \in 1 .. Len(regions[p])
    PROVE  /\ ~Marked(p) /\ regions[p] # <<>> /\ 1 \in 1 .. Len(regions[p])
           /\ High(p, i, regions[p][i])
           /\ regions[p][i].base \in Nat /\ regions[p][i].len \in Nat
           /\ i \in Nat /\ i <= MaxRegions
           /\ End(regions[p][i]) <= Base[p] + Reach(MaxRegions)
<1>1. /\ regions[p][i] \in Region /\ Len(regions[p]) \in Nat /\ i \in Nat
      /\ regions[p] \in Seq(Region) /\ i <= MaxRegions
      /\ \/ regions[p][i] = Mark
         \/ High(p, i, regions[p][i])
         \/ \E k \in 1 .. i - 1 : regions[p][k] = Mark
  BY RecordFacts
<1>2. regions[p] # <<>> /\ 1 .. i - 1 \subseteq 1 .. Len(regions[p])
      /\ 1 \in 1 .. Len(regions[p])
  BY <1>1
<1>3. ~Released(p)
  BY <1>2 DEF IInv, LengthsOK
<1>4. ~Marked(p)
  BY <1>3 DEF Released, Marked, Mark
<1>5. High(p, i, regions[p][i])
  BY <1>1, <1>2, <1>4 DEF Marked
<1>6. regions[p][i].base \in Nat /\ regions[p][i].len \in Nat
  BY <1>1, SizesAssumption DEF Region, Address
<1>7. /\ Reach(i) \in Nat /\ Reach(i) <= Reach(MaxRegions)
      /\ Reach(MaxRegions) \in Nat /\ Base[p] \in Nat
  BY <1>1, ReachFacts, Room
<1>8. End(regions[p][i]) <= Base[p] + Reach(MaxRegions)
  BY <1>5, <1>6, <1>7 DEF High, End
<1> QED
  BY <1>1, <1>2, <1>4, <1>5, <1>6, <1>8

\* A held region with its bytes.
LEMMA UnreleasedHeld ==
    ASSUME Spacious, IInv, \A p \in Constructed : ~Released(p), NEW b \in held
    PROVE  /\ b.pool \in Pool /\ b.record \in 2 .. Len(regions[b.pool])
           /\ b.record \in 1 .. Len(regions[b.pool]) /\ b.record \in Nat
           /\ b.start \in Nat /\ b.size \in Nat
           /\ regions[b.pool][b.record].base = b.start
           /\ High(b.pool, b.record, regions[b.pool][b.record])
           /\ Base[b.pool] <= b.start
           /\ b.start + b.size <= End(regions[b.pool][b.record])
           /\ b.start + b.size <= Base[b.pool] + Reach(MaxRegions)
<1>1. /\ b.pool \in Pool /\ b.record \in 2 .. Len(regions[b.pool])
      /\ b.record \in 1 .. Len(regions[b.pool]) /\ b.record \in Nat
      /\ b.size \in Size /\ b.start \in Address
      /\ regions[b.pool][b.record] = [base |-> b.start, len |-> RegionLength(b.size)]
  BY HeldFacts
<1>2. /\ High(b.pool, b.record, regions[b.pool][b.record])
      /\ End(regions[b.pool][b.record]) <= Base[b.pool] + Reach(MaxRegions)
  BY <1>1, UnreleasedFacts
<1>3. /\ b.size \in Nat /\ b.size < RegionLength(b.size)
      /\ RegionLength(b.size) \in Nat /\ b.start \in Nat
  <2>1. b.size \in Nat /\ b.size < RegionLength(b.size) /\ RegionLength(b.size) \in Address
    BY <1>1, LengthFacts
  <2> QED
    BY <1>1, <2>1, SizesAssumption DEF Address
<1>4. End(regions[b.pool][b.record]) = b.start + RegionLength(b.size)
  BY <1>1 DEF End
<1>5. Reach(MaxRegions) \in Nat /\ Base[b.pool] \in Nat
  BY <1>1, Room
<1>6. regions[b.pool][b.record].base = b.start /\ Base[b.pool] <= b.start
  BY <1>1, <1>2 DEF High
<1>7. b.start + b.size <= End(regions[b.pool][b.record])
  BY <1>3, <1>4
<1> QED
  BY <1>1, <1>2, <1>3, <1>4, <1>5, <1>6, <1>7

LEMMA NoOverlap ==
    ASSUME Spacious, IInv, \A p \in Constructed : ~Released(p)
    PROVE  NoSharing
<1>1. ASSUME NEW b \in held, NEW c \in held,
             b.pool = c.pool, b.record < c.record
      PROVE  Bytes(b) \cap Bytes(c) = {}
  <2>1. /\ b.start \in Nat /\ b.size \in Nat /\ c.start \in Nat /\ c.size \in Nat
        /\ b.start + b.size <= End(regions[b.pool][b.record])
        /\ regions[c.pool][c.record].base = c.start
    BY UnreleasedHeld
  <2>2. /\ b.pool \in Pool /\ b.record \in 1 .. Len(regions[b.pool])
        /\ c.record \in 1 .. Len(regions[b.pool])
        /\ High(b.pool, b.record, regions[b.pool][b.record])
        /\ High(b.pool, c.record, regions[b.pool][c.record])
    BY <1>1, UnreleasedHeld
  <2>3. End(regions[b.pool][b.record]) <= regions[b.pool][c.record].base
    BY <1>1, <2>2 DEF IInv, OrderOK
  <2>4. regions[b.pool][b.record].base \in Nat /\ regions[b.pool][b.record].len \in Nat
    BY <2>2, UnreleasedFacts
  <2>5. b.start + b.size <= c.start
    BY <1>1, <2>1, <2>3, <2>4 DEF End
  <2> QED
    BY <2>1, <2>5 DEF Bytes
<1>2. ASSUME NEW b \in held, NEW c \in held, b.pool # c.pool
      PROVE  Bytes(b) \cap Bytes(c) = {}
  <2>1. /\ b.start \in Nat /\ b.size \in Nat /\ c.start \in Nat /\ c.size \in Nat
        /\ Base[b.pool] <= b.start /\ b.start + b.size <= Base[b.pool] + Reach(MaxRegions)
        /\ Base[c.pool] <= c.start /\ c.start + c.size <= Base[c.pool] + Reach(MaxRegions)
        /\ b.pool \in Pool /\ c.pool \in Pool
    BY UnreleasedHeld
  <2>2. /\ Base[b.pool] \in Nat /\ Base[c.pool] \in Nat /\ Reach(MaxRegions) \in Nat
        /\ \/ Base[b.pool] + Reach(MaxRegions) <= Base[c.pool]
           \/ Base[c.pool] + Reach(MaxRegions) <= Base[b.pool]
    BY <1>2, <2>1, Room
  <2>3. b.start + b.size <= c.start \/ c.start + c.size <= b.start
    BY <2>1, <2>2
  <2> QED
    BY <2>1, <2>3 DEF Bytes
<1>3. ASSUME NEW b \in held, NEW c \in held, b # c
      PROVE  Bytes(b) \cap Bytes(c) = {}
  <2>1. b.record \in Nat /\ c.record \in Nat
    BY HeldFacts
  <2>2. CASE b.pool = c.pool
    <3>1. b.record # c.record
      BY <1>3, <2>2 DEF IInv, HeldOK
    <3>2. b.record < c.record \/ c.record < b.record
      BY <2>1, <3>1
    <3>3. CASE b.record < c.record
      BY <1>1, <2>2, <3>3
    <3>4. CASE c.record < b.record
      <4>1. Bytes(c) \cap Bytes(b) = {}
        BY <1>1, <2>2, <3>4
      <4> QED
        BY <4>1
    <3> QED
      BY <3>2, <3>3, <3>4
  <2> QED
    BY <1>2, <2>2
<1>4. ASSUME NEW b \in held, NEW p \in Constructed
      PROVE  Bytes(b) \cap Table(p) = {}
  <2>1. /\ b.start \in Nat /\ b.size \in Nat /\ b.pool \in Pool /\ b.record \in Nat
        /\ b.record \in 2 .. Len(regions[b.pool])
        /\ b.record \in 1 .. Len(regions[b.pool])
        /\ Base[b.pool] <= b.start /\ b.start + b.size <= Base[b.pool] + Reach(MaxRegions)
        /\ regions[b.pool][b.record].base = b.start
        /\ High(b.pool, b.record, regions[b.pool][b.record])
    BY UnreleasedHeld
  <2>2. p \in Pool
    BY DEF Constructed, IInv, TypeOK
  <2>3. /\ Base[p] \in Nat /\ Base[b.pool] \in Nat /\ PageSize \in Nat /\ Longest \in Nat
        /\ PageSize <= Longest /\ Longest <= Reach(MaxRegions) /\ Reach(MaxRegions) \in Nat
    BY <2>1, <2>2, Room, SizesAssumption
  <2>4. CASE p = b.pool
    <3>1. /\ 1 \in 1 .. Len(regions[p]) /\ High(p, 1, regions[p][1])
          /\ regions[p] # <<>> /\ ~Marked(p)
      BY <2>1, <2>4, UnreleasedFacts
    <3>2. regions[p][1] = [base |-> Base[p], len |-> PageSize]
      BY <2>2, <3>1 DEF IInv, UnmarkedOK
    <3>3. 1 < b.record
      BY <2>1
    <3>4. End(regions[p][1]) <= regions[p][b.record].base
      BY <2>1, <2>4, <3>1, <3>3 DEF IInv, OrderOK
    <3>5. Base[p] + PageSize <= b.start
      BY <2>1, <2>4, <3>2, <3>4 DEF End
    <3> QED
      BY <2>1, <2>3, <3>5 DEF Bytes, Table
  <2>5. CASE p # b.pool
    <3>1. \/ Base[p] + Reach(MaxRegions) <= Base[b.pool]
          \/ Base[b.pool] + Reach(MaxRegions) <= Base[p]
      BY <2>1, <2>2, <2>5, Room
    <3>2. Base[p] + PageSize <= b.start \/ b.start + b.size <= Base[p]
      BY <2>1, <2>3, <3>1
    <3> QED
      BY <2>1, <2>3, <3>2 DEF Bytes, Table
  <2> QED
    BY <2>4, <2>5
<1> QED
  BY <1>3, <1>4 DEF NoSharing

LEMMA LegitimateIsAllocated ==
    ASSUME Spacious, IInv, \A p \in Constructed : ~Released(p),
           NEW p \in Constructed, NEW a \in Address, IsLegitimate(regions[p], a)
    PROVE  \/ a \in Table(p)
           \/ \E b \in held : b.pool = p
                             /\ a \in b.start .. b.start + RegionLength(b.size) - 1
<1>1. p \in Pool
  BY DEF Constructed, IInv, TypeOK
<1>2. PICK i \in 1 .. Len(regions[p]) : Contains(regions[p][i], a)
  BY DEF IsLegitimate
<1>3. /\ High(p, i, regions[p][i]) /\ i \in Nat /\ i <= MaxRegions
      /\ ~Marked(p) /\ regions[p] # <<>>
      /\ regions[p][i].base \in Nat /\ regions[p][i].len \in Nat
  BY <1>1, <1>2, UnreleasedFacts
<1>4. regions[p][i] \in Region
  BY <1>1, <1>2, RecordFacts
<1>5. regions[p][i].base <= a /\ a < regions[p][i].base + regions[p][i].len /\ a \in Nat
  BY <1>1, <1>2, <1>3, <1>4, RegionContains, SizesAssumption DEF End, Address
<1>6. /\ regions[p][1] = [base |-> Base[p], len |-> PageSize]
      /\ \A k \in 2 .. Len(regions[p]) : \E b \in held : b.pool = p /\ b.record = k
  BY <1>1, <1>3 DEF IInv, UnmarkedOK
<1>7. CASE i = 1
  BY <1>1, <1>5, <1>6, <1>7, Room, SizesAssumption DEF Table
<1>8. CASE i # 1
  <2>1. i \in 2 .. Len(regions[p])
    BY <1>2, <1>8
  <2>2. PICK b \in held : b.pool = p /\ b.record = i
    BY <1>6, <2>1
  <2>3. regions[p][i] = [base |-> b.start, len |-> RegionLength(b.size)]
    BY <2>2, HeldFacts
  <2>4. a \in b.start .. b.start + RegionLength(b.size) - 1
    BY <1>3, <1>5, <2>3
  <2> QED
    BY <2>2, <2>4
<1> QED
  BY <1>7, <1>8

\* Between allocate and release the pool knows the address, whatever has been
\* released in the meantime (is_legitimate, vm_pool.C).
THEOREM HeldAddressesKnown == ASSUME Spacious PROVE Spec => []HeldIsLegitimate
<1>1. IInv => HeldIsLegitimate
  BY HeldFacts DEF HeldIsLegitimate, IsLegitimate
<1> QED
  BY <1>1, Invariance, PTL

\* Until the first release no memory is handed out twice or out of a pool's own
\* table, and an address is legitimate only if it is in use (vm_pool.H).
THEOREM SoundBeforeRelease == ASSUME Spacious PROVE Spec => []SoundUntilRelease
<1>1. IInv => SoundUntilRelease
  BY NoOverlap, LegitimateIsAllocated DEF SoundUntilRelease
<1> QED
  BY <1>1, Invariance, PTL

\* release marks no record of another region that is in use, although it takes
\* the first record whose range has the address.
THEOREM OthersStay == ASSUME Spacious PROVE Spec => ReleaseKeepsOthers
<1>1. IInv' => \A b \in held \cap held' : Recorded(b) => Recorded(b)'
  BY DEF IInv, HeldOK
<1> QED
  BY <1>1, Invariance, PTL DEF ReleaseKeepsOthers

\* free_page's search of the first pool ends for a region of that pool: the
\* record that has just been marked contains every address.
THEOREM FirstPoolEnds == ASSUME Spacious PROVE Spec => HangsOnlyBehindFirst
<1> DEFINE A == hung' => \A b \in held \ held' : b.pool # Head(list)
<1>1. ASSUME IInv, Next PROVE A
  <2>1. CASE Acquire
    BY <2>1 DEF Acquire, Construct, Allocate
  <2>2. ASSUME NEW b \in held, Release(b), b.pool = Head(list) PROVE ~hung'
    <3> DEFINE p == b.pool
    <3>1. /\ p \in Pool /\ b.record \in 1 .. Len(regions[p]) /\ b.start \in Address
          /\ regions[p] \in Seq(Region) /\ Contains(regions[p][b.record], b.start)
          /\ regions \in [Pool -> Seq(Region)]
      BY <1>1, HeldFacts DEF IInv, TypeOK
    <3>2. regions'[p] = Cleared(regions[p], b.start)
      BY <2>2, <3>1 DEF Release
    <3>3. \E i \in 1 .. Len(regions'[p]) : regions'[p][i] = Mark
      <4>1. /\ Len(Cleared(regions[p], b.start)) = Len(regions[p])
            /\ \E first \in 1 .. b.record : Cleared(regions[p], b.start)[first] = Mark
        BY <3>1, ClearedFacts
      <4> QED
        BY <3>1, <3>2, <4>1
    <3>4. IsLegitimate(regions'[p], b.start)
      BY <3>1, <3>3, MarkContainsAll DEF IsLegitimate
    <3> QED
      BY <2>2, <3>4 DEF Release
  <2>3. ASSUME NEW b \in held, Release(b) PROVE A
    BY <2>2, <2>3 DEF Release
  <2> QED
    BY <1>1, <2>1, <2>3 DEF Next
<1>2. IInv /\ [Next]_vars => [A]_vars
  BY <1>1
<1> QED
  BY <1>2, Invariance, PTL DEF Spec, HangsOnlyBehindFirst
=============================================================================
