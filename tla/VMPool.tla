------------------------------- MODULE VMPool --------------------------------
(***************************************************************************)
(* The virtual-memory pools of updated_VirtualMemory/vm_pool.C, with the   *)
(* list in which the page table keeps them and the search of that list in  *)
(* PageTable::free_page.  What free_page does to the page tables is in     *)
(* PageTable.                                                              *)
(*                                                                         *)
(* Addresses and lengths are unsigned and wrap around at Space.            *)
(***************************************************************************)
EXTENDS Integers, Sequences, FiniteSets

CONSTANTS
    Pool,        \* the VMPool objects
    Base,        \* the base address of each
    PageSize,    \* bytes in a page, 4096 in the source
    Space,       \* addresses, 2^32 in the source
    Size,        \* the sizes clients ask for
    MaxRegions   \* bound: records per pool that a behaviour makes

Address == 0 .. Space - 1

ASSUME SizesAssumption ==
    /\ PageSize \in Nat \ {0} /\ MaxRegions \in Nat
    /\ Space \in Nat /\ Space > PageSize
    /\ Size \subseteq Address
    /\ Base \in [Pool -> Address]

VARIABLES
    list,       \* the pools in the order of the page table's list
    regions,    \* allocated_regions of each pool: records of base and len
    held,       \* what clients have been given and have not released: the pool, the
                \* number of the record that was made of it, the start and the size
    hung        \* the search in free_page does not end

vars == <<list, regions, held, hung>>

Init ==
    /\ list = <<>>
    /\ regions = [p \in Pool |-> <<>>]
    /\ held = {}
    /\ hung = FALSE

Constructed == {list[i] : i \in 1 .. Len(list)}

\* Mutant of Contains: the first address of a region is left out.
ContainsInside(r, a) == a > r.base /\ a <= (r.base + r.len - 1) % Space

\* The last address is computed without a carry: a region of length 0 at 0
\* ends at the last address of the machine.
Contains(r, a) == a >= r.base /\ a <= (r.base + r.len - 1) % Space

IsLegitimate(records, a) == \E i \in 1 .. Len(records) : Contains(records[i], a)

-----------------------------------------------------------------------------
\* The first page of the pool holds its table, and is recorded in it.
Construct(p) ==
    /\ ~hung
    /\ p \notin Constructed
    /\ list' = Append(list, p)
    /\ regions' = [regions EXCEPT ![p] = <<[base |-> Base[p], len |-> PageSize]>>]
    /\ UNCHANGED <<held, hung>>

\* Mutant of RegionLength: rounds down.
RegionLengthDown(size) == ((size \div PageSize) * PageSize) % Space

RegionLength(size) == ((size \div PageSize + 1) * PageSize) % Space

\* Allocation goes on where the region recorded last ends.
NextFree(records) == LET last == records[Len(records)]
                     IN  (last.base + last.len) % Space

Allocate(p, size) ==
    LET start == NextFree(regions[p])
    IN  /\ ~hung
        /\ p \in Constructed
        /\ Len(regions[p]) < MaxRegions
        /\ regions' = [regions EXCEPT ![p] =
               Append(@, [base |-> start, len |-> RegionLength(size)])]
        /\ held' = held \cup {[pool |-> p, record |-> Len(regions[p]) + 1,
                              start |-> start, size |-> size]}
        /\ UNCHANGED <<list, hung>>

\* Mutant of Cleared: the record marks a region without addresses.
ClearedEmpty(records, a) ==
    [i \in 1 .. Len(records) |->
        IF Contains(records[i], a) /\ \A j \in 1 .. i - 1 : ~Contains(records[j], a)
        THEN [base |-> 1, len |-> 0] ELSE records[i]]

\* The first record with the address in its range becomes the one that marks a
\* released region.
Cleared(records, a) ==
    [i \in 1 .. Len(records) |->
        IF Contains(records[i], a) /\ \A j \in 1 .. i - 1 : ~Contains(records[j], a)
        THEN [base |-> 0, len |-> 0] ELSE records[i]]

\* Mutant of Release: every record behind the address goes as well.
ReleaseTail(b) ==
    LET records == regions[b.pool]
        cleared == [i \in 1 .. Len(records) |->
                       IF records[i].base >= b.start THEN [base |-> 0, len |-> 0]
                       ELSE records[i]]
    IN  /\ ~hung
        /\ regions' = [regions EXCEPT ![b.pool] = cleared]
        /\ held' = held \ {b}
        /\ hung' = ~IsLegitimate(regions'[Head(list)], b.start)
        /\ UNCHANGED list

\* release(b.start).  The assertions of release and free_page are about string
\* literals and never fail; free_page looks at the first pool of the list only,
\* and again and again if that one does not know the address.
Release(b) ==
    /\ ~hung
    /\ regions' = [regions EXCEPT ![b.pool] = Cleared(@, b.start)]
    /\ held' = held \ {b}
    /\ hung' = ~IsLegitimate(regions'[Head(list)], b.start)
    /\ UNCHANGED list

Acquire == \E p \in Pool : Construct(p) \/ \E size \in Size : Allocate(p, size)

Next == Acquire \/ \E b \in held : Release(b)

Spec == Init /\ [][Next]_vars

-----------------------------------------------------------------------------
Bytes(b) == b.start .. b.start + b.size - 1

Table(p) == Base[p] .. Base[p] + PageSize - 1

\* What the kernel's own test asks after every allocation (GenerateMemoryReferences
\* in P3_VirtualMemory/kernel.C): an address that was handed out and not released
\* is legitimate for its pool.
HeldIsLegitimate == \A b \in held : IsLegitimate(regions[b.pool], b.start)

\* Two clients never share memory, and none shares it with a pool's own table
\* (vm_pool.H, allocate).
NoSharing ==
    /\ \A b, c \in held : b # c => Bytes(b) \cap Bytes(c) = {}
    /\ \A b \in held : \A p \in Constructed : Bytes(b) \cap Table(p) = {}

Released(p) == \E i \in 1 .. Len(regions[p]) : regions[p][i].base = 0

\* As long as no record marks a released region, no two clients share memory,
\* and an address is legitimate only if it is part of a region that is currently
\* allocated (vm_pool.H, is_legitimate).
SoundUntilRelease == (\A p \in Constructed : ~Released(p)) =>
    /\ NoSharing
    /\ \A p \in Constructed : \A a \in Address : IsLegitimate(regions[p], a) =>
           \/ a \in Table(p)
           \/ \E b \in held : b.pool = p
                             /\ a \in b.start .. b.start + RegionLength(b.size) - 1

\* The search of free_page does not end for a region of a pool that is not the
\* first of the list.  For the first it does, although the region is no longer
\* recorded by then: the record that marks it contains every address.
HangsOnlyBehindFirst ==
    [][hung' => \A b \in held \ held' : b.pool # Head(list)]_vars

Recorded(b) ==
    regions[b.pool][b.record] = [base |-> b.start, len |-> RegionLength(b.size)]

\* Releasing a region does not take the record of another region away.
ReleaseKeepsOthers ==
    [][\A b \in held \cap held' : Recorded(b) => Recorded(b)']_vars
=============================================================================
