------------------------------ MODULE PageTable ------------------------------
(***************************************************************************)
(* Paging in updated_VirtualMemory/page_table.C, once paging is enabled:   *)
(* the page directory, whose last entry points back to it, the page-fault  *)
(* handler, which faults itself when it clears a new page table, and       *)
(* free_page.                                                              *)
(*                                                                         *)
(* Memory is a function from frames to their words, and a word is a table  *)
(* entry: the frame it is present for, or Absent.  A page is the number of *)
(* a page of virtual addresses.  An instruction that touches a page with   *)
(* no frame starts the handler, and is executed again when that returns.   *)
(*                                                                         *)
(* The pool of frames is that of P3_VirtualMemory/kernel.C: its first      *)
(* frame is the one behind the shared memory, and nothing of it is taken   *)
(* when the page table is constructed.                                     *)
(***************************************************************************)
EXTENDS Integers, Sequences, FiniteSets

CONSTANTS
    Entries,     \* words in a frame, 1024 in the source
    PoolFrames,  \* the frames of the process pool that are not inaccessible
    NoFrame,     \* null
    Absent,      \* a word with the present bit clear
    UserPages,   \* the pages a client touches
    FreedPages,  \* the pages a client frees
    PowerOn,     \* the words that the pool's frames may be full of at the start
    Headroom     \* bound: a client goes on while this many frames are free

WordSize == 4    \* bytes

LastFrame == Entries * Entries - 1

Frame == 0 .. LastFrame

Page == 0 .. Entries * Entries - 1

Word == Frame \cup {Absent}

ASSUME PoolAssumption ==
    /\ Entries \in Nat /\ Entries > 3
    /\ PoolFrames \subseteq Entries .. LastFrame /\ {Entries, Entries + 1} \subseteq PoolFrames
    /\ UserPages \subseteq Page /\ FreedPages \subseteq Page
    /\ PowerOn \subseteq Word /\ NoFrame \notin Frame /\ Absent \notin Frame
    /\ Headroom \in Nat

Table(v) == v \div Entries

Slot(v) == v % Entries

Idle == [op |-> "idle", page |-> 0]

VARIABLES
    mem,        \* the words of each frame
    taken,      \* the frames that get_frames has returned
    goal,       \* what the client is doing: an operation and its page
    stack       \* the activations of the fault handler, the outermost first: the page
                \* that faulted, and the new table while there is one to clear

vars == <<mem, taken, goal, stack>>

-----------------------------------------------------------------------------
(* The constructor: get_frames(1) for the directory and for the table of   *)
(* the shared memory, which is mapped to the addresses it has.             *)

Directory == Entries

SharedTable == Entries + 1

\* Mutant of NewDirectory: the last entry points to the shared table.
NewDirectoryToTable ==
    [i \in 0 .. Entries - 1 |-> IF i \in {0, Entries - 1} THEN SharedTable ELSE Absent]

\* The last entry holds the address the loop over the shared table ended with.
NewDirectory ==
    [i \in 0 .. Entries - 1 |-> CASE i = 0           -> SharedTable
                                  [] i = Entries - 1 -> Entries
                                  [] OTHER           -> Absent]

Init ==
    /\ \E w \in PowerOn :
           mem = [f \in Frame |->
                     CASE f = Directory   -> NewDirectory
                       [] f = SharedTable -> [i \in 0 .. Entries - 1 |-> i]
                       [] f < Entries     -> [i \in 0 .. Entries - 1 |-> 0]
                       [] OTHER           -> [i \in 0 .. Entries - 1 |-> w]]
    /\ taken = {Directory, SharedTable}
    /\ goal = Idle
    /\ stack = <<>>

-----------------------------------------------------------------------------
(* What the processor does with an address.                                *)

Translate(v) == LET table == mem[Directory][Table(v)]
                IN  IF table = Absent THEN Absent ELSE mem[table][Slot(v)]

\* The word at an offset of a page is set; the page has a frame.
Store(v, i, word) == mem' = [mem EXCEPT ![Translate(v)][i] = word]

\* The addresses 0xFFFFF000 and 0xFFC00000 + t * 4096 of the source.
DirectoryPage == Entries * Entries - 1

TablePage(t) == Entries * (Entries - 1) + t

\* get_frames(1) of the process pool, which returns 0 when it fails.
Free == PoolFrames \ taken

GetFrame == IF Free = {} THEN 0 ELSE CHOOSE f \in Free : \A g \in Free : f <= g

Take == taken' = IF Free = {} THEN taken ELSE taken \cup {GetFrame}

Handling == stack # <<>>

Top == stack[Len(stack)]

Pop == stack' = SubSeq(stack, 1, Len(stack) - 1)

\* The page that free_page writes to: its index into the table is the offset of
\* the page in bytes, not the page number.
Misdirected(v) ==
    (TablePage(Table(v)) + Slot(v) * WordSize) % (Entries * Entries)

\* The page that the next instruction touches.
Touched == IF ~Handling THEN IF goal.op = "free" THEN Misdirected(goal.page) ELSE goal.page
           ELSE IF Top.table = NoFrame THEN DirectoryPage
           ELSE Top.table     \* by the number of its frame, as if not paged

-----------------------------------------------------------------------------
(* The client.                                                             *)

Begin(op, v) ==
    /\ ~Handling
    /\ goal = Idle
    /\ Cardinality(Free) >= Headroom
    /\ goal' = [op |-> op, page |-> v]
    /\ UNCHANGED <<mem, taken, stack>>

\* The store of free_page, and the end of the call.
FreePage ==
    /\ ~Handling
    /\ goal.op = "free"
    /\ Translate(Touched) # Absent
    /\ Store(Touched, 0, Absent)
    /\ goal' = Idle
    /\ UNCHANGED <<taken, stack>>

Touch ==
    /\ ~Handling
    /\ goal.op = "touch"
    /\ Translate(Touched) # Absent
    /\ goal' = Idle
    /\ UNCHANGED <<mem, taken, stack>>

-----------------------------------------------------------------------------
(* The processor raises a page fault, and handle_fault.                    *)

Fault ==
    /\ Handling \/ goal # Idle
    /\ Translate(Touched) = Absent
    /\ stack' = Append(stack, [page |-> Touched, table |-> NoFrame])
    /\ UNCHANGED <<mem, taken, goal>>

AtEntry == Handling /\ Top.table = NoFrame /\ Translate(DirectoryPage) # Absent

TablePresent == mem[Translate(DirectoryPage)][Table(Top.page)] # Absent

\* Mutant of MapPage: the frame is not marked as allocated.
MapPageUntaken ==
    /\ AtEntry
    /\ TablePresent
    /\ Translate(TablePage(Table(Top.page))) # Absent
    /\ Store(TablePage(Table(Top.page)), Slot(Top.page), GetFrame)
    /\ Pop
    /\ UNCHANGED <<goal, taken>>

\* Mutant of MapPage: the entry is always the first of the table.
MapPageFirstSlot ==
    /\ AtEntry
    /\ TablePresent
    /\ Translate(TablePage(Table(Top.page))) # Absent
    /\ Store(TablePage(Table(Top.page)), 0, GetFrame)
    /\ Take
    /\ Pop
    /\ UNCHANGED goal

\* There is a page table: the page gets a frame.
MapPage ==
    /\ AtEntry
    /\ TablePresent
    /\ Translate(TablePage(Table(Top.page))) # Absent
    /\ Store(TablePage(Table(Top.page)), Slot(Top.page), GetFrame)
    /\ Take
    /\ Pop
    /\ UNCHANGED goal

\* Mutant of NewTable: the table is not entered into the directory.
NewTableUnlinked ==
    /\ AtEntry
    /\ ~TablePresent
    /\ stack' = [stack EXCEPT ![Len(stack)].table = GetFrame]
    /\ Take
    /\ UNCHANGED <<goal, mem>>

\* There is none: the directory gets a frame for it.
NewTable ==
    /\ AtEntry
    /\ ~TablePresent
    /\ Store(DirectoryPage, Table(Top.page), GetFrame)
    /\ stack' = [stack EXCEPT ![Len(stack)].table = GetFrame]
    /\ Take
    /\ UNCHANGED goal

\* The loop over the new table.  Its first store has faulted until the page with
\* the number of the table's frame has a frame; that is the one it clears.
ClearTable ==
    /\ Handling /\ Top.table # NoFrame
    /\ Translate(Top.table) # Absent
    /\ mem' = [mem EXCEPT ![Translate(Top.table)] =
                              [i \in 0 .. Entries - 1 |-> Absent]]
    /\ Pop
    /\ UNCHANGED <<taken, goal>>

-----------------------------------------------------------------------------
Client == \/ \E v \in UserPages : Begin("touch", v)
          \/ \E v \in FreedPages : Begin("free", v)

Step == Touch \/ FreePage \/ Fault \/ MapPage \/ NewTable \/ ClearTable

Next == Client \/ Step

Spec == Init /\ [][Next]_vars

\* The processor executes the instructions of a call and of the handler.
FairSpec == Spec /\ WF_vars(Step)

-----------------------------------------------------------------------------
DataPages == Entries .. Entries * (Entries - 1) - 1

\* The kernel stack holds the frames of at most four activations of the handler:
\* clearing a table faults, clearing the table that fault needs does, and once
\* more where the frames of the pool go on into the addresses of a next table.
ShallowNesting == Len(stack) <= 4

\* The handler and free_page write to page tables and to new frames, never to
\* the memory that the kernel shares.
SharedMemoryUntouched ==
    [][\A f \in 0 .. Entries - 1 : mem'[f] = mem[f]]_vars

\* Whoever touches or frees a page goes on after finitely many faults.
FaultsEnd == goal # Idle ~> goal = Idle

frameOf == [v \in DataPages |-> IF Translate(v) = Absent THEN NoFrame ELSE Translate(v)]

AS == INSTANCE AddressSpace WITH Page <- DataPages, used <- taken

\* Each fault gives one page a frame of its own, for good; tables and the
\* directory are nobody's page.
ImplementsAddressSpace == AS!Spec
=============================================================================
