# A TLA+ model of the CSCE 410 kernels

The repository holds the kernels of an operating-systems course, one directory
per machine problem: frame pools (P1), page tables (P2), virtual memory (P3),
threads and a scheduler (P4), a blocking disk (P5). Two directories,
`updated_VirtualMemory/` and `updated_scheduler/`, hold later versions of parts of
P3 and P4. Each kernel is a 32-bit x86 program for one processor, in C++ and
assembly, linked with course boilerplate (descriptor tables, console, ports).

This directory models the parts that are the kernels' own logic: the two
schedulers with the timer interrupt, the switch between stacks, the disk driver, the
linked queue and its memory, the file system, the contiguous frame pools, the virtual-memory pools and
the page-fault handler, the dispatch of interrupts and exceptions with the clock,
and the console. TLC checks the models on small instances; TLAPS proves the main
results for every instance.

Contents: [inventory](#inventory), [plan](#plan), [modules](#modules-and-the-code),
[runs](#runs), [fairness](#fairness), [proofs](#proofs),
[findings](#findings), [what is left out](#what-is-not-modelled).

## Inventory

| Component | Source | State | Operations |
|---|---|---|---|
| Ready queue | `updated_scheduler/scheduler.H`, class `FIFOQueue` | array of 100 pointers, `head`, `tail`, `size` | constructor, `push`, `pop`, `q_size` |
| Preemptive scheduler | `updated_scheduler/{scheduler,thread,simple_timer,interrupts}.C`, `P4_Scheduler/{kernel.C,threads_low.asm}` | ready queue, `current_thread`, each thread's stack, the interrupt flag, the interrupt controller's in-service bit, tick count | `resume`, `yield`, `add`, `terminate`, `dispatch_to`, `thread_start`, `thread_shutdown`, timer handler, `dispatch_interrupt` |
| Context switch | `P5_DiskRead&write/{thread.C,threads_low.asm,irq_low.asm}`, the same in P4 | the words of the stacks, `esp` of each thread, `current_thread`, the registers | `setup_context`, `threads_low_switch_to`, `irq_common_stub` |
| Kernel with disk | `P5_DiskRead&write/{scheduler,thread,simple_timer,simple_disk,blocking_disk,kernel}.C` | the same with a linked queue; the controller's registers and data port | the same, `read`, `write`, `issue_operation`, `is_ready`, `wait_until_ready` |
| Frame pools | `updated_VirtualMemory/cont_frame_pool.C` | two bits per frame, `n_free_frames`, static list `head`/`tail`/`next` | constructor, `get_frames`, `mark_inaccessible`, `release_frames` |
| Virtual-memory pools | `updated_VirtualMemory/vm_pool.C` | array of `{base, length}` records, number of records | constructor, `allocate`, `release`, `is_legitimate` |
| Paging | `updated_VirtualMemory/page_table.C` | page directory and tables in memory, list of pools, CR3/CR0/CR2 | constructor, `load`, `enable_paging`, `handle_fault`, `register_pool`, `free_page` |
| Linked queue and its memory | `P5_DiskRead&write/{queue.H,mem_pool.C,frame_pool.C}` | nodes, `head`, `tail`, `size`; next free address | `enqueue`, `dequeue`, `remove`; `allocate`, `release` |
| Clock | `*/simple_timer.C` | `seconds`, `ticks`, `hz` | `set_frequency`, `current`, `wait`, the handler |
| Interrupt and exception dispatch | `*/{interrupts,exceptions,idt,irq}.C`, `idt_low.asm` | descriptor table, tables of handlers, the controllers | `register_handler`, `deregister_handler`, stubs, dispatch, end-of-interrupt |
| File system | `P5_DiskRead&write/file_system.C` | blocks of the disk; file table, `current_block` | `Mount`, `Format`, `LookupFile`, `CreateFile`, `DeleteFile`, file reads and writes |
| Console | `*/console.C`, `*/utils.C` | the screen's memory, the cursor | `putch`, `scroll`, `puts`, `puti`, `int2str` |
| Older pools and page tables | P1, P2, P3 | bitmaps, records, tables | as above |
| Boilerplate | `gdt`, `machine`, `start.asm`, `assert` | constants in processor registers | start-up |

**How they interact.** `main` builds the frame pools, then (P3) the page table and
the VM pools, or (P4, P5) the threads, which it passes to `add`; it dispatches the
first thread and never runs again. A thread calls `pass_on_CPU`, that is `resume` of
itself followed by `yield`; `yield` takes the first thread of the ready queue and
`dispatch_to` switches the stacks. IRQ 0 enters `dispatch_interrupt`, which calls
the timer handler and then sends the end-of-interrupt; the handler counts ticks and
at the end of a quantum itself calls `resume` and `yield`, so that it switches away
from inside the interrupt. A thread of P5 that reads a block gives the controller a
command and, until the disk is ready, resumes itself and yields. A touch of a page
without a frame enters `handle_fault`, which takes frames from the process pool and
writes tables through the recursive last entry of the directory; a VM pool's
`release` calls `free_page` for the first page of the region. Every interrupt and
exception goes through its gate to a stub in `idt_low.asm` and from there to the
dispatcher, which finds the handler in its table. Handlers and threads print on the
same console. The file system of P5 reads and writes blocks through the disk driver.

**What is hard about it, and what makes each part correct.**

* *Ready queue.* Wrap-around of `head` and `tail` with a `size` kept apart. It must be
  a bounded first-in first-out queue.
* *Preemptive scheduler.* The calls that should disable interrupts are commented
  out, so the timer's `push` and `pop` interleave with an interrupted one; the
  end-of-interrupt is sent by whichever stack returns through `dispatch_interrupt`.
  No thread may be lost or queued twice, threads must take turns, a terminated one
  must never run, and the timer must go on. As the calls are missing, the code
  establishes the first three only while quanta end in thread code (see findings).
* *Context switch.* It rearranges the stack it runs on, keeps words below the stack
  pointer meanwhile, and changes `current_thread` and the stack pointer one after the
  other; the timer's stub can be one of its callers. A thread must find everything as
  it left it, whatever ran in between.
* *Kernel with disk.* Interrupts are turned off in `resume` and `yield` and turned
  on by accident of how the next thread left the CPU. The critical section must
  hold; a thread that moves words must move those of its own block; an operation
  must end.
* *Frame pools.* The counters are kept by four methods, and the release walk must
  stop at the next sequence and at the end of the pool. A run must be handed out to
  one client only and be given back exactly.
* *VM pools.* Records are only appended and marked. Regions must not overlap and
  `is_legitimate` must say which addresses are allocated.
* *Paging.* The handler faults while it clears a table. Each page must get a frame
  of its own, faults must end and nest within the stack, and freed pages must be
  unmapped, which the code does for the first page of a table only (see findings).
* *Linked queue.* Nodes come from memory that is never given back, and `remove`
  deletes the node before the one it takes out. The pointers must form one list.
* *Interrupt dispatch and clock.* The way back must take off the stack exactly what
  processor and stub pushed; interrupts of the second controller need two answers;
  `current` reads two counters that the handler changes.
* *File system.* Block, inode and file table are written one after the other, and the
  machine may be restarted between any two. A block must be handed out once.
* *Console.* The handler prints in the middle of a thread's character, and of its
  `scroll`, or of a decrement of the cursor. What is stored must stay within a line of
  what is shown, and the text must be shown.

`PROJECT.json` lists every hazard with its line and the properties aimed at it.

## Plan

Done, in this order:

1. `FIFOQueue`, `ReadyQueue` against `BoundedFIFO`.
2. `RRScheduler`, the preemptive scheduler on that queue, against `RoundRobin`.
3. `ContFramePool` against `FrameAllocator`.
4. `BlockingKernel` on `AtaDisk`, the P5 kernel, against `RoundRobin` again.
5. `VMPool`, and `PageTable` against `AddressSpace`.
6. Proofs for 1, 3 and 4 down to the refinements, with the loops of 3 and the disk of 4;
   for 2 the types, the end-of-interrupt and the interrupt flag under every preemption,
   and the rest up to the first quantum that ends in start-up, push or yield.
7. `LinkedQueue` against `ThreadQueue`, with the memory its nodes come from, and its
   proof down to the refinement.
8. `FileSystem` on a disk that outlives the machine, and the proof of its invariants.
9. `Interrupts`: stubs, dispatchers, both controllers, start-up, and the clock.
10. `Console` against `Terminal`, with the handler's messages in between.
11. `ThreadSwitch` against `Coroutines`: the instructions of the context switch, which
    2 and 4 take as one step.
12. The proof of `VMPool`'s four properties.
13. The proof of `Interrupts`: the stack, the controllers and the clock.
14. The proof of `PageTable`: the depth of the handler's faults, the shared memory, and the
    refinement to `AddressSpace`.
15. The proof of `ThreadSwitch`: what is on every stack at every instruction, and the
    refinement to `Coroutines`.
16. The proof of `Console`: how far it stores, that it shows the text, and the numbers
    it prints.

To come:

1. `BlockingKernel`'s queue as an instance of `ThreadQueue`, so that `LinkedQueue`
   and the kernel compose.

Abstract specifications: `BoundedFIFO`, `RoundRobin`, `FrameAllocator`, `AddressSpace`,
`ThreadQueue`, `Terminal`, `Coroutines`.

## Modules and the code

```
BoundedFIFO <-- ReadyQueue --> FIFOQueue <-- RRScheduler --> RoundRobin
                                                               ^
                         AtaDisk <-- BlockingKernel -----------+
FrameAllocator <-- ContFramePool        ThreadQueue <-- LinkedQueue
AddressSpace   <-- PageTable            Terminal    <-- Console
Coroutines     <-- ThreadSwitch
VMPool             FileSystem           Interrupts
```

An arrow leads to the module that is extended or implemented. The `MC` modules give
TLC its instances; the modules that end in `Proofs` hold theorems.

**FIFOQueue, ReadyQueue, BoundedFIFO.** A queue is a record with the members of the C++
class. Every store of `push` and `pop` is an operator (`StoreTail`, `SetTail`, `Grow`;
`FirstItem`, `AdvanceHead`, `Shrink`) and `Push` and `Pop` compose them. `ReadyQueue`
calls the two methods in any order, from any initial contents of the array, which
the constructor does not write. `BoundedFIFO` is a sequence of at most `Slots - 1`
pointers; `Contents` is what the array stands for.

**RRScheduler.** One actor per thread, and `main` as the actor `Null`, the value of
`current_thread` before the first dispatch. `pc` is the place of each actor; one
action is one store of `push` or `pop`, or one call. `iflag` is the processor's
interrupt flag and `saved` that of each context; `handler` holds the actors with the
frame of a timer interrupt on their stacks and `inService` says that the controller
waits for the end-of-interrupt. `SwitchTo` is `threads_low_switch_to` with what the
resumed stack does next: a preempted thread sends the end-of-interrupt and turns
interrupts on by `iret`; a thread that yielded gets its flag back; one that starts
runs `thread_start`, with interrupts off. `Tick` and `EndOfQuantum` are the timer
handler; it runs with interrupts off and is one action. `Preemptible` says in which
code a quantum may end: start-up, thread code (with `thread_start`, `terminate` up to its
`yield`, and `resume` before it looks at the queue), `resume`, `yield`. A run can so ask
what holds under the preemption the code permits, and what would hold without it.

**ThreadSwitch, Coroutines.** `stack` holds the words of the boot stack and of each
thread's, a word being what was pushed and its value; `esp` is a stack and a cell of
it. `InitialWords` is what `setup_context` pushes. Each instruction of
`threads_low_switch_to` is an action of its name (`PushState` and `Restore` are the
macros `save_registers` and `restore_registers`), `Tick` is the processor and the stub
up to the handler, `LeaveHandler` the stub after it. `Call` is `dispatch_to`, called by
`main`, `yield`, the end of a quantum and `thread_shutdown`. Words that are taken off a
stack are dropped, but those below the pointer that the switch itself puts there stay
until an interrupt overwrites them. In `Coroutines` an actor that gives up the processor
leaves its place, registers and stack, and the next takes up its own; `left` records
what was left at the call and stands for the live state during the instructions.

**RoundRobin.** A running thread and a sequence of ready ones; the CPU goes to the
first, and the thread that had it goes to the end or, if it terminates, away.

**BlockingKernel, AtaDisk.** The same for P5. As `resume` turns interrupts off and
nothing turns them on before the switch, `resume` is one action and `yield`
another, with the timer possible before each. `IssueBlock`/`IssueCommand` are the two
halves of `issue_operation`, `Poll`, `Wait` and `Move` the loop of
`wait_until_ready` and that over the words. `AtaDisk` is the controller as the driver
uses it: block register, command, a busy and a ready state, a data port that moves
the words of the command given last. It is external to the repository.

**ContFramePool, FrameAllocator.** The state of every frame (`FREE`, `ALLOCATED`,
`HEAD`), the counters and the list of pools. `GetFrames` takes the first run of free
frames; `ScanLoop` and `WalkLoop` are the code's two loops as they run, and
`LoopsCompute` checks that they compute what the actions use. `granted` records what
callers hold: a caller releases only what it got, and once. The scan's count is below
the request, as the code asserts. The methods are one
action each, because their callers have interrupts off or run at start-up.
`FrameAllocator` hands out runs that do not overlap and takes back exactly one of
them.

**VMPool.** The records of each pool, the page table's list of pools, and `held`, what
clients have. Addresses wrap around at `Space`. `Release` marks the first record
whose range contains the address by 0/0, as the code does, and `hung` is the loop in
`free_page` that looks at the first pool of the list for ever.

**PageTable, AddressSpace.** Memory is a function from frames to their words, a word is
the frame it is present for or `Absent`. `Translate` is the processor. The handler's
activations are a stack: `Fault` pushes one, `NewTable`, `ClearTable` and `MapPage` are
the stores of `handle_fault`, each of which may fault again, since the loop that
clears a table uses the table's frame number times 4096 as if it were not paged.
`FreePage` is the store of `free_page` with the byte offset as its index. In
`AddressSpace` a page gets a frame no page had before and keeps it until it is freed.

**LinkedQueue, ThreadQueue.** `val` and `next` are the members of the nodes by address,
`start_address` is `MemPool`'s: operator `new` moves it on and operator `delete` does
nothing. `NewObject` is whatever else the kernel allocates in between. `chain`, the
nodes from `head` to `tail`, is kept beside the pointers for the walk of `remove` and
for the properties; `Linked` says that it is what the pointers say. In `ThreadQueue`
threads leave in the order they came, and one can be taken out of the middle.

**FileSystem.** One action per access to the disk: `Probe`, `Reread` and `Mark` are
`get_block`, `ReadInode` and `WriteInode` the rest of `CreateFile`, `FormatBlock` and
`FormatFirst` those of `Format`. `Restart` may come between any two and leaves the disk
only. `disk_buf` is the one buffer all accesses share. Of a block the model keeps the
words that code reads: `free` (1 when in use), the id of an inode and its size, which is
the number of files for block 0. `granted` collects what `get_block` handed out.

**Interrupts.** `stack` holds the words an entry pushes: flags, segment, return address
and, for some exceptions, an error code by the processor; a second error code or none,
the number, the registers and a pointer by the stub. `StubOut` takes off what
`idt_low.asm` takes off, and `iret` resets the machine unless it finds a return address
and flags. `Accept` is the pair of controllers (external): a line in service holds back
itself and the ones behind it until `AnswerSlave` and `AnswerMaster`. `Boot` is P2's
start-up in its order; page faults occur from the moment paging is on, inside the
handler of page faults too. `Current`, `CurrentEnd` and the `Wait` actions are the two
reads of the clock and the loop on them, `Tick` the handler that may come in between.

**Console, Terminal.** `putch` and `scroll` are cut wherever the compiled code reads or
writes `csr_x` or `csr_y`; the makefiles do not ask for optimisation, and `gcc -m32 -O0`
gives these accesses. So a backspace is a test, a read and a write, a printable character
reads the line, then the column, then stores, and the excess `temp` is worked out from a
second read of the line. `reg` is what has been worked out and is not stored yet. `memcpy`
is cut at the rows, `memsetw` is one step. `Interrupt` prints a whole message at any point,
since the handler runs with interrupts off. Three variables are history: `start` (the console
when the character was begun), `torn` (a message came in the middle of one) and `slipped`
(one left the cursor at the margin within a backspace). `Terminal` shows the last lines of the text and knows neither
scrolling nor memory. `Numeral` is what `int2str` and `uint2str` make of a number up to
`Largest`: `Rest` its ten divisions, `Digits` the remainders, `Top` where the search
for the first digit ends; `ReadBack` is the number that a string stands for.

Modelling choices that are not the code's: a thread's own code is "calls
`pass_on_CPU`", "uses the disk" or "returns"; the memory of a deleted thread is not
reused; the end of start-up in `BlockingKernel` is taken to come before the first
quantum ends (P5's quantum is 50 ms); in `PageTable` the client begins an access only
while `Headroom` frames are free, because the code maps frame 0 when there are none;
`FileSystem` takes its disk pointer as set, though `Mount` does not set it;
`Interrupts` is P2's kernel with the page table of `updated_VirtualMemory`, because
P2's own never turns paging on.

## Runs

| Run | Instance | Distinct states | Shows |
|---|---|---|---|
| `ReadyQueue` | 4 slots, 2 threads | 1 271 | `ImplementsFIFO` `SizeCounts`: a bounded queue through every wrap-around |
| `RRQuiet` | 3 threads, 4 slots, quantum 2, quanta end in thread code only | 7 089 | `ImplementsRoundRobin` `EoiOwed` `NoAbort` `MaskedOnlyToStart` `EveryThreadRuns` `TimerNeverDies`: the scheduler's design is right when its critical sections are not preempted and threads yield |
| `RRMutualExclusion` | 3 threads, 6 slots, quantum 2, quanta end in thread code and in `yield` | violation | `NoThreadLost` fails |
| `FramePools` | pools of 2 and 4 adjacent frames, requests up to 3 | 5 897 | `ImplementsAllocator` `FreeCount` `ChainComplete` `LoopsCompute`: the bitmap is an allocator of runs, and the loops compute the runs |
| `DiskOneUser` | 3 threads, one uses the disk, 2 blocks of 2 words, quantum 2 | 3 464 | `EachThreadOnce` `OwnBlock` `OperationEnds` `EveryThreadRuns` `ImplementsRoundRobin`: waiting for the disk and quanta together are a round robin, and a lone user of the disk gets its block |
| `ThreadSwitch` | 2 threads, stacks of 30 words, 2 values of a register | 589 760 | `ImplementsCoroutines` `NothingLeft`: with interrupts off the instructions are a switch, and nothing stays on a stack |
| `VMRelease` | two pools, pages of 2 in 64 addresses, 4 records | 33 421 | `SoundUntilRelease` `HeldIsLegitimate` `ReleaseKeepsOthers` `HangsOnlyBehindFirst`: until the first release regions do not overlap; what survives one |
| `PagingQuiet` | 6 words a frame, 14 pool frames, 7 of them free at each access, 3 pages in two tables, first page of each table freed | 3 107 | `ImplementsAddressSpace` `FaultsEnd` `ShallowNesting` `SharedMemoryUntouched`: each page has a frame of its own, and the handler's own faults end |
| `LinkedQueue` | 2 threads, nodes of 2 bytes, other objects of 3, memory of 17 bytes | 357 332 | `ImplementsQueue` `Linked`: the pointers are one list and do what a queue does |
| `FileSystem` | 4 blocks of which `Format` clears 3, 3 ids, 3 files | 392 846 | `GrantedOnce` `TableSound` `HungOnlyWhenFull` `CallsEnd`: through every restart, on every disk that was not formatted |
| `Console` | a screen of 3 by 3, tabs of 2, numbers of 2 digits in base 3, one message, a backspace at most 3 left of the margin | 862 580 | `ShowsText` `WithinReach` `NumbersRead`: text and reach with a message between any two accesses to the cursor |
| `Interrupts` | lines 0 and 8, exceptions 0 and 14, 2 ticks a second, 4 ticks, 3 nested faults | 245 528 | `BackInMain` `ClockReading` `TimerServed`: every nest of interrupts and faults is undone and answered |

**Why the bounds are enough.** Three threads are the fewest with a running thread and
a queue in which order matters; with 4 slots the ring of 3 is filled by them and
wraps around. A quantum of 2 has both kinds of tick. `RRMutualExclusion` has 6 slots, so that
no array is full in its trace. Frame pools need a run next to
another, a run at the pool's end, a request longer than the free run before it and
an adjacent pool whose frames a walk could run into: four frames and two do. VM
pools need a second pool, a region of one page and of two, and a record behind a
released one; the last address of a released record wraps around at 64. Frames of six words give one table of
shared memory, the tables for the addresses of the pool's frames, two tables of the
client and the recursive entry; the pool reaches into a third table's range, so the
handler's deepest nesting (four) occurs. Memory up to address 26 holds the two
first nodes of the linked queue and six more, or fewer with other objects between
them, so that `remove` finds a thread first, in the middle and last, and a thread that
is in the queue twice. Of four blocks of the disk one keeps what was there before
`Format`, one is the file table's and two can be files', and the search runs off the
end. Three lines of three characters are scrolled by one; with a message between
the step of the cursor and the test by two, and between the test and the second read of the
line by none; two digits give numbers with and without
leading zeros. The deepest use of a stack is 18 words, an interrupt with the switch inside; the
other 12 of 30 are for an interrupt within a switch between threads, which occurs in the
mutant only. Line 0 is the first controller's and line 8 the second's; exception
0 has no error code and 14 has one; four ticks are two seconds.

`Hz`/`Quantum` bounds the tick counter of the schedulers, `MaxTicks` that of
`Interrupts`, `MaxNesting` its nested faults, `MaxRegions` the records (the code has
room for 512), `MaxAddress` the memory of the linked queue, `MaxSlip` how far left of the margin a
backspace begins (only a slip takes the cursor there, and one more goes further) and `MaxFiles` the file table,
neither of which the code bounds; all other state is finite by itself.
`CHECK_DEADLOCK FALSE` is given where the code may really stop: a failed
assertion with interrupts off, a hung `free_page` or the record bound, a pool of
frames or the memory used up.

**Mutants.** Definitions whose comments say "Mutant of" are plausible errors in the code.
Each property of a passing run has one that breaks it.

## Fairness

* `PreemptiveSpec` (`RRScheduler`): weak fairness of the code that has the CPU, of the
  scheduler's and start-up steps, and of the timer while it can be delivered.
  Nothing is assumed of the threads. `CooperativeSpec` adds that thread functions
  get to `pass_on_CPU` or return, as every loop in P4's `kernel.C` does.
* `FairSpec` (`BlockingKernel`): an actor that has the CPU again and again executes
  what it is at. This is strong fairness per actor, since a preemption disables the
  step; a quantum is thousands of instructions. The same for reaching
  `pass_on_CPU`, which the thread functions do after each round of disk use. The
  timer and the disk's completion are weakly fair.
* `FairSpec` (`PageTable`): the processor executes the instructions of an access and of
  the handler. The client may stop.

* `FairSpec` (`FileSystem`): an access to the disk ends, which `OperationEnds` of
  `BlockingKernel` shows. The client may stop, and power may fail.
* `FairSpec` (`Interrupts`): the processor executes start-up and handlers (weak
  fairness). A pending interrupt is taken at the next boundary of two instructions with
  interrupts on; as each fault and each other interrupt disables the step for a while,
  this is strong fairness of `Accept(0)`. The highest line is the timer's, so nothing
  waits before it.

With `PreemptiveSpec` in place of `CooperativeSpec` and no thread that terminates,
`EveryThreadRuns` of `RRScheduler` fails (see [findings](#findings)): the threads there are free to compute for
ever, which is what preemption is for.

## Proofs

TLAPS checks all of these, for every value of the constants that satisfies the named
assumptions of the modules (`SlotsAssumption`, `ThreadsAssumption`, `HzAssumption`,
`PreemptibleAssumption`, `QuantumAssumption`, `WordsAssumption`,
`LayoutAssumption`, `RequestAssumption`, `LinkedAssumption`, `DiskAssumption`,
`LinesAssumption`, `PoolAssumption`, `StackAssumption`, `ConsoleAssumption`,
`NumbersAssumption`, which TLC evaluates in the runs).

| Module | Theorems | Inductive invariant |
|---|---|---|
| `RRSchedulerProofs` | of the ready queue: `QueueTypeCorrect`, `QueueSizeCorrect`, `QueueRefinement` to `BoundedFIFO` | the two invariants themselves |
| | of the scheduler: `TypeCorrect`, `EoiCorrect`, `MaskedCorrect` | `MainOK`, `OneOwes`, `MaskOK` |
| | assuming `KernelSetup`, until `disturbed`: `NoAssertionFails`, `TakesTurns` (to `RoundRobin`) | `RunOK`, `BootOK`, `PlacesOK`, `StartOK`, `EndOK` |
| `BlockingKernelProofs` | of the kernel: `TypeCorrect`, `QueueCorrect`, `MutualExclusion`, `Refinement` to `RoundRobin` | nine conjuncts, below |
| | assuming `OneUser`: `OwnBlockCorrect` | with `DiskOK` |
| | of its queue, pointer by pointer: `LinkedCorrect`, `QueueRefinement` to `ThreadQueue` | types and `Linked` |
| `ContFramePoolProofs` | `TypeCorrect`, `FreeCountCorrect`, `NoOrphans`, `GrantedSafe`, `LoopsAreRight`, `Refinement` to `FrameAllocator` | with `ListOK`, `GrantedOpened` |
| | assuming `TwoPools`: `ChainIsComplete` | with `ChainOK` |
| `VMPoolProofs` | assuming `Spacious`: `HeldAddressesKnown`, `SoundBeforeRelease`, `OthersStay`, `FirstPoolEnds` | `LengthsOK`, `RecordsOK`, `OrderOK`, `UnmarkedOK`, `HeldOK` |
| `FileSystemProofs` | `GrantedCorrect`, `TableCorrect`, `HungCorrect` | nine conjuncts, below |
| `InterruptsProofs` | assuming `AlignedAccesses`: `TypeCorrect`, `BackInMainCorrect`, `ClockReadingCorrect` | `StackOK`, `BootOK`, `ServiceOK`, `ClockOK` |
| | of the console: `WithinReachCorrect`, `TextCorrect` (to `Terminal`), `NumbersReadCorrect` | `CursorOK`, `TextOK` |
| `PageTableProofs` | assuming `Ordinary`: `NestingShallow`, `MemorySound`, `SharedMemorySafe`, `Refinement` to `AddressSpace` | `TakenOK`, `DirectoryOK`, `FramesOK`, `ClearOK`, `ChainOK`, `DepthOK`, `BudgetOK` |
| `ThreadSwitchProofs` | `NothingLeftCorrect`, `Refinement` to `Coroutines` | `AsleepOK`, `BootOK`, `PlaceOK` |

Some theorems assume more of the constants than the module does, since the property is
false without it; each assumption is one the repository's kernels meet.

* `KernelSetup`: no thread is added twice, the array has room for all (one slot is never
  used), and some thread never returns. P4's `kernel.C` adds three threads after the first
  to an array of 100, and its `fun3` and `fun4` loop for ever. Where quanta end is not
  assumed: `Preemptible` is arbitrary. Instead `Watched` is the specification with a history
  variable, `disturbed`, which the first quantum that ends in start-up, within `push` or in
  `yield` sets. `NoAssertionFails` is `[](disturbed \/ NoAbort)`, and `TakesTurns` that each
  step up to that quantum is one of the round robin, and all of them if it never
  comes. What happens after it is in the findings.
* `OneUser`: one thread uses the disk, which is `thread2` in P5's `kernel.C`.
* `TwoPools`: every `kernel.C` has a kernel and a process pool; `ChainComplete` is false of
  three.
* `Spacious`: from each pool's base to the next, to the end of the address space, and from 0
  to the lowest base there is room for `MaxRegions` regions of the longest request. P3's
  `kernel.C` has its pools at 512 MB and 1 GB, of 256 MB each. The room below the
  lowest base is needed since a pool goes on at address 0 after its last record has been
  marked.
* `AlignedAccesses`: exception 17 does not occur (see the findings for what its stub does).
  No kernel turns the alignment check on, and it is off at the privilege they run at.
* `Ordinary`, in five parts. `ZeroedMemory`: the pool's frames hold no present entries at the
  start, as the emulator's memory does, which is 0. `EnoughFrames`: seven frames are free
  when an access begins, the most that one takes; the code does not see to it, and
  P3's process pool has 6912 frames. `PagesInRange`: the pool's frames, and the pages that are
  touched and freed, are between the shared 4 MB and the last 4 MB of addresses; so is
  P3's pool of 4 MB to 32 MB, and so are its regions, until a release makes `allocate` go
  on at address 0 (see the findings). `FreesHitTables`: the misdirected store of `free_page` is to
  the first word of some page table, not to the directory; in P3's two pools it is for
  each of the first 192 pages. `NoLoneFrame`: among the frames whose numbers have one table,
  there are none or several, but for the pool's first and last frame; P3's pool fills the
  ranges of seven tables, a quarter of one excepted.

* *Ready queue.* The number of pointers between `head` and `tail` is a case split on
  which is ahead; `Wrap` and `Position` replace the remainder by a case distinction,
  and `PushAppends` and `PopTakes` say what the two methods do to the sequence.
* *Preemptive scheduler.* The types are not inductive alone: `Head(toAdd)` needs that
  `main` pushes only while a thread is left to add, and a null `current_thread` must
  not get to `terminate` or `pop`. `MainOK` says where `main` can be. `OneOwes` says that
  the handler frames are one actor's exactly while the interrupt is unanswered;
  a switch either keeps that actor or lets it answer, which is all `SwitchOwes` needs.
  `MaskOK` says of every actor with which flag it will go on: a switch to one that has
  started turns interrupts on. These three hold for every choice of `Preemptible` and after any
  quantum, so they are what survives the missing
  critical sections. Until a quantum disturbs it, `Line` is the sequence that the array and the locals
  of an unfinished `pop` stand for: a thread that `pop` has taken out and that does not
  run yet is still the first. `RunOK` says that `Line` is the abstract `ready`, with the
  running thread behind it once that has resumed itself, that no thread waits twice, that none that waits was deleted or is within the scheduler
  (`Resting`), and that a thread which never returns is among them (`EndOK` keeps it from
  `terminate`). So `pop` always
  finds a thread and `push` a slot. `BootOK` says the same of `main`, `PlacesOK` what
  the locals are good for at each store.
* *Kernel with disk.* That the queue holds each thread once needs that the timer never
  finds the running thread in the queue. This is `CriticalSection`: a thread between
  `resume` and `yield` has the CPU and interrupts off. `LastOK` (the thread that resumed
  itself is the last of the queue), `LeavingOK`, `PlacesOK`, `CurrentOK`, `ToAddOK` and
  `BootOK` say where the other threads can be. With them every step is a turn of the
  round robin or a stutter.
* *Frame pools.* `RunEnd` exists and is unique; marking a free run takes its length off
  the free frames, releasing a run adds it, and neither leaves an allocated frame
  without its head. `ListOK` is needed because `release_frames` only acts on listed
  pools. For the refinement, the sequences of the bitmap before and after a step are
  compared frame by frame (`MarkedTakes`, `ReleasedGivesBack`). The two loops are recursive
  functions. For each there is a function that says what it should return (`RunEnd`,
  `ScanValue`) and satisfies the same equation, so the equation has a solution; that all
  solutions agree is an induction from the end of the pool down, as the least element of
  the set of counterexamples (`Downward`), since the library's induction theorems cannot be used.
* *VM pools.* A record is a mark, or in its pool's own addresses (`High`), or below all
  pools and behind a mark (`Low`). High records follow one another. A release marks the
  first record that contains the address, and a mark contains every address
  (`MarkContainsAll`): if the record that is marked were that of another held region, no mark came
  before it, so it is high and lies before the one to release, which it then cannot
  contain (`FirstIsNotAnothers`). Without a mark all records are high, and each but the first
  is that of a held region (`UnmarkedOK`).

* *Linked queue.* An `EnqueueNode` writes to the node at `tail` and to new memory; that no
  other pointer changes is that nodes do not overlap and `start_address` is behind all
  of them, which is part of `Linked`. `Remove` is the case of the last node and that of
  another. The size of a node and all other requests are arbitrary.
* *File system.* That a block is handed out once needs `Taken` (what was handed out is in
  use on the disk) and `Passed` (so is all that the search went by); `Holding` says what
  `disk_buf` is between reading a block and writing it, `Creating` that nobody took the
  id or the block of the file being created, `Fresh` and `Formatting` that the search
  starts at block 0 of a disk on which nothing is handed out. `Restart` keeps each of
  them, as they only speak of the disk, of `granted` and of places it leaves.
* *Interrupts.* The stack is cut into frames of seven words, the three or four the processor
  pushes, the one or two of the stub, and the registers and the pointer: `StackOK` says that
  all frames are complete but the one being entered, that the first returns to `main`
  with interrupts on, and that every other returns into the handler of page faults with
  interrupts off (`Nest`). So only the first frame can be an interrupt's. `ServiceOK` then says
  that the line in service is the number in the current frame until it is answered, at
  both controllers; `BootOK` that no gate is missing when interrupts come, and none of an
  exception before. `StubOut` undoes a frame since what `StubPushes` adds makes up for what
  the processor did not push (`EnterStep`, `StubInStep`, `StubOutStep`). `ClockOK` speaks of
  where `main` is, which during an interrupt is the third word of the stack: between the
  two reads, the seconds already read are at most those counted, and more than those of the call
  less one.
* *Console.* A message that comes in the middle of a character moves the cursor, but
  `Put` brings it back to the screen from wherever an access of `putch` leaves it: at most one tab or
  character behind the line, or on the line behind the last one (`NearScreen`, `PutFacts`).
  `CursorOK` says at which statement it can be where, and `RegOK` that what has been worked
  out is within reach when it is stored, whatever was printed since; a column of -1 is
  possible only once `slipped`. The cell stored to then is in the
  line behind the screen at the furthest (`StoredCell`), which needs a tab to be no longer than a
  line. For the text, `Screen` is the terminal that the memory stands for, and `PutShown` that
  `Put` does to it what the terminal does with the character; the lines behind the cursor's must be
  blank (`Sound`), since a new line shows them. `TextOK` says how far each statement
  has come from `start` to `Put(start, char)`, with `PartMoved` for a screen of which some rows
  have moved; a message within a character sets `torn` and ends the claim. The screens
  that `puts` goes through satisfy the equation by which `Terminal` shows a string, so that they are those
  (`PutsShown`). For numbers, `Rest` and `ReadBack` are recursive functions; that such a function
  exists, and what it returns, is an induction upwards as the least counterexample
  (`Upward`). Each digit takes back one division (`DigitsFacts`), and what is left after the last one
  is 0 for the largest number, hence for all (`DivisionMonotonic`).

* *Paging.* `MemoryOK` is that a page is a place in one table and a table one in the
  directory, so that nothing is at two places; the stores are of three kinds (`TableAdded`,
  `PageMapped`, `EntryCleared`), each with the lemma of what it does to the translation of every
  page. The loop over a new table clears the frame that has just been mapped at the table's
  number, and that frame has not been written to since power-on (`ClearOK`), so it changes
  nothing (`ClearedIsClear`). For the depth, `ChainOK` says that each activation is for the
  page with the number of the table before it. Frames are taken from the lowest up
  (`TakenOK`), so where a new table's own page has no table yet, nothing later has been taken
  (`DepthOK`); the second table is then the next frame of the pool after the first.
  If the third activation needs a table as well, the second one is the first frame in its
  table's range, so that by `NoLoneFrame` the third table is in the same range and its page
  has a table (`ThirdTable`): the fourth activation only maps a page. `BudgetOK` counts
  what the access can still take, at most seven, so that `get_frames` never returns 0.
* *Context switch.* `AsleepOK` says that a thread which is ready and not on the processor
  has on its stack what it had when it called (`Resumable`) and, under that, the words that
  `restore` and `iret` take off, at the cells below which `saved` points (`Suspended`).
  `PlaceOK` says the same in parts for the caller: `Leaving` has one line for each
  instruction up to the change of stacks, with the cell that `esp` is at and the words
  that are in place by then, two of them below `esp` for a while, so that it needs
  interrupts off; `Entering` the two instructions behind it. Code that runs has on
  its stack what `CodeWords` lists for its place, an interrupt's nine words among it.
  The boot stack is a case of its own: `main` switches once, with interrupts on, and a
  tick that comes in between leaves the words above it as they were (`Main`). Eighteen words are
  the most that a stack holds, so `StackAssumption` is what keeps every push inside it.

Only model-checked: all liveness (`EveryThreadRuns`, `TimerNeverDies`, `OperationEnds`,
`FaultsEnd`, `CallsEnd`, `TimerServed`), which needs fairness and `ENABLED`. Every invariant and
every action property or refinement of a passing run is a theorem, some under the assumptions above.
`TypeCorrect`, `MutualExclusion`, `NoOrphans` and `GrantedSafe` state invariants that no run repeats, since the proof says
more; `EoiCorrect` and `MaskedCorrect` hold for every `Preemptible`, the runs of these
properties are that of `RRQuiet`.

## Findings

One run shows the code at odds with what its own comment says. `RRMutualExclusion`:
`yield` pops with interrupts on (`scheduler.C:57` has the disable call commented out,
under the comment of lines 54-56 that asks for it). A thread in `yield` has read the
head when its quantum ends, and the `yield` of the timer's handler pops the same entry. When the
thread goes on, it advances the head over the next entry and dispatches the thread it had
read a second time; the thread whose entry was skipped is nowhere.

Other divergences met while modelling have no run of their own; where a property and a
change of an instance are named, TLC shows the property violated under it.

Schedulers and dispatch:

* The same missing call lets interrupts into `threads_low_switch_to`
  (`P4_Scheduler/threads_low.asm:83-108`). One overwrites the words kept below the stack
  pointer; one that ends a quantum between the stores of `current_thread` and of the
  stack pointer saves the old stack as the new thread's: `ImplementsCoroutines` of
  `ThreadSwitch` with `DisabledNot` for `Disabled`.
* Nothing keeps a second thread from giving the disk controller a command while the first
  waits (`simple_disk.C:78`), though the comment above `read` says that it copies "the given
  block"; the first then moves the words of another block: `OwnBlock` of
  `BlockingKernel` with two threads in `Users`.
* The handler switches before the end-of-interrupt (`updated_scheduler/simple_timer.C:69`).
  If the next thread starts fresh, no one sends it, the timer is held back and no other
  thread runs: `EveryThreadRuns` under `PreemptiveSpec` with `Preemptible = {"body"}` and
  `Terminating = {}`.
* A timer interrupt between the `delete` and the `yield` of `terminate` queues the deleted
  thread (`scheduler.C:79`). It is dispatched again and returns from `thread_shutdown` to
  address 0: `pc` becomes `"wild"` with `"yield"` in `Preemptible` and `Terminating = {t1}`.
* A quantum that ends between `resume` and the first store of `pop` in `yield` queues the thread
  a second time (`P4_Scheduler/kernel.C:104`): `ImplementsRoundRobin` with `"yield"` in `Preemptible`.
* One that ends within `push` leaves a `newTail` from before the pushes of the handler; stored
  later, it takes the tail back and entries out of the queue
  (`updated_scheduler/scheduler.H:82`): `NoThreadLost` with `"resume"` in `Preemptible`.
* A quantum that ends in start-up resumes the null thread and the assertion fails
  (`P4_Scheduler/kernel.C:280`): `NoAbort` with `"boot"` in `Preemptible`.
* When the last thread returns, `yield` finds no other and its assertion fails: `NoAbort`
  with every thread in `Terminating`.
* In P5, threads that only ever yield never turn interrupts on again
  (`P5_DiskRead&write/scheduler.C:51`); the timer then stops, though the threads go on.
* `remove` deletes a node and goes on using it (`queue.H:121`), harmless only because
  `release` of the memory pool is empty.
* `wait` says it waits (`simple_timer.C:89`), but its loop compares the ticks too and
  ends at once unless a second passes between the two reads (`WaitTicks`).
* The processor pushes an error code for exception 17 and so does its stub
  (`idt_low.asm`); it cannot occur at the privilege the kernels run at.

Frames, memory and paging:

* A third frame pool takes the second one's place in the list, as `tail` does not move
  (`cont_frame_pool.C:178`): `ChainComplete` with three pools.
* A frame released twice is counted twice (`cont_frame_pool.C:259`): `FreeCount` without
  the guard that callers release what they hold.
* A released record contains every address (`vm_pool.C:116`), so that `is_legitimate`
  accepts all of them; `allocate` goes on where the last record ends, which after a
  release is address 0, and regions overlap: `NoSharing` of `VMPool`. Neither the
  pool's size nor the 512 records are checked (`vm_pool.C:77-85`); `free_page` never gets to the second pool (`page_table.C:136`).
* `free_page` indexes the table by the byte offset (`page_table.C:147`), though
  `page_table.H` says that it marks the page invalid. Only the first page of a table is
  unmapped; for any other the page stays mapped and a word elsewhere is written, which may
  be of shared memory: `SharedMemoryUntouched` with `FreedPages = {19}`. The first release
  of P3's `kernel.C` is of such a page.
* `handle_fault` clears a new table through its frame number as an address
  (`page_table.C:114`): it clears another frame, and old words stay in the table. With
  words other than `Absent` in `PowerOn`, `ImplementsAddressSpace` fails.
* `get_frames` returns 0 when the pool is used up and the handler maps frame 0
  (`page_table.C:99`): `ImplementsAddressSpace` and `SharedMemoryUntouched` with
  `Headroom = 0`. No freed page's frame is
  returned (`page_table.C:150`), and `release` frees the first page of a region only
  (`vm_pool.C:107`).
* P3's `main` constructs the VM pools, whose constructor touches their memory, before
  it registers the page-fault handler (`P3_VirtualMemory/kernel.C:157-170`), and its
  first `allocate` reads the record before the first (`P3_VirtualMemory/vm_pool.C:42`).
* In P2 and P3, `frame_pool.C`'s free function `range` reads variables of the file, which
  stay 0, instead of the members: every `mark_inaccessible` and every `release_frame`
  fails, and the bit that would be cleared is that of the absolute frame number
  (lines 88-99). The kernel pool's first frame handed out is the one that holds its own
  bitmap, and the process pool uses it for its bitmap. `page_table.C:57,66` set bit 27
  of CR0, so that paging stays off.

File system and console:

* `DeleteFile` does nothing for a file that exists and takes a block for one that does
  not, the reverse of its comment (`file_system.C`); `Format` always returns false.
* `Mount` never sets the disk. It takes over a number of files, but not the files: the first
  block of a disk this code wrote says 0, one with another number makes its loop run over
  the table.
* `LookupFile` looks at one file more than there are, so that id 0 exists in memory nobody
  has written to; `CreateFile` does not compare with `MAX_FILES` (`file_system.C:236`).
* Writes of more than 500 bytes go through the null pointer `block_nums`.
* A backspace tests `csr_x` and then decrements it (`console.C:134`). If a message that ends in
  a new line comes in between, `csr_x` is left at -1, and a character printed then goes to
  the line above, or, after enough backspaces more, in front of the screen: `WithinReach`
  without its condition on `slipped`.
* `scroll` tests `csr_y` and reads it again for `temp` (`console.C:73`, `77`). A message in
  between has scrolled already, so `temp` is 0, no row moves and `memsetw` blanks the line behind
  the screen; `WithinReach` allows that line.
* A message in the middle of a character can leave the cursor two lines below the screen.
  The store there is behind the screen's memory, and scrolling by two blanks one line only
  (`console.C`, `scroll`): `ShowsText` promises the text only until a message tears a
  character.
* `int2str` of a negative number adds negative remainders to '0' and prints other
  characters than digits.

## What is not modelled

* *Older frame pools, page tables and VM pools* (P1, P2, P3): superseded by
  `updated_VirtualMemory` and not in working order (see findings); P1's pool does not
  compile. Their boot order, handlers and dispatch are those of `Interrupts`.
* *File contents*: a file never has blocks, so that reads and writes of up to 500 bytes
  return at once. The file system is not built in (`_USES_FILESYSTEM_` is commented
  out). Its calls are one thread's; two users of the disk are among the findings.
* *The switch as one step*: `RRScheduler` and `BlockingKernel` take it so. `ThreadSwitch`
  shows that this is right with interrupts off, as in P5; with them on, as in
  `updated_scheduler`, it is not, and the run that allows preemption in the scheduler
  loses threads even so. `ThreadSwitch` has no interrupt controller: a tick may come
  whenever interrupts are on.
* *Copies*: console, utilities, dispatchers, stubs and start-up are repeated, mostly to the
  byte, in all five directories, and are modelled once; P4's own queue, timer and
  `thread.C` are replaced by `updated_scheduler`. Most of `start.asm` is an older copy of the
  stubs under `%ifdef _NO_DEF_`, which is never defined.
* *The TLB*: `free_page` reloads CR3 and the handler only maps what was absent.
  *Protection faults*: the handler prints and returns.
* *Descriptor tables and ports*: constants written before `main`; of the interrupt
  descriptor table, `Interrupts` has which gates are set. Colours and the hardware cursor
  of the console. A failed assertion is modelled where it stops the kernel (`"abort"`).
* *Instructions*: a C++ statement that stores to shared state is atomic, which holds on
  one processor for the word-sized stores modelled here. `size++` is taken as one
  step as well; the compiler makes it one read-modify-write instruction or several,
  and no property of the preempted scheduler relies on `size`. In `Console`, where such
  an update of the cursor matters, it is cut into its read and its write.
