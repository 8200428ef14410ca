--------------------------- MODULE BlockingKernel ----------------------------
(***************************************************************************)
(* The kernel of P5_DiskRead&write/: threads on one CPU, a round-robin     *)
(* scheduler that the timer drives too, and a disk whose driver gives up   *)
(* the CPU until the disk is ready.                                        *)
(*                                                                         *)
(* resume and yield turn interrupts off and nothing turns them on again    *)
(* but thread_start and the return from an interrupt.  What they do from   *)
(* then on is one action; the timer may come before it.                    *)
(*                                                                         *)
(* The kernel's start-up is taken to be shorter than a quantum.            *)
(***************************************************************************)
EXTENDS AtaDisk, Sequences, FiniteSets

CONSTANTS
    Thread,       \* the thread control blocks
    Null,         \* the null pointer
    First,        \* the thread main dispatches itself (thread1)
    Added,        \* the threads main adds, in this order (thread2 ...)
    Terminating,  \* the threads whose function may return
    Users,        \* the threads that read and write blocks of the disk
    Quantum       \* timer ticks in a quantum, hz/20 = 5 in the source

ASSUME ThreadsAssumption ==
    /\ First \in Thread /\ Null \notin Thread
    /\ Terminating \subseteq Thread /\ Users \subseteq Thread
    /\ Added \in Seq(Thread \ {First})
    /\ \A i, j \in 1 .. Len(Added) : i # j => Added[i] # Added[j]

ASSUME QuantumAssumption == Quantum \in Nat \ {0}

\* main runs before there is a thread: it is the actor Null.
Actor == Thread \cup {Null}

PC == {"boot", "start", "body", "yield", "command", "poll", "wait", "move",
       "abort", "gone"}

NoJob == [op |-> "READ", block |-> NoBlock]

VARIABLES
    queue,      \* the ready queue
    current,    \* current_thread
    pc,         \* where each actor is, or will go on when it gets the CPU
    toAdd,      \* the threads main has still to add
    leaving,    \* the threads whose function has returned
    iflag,      \* the interrupt flag of the CPU
    handler,    \* the actors with the frame of a timer interrupt on their stack
    inService,  \* the interrupt controller waits for the end of IRQ 0
    ticks,      \* ticks since the last quantum
    job,        \* the operation each thread has called read or write for
    disk        \* the disk

cpuVars  == <<iflag, handler, inService>>
diskVars == <<job, disk>>
vars     == <<queue, current, pc, toAdd, leaving, cpuVars, ticks, diskVars>>

Init ==
    /\ queue = <<>>
    /\ current = Null
    /\ pc = [a \in Actor |-> IF a = Null THEN "boot" ELSE "start"]
    /\ toAdd = Added
    /\ leaving = {}
    /\ iflag = TRUE
    /\ handler = {}
    /\ inService = FALSE
    /\ ticks = 0
    /\ job = [t \in Thread |-> NoJob]
    /\ disk = IdleDisk

Goto(l) == pc' = [pc EXCEPT ![current] = l]

At(l) == pc[current] = l

-----------------------------------------------------------------------------
(* threads_low_switch_to(t), with interrupts off.  "frames" is the set of  *)
(* actors with a timer interrupt on their stack, the caller's included,    *)
(* "service" whether that interrupt is unanswered.  If t was preempted it  *)
(* returns through dispatch_interrupt, which sends the end-of-interrupt,   *)
(* to an iret that turns interrupts on.  Otherwise t yielded, with         *)
(* interrupts off, or it starts, with none of the flags set.               *)

SwitchTo(t, frames, service) ==
    /\ current' = t
    /\ handler' = frames \ {t}
    /\ inService' = (service /\ t \notin frames)
    /\ iflag' = (t \in frames)

\* Mutant of Enqueue: the thread goes to the front.
EnqueueFront(q, t) == <<t>> \o q

Enqueue(q, t) == Append(q, t)

\* Where a thread is after the switch: in read or write it polls the disk again.
AfterYield == IF current \in leaving THEN "gone"
              ELSE IF job[current] # NoJob THEN "poll" ELSE "body"

-----------------------------------------------------------------------------
(* The scheduler.                                                          *)

\* Mutant of Resume: interrupts stay on.
ResumeUnmasked ==
    /\ queue' = Enqueue(queue, current)
    /\ Goto("yield")
    /\ UNCHANGED <<current, toAdd, leaving, cpuVars, ticks, diskVars>>

\* resume(CurrentThread()); the caller goes on to yield().
Resume ==
    /\ iflag' = FALSE
    /\ queue' = Enqueue(queue, current)
    /\ Goto("yield")
    /\ UNCHANGED <<current, toAdd, leaving, handler, inService, ticks, diskVars>>

\* dequeue aborts on an empty queue.
Yield ==
    /\ At("yield")
    /\ IF queue = <<>>
         THEN /\ Goto("abort")
              /\ iflag' = FALSE
              /\ UNCHANGED <<queue, current, handler, inService>>
         ELSE /\ Goto(AfterYield)
              /\ queue' = Tail(queue)
              /\ SwitchTo(Head(queue), handler, inService)
    /\ UNCHANGED <<toAdd, leaving, ticks, diskVars>>

\* thread_start, which enable_interrupts lets run only with interrupts off.
ThreadStart ==
    /\ At("start")
    /\ iflag' = TRUE
    /\ Goto(IF iflag THEN "abort" ELSE "body")
    /\ UNCHANGED <<queue, current, toAdd, leaving, handler, inService, ticks, diskVars>>

PassOnCPU == At("body") /\ Resume

\* Mutant of Return: terminate resumes the thread before it yields.
ReturnResumed ==
    /\ At("body")
    /\ current \in Terminating
    /\ leaving' = leaving \cup {current}
    /\ queue' = Enqueue(queue, current)
    /\ Goto("yield")
    /\ UNCHANGED <<current, toAdd, cpuVars, ticks, diskVars>>

\* The thread function returns into thread_shutdown; terminate just yields.
Return ==
    /\ At("body")
    /\ current \in Terminating
    /\ leaving' = leaving \cup {current}
    /\ Goto("yield")
    /\ UNCHANGED <<queue, current, toAdd, cpuVars, ticks, diskVars>>

BootAdd ==
    /\ At("boot")
    /\ toAdd # <<>>
    /\ queue' = Enqueue(queue, Head(toAdd))
    /\ toAdd' = Tail(toAdd)
    /\ UNCHANGED <<current, pc, leaving, cpuVars, ticks, diskVars>>

BootDispatch ==
    /\ At("boot")
    /\ toAdd = <<>>
    /\ SwitchTo(First, handler, inService)
    /\ UNCHANGED <<queue, pc, toAdd, leaving, ticks, diskVars>>

-----------------------------------------------------------------------------
(* SimpleDisk::read and write, with BlockingDisk's wait_until_ready.       *)

\* issue_operation sets the block number, then gives the command.
IssueBlock(op, b) ==
    /\ At("body")
    /\ current \in Users
    /\ job' = [job EXCEPT ![current] = [op |-> op, block |-> b]]
    /\ disk' = SetBlock(disk, b)
    /\ Goto("command")
    /\ UNCHANGED <<queue, current, toAdd, leaving, cpuVars, ticks>>

IssueCommand ==
    /\ At("command")
    /\ disk' = Command(disk, job[current].op)
    /\ Goto("poll")
    /\ UNCHANGED <<queue, current, toAdd, leaving, cpuVars, ticks, job>>

\* Mutant of Poll: the disk is not asked.
PollNothing ==
    /\ At("poll")
    /\ Goto("move")
    /\ UNCHANGED <<queue, current, toAdd, leaving, cpuVars, ticks, diskVars>>

Poll ==
    /\ At("poll")
    /\ Goto(IF IsReady(disk) THEN "move" ELSE "wait")
    /\ UNCHANGED <<queue, current, toAdd, leaving, cpuVars, ticks, diskVars>>

\* Mutant of Wait: the thread gives up the CPU without resuming itself.
WaitYieldOnly ==
    /\ At("wait")
    /\ iflag' = FALSE
    /\ Goto("yield")
    /\ UNCHANGED <<queue, current, toAdd, leaving, handler, inService, ticks, diskVars>>

Wait == At("wait") /\ Resume

\* One word of the block goes through the data port.
Move ==
    /\ At("move")
    /\ disk' = MoveWord(disk)
    /\ IF disk.left <= 1
         THEN Goto("body") /\ job' = [job EXCEPT ![current] = NoJob]
         ELSE UNCHANGED <<pc, job>>
    /\ UNCHANGED <<queue, current, toAdd, leaving, cpuVars, ticks>>

DiskReady ==
    /\ disk.status = "busy"
    /\ disk' = BecomeReady(disk)
    /\ UNCHANGED <<queue, current, pc, toAdd, leaving, cpuVars, ticks, job>>

-----------------------------------------------------------------------------
(* The timer interrupt.                                                    *)

TimerPending == iflag /\ ~inService

Tick ==
    /\ TimerPending
    /\ ticks + 1 < Quantum
    /\ ticks' = ticks + 1
    /\ UNCHANGED <<queue, current, pc, toAdd, leaving, cpuVars, diskVars>>

\* The tick that ends the quantum: resume(CurrentThread()) and yield().
EndOfQuantum ==
    LET q == Enqueue(queue, current)
    IN  /\ TimerPending
        /\ current # Null
        /\ ticks + 1 >= Quantum
        /\ ticks' = 0
        /\ queue' = Tail(q)
        /\ SwitchTo(Head(q), handler \cup {current}, TRUE)
        /\ UNCHANGED <<pc, toAdd, leaving, diskVars>>

-----------------------------------------------------------------------------
Kernel == \/ Yield \/ ThreadStart \/ BootAdd \/ BootDispatch
          \/ IssueCommand \/ Poll \/ Wait \/ Move

Issue == \E op \in Operation, b \in Block : IssueBlock(op, b)

Give == PassOnCPU \/ Return

Next == Kernel \/ Issue \/ Give \/ DiskReady \/ Tick \/ EndOfQuantum

Spec == Init /\ [][Next]_vars

\* Whoever gets the CPU again and again executes what it is at, as a quantum is
\* far longer than a step; the timer fires as long as it can; a disk operation
\* takes finite time; and the loops of the thread functions reach pass_on_CPU in
\* every round, however much of the disk they use before.
FairSpec == /\ Spec
            /\ \A a \in Actor : SF_vars(current = a /\ Kernel)
            /\ \A t \in Thread : SF_vars(current = t /\ Give)
            /\ WF_vars(Tick \/ EndOfQuantum)
            /\ WF_vars(DiskReady)

-----------------------------------------------------------------------------
\* The members keep their types, and the interrupt flag, the handler frames and
\* the disk registers theirs, in every interleaving with timer and disk.
TypeOK ==
    /\ queue \in Seq(Thread)
    /\ current \in Actor
    /\ pc \in [Actor -> PC]
    /\ toAdd \in Seq(Thread)
    /\ leaving \subseteq Thread
    /\ iflag \in BOOLEAN /\ inService \in BOOLEAN
    /\ handler \subseteq Thread
    /\ ticks \in 0 .. Quantum - 1
    /\ job \in [Thread -> [op : Operation, block : Block \cup {NoBlock}]]
    /\ disk \in Disk

Holds(s, t) == \E i \in 1 .. Len(s) : s[i] = t

Distinct(s) == \A i, j \in 1 .. Len(s) : i # j => s[i] # s[j]

\* t has been passed to resume and not yet left the queue.
Queued(t) ==
    IF current = t THEN pc[t] = "yield" /\ t \notin leaving
    ELSE IF current = Null THEN t # First /\ Holds(Added, t) /\ ~Holds(toAdd, t)
    ELSE pc[t] # "gone" /\ (t = First \/ Holds(Added, t))

\* The queue holds each thread that should be in it once and no other: resume
\* and yield are a critical section, unlike their namesakes in
\* updated_scheduler, and a thread that has terminated is nowhere.
EachThreadOnce ==
    /\ Distinct(queue)
    /\ \A t \in Thread : Holds(queue, t) <=> Queued(t)
    /\ pc[current] # "gone"

\* When a thread moves words, they are those of the block and the operation it
\* asked for, and the disk is ready for them (simple_disk.C, read and write).
OwnBlock ==
    \A t \in Thread : pc[t] = "move" => /\ disk.status = "ready"
                                        /\ disk.op = job[t].op
                                        /\ disk.block = job[t].block

\* Each thread runs again and again, unless its function returns.
EveryThreadRuns == \A t \in Thread : []<>(current = t \/ t \in leaving)

\* A read or write that has been called returns: the poll finds the disk ready.
OperationEnds == \A t \in Thread : job[t] # NoJob ~> job[t] = NoJob

\* What the scheduler stands for: the CPU is passed on when the context is
\* switched, so a thread that has resumed itself does not count as ready yet.
ready == IF current # Null /\ pc[current] = "yield" /\ current \notin leaving
         THEN SubSeq(queue, 1, Len(queue) - 1) ELSE queue

RR == INSTANCE RoundRobin WITH running <- current

\* Whatever mix of voluntary and timed switches and of waits for the disk there
\* is, the threads take turns in the order of a round robin.
ImplementsRoundRobin == RR!Spec
=============================================================================
