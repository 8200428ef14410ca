------------------------------ MODULE Interrupts ------------------------------
(***************************************************************************)
(* Interrupts and exceptions in a kernel without threads, P2's with the    *)
(* page table of updated_VirtualMemory: start-up, the gates and stubs, the *)
(* two dispatchers with their tables of handlers, the end-of-interrupt,    *)
(* and the clock that main reads while the timer's handler counts.         *)
(*                                                                         *)
(* The processor and the pair of interrupt controllers are external.  All  *)
(* gates are interrupt gates: handlers run with interrupts off, and only   *)
(* main, or a handler that faults itself, can be interrupted.  The stack   *)
(* is the sequence of the words that entry and stub push and the way back  *)
(* must take off: a word has a kind and, where it is used, a value.        *)
(*                                                                         *)
(* elapsed is an auxiliary variable: the ticks the handler has counted.    *)
(***************************************************************************)
EXTENDS Integers, Sequences, FiniteSets

CONSTANTS
    Lines,          \* interrupt lines that are used, 0 the timer's, of 0 .. 15
    Faults,         \* exceptions the code may raise
    Hz,             \* ticks that make a second
    MaxTicks,       \* bound on the ticks of a run
    MaxNesting      \* bound on the activations of a fault handler

IRQ_BASE == 32
DivideError == 0   PageFault == 14
Exceptions == 0 .. IRQ_BASE - 1
Slave == 2          \* the master's line that the slave is connected to

ASSUME LinesAssumption ==
    /\ Lines \subseteq 0 .. 15 /\ Slave \notin Lines /\ 0 \in Lines
    /\ Faults \subseteq Exceptions
    /\ Hz \in Nat \ {0} /\ MaxTicks \in Nat /\ MaxNesting \in Nat

VARIABLES
    pc,                     \* what the processor is doing
    vector,                 \* the stub it is in, when pc is "stub"
    stack, iflag,           \* the stack, which grows to the right, and the flag
    gates,                  \* vectors with an entry in the descriptor table
    exception_table,        \* exceptions with a handler
    interrupt_table,        \* lines with a handler
    remapped, paging,
    requests, inMaster, inSlave,    \* the controllers: requested, in service
    seconds, ticks, elapsed,
    now,                    \* what current has read
    then_seconds,           \* of wait
    began                   \* elapsed when current was called

tables == <<gates, exception_table, interrupt_table, remapped, paging>>
controllers == <<requests, inMaster, inSlave>>
clock == <<seconds, ticks, elapsed>>
caller == <<now, then_seconds, began>>
processor == <<vector, stack, iflag>>
vars == <<pc, processor, tables, controllers, clock, caller>>

Init ==
    /\ pc = "idt" /\ vector = 0 /\ stack = <<>> /\ iflag = FALSE
    /\ gates = {} /\ exception_table = {} /\ interrupt_table = {}
    /\ remapped = FALSE /\ paging = FALSE
    /\ requests = {} /\ inMaster = {} /\ inSlave = {}
    /\ seconds = 0 /\ ticks = 0 /\ elapsed = 0
    /\ now = [seconds |-> 0, ticks |-> 0] /\ then_seconds = 0 /\ began = 0

-----------------------------------------------------------------------------
(* Start-up: main up to enable_interrupts. *)

Startup(from, to) ==
    /\ pc = from /\ pc' = to
    /\ UNCHANGED <<vector, stack, controllers, clock, caller>>

InitIDT ==
    /\ Startup("idt", "exceptions")
    /\ gates' = {}
    /\ UNCHANGED <<iflag, exception_table, interrupt_table, remapped, paging>>

InitExceptions ==
    /\ Startup("exceptions", "irq")
    /\ gates' = gates \cup Exceptions
    /\ exception_table' = {}
    /\ UNCHANGED <<iflag, interrupt_table, remapped, paging>>

InitIRQ ==
    /\ Startup("irq", "interrupts")
    /\ remapped' = TRUE
    /\ UNCHANGED <<iflag, gates, exception_table, interrupt_table, paging>>

InitInterrupts ==
    /\ Startup("interrupts", "handlers")
    /\ gates' = gates \cup {IRQ_BASE + l : l \in 0 .. 15}
    /\ interrupt_table' = {}
    /\ UNCHANGED <<iflag, exception_table, remapped, paging>>

\* The handlers of exceptions 0 and 14, the frame pools in between.
RegisterExceptions ==
    /\ Startup("handlers", "paging")
    /\ exception_table' = exception_table \cup {DivideError, PageFault}
    /\ UNCHANGED <<iflag, gates, interrupt_table, remapped, paging>>

EnablePaging ==
    /\ Startup("paging", "timer")
    /\ paging' = TRUE
    /\ UNCHANGED <<iflag, gates, exception_table, interrupt_table, remapped>>

RegisterTimer ==
    /\ Startup("timer", "enable")
    /\ interrupt_table' = interrupt_table \cup {0}
    /\ UNCHANGED <<iflag, gates, exception_table, remapped, paging>>

EnableInterrupts ==
    /\ ~iflag
    /\ Startup("enable", "run")
    /\ iflag' = TRUE
    /\ UNCHANGED tables

Boot == InitIDT \/ InitExceptions \/ InitIRQ \/ InitInterrupts \/ RegisterExceptions
          \/ EnablePaging \/ RegisterTimer \/ EnableInterrupts

-----------------------------------------------------------------------------
(* The processor and the controllers. *)

WithErrorCode == {8, 10, 11, 12, 13, 14, 17}

\* A vector without a gate resets the machine.  back is what is done on return.
Enter(v, back) ==
    IF v \notin gates
    THEN pc' = "reset" /\ UNCHANGED processor
    ELSE /\ stack' = stack \o <<[kind |-> "eflags", val |-> iflag],
                                [kind |-> "cs", val |-> 0], [kind |-> "eip", val |-> back]>>
                           \o (IF v \in WithErrorCode
                               THEN <<[kind |-> "error", val |-> 0]>> ELSE <<>>)
         /\ iflag' = FALSE
         /\ pc' = "stub" /\ vector' = v

Activations == Cardinality({k \in 1 .. Len(stack) : stack[k].kind = "eip"})

\* The number of the interrupt or exception, at its place in REGS.
int_no == stack[Len(stack) - 2].val

\* The handler of page faults faults itself where the page with the entry to
\* write is missing, and does not when it repeats the instruction.
Fault(v) ==
    /\ \/ pc = "run"
       \/ pc = "handle" /\ int_no = PageFault
    /\ v = PageFault => paging
    /\ Activations < MaxNesting
    /\ Enter(v, IF pc = "handle" THEN "retry" ELSE pc)
    /\ UNCHANGED <<tables, controllers, clock, caller>>

Raise(l) ==
    /\ l = 0 => elapsed + Cardinality(requests \cap {0}) < MaxTicks
    /\ requests' = requests \cup {l}
    /\ UNCHANGED <<pc, processor, tables, inMaster, inSlave, clock, caller>>

MasterLine(l) == IF l > 7 THEN Slave ELSE l

\* A line comes before another when the master's line is lower, or of two of
\* the slave's the line itself.
Before(l, m) == \/ MasterLine(l) < MasterLine(m)
                \/ MasterLine(l) = MasterLine(m) /\ l < m

Accept(l) ==
    /\ iflag
    /\ l \in requests /\ \A m \in requests : ~Before(m, l)
    /\ \A s \in inMaster : MasterLine(l) < s
    /\ \A s \in inSlave : l > 7 => l < s
    /\ requests' = requests \ {l}
    /\ inMaster' = inMaster \cup {MasterLine(l)}
    /\ inSlave' = IF l > 7 THEN inSlave \cup {l} ELSE inSlave
    /\ Enter(IF remapped THEN IRQ_BASE + l ELSE l + 8, pc)
    /\ UNCHANGED <<tables, clock, caller>>

\* An end-of-interrupt answers the first line in service.
Answered(lines) == {l \in lines : \E m \in lines : m < l}

-----------------------------------------------------------------------------
(* Stubs and dispatchers. *)

\* Mutant of StubPushes: no stub knows of the error code of a page fault.
StubPushesAll(v) == <<[kind |-> "error", val |-> 0], [kind |-> "number", val |-> v]>>

\* The stub pushes an error code for the exceptions that have none, and the number.
StubPushes(v) ==
    (IF v \in {8, 10, 11, 12, 13, 14} THEN <<>> ELSE <<[kind |-> "error", val |-> 0]>>)
      \o <<[kind |-> "number", val |-> v]>>

\* Then the registers, and the pointer to all that.
StubIn ==
    /\ pc = "stub"
    /\ stack' = stack \o StubPushes(vector)
                      \o <<[kind |-> "regs", val |-> 0], [kind |-> "pointer", val |-> 0]>>
    /\ pc' = "dispatch"
    /\ UNCHANGED <<vector, iflag, tables, controllers, clock, caller>>

\* The same words are taken off; iret goes back to what is then on top.
StubOut ==
    /\ pc = "out"
    /\ LET n == Len(stack) - 4 IN
       IF stack[n].kind = "eip" /\ stack[n - 2].kind = "eflags"
       THEN /\ pc' = stack[n].val /\ iflag' = stack[n - 2].val
            /\ stack' = SubSeq(stack, 1, n - 3)
       ELSE pc' = "reset" /\ UNCHANGED <<iflag, stack>>
    /\ UNCHANGED <<vector, tables, controllers, clock, caller>>

Goto(p) == pc' = p /\ UNCHANGED <<processor, tables, clock, caller>>

\* An exception without a handler stops the kernel, one with a handler runs it:
\* the handler of a division by zero never returns.
DispatchException ==
    /\ pc = "dispatch" /\ int_no < IRQ_BASE
    /\ Goto(IF int_no \in exception_table THEN "handle" ELSE "abort")
    /\ UNCHANGED controllers

\* Mutant of DispatchInterrupt: an interrupt without a handler is left at that.
DispatchInterruptReturns ==
    /\ pc = "dispatch" /\ int_no >= IRQ_BASE
    /\ Goto(IF int_no - IRQ_BASE \in interrupt_table THEN "handle" ELSE "out")
    /\ UNCHANGED controllers

\* An interrupt without a handler is answered like any other.
DispatchInterrupt ==
    /\ pc = "dispatch" /\ int_no >= IRQ_BASE
    /\ Goto(IF int_no - IRQ_BASE \in interrupt_table THEN "handle" ELSE "answer")
    /\ UNCHANGED controllers

HandleException ==
    /\ pc \in {"handle", "retry"} /\ int_no < IRQ_BASE
    /\ Goto(IF int_no = DivideError THEN "abort" ELSE "out")
    /\ UNCHANGED controllers

\* Handlers of other lines than the timer's do nothing the kernel knows of.
HandleOther ==
    /\ pc = "handle" /\ int_no > IRQ_BASE
    /\ Goto("answer")
    /\ UNCHANGED controllers

\* SimpleTimer::handle_interrupt.
Tick ==
    /\ pc = "handle" /\ int_no = IRQ_BASE
    /\ IF ticks + 1 >= Hz THEN seconds' = seconds + 1 /\ ticks' = 0
                          ELSE UNCHANGED seconds /\ ticks' = ticks + 1
    /\ elapsed' = elapsed + 1
    /\ pc' = "answer"
    /\ UNCHANGED <<processor, tables, controllers, caller>>

generated_by_slave_PIC(l) == l > 7

\* The end-of-interrupt, to the slave first and always to the master.
AnswerSlave ==
    /\ pc = "answer"
    /\ inSlave' = IF generated_by_slave_PIC(int_no - IRQ_BASE) THEN Answered(inSlave)
                  ELSE inSlave
    /\ Goto("answerMaster")
    /\ UNCHANGED <<requests, inMaster>>

AnswerMaster ==
    /\ pc = "answerMaster"
    /\ inMaster' = Answered(inMaster)
    /\ Goto("out")
    /\ UNCHANGED <<requests, inSlave>>

Handling == StubIn \/ DispatchException \/ DispatchInterrupt \/ HandleException
              \/ HandleOther \/ Tick \/ AnswerSlave \/ AnswerMaster \/ StubOut

-----------------------------------------------------------------------------
(* What main does when the kernel is up. *)

Register(l) ==
    /\ pc = "run"
    /\ interrupt_table' = interrupt_table \cup {l}
    /\ UNCHANGED <<pc, processor, gates, exception_table, remapped, paging,
                   controllers, clock, caller>>

Deregister(l) ==
    /\ pc = "run"
    /\ interrupt_table' = interrupt_table \ {l}
    /\ UNCHANGED <<pc, processor, gates, exception_table, remapped, paging,
                   controllers, clock, caller>>

RegisterException(v) ==
    /\ pc = "run"
    /\ exception_table' = exception_table \cup {v}
    /\ UNCHANGED <<pc, processor, gates, interrupt_table, remapped, paging,
                   controllers, clock, caller>>

DeregisterException(v) ==
    /\ pc = "run"
    /\ exception_table' = exception_table \ {v}
    /\ UNCHANGED <<pc, processor, gates, interrupt_table, remapped, paging,
                   controllers, clock, caller>>

Timer == [seconds |-> seconds, ticks |-> ticks]

\* Mutant of CurrentReads: the other way round.
CurrentReadsTicks == <<"ticks", "seconds">>

\* The order in which current reads the two counters.
CurrentReads == <<"seconds", "ticks">>

Current ==
    /\ pc = "run"
    /\ now' = [now EXCEPT ![CurrentReads[1]] = Timer[CurrentReads[1]]]
    /\ began' = elapsed
    /\ pc' = "current"
    /\ UNCHANGED <<processor, tables, controllers, clock, then_seconds>>

CurrentEnd ==
    /\ pc = "current"
    /\ now' = [now EXCEPT ![CurrentReads[2]] = Timer[CurrentReads[2]]]
    /\ pc' = "read"
    /\ UNCHANGED <<processor, tables, controllers, clock, then_seconds, began>>

\* The caller of current has the time and goes on.
Return ==
    /\ pc = "read"
    /\ Goto("run")
    /\ UNCHANGED controllers

\* Or the caller is wait(s).
Wait(s) ==
    /\ pc = "read"
    /\ pc' = "wait"
    /\ then_seconds' = now.seconds + s
    /\ UNCHANGED <<processor, tables, controllers, clock, now, began>>

\* The loop of wait compares the ticks too, and so ends where it begins unless
\* a second has passed since current read them.
WaitSeconds ==
    /\ pc = "wait"
    /\ Goto(IF seconds <= then_seconds THEN "waitTicks" ELSE "run")
    /\ UNCHANGED controllers

WaitTicks ==
    /\ pc = "waitTicks"
    /\ Goto(IF ticks < now.ticks THEN "wait" ELSE "run")
    /\ UNCHANGED controllers

Main == Current \/ CurrentEnd \/ Return \/ (\E s \in 0 .. 1 : Wait(s)) \/ WaitSeconds \/ WaitTicks

Next ==
    \/ Boot \/ Main \/ Handling
    \/ \E l \in Lines : Raise(l) \/ Accept(l) \/ Register(l) \/ Deregister(l)
    \/ \E v \in Faults : Fault(v) \/ RegisterException(v) \/ DeregisterException(v)

Spec == Init /\ [][Next]_vars

\* The processor executes start-up and handlers, and takes a pending interrupt
\* at the next instruction it would begin with interrupts on, however often it
\* faults in between.
FairSpec == Spec /\ WF_vars(Boot) /\ WF_vars(Handling) /\ SF_vars(Accept(0))

-----------------------------------------------------------------------------
\* Back in main after any nest of interrupts and faults, nothing is left on the
\* stack, every interrupt has been answered at both controllers, and interrupts
\* are on; and the machine is never reset (stubs, dispatch_interrupt).
BackInMain ==
    /\ pc # "reset"
    /\ pc \in {"run", "current", "read", "wait", "waitTicks"} =>
           stack = <<>> /\ iflag /\ inMaster = {} /\ inSlave = {}

\* A reading of the clock is never ahead of the clock, and less than a second
\* behind the time at which it was asked for, though the handler may count on
\* between the reads of seconds and ticks (SimpleTimer::current).
ClockReading ==
    pc = "read" => LET t == now.seconds * Hz + now.ticks
                   IN  t <= elapsed /\ t > began - Hz

\* A tick is served, handler or none, unless an exception stops the kernel.
TimerServed == 0 \in requests ~> 0 \notin requests \/ pc = "abort"
=============================================================================
