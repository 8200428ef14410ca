----------------------------- MODULE RRScheduler -----------------------------
(***************************************************************************)
(* The preemptive round-robin scheduler of updated_scheduler/, started by  *)
(* the kernel main of P4_Scheduler/ on one CPU: main adds the threads and  *)
(* dispatches the first; a thread passes the CPU on, or returns from its   *)
(* function and is terminated; when a quantum is over the timer handler    *)
(* preempts whatever runs.                                                 *)
(*                                                                         *)
(* The calls in scheduler.C to disable and enable interrupts are commented *)
(* out, so the stores of resume and yield are separate actions, with the   *)
(* timer interrupt possible between any two of them.  The timer handler    *)
(* itself runs with interrupts off, to its end or to the context switch.   *)
(***************************************************************************)
EXTENDS FIFOQueue, FiniteSets

CONSTANTS
    First,        \* the thread main dispatches itself (thread1)
    Added,        \* the threads main adds, in this order (thread2 ...)
    Terminating,  \* the threads whose function may return
    Hz,           \* timer ticks in a quantum, 100 in the source
    Preemptible   \* where the timer may end a quantum

ASSUME ThreadsAssumption ==
    /\ First \in Thread /\ Terminating \subseteq Thread
    /\ Added \in Seq(Thread \ {First}) /\ Null \notin Thread

ASSUME HzAssumption == Hz \in Nat \ {0}

(* A quantum may end in main's start-up code, in a thread's own code       *)
(* (thread_start, terminate up to its yield, and the entry of resume       *)
(* included), in resume, in yield; a run names the ones it allows.         *)
ASSUME PreemptibleAssumption == Preemptible \subseteq {"boot", "body", "resume", "yield"}

\* main runs before there is a thread: it is the actor Null, the value of
\* current_thread until the first dispatch.
Actor == Thread \cup {Null}

Pushing  == {"push_test", "push_store", "push_tail", "push_size"}
Popping  == {"pop_test", "pop_item", "pop_head", "pop_size", "dispatch"}

\* "wild" is a terminated thread that was dispatched again: thread_shutdown
\* returns to address 0.
PC == {"boot", "start", "body", "delete", "abort", "wild"} \cup Pushing \cup Popping

VARIABLES
    q,          \* the ready queue
    current,    \* current_thread
    pc,         \* where each actor is, or will go on when it gets the CPU
    newTail,    \* the local variable of push, per actor, 0 after its last use
    item,       \* that of pop and then of yield, Null after its last use
    toAdd,      \* the threads main has still to add
    deleted,    \* the threads terminate has deleted
    iflag,      \* the interrupt flag of the CPU
    saved,      \* the interrupt flag in each saved context
    handler,    \* the actors with the frame of a timer interrupt on their stack
    inService,  \* the interrupt controller waits for the end of IRQ 0
    ticks       \* ticks since the last quantum

queueVars == <<q, newTail, item>>
cpuVars   == <<current, iflag, saved, handler, inService>>
vars      == <<queueVars, cpuVars, pc, toAdd, deleted, ticks>>

Init ==
    /\ q = NewQueue([i \in Index |-> Null])
    /\ current = Null
    /\ pc = [a \in Actor |-> IF a = Null THEN "boot" ELSE "start"]
    /\ newTail = [a \in Actor |-> 0]
    /\ item = [a \in Actor |-> Null]
    /\ toAdd = Added
    /\ deleted = {}
    /\ iflag = TRUE
    /\ saved = [a \in Actor |-> FALSE]
    /\ handler = {}
    /\ inService = FALSE
    /\ ticks = 0

Goto(l) == pc' = [pc EXCEPT ![current] = l]

At(l) == pc[current] = l

-----------------------------------------------------------------------------
\* Mutant of SwitchTo: the return from a handler leaves the interrupts off.
SwitchToMasked(t, frames, service) ==
    /\ current' = t
    /\ handler' = frames \ {t}
    /\ inService' = (service /\ t \notin frames)
    /\ iflag' = saved'[t]

(* threads_low_switch_to(t), called by the current actor.  "frames" is the *)
(* set of actors with a timer interrupt on their stack, the caller's       *)
(* included, "service" whether that interrupt is unanswered.  The caller's *)
(* context has been saved by the action that uses this operator.  If t     *)
(* was preempted, its handler now returns to dispatch_interrupt, which     *)
(* sends the end-of-interrupt, and iret turns the interrupts on again.     *)

SwitchTo(t, frames, service) ==
    /\ current' = t
    /\ handler' = frames \ {t}
    /\ inService' = (service /\ t \notin frames)
    /\ iflag' = (t \in frames \/ saved'[t])

-----------------------------------------------------------------------------
(* FIFOQueue::push, called by resume; main calls it for the thread it      *)
(* adds, a thread for itself.                                              *)

Pushed == IF current = Null THEN Head(toAdd) ELSE current

\* resume asserts that push did not find the queue full.
PushTest ==
    /\ At("push_test")
    /\ newTail' = IF IsFull(q) THEN newTail
                  ELSE [newTail EXCEPT ![current] = After(q.tail)]
    /\ Goto(IF IsFull(q) THEN "abort" ELSE "push_store")
    /\ UNCHANGED <<q, item, cpuVars, toAdd, deleted, ticks>>

PushStore ==
    /\ At("push_store")
    /\ q' = StoreTail(q, Pushed)
    /\ Goto("push_tail")
    /\ UNCHANGED <<newTail, item, cpuVars, toAdd, deleted, ticks>>

PushTail ==
    /\ At("push_tail")
    /\ q' = SetTail(q, newTail[current])
    /\ newTail' = [newTail EXCEPT ![current] = 0]
    /\ Goto("push_size")
    /\ UNCHANGED <<item, cpuVars, toAdd, deleted, ticks>>

\* After resume main goes on with the next thread, a thread calls yield.
PushSize ==
    /\ At("push_size")
    /\ q' = Grow(q)
    /\ toAdd' = IF current = Null THEN Tail(toAdd) ELSE toAdd
    /\ Goto(IF current = Null THEN "boot" ELSE "pop_test")
    /\ UNCHANGED <<newTail, item, cpuVars, deleted, ticks>>

-----------------------------------------------------------------------------
(* FIFOQueue::pop, called by yield, and the dispatch that follows.         *)

\* yield asserts that there was a thread in the queue.
PopTest ==
    /\ At("pop_test")
    /\ Goto(IF IsEmpty(q) THEN "abort" ELSE "pop_item")
    /\ UNCHANGED <<queueVars, cpuVars, toAdd, deleted, ticks>>

PopItem ==
    /\ At("pop_item")
    /\ item' = [item EXCEPT ![current] = FirstItem(q)]
    /\ Goto("pop_head")
    /\ UNCHANGED <<q, newTail, cpuVars, toAdd, deleted, ticks>>

PopHead ==
    /\ At("pop_head")
    /\ q' = AdvanceHead(q)
    /\ Goto("pop_size")
    /\ UNCHANGED <<newTail, item, cpuVars, toAdd, deleted, ticks>>

\* The assertion of yield also fails on a null pointer found in the queue.
PopSize ==
    /\ At("pop_size")
    /\ q' = Shrink(q)
    /\ Goto(IF item[current] = Null THEN "abort" ELSE "dispatch")
    /\ UNCHANGED <<newTail, item, cpuVars, toAdd, deleted, ticks>>

\* A thread that gets the CPU back returns from yield into its own code, or,
\* if it called terminate, into nothing.  main's context is not saved.
Dispatch ==
    /\ At("dispatch")
    /\ saved' = IF current = Null THEN saved
                                  ELSE [saved EXCEPT ![current] = iflag]
    /\ IF current = Null
         THEN UNCHANGED pc
         ELSE Goto(IF current \in deleted THEN "wild" ELSE "body")
    /\ item' = [item EXCEPT ![current] = Null]
    /\ SwitchTo(item[current], handler, inService)
    /\ UNCHANGED <<q, newTail, toAdd, deleted, ticks>>

-----------------------------------------------------------------------------
(* The actors' own code.                                                   *)

\* main calls add for the next thread.
BootAdd ==
    /\ At("boot")
    /\ toAdd # <<>>
    /\ Goto("push_test")
    /\ UNCHANGED <<queueVars, cpuVars, toAdd, deleted, ticks>>

\* main dispatches the first thread itself.
BootDispatch ==
    /\ At("boot")
    /\ toAdd = <<>>
    /\ item' = [item EXCEPT ![current] = First]
    /\ Goto("dispatch")
    /\ UNCHANGED <<q, newTail, cpuVars, toAdd, deleted, ticks>>

\* Mutant of ThreadStart: interrupts are not enabled.
ThreadStartMasked ==
    /\ At("start")
    /\ Goto("body")
    /\ UNCHANGED <<queueVars, cpuVars, toAdd, deleted, ticks>>

\* thread_start, which enable_interrupts lets run only with interrupts off.
ThreadStart ==
    /\ At("start")
    /\ iflag' = TRUE
    /\ Goto(IF iflag THEN "abort" ELSE "body")
    /\ UNCHANGED <<queueVars, current, saved, handler, inService, toAdd, deleted, ticks>>

\* Mutant of PassOnCPU: the thread yields without resuming itself.
PassOnCPUYieldOnly ==
    /\ At("body")
    /\ Goto("pop_test")
    /\ UNCHANGED <<queueVars, cpuVars, toAdd, deleted, ticks>>

\* pass_on_CPU: resume the thread itself, then yield.
PassOnCPU ==
    /\ At("body")
    /\ Goto("push_test")
    /\ UNCHANGED <<queueVars, cpuVars, toAdd, deleted, ticks>>

\* The thread function returns into thread_shutdown, which calls terminate.
Return ==
    /\ At("body")
    /\ current \in Terminating
    /\ Goto("delete")
    /\ UNCHANGED <<queueVars, cpuVars, toAdd, deleted, ticks>>

\* terminate deletes the thread before it yields; the memory is not reused.
Delete ==
    /\ At("delete")
    /\ deleted' = deleted \cup {current}
    /\ Goto("pop_test")
    /\ UNCHANGED <<queueVars, cpuVars, toAdd, ticks>>

-----------------------------------------------------------------------------
(* The timer interrupt.                                                    *)

TimerPending == iflag /\ ~inService

\* resume has begun when push has looked at the queue.
Place == IF current = Null THEN "boot"
         ELSE IF pc[current] \in Pushing \ {"push_test"} THEN "resume"
         ELSE IF pc[current] \in Popping THEN "yield" ELSE "body"

\* A tick within the quantum: handle_interrupt counts it, dispatch_interrupt
\* sends the end-of-interrupt.
Tick ==
    /\ TimerPending
    /\ ticks + 1 < Hz
    /\ ticks' = ticks + 1
    /\ UNCHANGED <<queueVars, cpuVars, pc, toAdd, deleted>>

\* Mutant of EndOfQuantum: the end-of-interrupt is sent before the handler runs.
EndOfQuantumEarlyEOI ==
    LET p == Push(q, current)
        t == Popped(p)
    IN  /\ TimerPending
        /\ Place \in Preemptible
        /\ ticks + 1 >= Hz
        /\ ticks' = 0
        /\ q' = Pop(p)
        /\ ~IsFull(q) /\ t # Null
        /\ UNCHANGED <<newTail, item, saved, pc, toAdd, deleted>>
        /\ SwitchTo(t, handler \cup {current}, FALSE)

\* The tick that ends the quantum: resume(CurrentThread()) and yield(), with
\* interrupts off.  A failed assertion loops forever in the handler.
EndOfQuantum ==
    LET p == Push(q, current)
        t == Popped(p)
    IN  /\ TimerPending
        /\ Place \in Preemptible
        /\ ticks + 1 >= Hz
        /\ ticks' = 0
        /\ q' = IF IsFull(q) THEN q ELSE Pop(p)
        /\ IF IsFull(q) \/ t = Null
             THEN /\ Goto("abort")
                  /\ iflag' = FALSE
                  /\ inService' = TRUE
                  /\ handler' = handler \cup {current}
                  /\ UNCHANGED <<current, saved>>
             ELSE /\ UNCHANGED <<pc, saved>>
                  /\ SwitchTo(t, handler \cup {current}, TRUE)
        /\ UNCHANGED <<newTail, item, toAdd, deleted>>

-----------------------------------------------------------------------------
(* One step of the code that runs: of the scheduler or main, or of a       *)
(* thread's own function.                                                  *)
Kernel == \/ PushTest \/ PushStore \/ PushTail \/ PushSize
          \/ PopTest \/ PopItem \/ PopHead \/ PopSize \/ Dispatch
          \/ BootAdd \/ BootDispatch \/ ThreadStart \/ Delete

Body == PassOnCPU \/ Return

Timer == Tick \/ EndOfQuantum

Next == Kernel \/ Body \/ Timer

Spec == Init /\ [][Next]_vars

\* The CPU executes the code it is at, and the timer fires as long as the
\* interrupt can be delivered.  Nothing makes a thread give up the CPU.
PreemptiveSpec == Spec /\ WF_vars(Kernel) /\ WF_vars(Timer)

\* The thread functions of kernel.C also reach pass_on_CPU in every round of
\* their loops, or return.
CooperativeSpec == PreemptiveSpec /\ WF_vars(Body)

-----------------------------------------------------------------------------
\* The members and locals keep their types under every interleaving of the
\* timer handler's push and pop with an interrupted one.
TypeOK ==
    /\ q \in Queue
    /\ current \in Actor
    /\ pc \in [Actor -> PC]
    /\ newTail \in [Actor -> Index]
    /\ item \in [Actor -> Pointer]
    /\ toAdd \in Seq(Thread)
    /\ deleted \subseteq Thread
    /\ iflag \in BOOLEAN /\ inService \in BOOLEAN
    /\ saved \in [Actor -> BOOLEAN]
    /\ handler \subseteq Actor
    /\ ticks \in 0 .. Hz - 1

\* The interrupt controller holds the timer back exactly while one actor has
\* an unfinished timer interrupt on its stack, and no two ever have: only that
\* actor can send the end-of-interrupt (interrupts.C, dispatch_interrupt).
EoiOwed == Cardinality(handler) = IF inService THEN 1 ELSE 0

\* No assertion of the scheduler fails: the queue has room for every thread
\* and a yield finds one (assert(ret) and assert(t != 0) in scheduler.C).
NoAbort == \A a \in Actor : pc[a] # "abort"

\* Wherever quanta end, interrupts are off only while a thread starts, which
\* turns them on, or after an assertion failed within the handler (thread_start,
\* threads_low_switch_to, the iret of irq_low.asm).
MaskedOnlyToStart ==
    ~iflag <=> At("start") \/ (At("abort") /\ current \in handler)

InQueue(t) == \E i \in 1 .. Occupied(q) : Contents(q)[i] = t

\* An actor has taken t out of the queue and not yet dispatched it.
InFlight(t) == \E a \in Actor : item[a] = t /\ pc[a] \in {"pop_size", "dispatch"}

\* Every thread main has added or dispatched, and that is not deleted, runs, is
\* in the ready queue, or has been taken out of it to be dispatched.
NoThreadLost ==
    \A t \in Thread \ deleted :
        \/ current = t \/ InQueue(t) \/ InFlight(t)
        \/ current = Null /\ (t = First \/ \E i \in 1 .. Len(toAdd) : toAdd[i] = t)

\* Each thread runs again and again, unless it is terminated.
EveryThreadRuns == \A t \in Thread : []<>(current = t \/ t \in deleted)

\* The timer never stays held back forever: it does not "die" (kernel.C).
TimerNeverDies == []<>TimerPending

-----------------------------------------------------------------------------
(* What the scheduler stands for: a running thread and the sequence of     *)
(* ready ones.  The CPU is passed on when the context is switched: until   *)
(* then a thread that has pushed itself does not count as ready, and the   *)
(* thread it has taken out of the queue still does.                        *)

ready ==
    LET inside == current # Null /\ pc[current] \in Popping \cup {"push_size"}
        taken  == IF inside /\ pc[current] \in {"pop_size", "dispatch"}
                  THEN <<item[current]>> \o Contents(q) ELSE Contents(q)
    IN  IF inside /\ current \notin deleted
        THEN SubSeq(taken, 1, Len(taken) - 1) ELSE taken

RR == INSTANCE RoundRobin WITH running <- current

\* Whatever mix of voluntary and timed switches happens, the threads take
\* turns in the order of a round robin.
ImplementsRoundRobin == RR!Spec
=============================================================================
