----------------------------- MODULE ThreadSwitch -----------------------------
(***************************************************************************)
(* The context switch of P4 and P5, instruction by instruction: the stack  *)
(* a new thread is given, threads_low_switch_to, and the stub of the timer *)
(* interrupt, inside which a switch may take place too.                    *)
(*                                                                         *)
(* While it rearranges the stack the code keeps two words below the stack  *)
(* pointer, and it changes current_thread before the stack, so that an     *)
(* interrupt must not come in between.  The yield of P5, which this is,    *)
(* disables interrupts before the call.                                    *)
(*                                                                         *)
(* A word of a stack has a kind, what was pushed, and a value.  regs       *)
(* stands for all registers but eax, segments included.  Of the interrupt  *)
(* controller nothing is kept: a tick may come whenever interrupts are on. *)
(*                                                                         *)
(* Auxiliary variables: runner, whose code is executed; left, everything   *)
(* each thread had when it last called the switch.                         *)
(***************************************************************************)
EXTENDS Integers, Sequences

CONSTANTS
    Thread,
    Null,       \* stands for main, which is no thread and has the boot stack
    Depth,      \* words of a stack
    Data        \* values of registers, one of them "zero"

ASSUME StackAssumption ==
    /\ Null \notin Thread
    /\ Depth \in Nat /\ Depth >= 18
    /\ "zero" \in Data

Owner == Thread \cup {Null}
Cell == 0 .. Depth - 1

VARIABLES
    stack,              \* the words of all stacks
    saved,              \* member esp of the threads
    current_thread,
    ready,              \* threads that have been constructed and not ended
    pc, esp, eax, regs, iflag,  \* esp: a stack and a cell of it
    runner, left

memory == <<saved, current_thread, ready>>
registers == <<pc, esp, eax, regs, iflag>>
vars == <<stack, memory, registers, runner, left>>

Word(k, v) == [kind |-> k, val |-> v]

\* The word n above the top of the stack.
At(n) == stack[esp.of][esp.at + n].val

Above(n) == [esp EXCEPT !.at = @ + n]

NoWord == Word("none", "zero")

\* n words are taken off.  What is below the pointer then is not read again,
\* and the model does not keep it.
Pop(n) ==
    /\ esp' = Above(n)
    /\ stack' = [stack EXCEPT ![esp.of] = [c \in Cell |-> IF c < esp.at + n THEN NoWord ELSE @[c]]]

InUse == [k \in 1 .. Depth - esp.at |-> stack[esp.of][esp.at + k - 1]]

\* The contents of a stack on which ws are pushed, first to last, from cell a.
With(cells, a, ws) == [c \in Cell |-> IF a - c \in 1 .. Len(ws) THEN ws[a - c] ELSE cells[c]]

Push(ws) ==
    /\ stack' = [stack EXCEPT ![esp.of] = With(@, esp.at, ws)]
    /\ esp' = Above(-Len(ws))

-----------------------------------------------------------------------------
Flags(f) == Word("eflags", IF f THEN "on" ELSE "off")

\* What the processor pushes on an interrupt and iret takes off.
ReturnWords(f, p) == <<Flags(f), Word("cs", "zero"), Word("eip", p)>>

\* Error code, number and registers, in the order of struct REGS.
StateWords(e, r) == 
    <<Word("error", "zero"), Word("number", "zero"), Word("eax", e), Word("regs", r)>>

Base == <<Word("eip", "shutdown"), Word("argument", "zero")>>

\* setup_context: as if an interrupt had come at the start of thread_start.
InitialWords == <<Base[2], Base[1], Word("eip", "body")>>
                  \o ReturnWords(FALSE, "start") \o StateWords("zero", "zero")

Init ==
    /\ stack = [o \in Owner |-> [c \in Cell |-> NoWord]]
    /\ saved = [t \in Thread |-> [of |-> t, at |-> Depth]]
    /\ current_thread = Null
    /\ ready = {}
    /\ pc = "main" /\ esp = [of |-> Null, at |-> Depth]
    /\ eax = "zero" /\ regs = "zero" /\ iflag = TRUE
    /\ runner = Null
    /\ left = [o \in Owner |-> [pc |-> "start", eax |-> "zero", regs |-> "zero", iflag |-> FALSE,
                                words |-> <<Word("eip", "body")>> \o Base]]

\* main constructs a thread.
Construct(t) ==
    /\ pc = "main" /\ t \notin ready
    /\ stack' = [stack EXCEPT ![t] = With(@, Depth, InitialWords)]
    /\ saved' = [saved EXCEPT ![t] = [of |-> t, at |-> Depth - Len(InitialWords)]]
    /\ ready' = ready \cup {t}
    /\ UNCHANGED <<current_thread, registers, runner, left>>

-----------------------------------------------------------------------------
(* The callers of the switch. *)

\* The call, with the flag as f, that returns to p.
Call(t, f, p) ==
    /\ Push(<<Word("param", t), Word("eip", p)>>)
    /\ pc' = "compare"
    /\ iflag' = f
    /\ left' = [left EXCEPT ![runner] =
                   [pc |-> p, eax |-> eax, regs |-> regs, iflag |-> f,
                    words |-> <<Word("param", t)>> \o InUse]]
    /\ UNCHANGED <<saved, current_thread, eax, regs, runner>>

\* Mutant of Disabled: the call that disables interrupts is left out, as in
\* updated_scheduler.
DisabledNot == iflag

\* The flag after yield has looked at it, and disabled interrupts that were on.
Disabled == FALSE

\* main starts the first thread, and never comes back.
Dispatch(t) ==
    /\ pc = "main" /\ ready = Thread
    /\ Call(t, iflag, "never")
    /\ UNCHANGED ready

\* yield, by a thread that has resumed itself.
Yield(t) ==
    /\ pc = "body" /\ t \in ready
    /\ Call(t, Disabled, "yielded")
    /\ UNCHANGED ready

\* The end of a quantum.  The first quantum is longer than start-up.
EndOfQuantum(t) ==
    /\ pc = "handler" /\ runner # Null /\ t \in ready
    /\ Call(t, iflag, "switchedBack")
    /\ UNCHANGED ready

\* thread_shutdown: terminate yields and the thread is in no queue any more.
Shutdown(t) ==
    /\ pc = "shutdown" /\ t \in ready \ {runner}
    /\ Call(t, Disabled, "never")
    /\ ready' = ready \ {runner}

\* Mutant of Returned: the parameter is left on the stack.
ReturnedDirty ==
    /\ pc \in {"yielded", "switchedBack"}
    /\ pc' = IF pc = "yielded" THEN "body" ELSE "leave"
    /\ UNCHANGED <<stack, memory, esp, eax, regs, iflag, runner, left>>

\* dispatch_to returns and takes the parameter off.
Returned ==
    /\ pc \in {"yielded", "switchedBack"}
    /\ pc' = IF pc = "yielded" THEN "body" ELSE "leave"
    /\ Pop(1)
    /\ UNCHANGED <<memory, eax, regs, iflag, runner, left>>

\* thread_start enables interrupts, which it asserts to be off, and returns to
\* the thread function.
ThreadStart ==
    /\ pc = "start"
    /\ iflag' = TRUE
    /\ pc' = IF iflag THEN "abort" ELSE At(0)
    /\ Pop(1)
    /\ UNCHANGED <<memory, eax, regs, runner, left>>

\* The thread function and the handler use the registers.
Compute ==
    /\ pc \in {"body", "handler"}
    /\ eax' \in Data /\ regs' \in Data
    /\ UNCHANGED <<stack, memory, pc, esp, iflag, runner, left>>

\* The thread function returns to the word below its argument.
Return ==
    /\ pc = "body"
    /\ pc' = At(0)
    /\ Pop(1)
    /\ UNCHANGED <<memory, eax, regs, iflag, runner, left>>

-----------------------------------------------------------------------------
(* threads_low_switch_to. *)

Instructions == {"compare", "pushEax", "getReturn", "moveReturn", "moveUp", "pushFlags",
                 "restoreEax", "pushCS", "moveDown", "pushState", "saveEsp", "loadParam",
                 "loadOnly", "setCurrent", "setEsp", "restore", "iret"}

Step(from, to) ==
    /\ pc = from /\ pc' = to
    /\ UNCHANGED <<ready, iflag, runner, left>>

\* Without a current thread there is nothing to save.
Compare ==
    /\ Step("compare", IF current_thread = Null THEN "loadOnly" ELSE "pushEax")
    /\ UNCHANGED <<stack, saved, current_thread, esp, eax, regs>>

PushEax ==
    /\ Step("pushEax", "getReturn")
    /\ Push(<<Word("eax", eax)>>)
    /\ UNCHANGED <<saved, current_thread, eax, regs>>

GetReturn ==
    /\ Step("getReturn", "moveReturn")
    /\ eax' = At(1)
    /\ UNCHANGED <<stack, saved, current_thread, esp, regs>>

\* The return address goes below the stack pointer ...
MoveReturn ==
    /\ Step("moveReturn", "moveUp")
    /\ stack' = [stack EXCEPT ![esp.of] = With(@, esp.at, <<Word("eip", eax)>>)]
    /\ UNCHANGED <<saved, current_thread, esp, eax, regs>>

\* ... and the pointer above the place it was at.
MoveUp ==
    /\ Step("moveUp", "pushFlags")
    /\ esp' = Above(2)
    /\ UNCHANGED <<stack, saved, current_thread, eax, regs>>

PushFlags ==
    /\ Step("pushFlags", "restoreEax")
    /\ Push(<<Flags(iflag)>>)
    /\ UNCHANGED <<saved, current_thread, eax, regs>>

RestoreEax ==
    /\ Step("restoreEax", "pushCS")
    /\ eax' = At(-1)
    /\ UNCHANGED <<stack, saved, current_thread, esp, regs>>

PushCS ==
    /\ Step("pushCS", "moveDown")
    /\ Push(<<Word("cs", "zero")>>)
    /\ UNCHANGED <<saved, current_thread, eax, regs>>

\* The return address is part of the stack again.
MoveDown ==
    /\ Step("moveDown", "pushState")
    /\ esp' = Above(-1)
    /\ UNCHANGED <<stack, saved, current_thread, eax, regs>>

PushState ==
    /\ Step("pushState", "saveEsp")
    /\ Push(StateWords(eax, regs))
    /\ UNCHANGED <<saved, current_thread, eax, regs>>

SaveEsp ==
    /\ Step("saveEsp", "loadParam")
    /\ eax' = current_thread
    /\ saved' = [saved EXCEPT ![current_thread] = esp]
    /\ UNCHANGED <<stack, current_thread, esp, regs>>

\* The parameter is behind the words of struct REGS.
LoadParam ==
    /\ Step("loadParam", "setCurrent")
    /\ eax' = At(Len(ReturnWords(FALSE, pc)) + Len(StateWords(eax, regs)))
    /\ UNCHANGED <<stack, saved, current_thread, esp, regs>>

LoadOnly ==
    /\ Step("loadOnly", "setCurrent")
    /\ eax' = At(1)
    /\ UNCHANGED <<stack, saved, current_thread, esp, regs>>

SetCurrent ==
    /\ Step("setCurrent", "setEsp")
    /\ current_thread' = eax
    /\ UNCHANGED <<stack, saved, esp, eax, regs>>

SetEsp ==
    /\ Step("setEsp", "restore")
    /\ esp' = saved[eax]
    /\ UNCHANGED <<stack, saved, current_thread, eax, regs>>

\* restore_registers: the registers, the number and the error code.
Restore ==
    /\ Step("restore", "iret")
    /\ regs' = At(0) /\ eax' = At(1)
    /\ Pop(4)
    /\ UNCHANGED <<saved, current_thread>>

\* iret with n words above the return address; anything but a return address,
\* a segment and flags sends the processor astray.
ReturnFrom(n) ==
    LET kind(k) == stack[esp.of][esp.at + n + k].kind IN
    IF kind(0) = "eip" /\ kind(1) = "cs" /\ kind(2) = "eflags"
    THEN pc' = At(n) /\ iflag' = (At(n + 2) = "on") /\ Pop(n + 3)
    ELSE pc' = "astray" /\ UNCHANGED <<stack, iflag, esp>>

Iret ==
    /\ pc = "iret"
    /\ ReturnFrom(0)
    /\ runner' = current_thread
    /\ UNCHANGED <<memory, eax, regs, left>>

-----------------------------------------------------------------------------
(* The interrupt. *)

Tick ==
    /\ iflag /\ pc \notin {"abort", "astray"}
    /\ Push(ReturnWords(iflag, pc) \o StateWords(eax, regs) \o <<Word("pointer", "zero")>>)
    /\ iflag' = FALSE
    /\ pc' = "handler"
    /\ UNCHANGED <<saved, current_thread, ready, eax, regs, runner, left>>

\* The handler returns, at once or when the thread is switched back in.
LeaveHandler ==
    /\ pc \in {"handler", "leave"}
    /\ regs' = At(1) /\ eax' = At(2)
    /\ ReturnFrom(5)
    /\ UNCHANGED <<memory, runner, left>>

-----------------------------------------------------------------------------
Switch == Compare \/ PushEax \/ GetReturn \/ MoveReturn \/ MoveUp \/ PushFlags \/ RestoreEax
            \/ PushCS \/ MoveDown \/ PushState \/ SaveEsp \/ LoadParam \/ LoadOnly
            \/ SetCurrent \/ SetEsp \/ Restore \/ Iret

Next ==
    \/ \E t \in Thread : Construct(t) \/ Dispatch(t) \/ Yield(t) \/ EndOfQuantum(t) \/ Shutdown(t)
    \/ Returned \/ ThreadStart \/ Compute \/ Return
    \/ Switch \/ Tick \/ LeaveHandler

Spec == Init /\ [][Next]_vars

-----------------------------------------------------------------------------
\* However often a thread has been preempted and switched, the code of its
\* function finds its own stack with nothing on it but the words of
\* setup_context it will return to (threads_low_switch_to, irq_common_stub).
NothingLeft == pc = "body" => esp.of = runner /\ InUse = Base

Live == [pc |-> pc, eax |-> eax, regs |-> regs, iflag |-> iflag, words |-> InUse]

Abstract == INSTANCE Coroutines WITH
    Actor <- Thread,
    running <- runner,
    live <- IF pc \in Instructions THEN left[runner] ELSE Live,
    context <- left

\* The instructions together are a switch: a thread goes on where it called, or
\* was interrupted and the handler called, with the registers, the flag and the
\* stack it had then, whatever the others did since.
ImplementsCoroutines == [][Abstract!Next]_vars
=============================================================================
