-------------------------- MODULE ThreadSwitchProofs --------------------------
(***************************************************************************)
(* What holds of ThreadSwitch for any number of threads and any depth of   *)
(* the stacks that has room for an interrupt with the switch inside.       *)
(***************************************************************************)
EXTENDS ThreadSwitch, TLAPS

-----------------------------------------------------------------------------
(* The invariant. *)

\* Where a thread is when it has given the processor away.
Resumed == {"start", "yielded", "switchedBack"}

\* The words of an interrupt of a thread's own code, from the word n on.
InterruptedAt(n, ws) ==
    /\ ws[n + 5].kind = "eip" /\ ws[n + 6].kind = "cs" /\ ws[n + 7] = Flags(TRUE)
    /\ \/ Len(ws) = n + 9 /\ ws[n + 5].val = "body" /\ ws[n + 8] = Base[1] /\ ws[n + 9] = Base[2]
       \/ Len(ws) = n + 8 /\ ws[n + 5].val = "shutdown" /\ ws[n + 8] = Base[2]

\* What the code of a thread has on its stack at each place.
CodeWords(p, ws) ==
    \/ p = "body" /\ Len(ws) = 2 /\ ws[1] = Base[1] /\ ws[2] = Base[2]
    \/ p = "shutdown" /\ Len(ws) = 1 /\ ws[1] = Base[2]
    \/ p = "start" /\ Len(ws) = 3 /\ ws[1] = Word("eip", "body") /\ ws[2] = Base[1] /\ ws[3] = Base[2]
    \/ p = "yielded" /\ Len(ws) = 3 /\ ws[2] = Base[1] /\ ws[3] = Base[2]
    \/ p \in {"handler", "leave"} /\ InterruptedAt(1, ws)
    \/ p = "switchedBack" /\ InterruptedAt(2, ws)

TypeOK ==
    /\ DOMAIN stack = Owner /\ DOMAIN saved = Thread /\ DOMAIN left = Owner
    /\ ready \subseteq Thread
    /\ runner \in Owner /\ current_thread \in Owner
    /\ esp \in [of : Owner, at : 0 .. Depth]
    /\ iflag \in BOOLEAN

\* The stack of o ends with the words ws.
Bottom(o, ws) ==
    \A k \in 1 .. Len(ws) : stack[o][Depth - Len(ws) + k - 1] = ws[k]

\* The first cell of the words that o had when it called.
First(o) == Depth - Len(left[o].words)

IsWords(ws) == Len(ws) \in 1 .. 11 /\ ws = [k \in 1 .. Len(ws) |-> ws[k]]

IsContext(l) ==
    /\ l = [pc |-> l.pc, eax |-> l.eax, regs |-> l.regs, iflag |-> l.iflag, words |-> l.words]
    /\ IsWords(l.words)

\* What o had when it called is still there, and it can go on there.
Resumable(o) ==
    /\ IsContext(left[o]) /\ Bottom(o, left[o].words)
    /\ left[o].pc \in Resumed /\ left[o].iflag = FALSE
    /\ CodeWords(left[o].pc, left[o].words)

\* The words that iret takes off, and the registers.
ReturnPushed(o) ==
    /\ stack[o][First(o) - 1] = Flags(left[o].iflag)
    /\ stack[o][First(o) - 2] = Word("cs", "zero")
    /\ stack[o][First(o) - 3] = Word("eip", left[o].pc)

StatePushed(o) ==
    /\ stack[o][First(o) - 6] = Word("eax", left[o].eax)
    /\ stack[o][First(o) - 7] = Word("regs", left[o].regs)

Suspended(t) ==
    /\ Resumable(t) /\ ReturnPushed(t) /\ StatePushed(t)
    /\ saved[t] = [of |-> t, at |-> First(t) - 7]

AsleepOK ==
    \A t \in ready : t # esp.of \/ pc \in {"loadParam", "setCurrent", "setEsp"} => Suspended(t)

\* What a thread has that has not run.
Fresh == [pc |-> "start", eax |-> "zero", regs |-> "zero", iflag |-> FALSE,
          words |-> <<Word("eip", "body")>> \o Base]

\* Until main has switched no thread has.
BootOK == runner = Null => \A t \in Thread : left[t] = Fresh

\* The context of the caller, with the parameter on top.
Calling ==
    /\ IsContext(left[runner]) /\ Bottom(runner, left[runner].words)
    /\ left[runner].words[1].val \in ready
    /\ runner = Null => Len(left[runner].words) = 1
    /\ runner # Null => left[runner].iflag = FALSE
    /\ runner \in ready => Resumable(runner)

\* The part of the switch on the caller's stack: the place, eax, regs, and the cell
\* that esp is at, so many below the words of the caller.
Leaving(p, e, r, a) ==
    LET l == left[runner]
        b == First(runner)
        eip(c) == stack[runner][c] = Word("eip", l.pc)
        eaxAt == stack[runner][b - 2] = Word("eax", l.eax)
        flagsAt == stack[runner][b - 1] = Flags(l.iflag)
    IN
    \/ p \in {"compare", "pushEax", "loadOnly"} /\ a = b - 1 /\ eip(b - 1) /\ e = l.eax /\ r = l.regs
    \/ p = "getReturn" /\ a = b - 2 /\ eip(b - 1) /\ eaxAt /\ r = l.regs
    \/ p = "moveReturn" /\ a = b - 2 /\ e = l.pc /\ eaxAt /\ r = l.regs
    \/ p = "moveUp" /\ a = b - 2 /\ eip(b - 3) /\ eaxAt /\ r = l.regs
    \/ p = "pushFlags" /\ a = b /\ eip(b - 3) /\ eaxAt /\ r = l.regs
    \/ p = "restoreEax" /\ a = b - 1 /\ eip(b - 3) /\ eaxAt /\ flagsAt /\ r = l.regs
    \/ p = "pushCS" /\ a = b - 1 /\ eip(b - 3) /\ flagsAt /\ e = l.eax /\ r = l.regs
    \/ p = "moveDown" /\ a = b - 2 /\ ReturnPushed(runner) /\ e = l.eax /\ r = l.regs
    \/ p = "pushState" /\ a = b - 3 /\ ReturnPushed(runner) /\ e = l.eax /\ r = l.regs
    \/ p = "saveEsp" /\ a = b - 7 /\ ReturnPushed(runner) /\ StatePushed(runner)
    \/ p = "loadParam" /\ a = b - 7
    \/ p \in {"setCurrent", "setEsp"} /\ e \in ready /\ (runner = Null => a = b - 1)

\* The part on the stack of the thread that is switched to.
Entering(p, e, r, o, a) ==
    /\ Resumable(o) /\ ReturnPushed(o)
    /\ \/ p = "restore" /\ a = First(o) - 7 /\ StatePushed(o)
       \/ p = "iret" /\ a = First(o) - 3 /\ e = left[o].eax /\ r = left[o].regs

Saving == {"pushEax", "getReturn", "moveReturn", "moveUp", "pushFlags", "restoreEax", "pushCS",
           "moveDown", "pushState", "saveEsp", "loadParam"}

\* In the switch: whose it is, and who is the current thread.
Within(p, e, r, o, a) ==
    \/ /\ o = runner /\ Calling /\ Leaving(p, e, r, a)
       /\ p = "compare" => current_thread = runner
       /\ p \in Saving => current_thread = runner /\ runner # Null
       /\ p = "loadOnly" => runner = Null
       /\ p = "setEsp" => current_thread = e
    \/ o = current_thread /\ o \in ready /\ Entering(p, e, r, o, a)

Main(p, e, r, o, a) ==
    \/ p = "main" /\ current_thread = Null /\ o = Null /\ a = Depth
    \/ Within(p, e, r, o, a)

PlaceOK ==
    \/ /\ runner \in ready /\ current_thread = runner /\ esp.of = runner
       /\ CodeWords(pc, InUse) /\ (iflag => pc \in {"body", "shutdown"})
    \/ /\ runner # Null /\ ~iflag /\ pc \in Instructions
       /\ Within(pc, eax, regs, esp.of, esp.at)
    \/ /\ runner = Null /\ iflag = TRUE /\ Main(pc, eax, regs, esp.of, esp.at)
    \/ /\ runner = Null /\ iflag = FALSE /\ pc = "handler" /\ esp.at + 8 <= Depth
       /\ LET kind(n) == stack[esp.of][esp.at + n].kind
          IN  kind(5) = "eip" /\ kind(6) = "cs" /\ kind(7) = "eflags"
       /\ At(7) = "on" /\ Main(At(5), At(2), At(1), esp.of, esp.at + 8)

IInv == TypeOK /\ AsleepOK /\ BootOK /\ PlaceOK

-----------------------------------------------------------------------------
(* Stacks. *)

Words(s, a) == [k \in 1 .. Depth - a |-> s[a + k - 1]]

LEMMA WordsFacts ==
    ASSUME NEW s, NEW a \in 0 .. Depth
    PROVE  /\ Len(Words(s, a)) = Depth - a
           /\ \A k \in 1 .. Depth - a : Words(s, a)[k] = s[a + k - 1]
<1>1. Depth - a \in Nat
  BY StackAssumption
<1> QED
  BY <1>1 DEF Words

LEMMA InUseFacts ==
    ASSUME TypeOK
    PROVE  /\ InUse = Words(stack[esp.of], esp.at) /\ InUse' = Words(stack'[esp'.of], esp'.at)
           /\ Len(InUse) = Depth - esp.at
           /\ \A k \in 1 .. Depth - esp.at : InUse[k] = stack[esp.of][esp.at + k - 1]
<1>1. InUse = Words(stack[esp.of], esp.at) /\ InUse' = Words(stack'[esp'.of], esp'.at)
  BY DEF InUse, Words
<1>2. esp.at \in 0 .. Depth
  BY DEF TypeOK
<1> QED
  BY <1>1, <1>2, WordsFacts

LEMMA PushFacts ==
    ASSUME TypeOK, NEW ws, NEW n \in Nat, Len(ws) = n, n <= esp.at, Push(ws)
    PROVE  /\ esp' \in [of : Owner, at : 0 .. Depth]
           /\ esp'.of = esp.of /\ esp'.at = esp.at - n
           /\ DOMAIN stack' = Owner
           /\ \A o \in Owner : o # esp.of => stack'[o] = stack[o]
           /\ \A c \in Cell : stack'[esp.of][c] =
                  IF esp.at - c \in 1 .. n THEN ws[esp.at - c] ELSE stack[esp.of][c]
<1>1. esp \in [of : Owner, at : 0 .. Depth] /\ Depth \in Nat /\ DOMAIN stack = Owner
  BY StackAssumption DEF TypeOK
<1>2. esp' = [esp EXCEPT !.at = esp.at + (-n)]
  BY <1>1 DEF Push, Above
<1>3. esp' \in [of : Owner, at : 0 .. Depth] /\ esp'.of = esp.of /\ esp'.at = esp.at - n
  BY <1>1, <1>2
<1>4. stack' = [stack EXCEPT ![esp.of] = With(stack[esp.of], esp.at, ws)]
  BY DEF Push
<1> QED
  BY <1>1, <1>3, <1>4 DEF With

LEMMA PopFacts ==
    ASSUME TypeOK, NEW n \in Nat, esp.at + n <= Depth, Pop(n)
    PROVE  /\ esp' \in [of : Owner, at : 0 .. Depth]
           /\ esp'.of = esp.of /\ esp'.at = esp.at + n
           /\ DOMAIN stack' = Owner
           /\ \A o \in Owner : o # esp.of => stack'[o] = stack[o]
           /\ \A c \in Cell : c >= esp.at + n => stack'[esp.of][c] = stack[esp.of][c]
<1>1. esp \in [of : Owner, at : 0 .. Depth] /\ Depth \in Nat /\ DOMAIN stack = Owner
  BY StackAssumption DEF TypeOK
<1>2. esp' = [esp EXCEPT !.at = esp.at + n]
  BY <1>1 DEF Pop, Above
<1>3. esp' \in [of : Owner, at : 0 .. Depth] /\ esp'.of = esp.of /\ esp'.at = esp.at + n
  BY <1>1, <1>2
<1>4. stack' = [stack EXCEPT ![esp.of] =
                   [c \in Cell |-> IF c < esp.at + n THEN NoWord ELSE stack[esp.of][c]]]
  BY DEF Pop
<1>5. \A c \in Cell : c \in Int
  BY <1>1 DEF Cell
<1> QED
  BY <1>1, <1>3, <1>4, <1>5

-----------------------------------------------------------------------------
(* What a step keeps. *)

LEMMA FirstCell ==
    ASSUME NEW o, IsContext(left[o])
    PROVE  First(o) \in Depth - 11 .. Depth - 1 /\ First(o) \in 7 .. Depth - 1
<1>1. PICK n \in 1 .. 11 : n = Len(left[o].words)
  BY DEF IsContext, IsWords
<1>2. Depth - n \in Depth - 11 .. Depth - 1 /\ Depth - n \in 7 .. Depth - 1
  BY StackAssumption
<1> QED
  BY <1>1, <1>2 DEF First

LEMMA BottomKept ==
    ASSUME NEW o, IsContext(left[o]), Bottom(o, left[o].words), left'[o] = left[o],
           \A c \in Cell : c >= First(o) => stack'[o][c] = stack[o][c]
    PROVE  IsContext(left[o])' /\ Bottom(o, left[o].words)' /\ First(o)' = First(o)
<1>1. IsContext(left[o])' /\ First(o)' = First(o) /\ left'[o].words = left[o].words
  BY DEF IsContext, First
<1>2. ASSUME NEW k \in 1 .. Len(left[o].words)
      PROVE  stack'[o][Depth - Len(left[o].words) + k - 1] = left[o].words[k]
  <2>1. Depth - Len(left[o].words) + k - 1 \in Cell /\ Depth - Len(left[o].words) + k - 1 >= First(o)
    <3>1. PICK n \in 1 .. 11 : n = Len(left[o].words)
      BY DEF IsContext, IsWords
    <3>2. k \in 1 .. n
      BY <3>1
    <3>3. Depth - n + k - 1 \in 0 .. Depth - 1 /\ Depth - n + k - 1 >= Depth - n
      BY <3>2, StackAssumption
    <3> QED
      BY <3>1, <3>3 DEF Cell, First
  <2> QED
    BY <2>1 DEF Bottom
<1> QED
  BY <1>1, <1>2 DEF Bottom

LEMMA ResumableKept ==
    ASSUME NEW o, Resumable(o), left'[o] = left[o],
           \A c \in Cell : c >= First(o) => stack'[o][c] = stack[o][c]
    PROVE  Resumable(o)' /\ First(o)' = First(o)
BY BottomKept DEF Resumable

LEMMA SuspendedKept ==
    ASSUME NEW t, Suspended(t),
           stack'[t] = stack[t], saved'[t] = saved[t], left'[t] = left[t]
    PROVE  Suspended(t)'
<1>1. Resumable(t)' /\ First(t)' = First(t)
  BY ResumableKept DEF Suspended
<1> QED
  BY <1>1 DEF Suspended, ReturnPushed, StatePushed

LEMMA AsleepKept ==
    ASSUME TypeOK, AsleepOK, ready' \subseteq ready, esp'.of = esp.of,
           pc' \in {"loadParam", "setCurrent", "setEsp"} => esp.of \notin Thread,
           \A t \in Thread : t # esp.of =>
               stack'[t] = stack[t] /\ saved'[t] = saved[t] /\ left'[t] = left[t]
    PROVE  AsleepOK'
<1> SUFFICES ASSUME NEW t \in ready',
                    t # esp.of \/ pc' \in {"loadParam", "setCurrent", "setEsp"}
             PROVE  Suspended(t)'
  BY DEF AsleepOK
<1>1. t \in ready /\ t \in Thread /\ t # esp.of
  BY DEF TypeOK
<1> QED
  BY <1>1, SuspendedKept DEF AsleepOK

-----------------------------------------------------------------------------
(* Where the processor is. *)

CodePlaces == {"start", "yielded", "switchedBack", "body", "shutdown", "leave", "handler"}

LEMMA CodeFacts ==
    ASSUME IInv, pc \in CodePlaces, pc # "handler" \/ runner # Null
    PROVE  /\ runner \in ready /\ runner \in Thread /\ runner # Null
           /\ current_thread = runner /\ esp.of = runner
           /\ CodeWords(pc, InUse) /\ (iflag => pc \in {"body", "shutdown"})
<1>1. pc \notin Instructions /\ pc # "main"
  BY DEF CodePlaces, Instructions
<1>2. ~Within(pc, eax, regs, esp.of, esp.at)
  BY DEF Within, Leaving, Entering, CodePlaces
<1> QED
  BY <1>1, <1>2, StackAssumption DEF IInv, PlaceOK, Main, TypeOK

LEMMA MainFacts ==
    ASSUME IInv, pc = "main"
    PROVE  /\ runner = Null /\ iflag = TRUE /\ current_thread = Null
           /\ esp.of = Null /\ esp.at = Depth
<1>1. pc \notin Instructions /\ ~CodeWords(pc, InUse)
  BY DEF Instructions, CodeWords
<1>2. ~Within(pc, eax, regs, esp.of, esp.at)
  BY DEF Within, Leaving, Entering
<1> QED
  BY <1>1, <1>2 DEF IInv, PlaceOK, Main

LEMMA SwitchFacts ==
    ASSUME IInv, pc \in Instructions
    PROVE  Within(pc, eax, regs, esp.of, esp.at) /\ iflag = (runner = Null)
<1>1. pc # "main" /\ pc # "handler" /\ ~CodeWords(pc, InUse)
  BY DEF Instructions, CodeWords
<1> QED
  BY <1>1 DEF IInv, PlaceOK, Main, TypeOK

LEMMA LeavingFacts ==
    ASSUME IInv, pc \in Instructions \ {"restore", "iret"}
    PROVE  /\ esp.of = runner /\ Calling /\ Leaving(pc, eax, regs, esp.at)
           /\ pc = "compare" => current_thread = runner
           /\ pc \in Saving => current_thread = runner /\ runner # Null
           /\ pc = "loadOnly" => runner = Null
           /\ pc = "setEsp" => current_thread = eax
<1>1. ~Entering(pc, eax, regs, esp.of, esp.at)
  BY DEF Entering
<1> QED
  BY <1>1, SwitchFacts DEF Within

LEMMA EnteringFacts ==
    ASSUME IInv, pc \in {"restore", "iret"}
    PROVE  /\ esp.of = current_thread /\ current_thread \in ready
           /\ Entering(pc, eax, regs, esp.of, esp.at)
<1>1. pc \in Instructions /\ ~Leaving(pc, eax, regs, esp.at)
  BY DEF Leaving, Instructions
<1> QED
  BY <1>1, SwitchFacts DEF Within

-----------------------------------------------------------------------------
(* The code of threads. *)

LEMMA PushInUse ==
    ASSUME TypeOK, NEW ws, NEW n \in Nat, Len(ws) = n, n <= esp.at, Push(ws)
    PROVE  /\ Len(InUse) \in Nat /\ Len(InUse)' = Len(InUse) + n
           /\ \A k \in 1 .. n : InUse'[k] = ws[n + 1 - k]
           /\ \A k \in 1 .. Len(InUse) : InUse'[n + k] = InUse[k]
<1> DEFINE a == esp.at
           o == esp.of
<1>1. /\ a \in 0 .. Depth /\ esp'.at = a - n /\ esp'.of = o /\ a - n \in 0 .. Depth
      /\ \A c \in Cell : stack'[o][c] = IF a - c \in 1 .. n THEN ws[a - c] ELSE stack[o][c]
  BY PushFacts DEF TypeOK
<1>2. /\ InUse' = Words(stack'[o], a - n) /\ Len(InUse) = Depth - a
      /\ \A k \in 1 .. Depth - a : InUse[k] = stack[o][a + k - 1]
  BY <1>1, InUseFacts
<1> HIDE DEF a, o
<1>3. /\ Len(InUse)' = Depth - (a - n)
      /\ \A k \in 1 .. Depth - (a - n) : InUse'[k] = stack'[o][a - n + k - 1]
  BY <1>1, <1>2, WordsFacts
<1>4. Depth \in Nat /\ a \in Nat /\ a <= Depth /\ n <= a /\ Cell = 0 .. Depth - 1
  BY <1>1, StackAssumption DEF Cell, a
<1>5. Len(InUse) \in Nat /\ Len(InUse)' = Len(InUse) + n
  BY <1>2, <1>3, <1>4
<1>6. ASSUME NEW k \in 1 .. n PROVE InUse'[k] = ws[n + 1 - k]
  <2>1. k \in 1 .. Depth - (a - n) /\ a - n + k - 1 \in Cell
        /\ a - (a - n + k - 1) = n + 1 - k /\ n + 1 - k \in 1 .. n
    BY <1>4
  <2> QED
    BY <1>1, <1>3, <2>1
<1>7. ASSUME NEW k \in 1 .. Len(InUse) PROVE InUse'[n + k] = InUse[k]
  <2>1. k \in 1 .. Depth - a
    BY <1>2
  <2>2. n + k \in 1 .. Depth - (a - n) /\ a + k - 1 \in Cell
        /\ a - n + (n + k) - 1 = a + k - 1 /\ a - (a + k - 1) \notin 1 .. n
    BY <1>4, <2>1
  <2> QED
    BY <1>1, <1>2, <1>3, <2>1, <2>2
<1> QED
  BY <1>5, <1>6, <1>7

LEMMA PopInUse ==
    ASSUME TypeOK, NEW n \in Nat, n <= Len(InUse), Pop(n)
    PROVE  /\ esp.at + n <= Depth
           /\ Len(InUse) \in Nat /\ Len(InUse)' = Len(InUse) - n
           /\ \A k \in 1 .. Len(InUse) - n : InUse'[k] = InUse[n + k]
<1> DEFINE a == esp.at
           o == esp.of
<1>0. /\ a \in 0 .. Depth /\ Len(InUse) = Depth - a
      /\ \A k \in 1 .. Depth - a : InUse[k] = stack[o][a + k - 1]
  BY InUseFacts DEF TypeOK
<1>1. Depth \in Nat /\ a \in Nat /\ a <= Depth /\ a + n <= Depth /\ Cell = 0 .. Depth - 1
      /\ a + n \in 0 .. Depth
  BY <1>0, StackAssumption DEF Cell
<1>2. /\ esp'.at = a + n /\ esp'.of = o
      /\ \A c \in Cell : c >= a + n => stack'[o][c] = stack[o][c]
  BY <1>1, PopFacts
<1>3. InUse' = Words(stack'[o], a + n)
  BY <1>2, InUseFacts
<1> HIDE DEF a, o
<1>4. /\ Len(InUse)' = Depth - (a + n)
      /\ \A k \in 1 .. Depth - (a + n) : InUse'[k] = stack'[o][a + n + k - 1]
  BY <1>1, <1>3, WordsFacts
<1>5. ASSUME NEW k \in 1 .. Len(InUse) - n PROVE InUse'[k] = InUse[n + k]
  <2>1. k \in 1 .. Depth - (a + n) /\ n + k \in 1 .. Depth - a
        /\ a + n + k - 1 \in Cell /\ a + n + k - 1 >= a + n /\ a + (n + k) - 1 = a + n + k - 1
    BY <1>0, <1>1
  <2> QED
    BY <1>0, <1>2, <1>4, <2>1
<1> QED
  BY <1>0, <1>1, <1>4, <1>5 DEF a

\* One word is taken off.
LEMMA PopOne ==
    ASSUME TypeOK, NEW m \in Nat, Len(InUse) = m + 1, Pop(1)
    PROVE  /\ esp' \in [of : Owner, at : 0 .. Depth] /\ esp'.of = esp.of
           /\ DOMAIN stack' = Owner /\ \A o \in Owner : o # esp.of => stack'[o] = stack[o]
           /\ Len(InUse)' = m /\ \A k \in 1 .. m : InUse'[k] = InUse[1 + k]
<1>1. 1 \in Nat /\ 1 <= Len(InUse) /\ Len(InUse) - 1 = m
  OBVIOUS
<1>2. esp.at + 1 <= Depth
  BY <1>1, PopInUse
<1> QED
  BY <1>1, <1>2, PopInUse, PopFacts

LEMMA AtFacts ==
    ASSUME TypeOK, NEW n \in Nat, n < Len(InUse)
    PROVE  At(n) = InUse[n + 1].val /\ stack[esp.of][esp.at + n] = InUse[n + 1]
<1>1. esp.at \in 0 .. Depth /\ Len(InUse) = Depth - esp.at
      /\ \A k \in 1 .. Depth - esp.at : InUse[k] = stack[esp.of][esp.at + k - 1]
  BY InUseFacts DEF TypeOK
<1>2. n + 1 \in 1 .. Depth - esp.at /\ esp.at + (n + 1) - 1 = esp.at + n
  BY <1>1, StackAssumption
<1> QED
  BY <1>1, <1>2 DEF At

\* A step of a thread's own code leaves the other stacks alone.
LEMMA CodeStep ==
    ASSUME IInv, runner \in ready, current_thread = runner, esp.of = runner,
           saved' = saved, current_thread' = current_thread, ready' = ready,
           runner' = runner, left' = left,
           esp' \in [of : Owner, at : 0 .. Depth], esp'.of = esp.of,
           DOMAIN stack' = Owner, \A o \in Owner : o # esp.of => stack'[o] = stack[o],
           pc' \in CodePlaces, CodeWords(pc, InUse)',
           iflag' = FALSE \/ (iflag' \in BOOLEAN /\ pc' \in {"body", "shutdown"})
    PROVE  IInv'
<1>0. iflag' \in BOOLEAN /\ (iflag' => pc' \in {"body", "shutdown"})
  OBVIOUS
<1>1. TypeOK'
  BY <1>0 DEF IInv, TypeOK
<1>2. AsleepOK'
  <2>1. pc' \notin {"loadParam", "setCurrent", "setEsp"}
    BY DEF CodePlaces
  <2>2. \A t \in Thread : t \in Owner
    BY DEF Owner
  <2> QED
    BY <2>1, <2>2, AsleepKept DEF IInv
<1>3. BootOK'
  BY DEF IInv, BootOK
<1>4. PlaceOK'
  BY <1>0 DEF PlaceOK
<1> QED
  BY <1>1, <1>2, <1>3, <1>4 DEF IInv

LEMMA ReturnedStep == ASSUME IInv, Returned PROVE IInv'
<1>1. /\ TypeOK /\ Pop(1) /\ saved' = saved /\ current_thread' = current_thread
      /\ ready' = ready /\ runner' = runner /\ left' = left /\ iflag' = iflag
  BY DEF IInv, Returned, memory
<1>2. /\ runner \in ready /\ runner # Null /\ current_thread = runner /\ esp.of = runner
      /\ CodeWords(pc, InUse) /\ ~iflag
  BY CodeFacts DEF Returned, CodePlaces
<1>3. iflag' = FALSE
  BY <1>1, <1>2 DEF TypeOK
<1>4. ASSUME NEW m \in Nat, Len(InUse) = m + 1, pc' \in CodePlaces, CodeWords(pc, InUse)'
      PROVE  IInv'
  <2>1. /\ esp' \in [of : Owner, at : 0 .. Depth] /\ esp'.of = esp.of
        /\ DOMAIN stack' = Owner /\ \A o \in Owner : o # esp.of => stack'[o] = stack[o]
    BY <1>1, <1>4, PopOne
  <2> QED
    BY <1>1, <1>2, <1>3, <1>4, <2>1, CodeStep
<1>5. CASE pc = "yielded"
  <2>1. Len(InUse) = 2 + 1 /\ InUse[2] = Base[1] /\ InUse[3] = Base[2]
    BY <1>2, <1>5 DEF CodeWords
  <2>2. Len(InUse)' = 2 /\ \A k \in 1 .. 2 : InUse'[k] = InUse[1 + k]
    BY <1>1, <2>1, PopOne
  <2>3. InUse'[1] = Base[1] /\ InUse'[2] = Base[2]
    BY <2>1, <2>2
  <2>4. pc' = "body"
    BY <1>5 DEF Returned
  <2>5. CodeWords(pc, InUse)'
    BY <2>2, <2>3, <2>4 DEF CodeWords, Base
  <2> QED
    BY <1>4, <2>1, <2>4, <2>5 DEF CodePlaces
<1>6. CASE pc = "switchedBack"
  <2>1. InterruptedAt(2, InUse)
    BY <1>2, <1>6 DEF CodeWords
  <2>2. pc' = "leave"
    BY <1>6 DEF Returned
  <2>3. CASE Len(InUse) = 10 + 1
    <3>1. Len(InUse)' = 10 /\ \A k \in 1 .. 10 : InUse'[k] = InUse[1 + k]
      BY <1>1, <2>3, PopOne
    <3>2. /\ InUse'[6] = InUse[7] /\ InUse'[7] = InUse[8] /\ InUse'[8] = InUse[9]
          /\ InUse'[9] = InUse[10] /\ InUse'[10] = InUse[11]
      BY <3>1
    <3>3. CodeWords(pc, InUse)'
      BY <2>1, <2>2, <2>3, <3>1, <3>2 DEF InterruptedAt, CodeWords, Base, Flags
    <3> QED
      BY <1>4, <2>2, <2>3, <3>3 DEF CodePlaces
  <2>4. CASE Len(InUse) = 9 + 1
    <3>1. Len(InUse)' = 9 /\ \A k \in 1 .. 9 : InUse'[k] = InUse[1 + k]
      BY <1>1, <2>4, PopOne
    <3>2. /\ InUse'[6] = InUse[7] /\ InUse'[7] = InUse[8] /\ InUse'[8] = InUse[9]
          /\ InUse'[9] = InUse[10]
      BY <3>1
    <3>3. CodeWords(pc, InUse)'
      BY <2>1, <2>2, <2>4, <3>1, <3>2 DEF InterruptedAt, CodeWords, Base, Flags
    <3> QED
      BY <1>4, <2>2, <2>4, <3>3 DEF CodePlaces
  <2> QED
    BY <2>1, <2>3, <2>4 DEF InterruptedAt
<1> QED
  BY <1>5, <1>6 DEF Returned

LEMMA ThreadStartStep == ASSUME IInv, ThreadStart PROVE IInv'
<1>1. TypeOK /\ UNCHANGED <<saved, current_thread, ready, runner, left>> /\ Pop(1)
  BY DEF IInv, ThreadStart, memory
<1>2. /\ runner \in ready /\ runner # Null /\ current_thread = runner /\ esp.of = runner
      /\ CodeWords(pc, InUse) /\ ~iflag
  BY CodeFacts DEF ThreadStart, CodePlaces
<1>3. Len(InUse) = 3 /\ InUse[1] = Word("eip", "body") /\ InUse[2] = Base[1] /\ InUse[3] = Base[2]
  BY <1>2 DEF CodeWords, ThreadStart
<1>4. /\ esp' \in [of : Owner, at : 0 .. Depth] /\ esp'.of = esp.of
      /\ DOMAIN stack' = Owner /\ \A o \in Owner : o # esp.of => stack'[o] = stack[o]
      /\ Len(InUse)' = 2 /\ \A k \in 1 .. 2 : InUse'[k] = InUse[1 + k]
  <2>1. Len(InUse) = 2 + 1
    BY <1>3
  <2> QED
    BY <1>1, <2>1, PopOne
<1>5. pc' = "body" /\ iflag' = TRUE
  <2>1. At(0) = "body"
    BY <1>1, <1>3, AtFacts DEF Word
  <2> QED
    BY <1>2, <2>1 DEF ThreadStart
<1>6. CodeWords(pc, InUse)'
  BY <1>3, <1>4, <1>5 DEF CodeWords, Base
<1>7. pc' \in CodePlaces /\ pc' \in {"body", "shutdown"} /\ iflag' \in BOOLEAN
  BY <1>5 DEF CodePlaces
<1> QED
  BY <1>1, <1>2, <1>4, <1>6, <1>7, CodeStep

LEMMA ReturnStep == ASSUME IInv, Return PROVE IInv'
<1>1. TypeOK /\ UNCHANGED <<saved, current_thread, ready, runner, left, iflag>> /\ Pop(1)
  BY DEF IInv, Return, memory
<1>2. /\ runner \in ready /\ runner # Null /\ current_thread = runner /\ esp.of = runner
      /\ CodeWords(pc, InUse)
  BY CodeFacts DEF Return, CodePlaces
<1>3. Len(InUse) = 2 /\ InUse[1] = Base[1] /\ InUse[2] = Base[2]
  BY <1>2 DEF CodeWords, Return
<1>4. /\ esp' \in [of : Owner, at : 0 .. Depth] /\ esp'.of = esp.of
      /\ DOMAIN stack' = Owner /\ \A o \in Owner : o # esp.of => stack'[o] = stack[o]
      /\ Len(InUse)' = 1 /\ \A k \in 1 .. 1 : InUse'[k] = InUse[1 + k]
  <2>1. Len(InUse) = 1 + 1
    BY <1>3
  <2> QED
    BY <1>1, <2>1, PopOne
<1>5. pc' = "shutdown"
  <2>1. At(0) = "shutdown"
    BY <1>1, <1>3, AtFacts DEF Word, Base
  <2> QED
    BY <2>1 DEF Return
<1>6. CodeWords(pc, InUse)'
  BY <1>3, <1>4, <1>5 DEF CodeWords, Base
<1>7. pc' \in CodePlaces /\ pc' \in {"body", "shutdown"} /\ iflag' \in BOOLEAN
  BY <1>1, <1>5 DEF CodePlaces, TypeOK
<1> QED
  BY <1>1, <1>2, <1>4, <1>6, <1>7, CodeStep

-----------------------------------------------------------------------------
(* The words of setup_context. *)

LEMMA Joined ==
    ASSUME NEW S, NEW s \in Seq(S), NEW t \in Seq(S)
    PROVE  /\ s \o t \in Seq(S) /\ Len(s \o t) = Len(s) + Len(t)
           /\ \A k \in 1 .. Len(s) : (s \o t)[k] = s[k]
           /\ \A k \in 1 .. Len(t) : (s \o t)[Len(s) + k] = t[k]
OBVIOUS

LEMMA Tuples ==
    ASSUME NEW S, NEW a \in S, NEW b \in S, NEW c \in S, NEW d \in S
    PROVE  /\ <<a>> \in Seq(S) /\ Len(<<a>>) = 1 /\ <<a>>[1] = a
           /\ <<a, b>> \in Seq(S) /\ Len(<<a, b>>) = 2 /\ <<a, b>>[1] = a /\ <<a, b>>[2] = b
           /\ <<a, b, c>> \in Seq(S) /\ Len(<<a, b, c>>) = 3
           /\ <<a, b, c>>[1] = a /\ <<a, b, c>>[2] = b /\ <<a, b, c>>[3] = c
           /\ <<a, b, c, d>> \in Seq(S) /\ Len(<<a, b, c, d>>) = 4
           /\ <<a, b, c, d>>[1] = a /\ <<a, b, c, d>>[2] = b
           /\ <<a, b, c, d>>[3] = c /\ <<a, b, c, d>>[4] = d
OBVIOUS

LEMMA SequenceIs == ASSUME NEW S, NEW s \in Seq(S) PROVE s = [k \in 1 .. Len(s) |-> s[k]]
OBVIOUS

LEMMA FreshFacts ==
    /\ IsContext(Fresh) /\ Len(Fresh.words) = 3
    /\ Fresh.words[1] = Word("eip", "body") /\ Fresh.words[2] = Base[1] /\ Fresh.words[3] = Base[2]
<1> DEFINE S == {Word("eip", "body"), Base[1], Base[2]}
           one == <<Word("eip", "body")>>
<1>1. one \in Seq(S) /\ Len(one) = 1 /\ one[1] = Word("eip", "body")
  BY Tuples
<1>2. Base \in Seq(S) /\ Len(Base) = 2
  BY DEF Base
<1> HIDE DEF S, one
<1>3. /\ one \o Base \in Seq(S) /\ Len(one \o Base) = 3
      /\ \A k \in 1 .. 1 : (one \o Base)[k] = one[k]
      /\ \A k \in 1 .. 2 : (one \o Base)[1 + k] = Base[k]
  BY <1>1, <1>2, Joined
<1>4. /\ (one \o Base)[1] = one[1]
      /\ (one \o Base)[1 + 1] = Base[1] /\ (one \o Base)[1 + 2] = Base[2]
  BY <1>3
<1>5. one \o Base = [k \in 1 .. 3 |-> (one \o Base)[k]]
  <2>1. one \o Base = [k \in 1 .. Len(one \o Base) |-> (one \o Base)[k]]
    BY <1>3, SequenceIs
  <2> QED
    BY <1>3, <2>1
<1>6. Fresh.words = one \o Base
  BY DEF Fresh, one
<1>7. IsWords(Fresh.words)
  BY <1>3, <1>5, <1>6 DEF IsWords
<1> QED
  BY <1>1, <1>3, <1>4, <1>6, <1>7 DEF IsContext, Fresh

LEMMA ThreeJoined ==
    ASSUME NEW S, NEW r \in Seq(S), NEW s \in Seq(S), NEW t \in Seq(S)
    PROVE  /\ Len(r \o s \o t) = Len(r) + Len(s) + Len(t)
           /\ \A k \in 1 .. Len(r) : (r \o s \o t)[k] = r[k]
           /\ \A k \in 1 .. Len(s) : (r \o s \o t)[Len(r) + k] = s[k]
           /\ \A k \in 1 .. Len(t) : (r \o s \o t)[Len(r) + Len(s) + k] = t[k]
<1>1. /\ r \o s \in Seq(S) /\ Len(r \o s) = Len(r) + Len(s)
      /\ \A k \in 1 .. Len(r) : (r \o s)[k] = r[k]
      /\ \A k \in 1 .. Len(s) : (r \o s)[Len(r) + k] = s[k]
  BY Joined
<1>2. PICK u \in Seq(S) : u = r \o s
  BY <1>1
<1>3. /\ Len(u \o t) = Len(u) + Len(t)
      /\ \A k \in 1 .. Len(u) : (u \o t)[k] = u[k]
      /\ \A k \in 1 .. Len(t) : (u \o t)[Len(u) + k] = t[k]
  BY Joined
<1>4. Len(r) \in Nat /\ Len(s) \in Nat /\ Len(u) = Len(r) + Len(s)
  BY <1>1, <1>2
<1>5. ASSUME NEW k \in 1 .. Len(r) PROVE (u \o t)[k] = r[k]
  <2>1. k \in 1 .. Len(u)
    BY <1>4
  <2> QED
    BY <1>1, <1>2, <1>3, <2>1
<1>6. ASSUME NEW k \in 1 .. Len(s) PROVE (u \o t)[Len(r) + k] = s[k]
  <2>1. Len(r) + k \in 1 .. Len(u)
    BY <1>4
  <2> QED
    BY <1>1, <1>2, <1>3, <2>1
<1> QED
  BY <1>2, <1>3, <1>4, <1>5, <1>6

LEMMA InitialFacts ==
    /\ Len(InitialWords) = 10
    /\ InitialWords[1] = Base[2] /\ InitialWords[2] = Base[1] /\ InitialWords[3] = Word("eip", "body")
    /\ InitialWords[4] = Flags(FALSE) /\ InitialWords[5] = Word("cs", "zero")
    /\ InitialWords[6] = Word("eip", "start")
    /\ InitialWords[9] = Word("eax", "zero") /\ InitialWords[10] = Word("regs", "zero")
<1> DEFINE r == <<Base[2], Base[1], Word("eip", "body")>>
           s == ReturnWords(FALSE, "start")
           t == StateWords("zero", "zero")
           S == {Base[2], Base[1], Word("eip", "body"), Flags(FALSE), Word("cs", "zero"),
                 Word("eip", "start"), Word("error", "zero"), Word("number", "zero"),
                 Word("eax", "zero"), Word("regs", "zero")}
<1>1. r \in Seq(S) /\ Len(r) = 3 /\ r[1] = Base[2] /\ r[2] = Base[1] /\ r[3] = Word("eip", "body")
  BY Tuples
<1>2. /\ s \in Seq(S) /\ Len(s) = 3
      /\ s[1] = Flags(FALSE) /\ s[2] = Word("cs", "zero") /\ s[3] = Word("eip", "start")
  BY Tuples DEF ReturnWords
<1>3. /\ t \in Seq(S) /\ Len(t) = 4 /\ t[3] = Word("eax", "zero") /\ t[4] = Word("regs", "zero")
  BY Tuples DEF StateWords
<1>4. InitialWords = r \o s \o t
  BY DEF InitialWords
<1> HIDE DEF r, s, t, S
<1>5. /\ Len(InitialWords) = 10
      /\ \A k \in 1 .. 3 : InitialWords[k] = r[k] /\ InitialWords[3 + k] = s[k]
      /\ \A k \in 1 .. 4 : InitialWords[6 + k] = t[k]
  <2>1. /\ Len(r \o s \o t) = Len(r) + Len(s) + Len(t)
        /\ \A k \in 1 .. Len(r) : (r \o s \o t)[k] = r[k]
        /\ \A k \in 1 .. Len(s) : (r \o s \o t)[Len(r) + k] = s[k]
        /\ \A k \in 1 .. Len(t) : (r \o s \o t)[Len(r) + Len(s) + k] = t[k]
    <3>1. r \in Seq(S) /\ s \in Seq(S) /\ t \in Seq(S)
      BY <1>1, <1>2, <1>3
    <3> QED
      BY <3>1, ThreeJoined
  <2>2. Len(r) = 3 /\ Len(s) = 3 /\ Len(t) = 4
    BY <1>1, <1>2, <1>3
  <2> QED
    BY <1>4, <2>1, <2>2
<1>6. /\ InitialWords[1] = r[1] /\ InitialWords[2] = r[2] /\ InitialWords[3] = r[3]
      /\ InitialWords[3 + 1] = s[1] /\ InitialWords[3 + 2] = s[2] /\ InitialWords[3 + 3] = s[3]
      /\ InitialWords[6 + 3] = t[3] /\ InitialWords[6 + 4] = t[4]
  BY <1>5
<1>7. 3 + 1 = 4 /\ 3 + 2 = 5 /\ 3 + 3 = 6 /\ 6 + 3 = 9 /\ 6 + 4 = 10
  OBVIOUS
<1>8. /\ InitialWords[4] = s[1] /\ InitialWords[5] = s[2] /\ InitialWords[6] = s[3]
      /\ InitialWords[9] = t[3] /\ InitialWords[10] = t[4]
  BY <1>6, <1>7, Zenon
<1>9. r[1] = Base[2] /\ r[2] = Base[1] /\ r[3] = Word("eip", "body")
  BY <1>1
<1>10. s[1] = Flags(FALSE) /\ s[2] = Word("cs", "zero") /\ s[3] = Word("eip", "start")
  BY <1>2
<1>11. t[3] = Word("eax", "zero") /\ t[4] = Word("regs", "zero")
  BY <1>3
<1> QED
  BY <1>5, <1>6, <1>8, <1>9, <1>10, <1>11, Zenon

LEMMA InitInv == ASSUME Init PROVE IInv
<1>1. /\ DOMAIN stack = Owner /\ DOMAIN saved = Thread /\ ready = {} /\ current_thread = Null
      /\ pc = "main" /\ esp = [of |-> Null, at |-> Depth] /\ iflag = TRUE /\ runner = Null
  BY DEF Init
<1>2. DOMAIN left = Owner /\ \A t \in Owner : left[t] = Fresh
  BY DEF Init, Fresh
<1>3. TypeOK
  BY <1>1, <1>2, StackAssumption DEF TypeOK, Owner
<1>4. AsleepOK /\ BootOK /\ PlaceOK
  BY <1>1, <1>2 DEF AsleepOK, BootOK, PlaceOK, Main, Owner
<1> QED
  BY <1>3, <1>4 DEF IInv

LEMMA ConstructStep == ASSUME IInv, NEW t \in Thread, Construct(t) PROVE IInv'
<1>1. /\ TypeOK /\ AsleepOK /\ BootOK /\ pc = "main" /\ pc' = pc /\ esp' = esp /\ iflag' = iflag
      /\ current_thread' = current_thread /\ runner' = runner /\ left' = left
      /\ ready' = ready \cup {t} /\ t \notin ready
      /\ stack' = [stack EXCEPT ![t] = With(stack[t], Depth, InitialWords)]
      /\ saved' = [saved EXCEPT ![t] = [of |-> t, at |-> Depth - Len(InitialWords)]]
  BY DEF IInv, Construct, registers
<1>2. runner = Null /\ iflag = TRUE /\ current_thread = Null /\ esp.of = Null /\ esp.at = Depth
  BY <1>1, MainFacts
<1>3. t \in Owner /\ t # Null /\ Null \in Owner /\ left[t] = Fresh
  BY <1>1, <1>2, StackAssumption DEF Owner, BootOK
<1>4. TypeOK'
  BY <1>1, <1>3 DEF TypeOK
<1>5. ASSUME NEW k \in 1 .. 10 PROVE stack'[t][Depth - k] = InitialWords[k]
  <2>1. Depth - k \in Cell /\ Depth - (Depth - k) = k
    BY StackAssumption DEF Cell
  <2>2. stack'[t] = With(stack[t], Depth, InitialWords)
    BY <1>1, <1>3 DEF TypeOK
  <2> QED
    BY <2>1, <2>2, InitialFacts DEF With
<1>6. /\ stack'[t][Depth - 1] = InitialWords[1] /\ stack'[t][Depth - 2] = InitialWords[2]
      /\ stack'[t][Depth - 3] = InitialWords[3] /\ stack'[t][Depth - 4] = InitialWords[4]
      /\ stack'[t][Depth - 5] = InitialWords[5] /\ stack'[t][Depth - 6] = InitialWords[6]
      /\ stack'[t][Depth - 9] = InitialWords[9] /\ stack'[t][Depth - 10] = InitialWords[10]
  BY <1>5
<1>7. /\ left'[t] = Fresh /\ Len(Fresh.words) = 3 /\ First(t)' = Depth - 3
      /\ Fresh.words[1] = Word("eip", "body") /\ Fresh.words[2] = Base[1] /\ Fresh.words[3] = Base[2]
  BY <1>1, <1>3, FreshFacts DEF First
<1>8. Suspended(t)'
  <2>1. IsContext(Fresh)
    BY FreshFacts
  <2>2. Bottom(t, left[t].words)'
    <3>1. ASSUME NEW k \in 1 .. 3 PROVE stack'[t][Depth - 3 + k - 1] = Fresh.words[k]
      <4>1. k = 1 \/ k = 2 \/ k = 3
        BY <3>1
      <4>2. Depth - 3 + 1 - 1 = Depth - 3 /\ Depth - 3 + 2 - 1 = Depth - 2 /\ Depth - 3 + 3 - 1 = Depth - 1
        BY StackAssumption
      <4> QED
        BY <1>6, <1>7, <4>1, <4>2, InitialFacts
    <3> QED
      BY <1>7, <3>1 DEF Bottom
  <2>3. Resumable(t)'
    <3>1. Fresh.pc = "start" /\ Fresh.iflag = FALSE
      BY DEF Fresh
    <3>2. CodeWords("start", Fresh.words)
      BY <1>7 DEF CodeWords
    <3>3. CodeWords(left[t].pc, left[t].words)'
      BY <1>7, <3>1 DEF CodeWords, Base
    <3>4. IsContext(left[t])'
      BY <1>7, <2>1 DEF IsContext
    <3> QED
      BY <1>7, <2>2, <3>1, <3>3, <3>4 DEF Resumable, Resumed
  <2>4. /\ Depth - 3 - 1 = Depth - 4 /\ Depth - 3 - 2 = Depth - 5 /\ Depth - 3 - 3 = Depth - 6
        /\ Depth - 3 - 6 = Depth - 9 /\ Depth - 3 - 7 = Depth - 10
    BY StackAssumption
  <2>5. ReturnPushed(t)' /\ StatePushed(t)'
    <3>1. /\ Fresh.pc = "start" /\ Fresh.iflag = FALSE /\ Fresh.eax = "zero" /\ Fresh.regs = "zero"
      BY DEF Fresh
    <3>2. /\ stack'[t][First(t)' - 1] = Flags(FALSE)
          /\ stack'[t][First(t)' - 2] = Word("cs", "zero")
          /\ stack'[t][First(t)' - 3] = Word("eip", "start")
          /\ stack'[t][First(t)' - 6] = Word("eax", "zero")
          /\ stack'[t][First(t)' - 7] = Word("regs", "zero")
      BY <1>6, <1>7, <2>4, InitialFacts
    <3> QED
      BY <1>7, <3>1, <3>2 DEF ReturnPushed, StatePushed
  <2>6. saved'[t] = [of |-> t, at |-> Depth - 10]
    BY <1>1, InitialFacts DEF TypeOK
  <2> QED
    BY <1>7, <2>3, <2>4, <2>5, <2>6 DEF Suspended
<1>9. AsleepOK'
  <2> SUFFICES ASSUME NEW u \in ready, u # t PROVE Suspended(u)'
    BY <1>1, <1>8 DEF AsleepOK
  <2>1. u \in Thread /\ u \in Owner /\ u # esp.of
    BY <1>1, <1>2, StackAssumption DEF TypeOK, Owner
  <2>2. stack'[u] = stack[u] /\ saved'[u] = saved[u] /\ left'[u] = left[u]
    BY <1>1, <2>1 DEF TypeOK
  <2> QED
    BY <1>1, <2>1, <2>2, SuspendedKept DEF AsleepOK
<1>10. BootOK' /\ PlaceOK'
  BY <1>1, <1>2 DEF BootOK, PlaceOK, Main
<1> QED
  BY <1>4, <1>9, <1>10 DEF IInv

-----------------------------------------------------------------------------
(* Interrupts, of main too. *)

\* There is room for the words of an interrupt.
LEMMA MainRoom ==
    ASSUME BootOK, ready \subseteq Thread, runner = Null,
           NEW p, NEW e, NEW r, NEW o, NEW a, Main(p, e, r, o, a)
    PROVE  a \in 8 .. Depth
<1>0. Depth \in Nat /\ Depth >= 18
  BY StackAssumption
<1>1. CASE a = Depth
  BY <1>0, <1>1
<1>2. CASE Calling /\ Leaving(p, e, r, a) /\ p \notin Saving
  <2>1. First(runner) = Depth - 1 /\ a = First(runner) - 1
    BY <1>2 DEF Leaving, Saving, Calling, First
  <2> QED
    BY <1>0, <2>1
<1>3. CASE o \in ready /\ Entering(p, e, r, o, a)
  <2>1. left[o] = Fresh /\ Len(Fresh.words) = 3
    BY <1>3, FreshFacts DEF BootOK
  <2>2. First(o) = Depth - 3 /\ a \in {First(o) - 7, First(o) - 3}
    BY <1>3, <2>1 DEF Entering, First
  <2> QED
    BY <1>0, <2>2
<1> QED
  BY <1>1, <1>2, <1>3 DEF Main, Within

\* Above the words in use nothing matters to main and the switch it calls.
LEMMA MainBelow ==
    ASSUME BootOK, ready \subseteq Thread, runner = Null,
           NEW p, NEW e, NEW r, NEW o \in Owner, NEW a, Main(p, e, r, o, a),
           current_thread' = current_thread, ready' = ready, runner' = runner, left' = left,
           \A c \in Cell : c >= a => stack'[o][c] = stack[o][c]
    PROVE  Main(p, e, r, o, a)'
<1>0. Depth \in Nat /\ Depth >= 18 /\ Null \notin ready
  BY StackAssumption
<1>1. CASE p = "main" /\ current_thread = Null /\ o = Null /\ a = Depth
  BY <1>0, <1>1 DEF Main
<1>2. CASE /\ o = runner /\ Calling /\ Leaving(p, e, r, a)
           /\ p = "compare" => current_thread = runner
           /\ p \in Saving => current_thread = runner /\ runner # Null
           /\ p = "loadOnly" => runner = Null
           /\ p = "setEsp" => current_thread = e
  <2>1. p \notin Saving
    BY <1>2
  <2>2. First(runner) = Depth - 1 /\ a = First(runner) - 1
    BY <1>2, <2>1 DEF Leaving, Saving, Calling, First
  <2>3. a \in 8 .. Depth /\ Depth - 2 = a /\ Depth - 2 \in Cell /\ a + 1 = First(runner)
    BY <1>0, <2>2 DEF Cell
  <2>4. \A c \in Cell : c >= First(runner) => stack'[runner][c] = stack[runner][c]
    BY <1>0, <1>2, <2>2 DEF Cell
  <2>5. /\ IsContext(left[runner])' /\ Bottom(runner, left[runner].words)'
        /\ First(runner)' = First(runner)
    BY <1>2, <2>4, BottomKept DEF Calling
  <2>6. Calling'
    BY <1>0, <1>2, <2>5 DEF Calling
  <2>7. stack'[runner][First(runner) - 1] = stack[runner][First(runner) - 1]
    BY <1>0, <1>2, <2>2, <2>3
  <2>8. Leaving(p, e, r, a)'
    BY <1>2, <2>1, <2>5, <2>7 DEF Leaving, Saving
  <2> QED
    BY <1>2, <2>3, <2>6, <2>8 DEF Main, Within
<1>3. CASE o = current_thread /\ o \in ready /\ Entering(p, e, r, o, a)
  <2>1. left[o] = Fresh /\ Len(Fresh.words) = 3
    BY <1>3, FreshFacts DEF BootOK
  <2>2. First(o) = Depth - 3 /\ a \in {First(o) - 7, First(o) - 3}
    BY <1>3, <2>1 DEF Entering, First
  <2>3. a \in 8 .. Depth
    BY <1>0, <2>2
  <2>4. \A c \in Cell : c >= First(o) - 3 => stack'[o][c] = stack[o][c]
    <3>1. First(o) - 3 >= a
      BY <1>0, <2>2
    <3>2. \A c \in Cell : c >= First(o) - 3 => c >= a
      BY <1>0, <2>2, <2>3, <3>1 DEF Cell
    <3> QED
      BY <3>2
  <2>5. \A c \in Cell : c >= First(o) => c >= First(o) - 3
    BY <1>0, <2>2 DEF Cell
  <2>6. Resumable(o)' /\ First(o)' = First(o)
    BY <1>3, <2>4, <2>5, ResumableKept DEF Entering
  <2>7. ReturnPushed(o)'
    <3>1. /\ First(o) - 1 \in Cell /\ First(o) - 2 \in Cell /\ First(o) - 3 \in Cell
          /\ First(o) - 1 >= First(o) - 3 /\ First(o) - 2 >= First(o) - 3 /\ First(o) - 3 >= First(o) - 3
      BY <1>0, <2>2 DEF Cell
    <3> QED
      BY <1>3, <2>4, <2>6, <3>1 DEF ReturnPushed, Entering
  <2>8. ASSUME p = "restore" PROVE StatePushed(o)' /\ a = First(o) - 7
    <3>1. a = First(o) - 7 /\ StatePushed(o)
      BY <1>3, <2>8 DEF Entering
    <3>2. First(o) - 6 \in Cell /\ First(o) - 7 \in Cell /\ First(o) - 6 >= a /\ First(o) - 7 >= a
      BY <1>0, <2>2, <3>1 DEF Cell
    <3> QED
      BY <2>6, <3>1, <3>2 DEF StatePushed
  <2>9. Entering(p, e, r, o, a)'
    BY <1>3, <2>6, <2>7, <2>8 DEF Entering
  <2> QED
    BY <1>3, <2>3, <2>9 DEF Main, Within
<1> QED
  BY <1>1, <1>2, <1>3 DEF Main, Within

\* The words of an interrupt.
InterruptWords(f, p, e, r) ==
    ReturnWords(f, p) \o StateWords(e, r) \o <<Word("pointer", "zero")>>

LEMMA InterruptFacts ==
    ASSUME NEW f, NEW p, NEW e, NEW r, NEW ws, ws = InterruptWords(f, p, e, r)
    PROVE  /\ Len(ws) = 8
           /\ ws[1] = Flags(f) /\ ws[2] = Word("cs", "zero") /\ ws[3] = Word("eip", p)
           /\ ws[6] = Word("eax", e) /\ ws[7] = Word("regs", r)
<1> DEFINE x == ReturnWords(f, p)
           y == StateWords(e, r)
           z == <<Word("pointer", "zero")>>
           S == {Flags(f), Word("cs", "zero"), Word("eip", p), Word("error", "zero"),
                 Word("number", "zero"), Word("eax", e), Word("regs", r), Word("pointer", "zero")}
<1>1. x \in Seq(S) /\ Len(x) = 3 /\ x[1] = Flags(f) /\ x[2] = Word("cs", "zero") /\ x[3] = Word("eip", p)
  BY Tuples DEF ReturnWords
<1>2. y \in Seq(S) /\ Len(y) = 4 /\ y[3] = Word("eax", e) /\ y[4] = Word("regs", r)
  BY Tuples DEF StateWords
<1>3. z \in Seq(S) /\ Len(z) = 1
  BY Tuples
<1>4. ws = x \o y \o z
  BY DEF InterruptWords
<1> HIDE DEF x, y, z, S
<1>5. /\ Len(x \o y \o z) = Len(x) + Len(y) + Len(z)
      /\ \A k \in 1 .. Len(x) : (x \o y \o z)[k] = x[k]
      /\ \A k \in 1 .. Len(y) : (x \o y \o z)[Len(x) + k] = y[k]
  <2>1. x \in Seq(S) /\ y \in Seq(S) /\ z \in Seq(S)
    BY <1>1, <1>2, <1>3
  <2> QED
    BY <2>1, ThreeJoined
<1>6. Len(x) = 3 /\ Len(y) = 4 /\ Len(z) = 1
  BY <1>1, <1>2, <1>3
<1>7. /\ Len(ws) = 8 /\ ws[1] = x[1] /\ ws[2] = x[2] /\ ws[3] = x[3]
      /\ ws[3 + 3] = y[3] /\ ws[3 + 4] = y[4]
  BY <1>4, <1>5, <1>6
<1>8. 3 + 3 = 6 /\ 3 + 4 = 7
  OBVIOUS
<1>9. ws[6] = y[3] /\ ws[7] = y[4]
  BY <1>7, <1>8, Zenon
<1>10. x[1] = Flags(f) /\ x[2] = Word("cs", "zero") /\ x[3] = Word("eip", p)
  BY <1>1
<1>11. y[3] = Word("eax", e) /\ y[4] = Word("regs", r)
  BY <1>2
<1> QED
  BY <1>7, <1>9, <1>10, <1>11, Zenon

LEMMA TickStep == ASSUME IInv, Tick PROVE IInv'
<1>1. PICK f, p, e, r, ws :
          f = iflag /\ p = pc /\ e = eax /\ r = regs /\ ws = InterruptWords(f, p, e, r)
  OBVIOUS
<1>2. /\ TypeOK /\ AsleepOK /\ BootOK /\ iflag = TRUE /\ Push(ws) /\ iflag' = FALSE /\ pc' = "handler"
      /\ saved' = saved /\ current_thread' = current_thread /\ ready' = ready /\ runner' = runner
      /\ left' = left
  <2>1. TypeOK /\ AsleepOK /\ BootOK /\ iflag = TRUE
    BY DEF IInv, Tick, TypeOK
  <2>2. ws = ReturnWords(iflag, pc) \o StateWords(eax, regs) \o <<Word("pointer", "zero")>>
    BY <1>1 DEF InterruptWords
  <2>3. Push(ws)
    BY <2>2, Zenon DEF Tick
  <2> QED
    BY <2>1, <2>3 DEF Tick
<1>3. /\ Len(ws) = 8
      /\ ws[1] = Flags(TRUE) /\ ws[2] = Word("cs", "zero") /\ ws[3] = Word("eip", p)
      /\ ws[6] = Word("eax", e) /\ ws[7] = Word("regs", r)
  <2>1. ws = InterruptWords(f, p, e, r)
    BY <1>1
  <2>2. /\ Len(ws) = 8
        /\ ws[1] = Flags(f) /\ ws[2] = Word("cs", "zero") /\ ws[3] = Word("eip", p)
        /\ ws[6] = Word("eax", e) /\ ws[7] = Word("regs", r)
    BY <2>1, InterruptFacts
  <2>3. Flags(f) = Flags(TRUE)
    BY <1>1, <1>2 DEF Flags
  <2> QED
    BY <2>2, <2>3
<1>4. CASE runner # Null
  <2>1. /\ runner \in ready /\ current_thread = runner /\ esp.of = runner
        /\ CodeWords(pc, InUse) /\ pc \in {"body", "shutdown"}
    BY <1>2, <1>4 DEF IInv, PlaceOK
  <2>2. 8 <= esp.at
    <3>1. Len(InUse) <= 2 /\ Len(InUse) = Depth - esp.at /\ esp.at \in 0 .. Depth
      BY <1>2, <2>1, InUseFacts DEF CodeWords, TypeOK
    <3> QED
      BY <3>1, StackAssumption
  <2>3. /\ esp' \in [of : Owner, at : 0 .. Depth] /\ esp'.of = esp.of /\ DOMAIN stack' = Owner
        /\ \A o \in Owner : o # esp.of => stack'[o] = stack[o]
    BY <1>2, <1>3, <2>2, PushFacts
  <2>4. /\ Len(InUse)' = Len(InUse) + 8
        /\ \A k \in 1 .. 8 : InUse'[k] = ws[8 + 1 - k]
        /\ \A k \in 1 .. Len(InUse) : InUse'[8 + k] = InUse[k]
    <3>1. TypeOK /\ 8 \in Nat /\ Len(ws) = 8 /\ 8 <= esp.at /\ Push(ws)
      BY <1>2, <1>3, <2>2
    <3>2. PICK n \in Nat : n = 8
      BY <3>1
    <3>3. Len(ws) = n /\ n <= esp.at
      BY <3>1, <3>2
    <3>4. /\ Len(InUse)' = Len(InUse) + n
          /\ \A k \in 1 .. n : InUse'[k] = ws[n + 1 - k]
          /\ \A k \in 1 .. Len(InUse) : InUse'[n + k] = InUse[k]
      BY <3>1, <3>3, PushInUse, Zenon
    <3> QED
      BY <3>2, <3>4
  <2>5. InUse'[6] = ws[3] /\ InUse'[7] = ws[2] /\ InUse'[8] = ws[1]
    BY <2>4
  <2>6. CodeWords(pc, InUse)'
    <3>1. /\ InUse'[6].kind = "eip" /\ InUse'[6].val = pc /\ InUse'[7].kind = "cs"
          /\ InUse'[8] = Flags(TRUE)
      BY <1>1, <1>3, <2>5 DEF Word
    <3>2. \/ /\ Len(InUse)' = 10 /\ pc = "body" /\ InUse'[9] = Base[1] /\ InUse'[10] = Base[2]
          \/ /\ Len(InUse)' = 9 /\ pc = "shutdown" /\ InUse'[9] = Base[2]
      <4>1. CASE pc = "body"
        <5>1. Len(InUse) = 2 /\ InUse[1] = Base[1] /\ InUse[2] = Base[2]
          BY <2>1, <4>1 DEF CodeWords
        <5>2. InUse'[8 + 1] = InUse[1] /\ InUse'[8 + 2] = InUse[2] /\ Len(InUse)' = 10
          BY <2>4, <5>1
        <5> QED
          BY <4>1, <5>1, <5>2
      <4>2. CASE pc = "shutdown"
        <5>1. Len(InUse) = 1 /\ InUse[1] = Base[2]
          BY <2>1, <4>2 DEF CodeWords
        <5>2. InUse'[8 + 1] = InUse[1] /\ Len(InUse)' = 9
          BY <2>4, <5>1
        <5> QED
          BY <4>2, <5>1, <5>2
      <4> QED
        BY <2>1, <4>1, <4>2
    <3>3. InterruptedAt(1, InUse)'
      BY <3>1, <3>2 DEF InterruptedAt, Base, Flags
    <3> QED
      BY <1>2, <3>3 DEF CodeWords
  <2>7. pc' \in CodePlaces
    BY <1>2 DEF CodePlaces
  <2> QED
    BY <1>2, <2>1, <2>3, <2>6, <2>7, CodeStep
<1>5. CASE runner = Null
  <2>1. PICK o \in Owner, a \in 0 .. Depth : o = esp.of /\ a = esp.at /\ Main(p, e, r, o, a)
    <3>1. Main(pc, eax, regs, esp.of, esp.at)
      BY <1>2, <1>5, StackAssumption DEF IInv, PlaceOK, TypeOK
    <3> QED
      BY <1>1, <1>2, <3>1 DEF TypeOK
  <2>2. a \in 8 .. Depth
    <3>1. Main(p, e, r, o, a)
      BY <2>1
    <3> QED
      BY <1>2, <1>5, <2>1, MainRoom DEF TypeOK
  <2>3. /\ esp' \in [of : Owner, at : 0 .. Depth] /\ esp'.of = o /\ esp'.at = a - 8
        /\ DOMAIN stack' = Owner /\ \A u \in Owner : u # o => stack'[u] = stack[u]
        /\ \A c \in Cell : stack'[o][c] = IF a - c \in 1 .. 8 THEN ws[a - c] ELSE stack[o][c]
    <3>1. TypeOK /\ 8 \in Nat /\ Len(ws) = 8 /\ 8 <= esp.at /\ Push(ws)
      BY <1>2, <1>3, <2>1, <2>2
    <3>2. /\ esp' \in [of : Owner, at : 0 .. Depth] /\ esp'.of = esp.of /\ esp'.at = esp.at - 8
          /\ DOMAIN stack' = Owner /\ \A u \in Owner : u # esp.of => stack'[u] = stack[u]
          /\ \A c \in Cell : stack'[esp.of][c] =
                 IF esp.at - c \in 1 .. 8 THEN ws[esp.at - c] ELSE stack[esp.of][c]
      BY <3>1, PushFacts
    <3> QED
      BY <2>1, <3>2
  <2>4. \A c \in Cell : c >= a => stack'[o][c] = stack[o][c]
    BY <2>2, <2>3, StackAssumption DEF Cell
  <2>5. Main(p, e, r, o, a)'
    BY <1>2, <1>5, <2>1, <2>4, MainBelow DEF TypeOK
  <2>6. /\ stack'[o][a - 8 + 5] = ws[3] /\ stack'[o][a - 8 + 6] = ws[2] /\ stack'[o][a - 8 + 7] = ws[1]
        /\ stack'[o][a - 8 + 1] = ws[7] /\ stack'[o][a - 8 + 2] = ws[6]
    <3>1. ASSUME NEW n \in 1 .. 7 PROVE stack'[o][a - 8 + n] = ws[8 - n]
      <4>1. a - 8 + n \in Cell /\ a - (a - 8 + n) = 8 - n /\ 8 - n \in 1 .. 8
        BY <2>2, StackAssumption DEF Cell
      <4> QED
        BY <2>3, <4>1
    <3> QED
      BY <3>1
  <2>7. PlaceOK'
    <3>1. /\ At(5)' = p /\ At(7)' = "on" /\ At(2)' = e /\ At(1)' = r
      BY <1>3, <2>3, <2>6 DEF At, Word, Flags
    <3>2. LET kind(n) == stack'[esp'.of][esp'.at + n].kind
          IN  kind(5) = "eip" /\ kind(6) = "cs" /\ kind(7) = "eflags"
      BY <1>3, <2>3, <2>6 DEF Word, Flags
    <3>3. esp'.at + 8 = a /\ a <= Depth
      BY <2>2, <2>3
    <3>4. Main(At(5), At(2), At(1), esp.of, esp.at + 8)'
      BY <2>3, <2>5, <3>1, <3>3
    <3> QED
      BY <1>2, <1>5, <3>1, <3>2, <3>3, <3>4 DEF PlaceOK
  <2>8. TypeOK'
    BY <1>2, <2>3 DEF TypeOK
  <2>9. AsleepOK'
    <3>1. \A t \in Thread : t \in Owner
      BY DEF Owner
    <3> QED
      BY <1>2, <2>1, <2>3, <3>1, AsleepKept
  <2>10. BootOK'
    BY <1>2 DEF BootOK
  <2> QED
    BY <2>7, <2>8, <2>9, <2>10 DEF IInv
<1> QED
  BY <1>4, <1>5

\* Main, interrupted, in the handler.
LEMMA MainHandler ==
    ASSUME IInv, pc \in {"handler", "leave"}, runner = Null
    PROVE  /\ iflag = FALSE /\ pc = "handler" /\ esp.at + 8 <= Depth
           /\ stack[esp.of][esp.at + 5].kind = "eip" /\ stack[esp.of][esp.at + 6].kind = "cs"
           /\ stack[esp.of][esp.at + 7].kind = "eflags"
           /\ At(7) = "on" /\ Main(At(5), At(2), At(1), esp.of, esp.at + 8)
<1>1. Null \notin ready /\ pc # "main" /\ pc \notin Instructions
  BY StackAssumption DEF IInv, TypeOK, Instructions
<1>2. ~Within(pc, eax, regs, esp.of, esp.at)
  BY DEF Within, Leaving, Entering
<1> QED
  BY <1>1, <1>2 DEF IInv, PlaceOK, Main

LEMMA ComputeStep == ASSUME IInv, Compute PROVE IInv'
<1>1. /\ TypeOK /\ AsleepOK /\ BootOK /\ stack' = stack /\ saved' = saved
      /\ current_thread' = current_thread /\ ready' = ready /\ pc' = pc /\ esp' = esp
      /\ iflag' = iflag /\ runner' = runner /\ left' = left /\ pc \in {"body", "handler"}
  BY DEF IInv, Compute, memory
<1>2. TypeOK' /\ AsleepOK' /\ BootOK'
  <2>1. AsleepOK'
    BY <1>1, AsleepKept DEF TypeOK
  <2> QED
    BY <1>1, <2>1 DEF TypeOK, BootOK
<1>3. PlaceOK'
  <2>1. CASE runner # Null
    <3>1. /\ runner \in ready /\ current_thread = runner /\ esp.of = runner
          /\ CodeWords(pc, InUse) /\ (iflag => pc \in {"body", "shutdown"})
      BY <1>1, <2>1, CodeFacts DEF CodePlaces
    <3>2. InUse' = InUse
      BY <1>1 DEF InUse
    <3>3. CodeWords(pc, InUse)'
      BY <1>1, <3>1, <3>2 DEF CodeWords, InterruptedAt, Base, Flags
    <3> QED
      BY <1>1, <3>1, <3>3 DEF PlaceOK
  <2>2. CASE runner = Null
    <3>1. pc = "handler"
      BY <1>1, <2>2, CodeFacts DEF CodePlaces
    <3>2. /\ iflag = FALSE /\ esp.at + 8 <= Depth
          /\ stack[esp.of][esp.at + 5].kind = "eip" /\ stack[esp.of][esp.at + 6].kind = "cs"
          /\ stack[esp.of][esp.at + 7].kind = "eflags"
          /\ At(7) = "on" /\ Main(At(5), At(2), At(1), esp.of, esp.at + 8)
      BY <2>2, <3>1, MainHandler
    <3>3. PICK p, e, r, o, a :
             p = At(5) /\ e = At(2) /\ r = At(1) /\ o = esp.of /\ a = esp.at + 8 /\ o \in Owner
      BY <1>1 DEF TypeOK
    <3>4. Main(p, e, r, o, a)'
      BY <1>1, <2>2, <3>2, <3>3, MainBelow DEF TypeOK
    <3>5. /\ p = At(5)' /\ e = At(2)' /\ r = At(1)' /\ o = esp'.of /\ a = esp'.at + 8 /\ At(7)' = At(7)
      BY <1>1, <3>3 DEF At
    <3>6. Main(At(5), At(2), At(1), esp.of, esp.at + 8)'
      BY <3>4, <3>5
    <3> QED
      BY <1>1, <2>2, <3>1, <3>2, <3>5, <3>6 DEF PlaceOK
  <2> QED
    BY <2>1, <2>2
<1> QED
  BY <1>2, <1>3 DEF IInv

\* iret, with what it takes off the stack as it should be.
LEMMA ReturnFromFacts ==
    ASSUME TypeOK, NEW n \in Nat, ReturnFrom(n),
           stack[esp.of][esp.at + n].kind = "eip", stack[esp.of][esp.at + n + 1].kind = "cs",
           stack[esp.of][esp.at + n + 2].kind = "eflags"
    PROVE  pc' = At(n) /\ iflag' = (At(n + 2) = "on") /\ Pop(n + 3)
<1>1. esp.at \in Nat
  BY StackAssumption DEF TypeOK
<1>2. esp.at + n + 0 = esp.at + n
  BY <1>1
<1> QED
  BY <1>2 DEF ReturnFrom

LEMMA LeaveHandlerStep == ASSUME IInv, LeaveHandler PROVE IInv'
<1>1. /\ TypeOK /\ AsleepOK /\ BootOK /\ saved' = saved /\ current_thread' = current_thread
      /\ ready' = ready /\ runner' = runner /\ left' = left /\ pc \in {"handler", "leave"}
      /\ regs' = At(1) /\ eax' = At(2) /\ ReturnFrom(5)
  BY DEF IInv, LeaveHandler, memory
<1>2. esp \in [of : Owner, at : 0 .. Depth] /\ Depth \in Nat
  BY <1>1, StackAssumption DEF TypeOK
<1>3. esp.at + 5 + 1 = esp.at + 6 /\ esp.at + 5 + 2 = esp.at + 7 /\ 5 + 3 = 8 /\ 5 + 2 = 7
  BY <1>2
<1>4. CASE runner # Null
  <2>1. /\ runner \in ready /\ current_thread = runner /\ esp.of = runner
        /\ CodeWords(pc, InUse)
    BY <1>1, <1>4, CodeFacts DEF CodePlaces
  <2>2. InterruptedAt(1, InUse)
    BY <1>1, <2>1 DEF CodeWords
  <2>3. /\ InUse[6].kind = "eip" /\ InUse[7].kind = "cs" /\ InUse[8] = Word("eflags", "on")
        /\ Len(InUse) \in {9, 10}
    BY <2>2 DEF InterruptedAt, Flags
  <2>4. /\ stack[esp.of][esp.at + 5] = InUse[6] /\ stack[esp.of][esp.at + 6] = InUse[7]
        /\ stack[esp.of][esp.at + 7] = InUse[8] /\ At(5) = InUse[6].val /\ At(7) = InUse[8].val
    <3>1. ASSUME NEW n \in 0 .. 8 PROVE At(n) = InUse[n + 1].val /\ stack[esp.of][esp.at + n] = InUse[n + 1]
      <4>0. Len(InUse) = 9 \/ Len(InUse) = 10
        BY <2>3
      <4>1. n \in Nat /\ n < 9 /\ n < 10
        OBVIOUS
      <4>2. n \in Nat /\ n < Len(InUse)
        BY <4>0, <4>1
      <4> QED
        BY <1>1, <4>2, AtFacts
    <3> QED
      BY <3>1
  <2>5. pc' = InUse[6].val /\ iflag' = TRUE /\ Pop(8)
    <3>1. pc' = At(5) /\ iflag' = (At(7) = "on") /\ Pop(8)
      <4>1. /\ stack[esp.of][esp.at + 5].kind = "eip" /\ stack[esp.of][esp.at + 5 + 1].kind = "cs"
            /\ stack[esp.of][esp.at + 5 + 2].kind = "eflags"
        BY <1>3, <2>3, <2>4 DEF Word
      <4> QED
        BY <1>1, <1>3, <4>1, ReturnFromFacts
    <3> QED
      <4>1. At(7) = "on" /\ At(5) = InUse[6].val
        BY <2>3, <2>4 DEF Word
      <4> QED
        BY <3>1, <4>1
  <2>6. /\ esp' \in [of : Owner, at : 0 .. Depth] /\ esp'.of = esp.of /\ DOMAIN stack' = Owner
        /\ \A o \in Owner : o # esp.of => stack'[o] = stack[o]
        /\ Len(InUse)' = Len(InUse) - 8
        /\ \A k \in 1 .. Len(InUse) - 8 : InUse'[k] = InUse[8 + k]
    <3>1. 8 \in Nat /\ 8 <= Len(InUse)
      BY <2>3
    <3>2. esp.at + 8 <= Depth
      BY <1>1, <2>5, <3>1, PopInUse
    <3> QED
      BY <1>1, <2>5, <3>1, <3>2, PopInUse, PopFacts
  <2>7. CodeWords(pc, InUse)' /\ pc' \in {"body", "shutdown"}
    <3>1. CASE Len(InUse) = 10
      <4>1. InUse[6].val = "body" /\ InUse[9] = Base[1] /\ InUse[10] = Base[2]
        BY <2>2, <3>1 DEF InterruptedAt
      <4>2. Len(InUse)' = 2 /\ InUse'[1] = InUse[8 + 1] /\ InUse'[2] = InUse[8 + 2]
        BY <2>6, <3>1
      <4>3. Len(InUse)' = 2 /\ InUse'[1] = Base[1] /\ InUse'[2] = Base[2]
        BY <4>1, <4>2
      <4> QED
        BY <2>5, <4>1, <4>3 DEF CodeWords, Base
    <3>2. CASE Len(InUse) = 9
      <4>1. InUse[6].val = "shutdown" /\ InUse[9] = Base[2]
        BY <2>2, <3>2 DEF InterruptedAt
      <4>2. Len(InUse)' = 1 /\ InUse'[1] = InUse[8 + 1]
        BY <2>6, <3>2
      <4>3. Len(InUse)' = 1 /\ InUse'[1] = Base[2]
        BY <4>1, <4>2
      <4> QED
        BY <2>5, <4>1, <4>3 DEF CodeWords, Base
    <3> QED
      BY <2>3, <3>1, <3>2
  <2>8. pc' \in CodePlaces /\ iflag' \in BOOLEAN
    BY <2>5, <2>7 DEF CodePlaces
  <2> QED
    BY <1>1, <2>1, <2>6, <2>7, <2>8, CodeStep
<1>5. CASE runner = Null
  <2>1. /\ esp.at + 8 <= Depth
        /\ stack[esp.of][esp.at + 5].kind = "eip" /\ stack[esp.of][esp.at + 6].kind = "cs"
        /\ stack[esp.of][esp.at + 7].kind = "eflags"
        /\ At(7) = "on" /\ Main(At(5), At(2), At(1), esp.of, esp.at + 8)
    BY <1>1, <1>5, MainHandler
  <2>2. pc' = At(5) /\ iflag' = TRUE /\ Pop(8)
    <3>1. pc' = At(5) /\ iflag' = (At(7) = "on") /\ Pop(8)
      BY <1>1, <1>3, <2>1, ReturnFromFacts
    <3> QED
      BY <2>1, <3>1
  <2>3. PICK p, e, r, o, a :
           p = pc' /\ e = eax' /\ r = regs' /\ o = esp.of /\ a = esp.at + 8 /\ o \in Owner
    BY <1>2
  <2>4. Main(p, e, r, o, a)
    BY <1>1, <2>1, <2>2, <2>3
  <2>5. /\ esp' \in [of : Owner, at : 0 .. Depth] /\ esp'.of = esp.of /\ esp'.at = a
        /\ DOMAIN stack' = Owner /\ \A u \in Owner : u # esp.of => stack'[u] = stack[u]
        /\ \A c \in Cell : c >= a => stack'[o][c] = stack[o][c]
    <3>1. 8 \in Nat
      OBVIOUS
    <3> QED
      BY <1>1, <2>1, <2>2, <2>3, <3>1, PopFacts
  <2>6. Main(p, e, r, o, a)'
    BY <1>1, <1>5, <2>3, <2>4, <2>5, MainBelow DEF TypeOK
  <2>7. PlaceOK'
    <3>1. Main(pc, eax, regs, esp.of, esp.at)'
      BY <2>3, <2>5, <2>6
    <3> QED
      BY <1>1, <1>5, <2>2, <3>1 DEF PlaceOK
  <2>8. TypeOK'
    BY <1>1, <2>2, <2>5 DEF TypeOK
  <2>9. AsleepOK'
    <3>1. ASSUME p \in {"loadParam", "setCurrent", "setEsp"} PROVE o = Null
      BY <1>5, <2>4, <3>1 DEF Main, Within, Entering
    <3>2. (\A t \in Thread : t \in Owner) /\ Null \notin Thread
      BY StackAssumption DEF Owner
    <3> QED
      BY <1>1, <2>3, <2>5, <3>1, <3>2, AsleepKept
  <2>10. BootOK'
    BY <1>1 DEF BootOK
  <2> QED
    BY <2>7, <2>8, <2>9, <2>10 DEF IInv
<1> QED
  BY <1>4, <1>5

-----------------------------------------------------------------------------
(* The callers of the switch. *)

Prepend(w, u) == <<w>> \o u
HasLength(u, n) == u = [k \in 1 .. n |-> u[k]]

LEMMA Prepended ==
    ASSUME NEW w, NEW n \in 0 .. 10, NEW u, HasLength(u, n)
    PROVE  /\ Len(Prepend(w, u)) = n + 1 /\ Prepend(w, u)[1] = w
           /\ \A k \in 1 .. n : Prepend(w, u)[1 + k] = u[k]
           /\ HasLength(Prepend(w, u), n + 1)
<1> DEFINE S == {w} \cup {u[k] : k \in 1 .. n}
           x == <<w>>
<1>1. x \in Seq(S) /\ Len(x) = 1 /\ x[1] = w
  BY Tuples
<1>2. u \in Seq(S) /\ Len(u) = n
  BY DEF HasLength
<1> HIDE DEF S, x
<1>3. /\ x \o u \in Seq(S) /\ Len(x \o u) = Len(x) + Len(u)
      /\ \A k \in 1 .. Len(x) : (x \o u)[k] = x[k]
      /\ \A k \in 1 .. Len(u) : (x \o u)[Len(x) + k] = u[k]
  <2>1. x \in Seq(S) /\ u \in Seq(S)
    BY <1>1, <1>2
  <2> QED
    BY <2>1, Joined
<1>4. x \o u = [k \in 1 .. Len(x \o u) |-> (x \o u)[k]]
  BY <1>3, SequenceIs
<1>5. Len(x) = 1 /\ x[1] = w /\ Len(u) = n
  BY <1>1, <1>2
<1>6. /\ Len(x \o u) = n + 1 /\ (x \o u)[1] = w
      /\ \A k \in 1 .. n : (x \o u)[1 + k] = u[k]
  <2>1. Len(x \o u) = n + 1 /\ (x \o u)[1] = x[1]
    BY <1>3, <1>5
  <2>2. ASSUME NEW k \in 1 .. n PROVE (x \o u)[1 + k] = u[k]
    BY <1>3, <1>5
  <2> QED
    BY <1>5, <2>1, <2>2
<1>7. x \o u = [k \in 1 .. n + 1 |-> (x \o u)[k]]
  BY <1>4, <1>6
<1>8. x \o u = Prepend(w, u)
  BY DEF x, Prepend
<1> QED
  BY <1>1, <1>6, <1>7, <1>8 DEF HasLength

LEMMA CallFacts ==
    ASSUME TypeOK, esp.of = runner, Len(InUse) \in 0 .. 10,
           NEW t, NEW f, NEW p, Call(t, f, p)
    PROVE  /\ esp' \in [of : Owner, at : 0 .. Depth] /\ esp'.of = esp.of
           /\ DOMAIN stack' = Owner /\ DOMAIN left' = Owner
           /\ \A o \in Owner : o # runner => stack'[o] = stack[o] /\ left'[o] = left[o]
           /\ left'[runner].pc = p /\ left'[runner].iflag = f
           /\ left'[runner].eax = eax /\ left'[runner].regs = regs
           /\ Len(left'[runner].words) = Len(InUse) + 1
           /\ left'[runner].words[1] = Word("param", t)
           /\ \A k \in 1 .. Len(InUse) : left'[runner].words[1 + k] = InUse[k]
           /\ IsContext(left[runner])' /\ Bottom(runner, left[runner].words)'
           /\ First(runner)' = esp.at - 1 /\ esp'.at = esp.at - 2
           /\ stack'[runner][esp.at - 2] = Word("eip", p)
<1> DEFINE a == esp.at
           ws == <<Word("param", t), Word("eip", p)>>
           W == Prepend(Word("param", t), InUse)
           n == Len(InUse)
<1>1. /\ Depth \in Nat /\ Depth >= 18 /\ a \in 0 .. Depth /\ n = Depth - a /\ n \in 0 .. 10
      /\ \A k \in 1 .. n : InUse[k] = stack[runner][a + k - 1]
  BY InUseFacts, StackAssumption DEF TypeOK
<1>2. Len(ws) = 2 /\ ws[1] = Word("param", t) /\ ws[2] = Word("eip", p) /\ Push(ws)
  BY DEF Call
<1>3. /\ esp' \in [of : Owner, at : 0 .. Depth] /\ esp'.of = esp.of /\ esp'.at = a - 2
      /\ DOMAIN stack' = Owner /\ \A o \in Owner : o # esp.of => stack'[o] = stack[o]
      /\ \A c \in Cell : stack'[esp.of][c] = IF a - c \in 1 .. 2 THEN ws[a - c] ELSE stack[esp.of][c]
  <2>1. 2 \in Nat /\ 2 <= esp.at
    BY <1>1
  <2> HIDE DEF ws
  <2> QED
    BY <1>2, <2>1, PushFacts
<1>4. left' = [left EXCEPT ![runner] = [pc |-> p, eax |-> eax, regs |-> regs, iflag |-> f, words |-> W]]
  BY DEF Call, Prepend
<1>5. /\ Len(W) = n + 1 /\ W[1] = Word("param", t) /\ \A k \in 1 .. n : W[1 + k] = InUse[k]
      /\ W = [k \in 1 .. n + 1 |-> W[k]]
  <2>1. InUse = [k \in 1 .. n |-> InUse[k]]
    <3>1. InUse = [k \in 1 .. Depth - a |-> stack[esp.of][a + k - 1]]
      BY DEF InUse
    <3> QED
      BY <1>1, <3>1
  <2> HIDE DEF n
  <2>2. PICK w, g, m : w = Word("param", t) /\ g = InUse /\ m = n
    OBVIOUS
  <2>3. m \in 0 .. 10 /\ HasLength(g, m)
    <3>1. m \in 0 .. 10
      BY <1>1, <2>2
    <3>2. g = [k \in 1 .. m |-> g[k]]
      BY <2>1, <2>2, Zenon
    <3>3. HasLength(g, m)
      BY <3>2 DEF HasLength
    <3> QED
      BY <3>1, <3>3
  <2>4. /\ Len(Prepend(w, g)) = m + 1 /\ Prepend(w, g)[1] = w
        /\ \A k \in 1 .. m : Prepend(w, g)[1 + k] = g[k]
        /\ HasLength(Prepend(w, g), m + 1)
    BY <2>3, Prepended
  <2> QED
    BY <2>2, <2>4, Zenon DEF HasLength
<1> HIDE DEF W, n, a, ws
<1>6. DOMAIN left' = Owner /\ runner' = runner /\ \A o \in Owner : o # runner => left'[o] = left[o]
  BY <1>4 DEF TypeOK, Call
<1>7. left'[runner] = [pc |-> p, eax |-> eax, regs |-> regs, iflag |-> f, words |-> W]
  BY <1>4 DEF TypeOK
<1>17. /\ Depth \in Nat /\ Depth >= 18 /\ a \in 0 .. Depth /\ n = Depth - a /\ n \in 0 .. 10
      /\ Cell = 0 .. Depth - 1
  BY <1>1 DEF Cell
<1>18. Len(W) = n + 1 /\ W[1] = Word("param", t) /\ left'[runner].words = W
  BY <1>5, <1>7
<1>8. IsContext(left[runner])'
  <2>1. n + 1 \in 1 .. 11
    BY <1>17
  <2>2. W = [k \in 1 .. n + 1 |-> W[k]] /\ Len(W) = n + 1
    BY <1>5
  <2>3. IsWords(W)
    BY <2>1, <2>2, Zenon DEF IsWords
  <2> QED
    BY <1>6, <1>7, <2>3 DEF IsContext
<1>9. First(runner)' = a - 1
  BY <1>6, <1>17, <1>18 DEF First
<1>10. stack'[runner][a - 2] = Word("eip", p)
  <2>1. a - 2 \in Cell /\ a - (a - 2) = 2
    BY <1>17
  <2> QED
    BY <1>2, <1>3, <2>1
<1>11. ASSUME NEW k \in 1 .. n + 1 PROVE stack'[runner][Depth - (n + 1) + k - 1] = W[k]
  <2>1. CASE k = 1
    <3>1. Depth - (n + 1) + k - 1 = a - 1 /\ a - 1 \in Cell /\ a - (a - 1) = 1
      BY <1>17, <2>1
    <3> QED
      BY <1>2, <1>3, <1>18, <2>1, <3>1
  <2>2. CASE k # 1
    <3>1. k - 1 \in 1 .. n /\ 1 + (k - 1) = k
      BY <1>17, <2>2
    <3>2. /\ Depth - (n + 1) + k - 1 = a + (k - 1) - 1 /\ a + (k - 1) - 1 \in Cell
          /\ a - (a + (k - 1) - 1) \notin 1 .. 2
      BY <1>17, <2>2
    <3>3. W[k] = InUse[k - 1]
      BY <1>5, <3>1
    <3>4. InUse[k - 1] = stack[runner][a + (k - 1) - 1]
      BY <1>1, <3>1
    <3> QED
      BY <1>3, <3>2, <3>3, <3>4
  <2> QED
    BY <2>1, <2>2
<1>12. Bottom(runner, left[runner].words)'
  BY <1>6, <1>18, <1>11 DEF Bottom
<1>13. /\ left'[runner].pc = p /\ left'[runner].iflag = f
       /\ left'[runner].eax = eax /\ left'[runner].regs = regs
  BY <1>7
<1>14. \A k \in 1 .. n : W[1 + k] = InUse[k]
  BY <1>5
<1>15. /\ Len(left'[runner].words) = n + 1 /\ left'[runner].words[1] = Word("param", t)
       /\ \A k \in 1 .. n : left'[runner].words[1 + k] = InUse[k]
  BY <1>18, <1>14
<1>16. esp'.at = esp.at - 2 /\ esp' \in [of : Owner, at : 0 .. Depth] /\ esp'.of = esp.of
       /\ DOMAIN stack' = Owner /\ \A o \in Owner : o # runner => stack'[o] = stack[o]
  BY <1>3 DEF a
<1> QED
  BY <1>6, <1>8, <1>9, <1>10, <1>12, <1>13, <1>15, <1>16 DEF n, a

\* A call by whoever is not in a switch.
LEMMA CallStep ==
    ASSUME IInv, esp.of = runner, current_thread = runner, Len(InUse) \in 0 .. 10,
           NEW t, NEW f \in BOOLEAN, NEW p, Call(t, f, p),
           ready' \subseteq ready, t \in ready', f <=> runner = Null,
           runner = Null => Len(InUse) = 0,
           runner \in ready' => p \in Resumed /\ CodeWords(p, left'[runner].words)
    PROVE  IInv'
<1>1. /\ TypeOK /\ AsleepOK /\ BootOK /\ pc' = "compare" /\ iflag' = f /\ saved' = saved
      /\ current_thread' = current_thread /\ eax' = eax /\ regs' = regs /\ runner' = runner
  BY DEF IInv, Call
<1>2. /\ esp' \in [of : Owner, at : 0 .. Depth] /\ esp'.of = esp.of
      /\ DOMAIN stack' = Owner /\ DOMAIN left' = Owner
      /\ \A o \in Owner : o # runner => stack'[o] = stack[o] /\ left'[o] = left[o]
  BY <1>1, CallFacts
<1>3. /\ left'[runner].pc = p /\ left'[runner].iflag = f
      /\ left'[runner].eax = eax /\ left'[runner].regs = regs
      /\ Len(left'[runner].words) = Len(InUse) + 1
      /\ left'[runner].words[1] = Word("param", t)
  BY <1>1, CallFacts
<1>4. IsContext(left[runner])' /\ Bottom(runner, left[runner].words)'
  BY <1>1, CallFacts
<1>5. /\ First(runner)' = esp.at - 1 /\ esp'.at = esp.at - 2
      /\ stack'[runner][esp.at - 2] = Word("eip", p)
  BY <1>1, CallFacts
<1>6. TypeOK'
  BY <1>1, <1>2 DEF TypeOK
<1>7. AsleepOK'
  <2>1. \A u \in Thread : u \in Owner
    BY DEF Owner
  <2> QED
    BY <1>1, <1>2, <2>1, AsleepKept
<1>8. BootOK'
  BY <1>1, <1>2, StackAssumption DEF BootOK, Owner
<1>9. Calling'
  <2>1. left'[runner'].words[1].val \in ready'
    BY <1>1, <1>3 DEF Word
  <2>2. runner' = Null => Len(left'[runner'].words) = 1
    BY <1>1, <1>3
  <2>3. runner' # Null => left'[runner'].iflag = FALSE
    BY <1>1, <1>3
  <2>4. ASSUME runner' \in ready' PROVE Resumable(runner)'
    <3>1. runner # Null
      BY <1>1, <2>4, StackAssumption DEF TypeOK
    <3>2. left'[runner].iflag = FALSE
      BY <1>3, <3>1
    <3>3. left'[runner].pc \in Resumed /\ CodeWords(left'[runner].pc, left'[runner].words)
      BY <1>1, <1>3, <2>4
    <3>4. CodeWords(left[runner].pc, left[runner].words)'
      BY <1>1, <3>3 DEF CodeWords, InterruptedAt, Flags, Base
    <3> QED
      BY <1>1, <1>4, <3>2, <3>3, <3>4 DEF Resumable
  <2> QED
    BY <1>1, <1>4, <2>1, <2>2, <2>3, <2>4 DEF Calling
<1>10. PlaceOK'
  <2>1. esp.at - 2 = First(runner)' - 1
    BY <1>1, <1>5 DEF TypeOK
  <2>2. Leaving(pc, eax, regs, esp.at)'
    BY <1>1, <1>3, <1>5, <2>1 DEF Leaving
  <2>3. Within(pc, eax, regs, esp.of, esp.at)'
    BY <1>1, <1>2, <1>9, <2>2 DEF Within, Saving
  <2>4. pc' \in Instructions
    BY <1>1 DEF Instructions
  <2> QED
    BY <1>1, <2>3, <2>4 DEF PlaceOK, Main
<1> QED
  BY <1>6, <1>7, <1>8, <1>10 DEF IInv

LEMMA DispatchStep == ASSUME IInv, NEW t \in Thread, Dispatch(t) PROVE IInv'
<1>1. pc = "main" /\ t \in ready /\ ready' = ready /\ Call(t, iflag, "never")
  BY DEF Dispatch
<1>2. runner = Null /\ iflag = TRUE /\ current_thread = Null /\ esp.of = Null /\ esp.at = Depth
  BY <1>1, MainFacts
<1>3. Len(InUse) = 0
  <2>1. Len(InUse) = Depth - esp.at
    BY InUseFacts DEF IInv
  <2> QED
    BY <1>2, <2>1, StackAssumption
<1>4. runner \notin ready'
  BY <1>1, <1>2, StackAssumption DEF IInv, TypeOK
<1>5. /\ esp.of = runner /\ current_thread = runner /\ Len(InUse) \in 0 .. 10
      /\ iflag \in BOOLEAN /\ (iflag <=> runner = Null) /\ ready' \subseteq ready /\ t \in ready'
  BY <1>1, <1>2, <1>3
<1> QED
  BY <1>1, <1>3, <1>4, <1>5, CallStep

LEMMA YieldStep == ASSUME IInv, NEW t \in Thread, Yield(t) PROVE IInv'
<1>1. TypeOK /\ pc = "body" /\ t \in ready /\ ready' = ready /\ Call(t, FALSE, "yielded")
  BY DEF IInv, Yield, Disabled
<1>2. /\ runner \in ready /\ runner # Null /\ current_thread = runner /\ esp.of = runner
      /\ CodeWords(pc, InUse)
  BY <1>1, CodeFacts DEF CodePlaces
<1>3. Len(InUse) = 2 /\ InUse[1] = Base[1] /\ InUse[2] = Base[2]
  BY <1>1, <1>2 DEF CodeWords
<1>4. Len(InUse) \in 0 .. 10
  BY <1>3
<1>5. /\ Len(left'[runner].words) = Len(InUse) + 1
      /\ \A k \in 1 .. Len(InUse) : left'[runner].words[1 + k] = InUse[k]
  BY <1>1, <1>2, <1>4, CallFacts
<1>6. CodeWords("yielded", left'[runner].words)
  <2>1. /\ Len(left'[runner].words) = 3 /\ left'[runner].words[1 + 1] = InUse[1]
        /\ left'[runner].words[1 + 2] = InUse[2]
    BY <1>3, <1>5
  <2>2. /\ Len(left'[runner].words) = 3 /\ left'[runner].words[2] = Base[1]
        /\ left'[runner].words[3] = Base[2]
    BY <1>3, <2>1
  <2> QED
    BY <2>2 DEF CodeWords
<1>7. FALSE \in BOOLEAN /\ (FALSE <=> runner = Null) /\ (runner = Null => Len(InUse) = 0)
      /\ "yielded" \in Resumed /\ ready' \subseteq ready /\ t \in ready'
  BY <1>1, <1>2 DEF Resumed
<1> QED
  BY <1>1, <1>2, <1>4, <1>6, <1>7, CallStep

LEMMA EndOfQuantumStep == ASSUME IInv, NEW t \in Thread, EndOfQuantum(t) PROVE IInv'
<1>1. /\ TypeOK /\ pc = "handler" /\ t \in ready /\ ready' = ready
      /\ Call(t, iflag, "switchedBack") /\ runner # Null
  BY DEF IInv, EndOfQuantum
<1>2. /\ runner \in ready /\ current_thread = runner /\ esp.of = runner
      /\ CodeWords(pc, InUse) /\ ~iflag
  BY <1>1, CodeFacts DEF CodePlaces
<1>3. InterruptedAt(1, InUse)
  BY <1>1, <1>2 DEF CodeWords
<1>4. Len(InUse) = 9 \/ Len(InUse) = 10
  BY <1>3 DEF InterruptedAt
<1>5. Len(InUse) \in 0 .. 10
  BY <1>4
<1>6. PICK w : w = left'[runner].words
  OBVIOUS
<1>7. Len(w) = Len(InUse) + 1 /\ \A k \in 1 .. Len(InUse) : w[1 + k] = InUse[k]
  BY <1>1, <1>2, <1>5, <1>6, CallFacts
<1>8. CodeWords("switchedBack", w)
  <2>1. /\ w[7] = InUse[6] /\ w[8] = InUse[7] /\ w[9] = InUse[8] /\ w[10] = InUse[9]
    <3>1. w[1 + 6] = InUse[6] /\ w[1 + 7] = InUse[7] /\ w[1 + 8] = InUse[8] /\ w[1 + 9] = InUse[9]
      BY <1>4, <1>7
    <3> QED
      BY <3>1
  <2>2. CASE Len(InUse) = 10
    <3>1. Len(w) = 11 /\ w[1 + 10] = InUse[10]
      BY <1>7, <2>2
    <3> QED
      BY <1>3, <2>1, <2>2, <3>1 DEF CodeWords, InterruptedAt, Flags
  <2>3. CASE Len(InUse) = 9
    <3>1. Len(w) = 10
      BY <1>7, <2>3
    <3> QED
      BY <1>3, <2>1, <2>3, <3>1 DEF CodeWords, InterruptedAt, Flags
  <2> QED
    BY <1>4, <2>2, <2>3
<1>9. /\ iflag \in BOOLEAN /\ (iflag <=> runner = Null) /\ (runner = Null => Len(InUse) = 0)
      /\ "switchedBack" \in Resumed /\ ready' \subseteq ready /\ t \in ready'
  BY <1>1, <1>2 DEF Resumed, TypeOK
<1> QED
  BY <1>1, <1>2, <1>5, <1>6, <1>8, <1>9, CallStep

LEMMA ShutdownStep == ASSUME IInv, NEW t \in Thread, Shutdown(t) PROVE IInv'
<1>1. TypeOK /\ pc = "shutdown" /\ t \in ready \ {runner} /\ ready' = ready \ {runner}
      /\ Call(t, FALSE, "never")
  BY DEF IInv, Shutdown, Disabled
<1>2. /\ runner \in ready /\ runner # Null /\ current_thread = runner /\ esp.of = runner
      /\ CodeWords(pc, InUse)
  BY <1>1, CodeFacts DEF CodePlaces
<1>3. Len(InUse) \in 0 .. 10
  <2>1. Len(InUse) = 1
    BY <1>1, <1>2 DEF CodeWords
  <2> QED
    BY <2>1
<1>4. /\ FALSE \in BOOLEAN /\ (FALSE <=> runner = Null) /\ (runner = Null => Len(InUse) = 0)
      /\ ready' \subseteq ready /\ t \in ready' /\ runner \notin ready'
  BY <1>1, <1>2
<1> QED
  BY <1>1, <1>2, <1>3, <1>4, CallStep

-----------------------------------------------------------------------------
(* The instructions of the switch, on the stack of the caller. *)

LEMMA LeavingStep ==
    ASSUME IInv, pc \in Instructions \ {"restore", "iret"}, pc' \in Instructions \ {"restore", "iret"},
           ready' = ready, iflag' = iflag, runner' = runner, left' = left,
           esp' \in [of : Owner, at : 0 .. Depth], esp'.of = esp.of,
           DOMAIN stack' = Owner, \A o \in Owner : o # runner => stack'[o] = stack[o],
           \A c \in Cell : c >= First(runner) => stack'[runner][c] = stack[runner][c],
           DOMAIN saved' = Thread, \A t \in Thread : t # runner => saved'[t] = saved[t],
           current_thread' \in Owner, Leaving(pc, eax, regs, esp.at)',
           pc' = "compare" => current_thread' = runner,
           pc' \in Saving => current_thread' = runner /\ runner # Null,
           pc' = "loadOnly" => runner = Null,
           pc' = "setEsp" => current_thread' = eax',
           runner \in ready /\ pc' \in {"loadParam", "setCurrent", "setEsp"} => Suspended(runner)'
    PROVE  IInv'
<1>1. /\ TypeOK /\ AsleepOK /\ BootOK /\ esp.of = runner /\ Calling /\ iflag = (runner = Null)
  BY LeavingFacts, SwitchFacts DEF IInv
<1>2. TypeOK'
  BY <1>1 DEF TypeOK
<1>3. AsleepOK'
  <2> SUFFICES ASSUME NEW t \in ready,
                      t # runner \/ pc' \in {"loadParam", "setCurrent", "setEsp"}
               PROVE  Suspended(t)'
    BY <1>1 DEF AsleepOK
  <2>1. CASE t = runner
    BY <2>1
  <2>2. CASE t # runner
    <3>1. t \in Thread /\ t \in Owner
      BY <1>1 DEF TypeOK, Owner
    <3>2. Suspended(t) /\ stack'[t] = stack[t] /\ saved'[t] = saved[t] /\ left'[t] = left[t]
      BY <1>1, <2>2, <3>1 DEF AsleepOK
    <3> QED
      BY <3>2, SuspendedKept
  <2> QED
    BY <2>1, <2>2
<1>4. BootOK'
  BY <1>1 DEF BootOK
<1>5. Calling'
  <2>1. IsContext(left[runner])' /\ Bottom(runner, left[runner].words)'
    <3>1. PICK o : o = runner
      OBVIOUS
    <3>2. IsContext(left[o])' /\ Bottom(o, left[o].words)'
      BY <1>1, <3>1, BottomKept DEF Calling
    <3> QED
      BY <3>1, <3>2
  <2>2. (runner \in ready => Resumable(runner))'
    <3>1. PICK o : o = runner
      OBVIOUS
    <3>2. o \in ready => Resumable(o)'
      BY <1>1, <3>1, ResumableKept DEF Calling
    <3> QED
      BY <3>1, <3>2
  <2> QED
    BY <1>1, <2>1, <2>2 DEF Calling
<1>6. Within(pc, eax, regs, esp.of, esp.at)'
  BY <1>1, <1>5 DEF Within
<1>7. PlaceOK'
  BY <1>1, <1>6 DEF PlaceOK, Main
<1> QED
  BY <1>2, <1>3, <1>4, <1>7 DEF IInv

LEMMA CallerFacts ==
    ASSUME IInv, pc \in Instructions \ {"restore", "iret"}
    PROVE  /\ TypeOK /\ AsleepOK /\ BootOK /\ esp.of = runner /\ runner \in Owner
           /\ Depth \in Nat /\ Depth >= 18 /\ Cell = 0 .. Depth - 1
           /\ First(runner) \in 7 .. Depth - 1 /\ esp.at \in 0 .. Depth
           /\ DOMAIN stack = Owner /\ DOMAIN saved = Thread /\ current_thread \in Owner
           /\ esp \in [of : Owner, at : 0 .. Depth]
           /\ iflag = (runner = Null)
           /\ Calling /\ Leaving(pc, eax, regs, esp.at)
<1>1. TypeOK /\ AsleepOK /\ BootOK /\ esp.of = runner /\ Calling /\ Leaving(pc, eax, regs, esp.at)
      /\ iflag = (runner = Null)
  BY LeavingFacts, SwitchFacts DEF IInv
<1>2. First(runner) \in 7 .. Depth - 1
  BY <1>1, FirstCell DEF Calling
<1> QED
  BY <1>1, <1>2, StackAssumption DEF TypeOK, Cell

LEMMA PushLeaving ==
    ASSUME IInv, pc \in Instructions \ {"restore", "iret"},
           NEW ws, NEW n \in Nat, Len(ws) = n, n <= esp.at, Push(ws), esp.at <= First(runner)
    PROVE  /\ esp' \in [of : Owner, at : 0 .. Depth] /\ esp'.of = esp.of /\ esp'.at = esp.at - n
           /\ DOMAIN stack' = Owner
           /\ \A o \in Owner : o # runner => stack'[o] = stack[o]
           /\ \A c \in Cell : c >= esp.at => stack'[runner][c] = stack[runner][c]
           /\ \A c \in Cell : c >= First(runner) => stack'[runner][c] = stack[runner][c]
           /\ \A k \in 1 .. n : stack'[runner][esp.at - k] = ws[k]
<1> DEFINE a == esp.at
<1>1. /\ TypeOK /\ esp.of = runner /\ Depth \in Nat /\ Cell = 0 .. Depth - 1
      /\ First(runner) \in 7 .. Depth - 1 /\ a \in 0 .. Depth
  BY CallerFacts
<1>2. /\ esp' \in [of : Owner, at : 0 .. Depth] /\ esp'.of = esp.of /\ esp'.at = a - n
      /\ DOMAIN stack' = Owner
      /\ \A o \in Owner : o # runner => stack'[o] = stack[o]
      /\ \A c \in Cell : stack'[runner][c] = IF a - c \in 1 .. n THEN ws[a - c] ELSE stack[runner][c]
  BY <1>1, PushFacts
<1> HIDE DEF a
<1>3. ASSUME NEW c \in Cell, c >= a PROVE stack'[runner][c] = stack[runner][c]
  <2>1. a - c \notin 1 .. n
    BY <1>1, <1>3
  <2> QED
    BY <1>2, <2>1
<1>4. ASSUME NEW k \in 1 .. n PROVE stack'[runner][a - k] = ws[k]
  <2>1. a - k \in Cell /\ a - (a - k) = k
    <3>1. n <= a
      BY DEF a
    <3> QED
      BY <1>1, <3>1
  <2> QED
    BY <1>2, <2>1
<1>5. \A c \in Cell : c >= First(runner) => c >= a
  <2>1. a <= First(runner)
    BY DEF a
  <2> QED
    BY <1>1, <2>1
<1> QED
  BY <1>2, <1>3, <1>4, <1>5 DEF a

LEMMA CompareStep == ASSUME IInv, Compare PROVE IInv'
<1>1. /\ pc = "compare" /\ pc' = (IF current_thread = Null THEN "loadOnly" ELSE "pushEax")
      /\ ready' = ready /\ iflag' = iflag /\ runner' = runner /\ left' = left
      /\ stack' = stack /\ saved' = saved /\ current_thread' = current_thread /\ esp' = esp
      /\ eax' = eax /\ regs' = regs
  BY DEF Compare, Step
<1>2. pc \in Instructions \ {"restore", "iret"} /\ pc' \in Instructions \ {"restore", "iret"}
  BY <1>1 DEF Instructions
<1>3. current_thread = runner
  BY <1>1, <1>2, LeavingFacts
<1>4. Leaving(pc, eax, regs, esp.at)' /\ Leaving(pc, eax, regs, esp.at)
  BY <1>1, <1>2, CallerFacts DEF Leaving, First
<1>5. pc' \notin {"compare", "setEsp", "loadParam", "setCurrent"}
  BY <1>1
<1>6. pc' \in Saving => runner # Null
  BY <1>1, <1>3 DEF Saving
<1>7. pc' = "loadOnly" => runner = Null
  BY <1>1, <1>3
<1> QED
  BY <1>1, <1>2, <1>3, <1>4, <1>5, <1>6, <1>7, CallerFacts, LeavingStep

\* The steps up to the last word that is saved.
LEMMA SavingStep ==
    ASSUME IInv, pc \in Saving \ {"loadParam"}, pc' \in Saving \ {"loadParam"},
           ready' = ready, iflag' = iflag, runner' = runner, left' = left,
           saved' = saved, current_thread' = current_thread,
           esp' \in [of : Owner, at : 0 .. Depth], esp'.of = esp.of,
           DOMAIN stack' = Owner, \A o \in Owner : o # runner => stack'[o] = stack[o],
           \A c \in Cell : c >= First(runner) => stack'[runner][c] = stack[runner][c],
           Leaving(pc, eax, regs, esp.at)'
    PROVE  IInv'
<1>1. pc \in Instructions \ {"restore", "iret"} /\ pc' \in Instructions \ {"restore", "iret"}
      /\ pc \in Saving /\ pc' \in Saving
      /\ pc' \notin {"compare", "setEsp", "loadParam", "setCurrent", "loadOnly"}
  BY DEF Instructions, Saving
<1>2. current_thread = runner /\ runner # Null
  BY <1>1, LeavingFacts
<1> QED
  BY <1>1, <1>2, CallerFacts, LeavingStep

LEMMA SavingFacts ==
    ASSUME IInv, pc \in Saving
    PROVE  /\ pc \in Instructions \ {"restore", "iret"} /\ runner # Null /\ iflag = FALSE
           /\ current_thread = runner /\ esp.of = runner /\ left[runner].iflag = FALSE
           /\ First(runner) \in 7 .. Depth - 1 /\ Depth \in Nat /\ Cell = 0 .. Depth - 1
           /\ Leaving(pc, eax, regs, esp.at) /\ esp \in [of : Owner, at : 0 .. Depth]
<1>1. pc \in Instructions \ {"restore", "iret"}
  BY DEF Instructions, Saving
<1>2. current_thread = runner /\ runner # Null
  BY <1>1, LeavingFacts
<1>3. iflag = FALSE
  BY <1>1, <1>2, CallerFacts
<1> QED
  BY <1>1, <1>2, <1>3, CallerFacts DEF Calling

LEMMA OnePushed ==
    ASSUME IInv, pc \in Saving, NEW w, Push(<<w>>), NEW n \in 0 .. 3, esp.at = First(runner) - n
    PROVE  /\ esp' \in [of : Owner, at : 0 .. Depth] /\ esp'.of = esp.of
           /\ esp'.at = First(runner) - (n + 1)
           /\ DOMAIN stack' = Owner
           /\ \A o \in Owner : o # runner => stack'[o] = stack[o]
           /\ \A c \in Cell : c >= First(runner) => stack'[runner][c] = stack[runner][c]
           /\ \A k \in 1 .. n : stack'[runner][First(runner) - k] = stack[runner][First(runner) - k]
           /\ stack'[runner][First(runner) - (n + 1)] = w
<1> DEFINE b == First(runner)
<1>1. b \in 7 .. Depth - 1 /\ Depth \in Nat /\ Cell = 0 .. Depth - 1
      /\ pc \in Instructions \ {"restore", "iret"}
  BY SavingFacts
<1>2. PICK ws : ws = <<w>> /\ Len(ws) = 1 /\ ws[1] = w /\ Push(ws)
  OBVIOUS
<1>3. 1 \in Nat /\ 1 <= esp.at /\ esp.at <= b
  BY <1>1
<1>4. /\ esp' \in [of : Owner, at : 0 .. Depth] /\ esp'.of = esp.of /\ esp'.at = esp.at - 1
      /\ DOMAIN stack' = Owner
      /\ \A o \in Owner : o # runner => stack'[o] = stack[o]
      /\ \A c \in Cell : c >= esp.at => stack'[runner][c] = stack[runner][c]
      /\ \A c \in Cell : c >= b => stack'[runner][c] = stack[runner][c]
      /\ \A k \in 1 .. 1 : stack'[runner][esp.at - k] = ws[k]
  BY <1>1, <1>2, <1>3, PushLeaving
<1> HIDE DEF b
<1>5. esp.at = b - n
  BY DEF b
<1>6. esp.at - 1 = b - (n + 1) /\ \A k \in 1 .. n : b - k \in Cell /\ b - k >= esp.at
  BY <1>1, <1>5
<1> QED
  BY <1>2, <1>4, <1>6 DEF b

LEMMA PushEaxStep == ASSUME IInv, PushEax PROVE IInv'
<1>1. /\ pc = "pushEax" /\ pc' = "getReturn"
      /\ ready' = ready /\ iflag' = iflag /\ runner' = runner /\ left' = left
      /\ saved' = saved /\ current_thread' = current_thread
      /\ eax' = eax /\ regs' = regs /\ Push(<<Word("eax", eax)>>)
  BY DEF PushEax, Step
<1>2. pc \in Saving \ {"loadParam"} /\ pc' \in Saving \ {"loadParam"}
  BY <1>1 DEF Saving
<1>3. /\ esp.at = First(runner) - 1 /\ stack[runner][First(runner) - 1] = Word("eip", left[runner].pc)
      /\ eax = left[runner].eax /\ regs = left[runner].regs
  BY <1>1, <1>2, SavingFacts DEF Leaving
<1>4. PICK w : w = Word("eax", eax) /\ Push(<<w>>)
  BY <1>1
<1>5. /\ esp' \in [of : Owner, at : 0 .. Depth] /\ esp'.of = esp.of
      /\ esp'.at = First(runner) - (1 + 1)
      /\ DOMAIN stack' = Owner
      /\ \A o \in Owner : o # runner => stack'[o] = stack[o]
      /\ \A c \in Cell : c >= First(runner) => stack'[runner][c] = stack[runner][c]
      /\ \A k \in 1 .. 1 : stack'[runner][First(runner) - k] = stack[runner][First(runner) - k]
      /\ stack'[runner][First(runner) - (1 + 1)] = w
  <2>1. 1 \in 0 .. 3
    OBVIOUS
  <2> QED
    BY <1>2, <1>3, <1>4, <2>1, OnePushed
<1>6. Leaving(pc, eax, regs, esp.at)'
  BY <1>1, <1>3, <1>4, <1>5 DEF Leaving, First
<1> QED
  BY <1>1, <1>2, <1>5, <1>6, SavingStep

LEMMA GetReturnStep == ASSUME IInv, GetReturn PROVE IInv'
<1>1. /\ pc = "getReturn" /\ pc' = "moveReturn"
      /\ ready' = ready /\ iflag' = iflag /\ runner' = runner /\ left' = left
      /\ stack' = stack /\ saved' = saved /\ current_thread' = current_thread
      /\ esp' = esp /\ eax' = At(1) /\ regs' = regs
  BY DEF GetReturn, Step
<1>2. pc \in Saving \ {"loadParam"} /\ pc' \in Saving \ {"loadParam"}
  BY <1>1 DEF Saving
<1>3. /\ esp.at = First(runner) - 2 /\ stack[runner][First(runner) - 1] = Word("eip", left[runner].pc)
      /\ stack[runner][First(runner) - 2] = Word("eax", left[runner].eax) /\ regs = left[runner].regs
  BY <1>1, <1>2, SavingFacts DEF Leaving
<1>4. eax' = left[runner].pc
  <2>1. First(runner) - 2 + 1 = First(runner) - 1
    BY <1>2, SavingFacts
  <2> QED
    BY <1>1, <1>2, <1>3, <2>1, SavingFacts DEF At, Word
<1>5. Leaving(pc, eax, regs, esp.at)'
  BY <1>1, <1>3, <1>4 DEF Leaving, First
<1> QED
  BY <1>1, <1>2, <1>5, SavingStep, CallerFacts, SavingFacts

LEMMA MoveReturnStep == ASSUME IInv, MoveReturn PROVE IInv'
<1>1. /\ pc = "moveReturn" /\ pc' = "moveUp"
      /\ ready' = ready /\ iflag' = iflag /\ runner' = runner /\ left' = left
      /\ stack' = [stack EXCEPT ![esp.of] = With(stack[esp.of], esp.at, <<Word("eip", eax)>>)]
      /\ saved' = saved /\ current_thread' = current_thread
      /\ esp' = esp /\ eax' = eax /\ regs' = regs
  BY DEF MoveReturn, Step
<1>2. pc \in Saving \ {"loadParam"} /\ pc' \in Saving \ {"loadParam"}
  BY <1>1 DEF Saving
<1>3. /\ esp.at = First(runner) - 2 /\ eax = left[runner].pc
      /\ stack[runner][First(runner) - 2] = Word("eax", left[runner].eax) /\ regs = left[runner].regs
  BY <1>1, <1>2, SavingFacts DEF Leaving
<1>4. /\ esp.of = runner /\ runner \in Owner /\ DOMAIN stack = Owner
      /\ First(runner) \in 7 .. Depth - 1 /\ Depth \in Nat /\ Cell = 0 .. Depth - 1
  BY <1>2, SavingFacts, CallerFacts
<1>5. DOMAIN stack' = Owner /\ \A o \in Owner : o # runner => stack'[o] = stack[o]
  BY <1>1, <1>4
<1>6. PICK ws : ws = <<Word("eip", eax)>> /\ Len(ws) = 1 /\ ws[1] = Word("eip", eax)
                /\ stack'[runner] = With(stack[runner], esp.at, ws)
  BY <1>1, <1>4
<1>7. ASSUME NEW c \in Cell
      PROVE  stack'[runner][c] = IF esp.at - c = 1 THEN ws[1] ELSE stack[runner][c]
  <2>1. esp.at - c \in 1 .. 1 <=> esp.at - c = 1
    BY <1>3, <1>4
  <2> QED
    BY <1>6, <2>1 DEF With
<1>8. /\ \A c \in Cell : c >= First(runner) => stack'[runner][c] = stack[runner][c]
      /\ stack'[runner][First(runner) - 2] = stack[runner][First(runner) - 2]
      /\ stack'[runner][First(runner) - 3] = Word("eip", left[runner].pc)
  <2>1. \A c \in Cell : c >= First(runner) => esp.at - c # 1
    BY <1>3, <1>4
  <2>2. /\ First(runner) - 2 \in Cell /\ esp.at - (First(runner) - 2) # 1
        /\ First(runner) - 3 \in Cell /\ esp.at - (First(runner) - 3) = 1
    BY <1>3, <1>4
  <2> QED
    BY <1>3, <1>6, <1>7, <2>1, <2>2
<1>9. Leaving(pc, eax, regs, esp.at)'
  BY <1>1, <1>3, <1>8 DEF Leaving, First
<1> QED
  BY <1>1, <1>2, <1>5, <1>8, <1>9, SavingStep, SavingFacts

LEMMA MoveUpStep == ASSUME IInv, MoveUp PROVE IInv'
<1>1. /\ pc = "moveUp" /\ pc' = "pushFlags"
      /\ ready' = ready /\ iflag' = iflag /\ runner' = runner /\ left' = left
      /\ stack' = stack /\ saved' = saved /\ current_thread' = current_thread
      /\ esp' = Above(2) /\ eax' = eax /\ regs' = regs
  BY DEF MoveUp, Step
<1>2. pc \in Saving \ {"loadParam"} /\ pc' \in Saving \ {"loadParam"}
  BY <1>1 DEF Saving
<1>3. /\ esp.at = First(runner) - 2 /\ stack[runner][First(runner) - 3] = Word("eip", left[runner].pc)
      /\ stack[runner][First(runner) - 2] = Word("eax", left[runner].eax) /\ regs = left[runner].regs
  BY <1>1, <1>2, SavingFacts DEF Leaving
<1>4. esp'.at = First(runner) /\ esp'.of = esp.of /\ esp' \in [of : Owner, at : 0 .. Depth]
  <2>1. /\ First(runner) \in 7 .. Depth - 1 /\ Depth \in Nat /\ esp \in [of : Owner, at : 0 .. Depth]
        /\ First(runner) - 2 + 2 = First(runner) /\ First(runner) \in 0 .. Depth
    BY <1>2, SavingFacts
  <2>2. esp' = [esp EXCEPT !.at = First(runner)]
    BY <1>1, <1>3, <2>1 DEF Above
  <2> QED
    BY <2>1, <2>2
<1>5. Leaving(pc, eax, regs, esp.at)'
  BY <1>1, <1>3, <1>4 DEF Leaving, First
<1> QED
  BY <1>1, <1>2, <1>4, <1>5, SavingStep, CallerFacts, SavingFacts

LEMMA PushFlagsStep == ASSUME IInv, PushFlags PROVE IInv'
<1>1. /\ pc = "pushFlags" /\ pc' = "restoreEax"
      /\ ready' = ready /\ iflag' = iflag /\ runner' = runner /\ left' = left
      /\ saved' = saved /\ current_thread' = current_thread
      /\ eax' = eax /\ regs' = regs /\ Push(<<Flags(iflag)>>)
  BY DEF PushFlags, Step
<1>2. pc \in Saving \ {"loadParam"} /\ pc' \in Saving \ {"loadParam"}
  BY <1>1 DEF Saving
<1>3. /\ esp.at = First(runner) /\ stack[runner][First(runner) - 3] = Word("eip", left[runner].pc)
      /\ stack[runner][First(runner) - 2] = Word("eax", left[runner].eax) /\ regs = left[runner].regs
  BY <1>1, <1>2, SavingFacts DEF Leaving
<1>4. PICK w : w = Flags(iflag) /\ Push(<<w>>)
  BY <1>1
<1>5. w = Flags(left[runner].iflag)
  BY <1>2, <1>4, SavingFacts DEF Flags
<1>6. /\ First(runner) \in 7 .. Depth - 1 /\ Depth \in Nat /\ Cell = 0 .. Depth - 1
      /\ esp \in [of : Owner, at : 0 .. Depth] /\ esp.of = runner /\ DOMAIN stack = Owner
  BY <1>2, SavingFacts, CallerFacts
<1>7. PICK ws : ws = <<w>> /\ Len(ws) = 1 /\ ws[1] = w /\ Push(ws)
  BY <1>4
<1>8. /\ esp' \in [of : Owner, at : 0 .. Depth] /\ esp'.of = esp.of /\ esp'.at = First(runner) - 1
      /\ DOMAIN stack' = Owner
      /\ \A o \in Owner : o # runner => stack'[o] = stack[o]
      /\ \A c \in Cell : stack'[runner][c] =
             IF First(runner) - c \in 1 .. 1 THEN ws[First(runner) - c] ELSE stack[runner][c]
  <2>1. TypeOK /\ 1 \in Nat /\ 1 <= esp.at
    BY <1>2, <1>3, <1>6, SavingFacts, CallerFacts
  <2>2. /\ esp' \in [of : Owner, at : 0 .. Depth] /\ esp'.of = esp.of /\ esp'.at = esp.at - 1
        /\ DOMAIN stack' = Owner
        /\ \A o \in Owner : o # esp.of => stack'[o] = stack[o]
        /\ \A c \in Cell : stack'[esp.of][c] =
               IF esp.at - c \in 1 .. 1 THEN ws[esp.at - c] ELSE stack[esp.of][c]
    BY <1>7, <2>1, PushFacts
  <2> QED
    BY <1>3, <1>6, <2>2
<1>9. /\ \A c \in Cell : c >= First(runner) => stack'[runner][c] = stack[runner][c]
      /\ stack'[runner][First(runner) - 1] = w
      /\ stack'[runner][First(runner) - 2] = stack[runner][First(runner) - 2]
      /\ stack'[runner][First(runner) - 3] = stack[runner][First(runner) - 3]
  <2>1. /\ \A c \in Cell : c >= First(runner) => First(runner) - c \notin 1 .. 1
        /\ First(runner) - 1 \in Cell /\ First(runner) - (First(runner) - 1) = 1
        /\ First(runner) - 2 \in Cell /\ First(runner) - (First(runner) - 2) = 2
        /\ First(runner) - 3 \in Cell /\ First(runner) - (First(runner) - 3) = 3
    BY <1>6
  <2> QED
    BY <1>7, <1>8, <2>1
<1>10. Leaving(pc, eax, regs, esp.at)'
  BY <1>1, <1>3, <1>5, <1>8, <1>9 DEF Leaving, First
<1> QED
  BY <1>1, <1>2, <1>8, <1>9, <1>10, SavingStep

LEMMA RestoreEaxStep == ASSUME IInv, RestoreEax PROVE IInv'
<1>1. /\ pc = "restoreEax" /\ pc' = "pushCS"
      /\ ready' = ready /\ iflag' = iflag /\ runner' = runner /\ left' = left
      /\ stack' = stack /\ saved' = saved /\ current_thread' = current_thread
      /\ esp' = esp /\ eax' = At(-1) /\ regs' = regs
  BY DEF RestoreEax, Step
<1>2. pc \in Saving \ {"loadParam"} /\ pc' \in Saving \ {"loadParam"}
  BY <1>1 DEF Saving
<1>3. /\ esp.at = First(runner) - 1 /\ stack[runner][First(runner) - 3] = Word("eip", left[runner].pc)
      /\ stack[runner][First(runner) - 2] = Word("eax", left[runner].eax) /\ regs = left[runner].regs
      /\ stack[runner][First(runner) - 1] = Flags(left[runner].iflag)
  BY <1>1, <1>2, SavingFacts DEF Leaving
<1>4. eax' = left[runner].eax
  <2>1. First(runner) - 1 + (-1) = First(runner) - 2
    BY <1>2, SavingFacts
  <2> QED
    BY <1>1, <1>2, <1>3, <2>1, SavingFacts DEF At, Word
<1>5. Leaving(pc, eax, regs, esp.at)'
  BY <1>1, <1>3, <1>4 DEF Leaving, First
<1> QED
  BY <1>1, <1>2, <1>5, SavingStep, CallerFacts, SavingFacts

LEMMA PushCSStep == ASSUME IInv, PushCS PROVE IInv'
<1>1. /\ pc = "pushCS" /\ pc' = "moveDown"
      /\ ready' = ready /\ iflag' = iflag /\ runner' = runner /\ left' = left
      /\ saved' = saved /\ current_thread' = current_thread
      /\ eax' = eax /\ regs' = regs /\ Push(<<Word("cs", "zero")>>)
  BY DEF PushCS, Step
<1>2. pc \in Saving \ {"loadParam"} /\ pc' \in Saving \ {"loadParam"}
  BY <1>1 DEF Saving
<1>3. /\ esp.at = First(runner) - 1 /\ stack[runner][First(runner) - 3] = Word("eip", left[runner].pc)
      /\ stack[runner][First(runner) - 1] = Flags(left[runner].iflag)
      /\ eax = left[runner].eax /\ regs = left[runner].regs
  BY <1>1, <1>2, SavingFacts DEF Leaving
<1>4. PICK ws : ws = <<Word("cs", "zero")>> /\ Len(ws) = 1 /\ ws[1] = Word("cs", "zero") /\ Push(ws)
  BY <1>1
<1>5. /\ First(runner) \in 7 .. Depth - 1 /\ Depth \in Nat /\ Cell = 0 .. Depth - 1
      /\ esp \in [of : Owner, at : 0 .. Depth] /\ esp.of = runner /\ DOMAIN stack = Owner
  BY <1>2, SavingFacts, CallerFacts
<1>6. /\ esp' \in [of : Owner, at : 0 .. Depth] /\ esp'.of = esp.of /\ esp'.at = esp.at - 1
      /\ DOMAIN stack' = Owner
      /\ \A o \in Owner : o # runner => stack'[o] = stack[o]
      /\ \A c \in Cell : stack'[runner][c] =
             IF esp.at - c \in 1 .. 1 THEN ws[esp.at - c] ELSE stack[runner][c]
  <2>1. TypeOK /\ 1 \in Nat /\ 1 <= esp.at
    BY <1>2, <1>3, <1>5, SavingFacts, CallerFacts
  <2> QED
    BY <1>4, <1>5, <2>1, PushFacts
<1>7. /\ esp'.at = First(runner) - 2
      /\ \A c \in Cell : c >= First(runner) => stack'[runner][c] = stack[runner][c]
      /\ stack'[runner][First(runner) - 1] = stack[runner][First(runner) - 1]
      /\ stack'[runner][First(runner) - 2] = Word("cs", "zero")
      /\ stack'[runner][First(runner) - 3] = stack[runner][First(runner) - 3]
  <2>1. /\ \A c \in Cell : c >= First(runner) => esp.at - c \notin 1 .. 1
        /\ First(runner) - 1 \in Cell /\ esp.at - (First(runner) - 1) = 0
        /\ First(runner) - 2 \in Cell /\ esp.at - (First(runner) - 2) = 1
        /\ First(runner) - 3 \in Cell /\ esp.at - (First(runner) - 3) = 2
        /\ esp.at - 1 = First(runner) - 2
    BY <1>3, <1>5
  <2> QED
    BY <1>4, <1>6, <2>1
<1>8. Leaving(pc, eax, regs, esp.at)'
  BY <1>1, <1>3, <1>7 DEF Leaving, First, ReturnPushed
<1> QED
  BY <1>1, <1>2, <1>6, <1>7, <1>8, SavingStep

LEMMA MoveDownStep == ASSUME IInv, MoveDown PROVE IInv'
<1>1. /\ pc = "moveDown" /\ pc' = "pushState"
      /\ ready' = ready /\ iflag' = iflag /\ runner' = runner /\ left' = left
      /\ stack' = stack /\ saved' = saved /\ current_thread' = current_thread
      /\ esp' = Above(-1) /\ eax' = eax /\ regs' = regs
  BY DEF MoveDown, Step
<1>2. pc \in Saving \ {"loadParam"} /\ pc' \in Saving \ {"loadParam"}
  BY <1>1 DEF Saving
<1>3. /\ esp.at = First(runner) - 2 /\ ReturnPushed(runner)
      /\ eax = left[runner].eax /\ regs = left[runner].regs
  BY <1>1, <1>2, SavingFacts DEF Leaving
<1>4. esp'.at = First(runner) - 3 /\ esp'.of = esp.of /\ esp' \in [of : Owner, at : 0 .. Depth]
  <2>1. /\ First(runner) \in 7 .. Depth - 1 /\ Depth \in Nat /\ esp \in [of : Owner, at : 0 .. Depth]
        /\ First(runner) - 2 + (-1) = First(runner) - 3 /\ First(runner) - 3 \in 0 .. Depth
    BY <1>2, SavingFacts
  <2>2. esp' = [esp EXCEPT !.at = First(runner) - 3]
    BY <1>1, <1>3, <2>1 DEF Above
  <2> QED
    BY <2>1, <2>2
<1>5. Leaving(pc, eax, regs, esp.at)'
  BY <1>1, <1>3, <1>4 DEF Leaving, First, ReturnPushed
<1> QED
  BY <1>1, <1>2, <1>4, <1>5, SavingStep, CallerFacts, SavingFacts

LEMMA StateFacts ==
    ASSUME NEW e, NEW r
    PROVE  /\ Len(StateWords(e, r)) = 4
           /\ StateWords(e, r)[3] = Word("eax", e) /\ StateWords(e, r)[4] = Word("regs", r)
<1> DEFINE S == {Word("error", "zero"), Word("number", "zero"), Word("eax", e), Word("regs", r)}
<1>1. /\ Word("error", "zero") \in S /\ Word("number", "zero") \in S
      /\ Word("eax", e) \in S /\ Word("regs", r) \in S
  OBVIOUS
<1> HIDE DEF S
<1> QED
  BY <1>1, Tuples DEF StateWords

LEMMA PushStateStep == ASSUME IInv, PushState PROVE IInv'
<1>1. /\ pc = "pushState" /\ pc' = "saveEsp"
      /\ ready' = ready /\ iflag' = iflag /\ runner' = runner /\ left' = left
      /\ saved' = saved /\ current_thread' = current_thread
      /\ eax' = eax /\ regs' = regs /\ Push(StateWords(eax, regs))
  BY DEF PushState, Step
<1>2. pc \in Saving \ {"loadParam"} /\ pc' \in Saving \ {"loadParam"}
  BY <1>1 DEF Saving
<1>3. /\ esp.at = First(runner) - 3 /\ ReturnPushed(runner)
      /\ eax = left[runner].eax /\ regs = left[runner].regs
  BY <1>1, <1>2, SavingFacts DEF Leaving
<1>4. PICK ws : /\ ws = StateWords(eax, regs) /\ Len(ws) = 4 /\ ws[3] = Word("eax", eax)
                /\ ws[4] = Word("regs", regs)
  BY StateFacts
<1>5. Push(ws)
  BY <1>1, <1>4, Zenon
<1>6. /\ First(runner) \in 7 .. Depth - 1 /\ Depth \in Nat /\ Cell = 0 .. Depth - 1
      /\ esp \in [of : Owner, at : 0 .. Depth] /\ pc \in Instructions \ {"restore", "iret"}
  BY <1>2, SavingFacts
<1>7. /\ esp' \in [of : Owner, at : 0 .. Depth] /\ esp'.of = esp.of /\ esp'.at = esp.at - 4
      /\ DOMAIN stack' = Owner
      /\ \A o \in Owner : o # runner => stack'[o] = stack[o]
      /\ \A c \in Cell : c >= esp.at => stack'[runner][c] = stack[runner][c]
      /\ \A c \in Cell : c >= First(runner) => stack'[runner][c] = stack[runner][c]
      /\ \A k \in 1 .. 4 : stack'[runner][esp.at - k] = ws[k]
  <2>1. 4 \in Nat /\ Len(ws) = 4 /\ 4 <= esp.at /\ esp.at <= First(runner)
    BY <1>3, <1>4, <1>6
  <2> QED
    BY <1>5, <1>6, <2>1, PushLeaving
<1>8. /\ esp'.at = First(runner) - 7
      /\ stack'[runner][First(runner) - 1] = stack[runner][First(runner) - 1]
      /\ stack'[runner][First(runner) - 2] = stack[runner][First(runner) - 2]
      /\ stack'[runner][First(runner) - 3] = stack[runner][First(runner) - 3]
      /\ stack'[runner][First(runner) - 6] = ws[3]
      /\ stack'[runner][First(runner) - 7] = ws[4]
  <2>1. /\ First(runner) - 1 \in Cell /\ First(runner) - 1 >= esp.at
        /\ First(runner) - 2 \in Cell /\ First(runner) - 2 >= esp.at
        /\ First(runner) - 3 \in Cell /\ First(runner) - 3 >= esp.at
        /\ esp.at - 3 = First(runner) - 6 /\ esp.at - 4 = First(runner) - 7
    BY <1>3, <1>6
  <2>2. stack'[runner][esp.at - 3] = ws[3] /\ stack'[runner][esp.at - 4] = ws[4]
    BY <1>7
  <2> QED
    BY <1>7, <2>1, <2>2
<1>9. Leaving(pc, eax, regs, esp.at)'
  BY <1>1, <1>3, <1>4, <1>8 DEF Leaving, First, ReturnPushed, StatePushed
<1> QED
  BY <1>1, <1>2, <1>7, <1>9, SavingStep

LEMMA SaveEspStep == ASSUME IInv, SaveEsp PROVE IInv'
<1>1. /\ pc = "saveEsp" /\ pc' = "loadParam"
      /\ ready' = ready /\ iflag' = iflag /\ runner' = runner /\ left' = left
      /\ stack' = stack /\ saved' = [saved EXCEPT ![current_thread] = esp]
      /\ current_thread' = current_thread /\ esp' = esp /\ regs' = regs
  BY DEF SaveEsp, Step
<1>2. pc \in Saving /\ pc' \in Instructions \ {"restore", "iret"} /\ pc' \in Saving
  BY <1>1 DEF Saving, Instructions
<1>3. /\ TypeOK /\ runner # Null /\ current_thread = runner /\ esp.of = runner /\ Calling
      /\ pc \in Instructions \ {"restore", "iret"} /\ esp \in [of : Owner, at : 0 .. Depth]
      /\ DOMAIN stack = Owner /\ DOMAIN saved = Thread /\ current_thread \in Owner
  BY <1>2, SavingFacts, CallerFacts
<1>4. esp.at = First(runner) - 7 /\ ReturnPushed(runner) /\ StatePushed(runner)
  BY <1>1, <1>2, SavingFacts DEF Leaving
<1>5. DOMAIN saved' = Thread /\ \A t \in Thread : t # runner => saved'[t] = saved[t]
  BY <1>1, <1>3
<1>6. ASSUME runner \in ready PROVE Suspended(runner)'
  <2>1. Resumable(runner) /\ runner \in Thread
    BY <1>3, <1>6 DEF Calling, TypeOK
  <2>2. saved'[runner] = [of |-> runner, at |-> First(runner) - 7]
    BY <1>1, <1>3, <1>4, <2>1
  <2>3. Resumable(runner)' /\ First(runner)' = First(runner)
    BY <1>1, <2>1 DEF Resumable, Bottom, First, IsContext, IsWords, CodeWords, InterruptedAt, Base, Flags
  <2>4. ReturnPushed(runner)' /\ StatePushed(runner)'
    BY <1>1, <1>4, <2>3 DEF ReturnPushed, StatePushed
  <2> QED
    BY <1>1, <2>2, <2>3, <2>4 DEF Suspended
<1>7. Leaving(pc, eax, regs, esp.at)'
  BY <1>1, <1>4 DEF Leaving, First
<1>8. pc' # "compare" /\ pc' # "loadOnly" /\ pc' # "setEsp"
  BY <1>1
<1> QED
  BY <1>1, <1>2, <1>3, <1>5, <1>6, <1>7, <1>8, LeavingStep

\* The parameter is the last word that the caller pushed.
LEMMA ParameterFacts ==
    ASSUME IInv, pc \in {"loadParam", "loadOnly"}
    PROVE  stack[runner][First(runner)].val \in ready
<1>1. pc \in Instructions \ {"restore", "iret"}
  BY DEF Instructions
<1>2. Calling
  BY <1>1, CallerFacts
<1>3. PICK n \in 1 .. 11 : n = Len(left[runner].words)
  BY <1>2 DEF Calling, IsContext, IsWords
<1>4. Depth - n + 1 - 1 = Depth - n /\ 1 \in 1 .. n
  BY StackAssumption
<1>5. stack[runner][Depth - n] = left[runner].words[1]
  BY <1>2, <1>3, <1>4 DEF Calling, Bottom
<1> QED
  BY <1>2, <1>3, <1>5 DEF Calling, First

LEMMA LoadParamStep == ASSUME IInv, LoadParam PROVE IInv'
<1>1. /\ pc = "loadParam" /\ pc' = "setCurrent"
      /\ ready' = ready /\ iflag' = iflag /\ runner' = runner /\ left' = left
      /\ stack' = stack /\ saved' = saved /\ current_thread' = current_thread
      /\ esp' = esp /\ regs' = regs
  BY DEF LoadParam, Step
<1>2. pc \in Saving /\ pc' \in Instructions \ {"restore", "iret"} /\ pc' \notin Saving
  BY <1>1 DEF Saving, Instructions
<1>3. /\ TypeOK /\ AsleepOK /\ runner # Null /\ esp.of = runner
      /\ pc \in Instructions \ {"restore", "iret"} /\ esp \in [of : Owner, at : 0 .. Depth]
      /\ DOMAIN stack = Owner /\ DOMAIN saved = Thread /\ current_thread \in Owner
      /\ First(runner) \in 7 .. Depth - 1 /\ Depth \in Nat
  BY <1>2, SavingFacts, CallerFacts
<1>4. esp.at = First(runner) - 7
  BY <1>1, <1>2, SavingFacts DEF Leaving
<1>5. eax' \in ready
  <2>1. Len(ReturnWords(FALSE, pc)) = 3
    BY DEF ReturnWords
  <2>2. Len(StateWords(eax, regs)) = 4
    BY StateFacts
  <2>3. eax' = At(3 + 4)
    BY <2>1, <2>2, Zenon DEF LoadParam
  <2>4. First(runner) - 7 + (3 + 4) = First(runner)
    BY <1>3
  <2>5. eax' = stack[runner][First(runner)].val
    BY <1>3, <1>4, <2>3, <2>4 DEF At
  <2> QED
    BY <1>1, <2>5, ParameterFacts
<1>6. ASSUME runner \in ready PROVE Suspended(runner)'
  <2>1. Suspended(runner)
    BY <1>1, <1>3, <1>6 DEF AsleepOK
  <2>2. PICK o : o = runner
    OBVIOUS
  <2>3. Suspended(o)'
    BY <1>1, <2>1, <2>2, SuspendedKept
  <2> QED
    BY <1>1, <2>2, <2>3
<1>7. Leaving(pc, eax, regs, esp.at)'
  BY <1>1, <1>3, <1>5 DEF Leaving
<1>8. pc' # "compare" /\ pc' # "loadOnly" /\ pc' # "setEsp"
  BY <1>1
<1> QED
  BY <1>1, <1>2, <1>3, <1>6, <1>7, <1>8, LeavingStep

LEMMA LoadOnlyStep == ASSUME IInv, LoadOnly PROVE IInv'
<1>1. /\ pc = "loadOnly" /\ pc' = "setCurrent"
      /\ ready' = ready /\ iflag' = iflag /\ runner' = runner /\ left' = left
      /\ stack' = stack /\ saved' = saved /\ current_thread' = current_thread
      /\ esp' = esp /\ regs' = regs /\ eax' = At(1)
  BY DEF LoadOnly, Step
<1>2. /\ pc \in Instructions \ {"restore", "iret"} /\ pc' \in Instructions \ {"restore", "iret"}
      /\ pc' \notin Saving /\ pc' # "compare" /\ pc' # "loadOnly" /\ pc' # "setEsp"
  BY <1>1 DEF Saving, Instructions
<1>3. /\ TypeOK /\ esp.of = runner /\ esp \in [of : Owner, at : 0 .. Depth]
      /\ DOMAIN stack = Owner /\ DOMAIN saved = Thread /\ current_thread \in Owner
      /\ First(runner) \in 7 .. Depth - 1 /\ Depth \in Nat
  BY <1>2, CallerFacts
<1>4. esp.at = First(runner) - 1 /\ runner = Null
  BY <1>1, <1>2, CallerFacts, LeavingFacts DEF Leaving
<1>5. eax' \in ready
  <2>1. First(runner) - 1 + 1 = First(runner)
    BY <1>3
  <2>2. eax' = stack[runner][First(runner)].val
    BY <1>1, <1>3, <1>4, <2>1 DEF At
  <2> QED
    BY <1>1, <2>2, ParameterFacts
<1>6. runner \notin ready
  BY <1>3, <1>4, StackAssumption DEF TypeOK
<1>7. Leaving(pc, eax, regs, esp.at)'
  BY <1>1, <1>3, <1>4, <1>5 DEF Leaving, First
<1> QED
  BY <1>1, <1>2, <1>3, <1>6, <1>7, LeavingStep

LEMMA SetCurrentStep == ASSUME IInv, SetCurrent PROVE IInv'
<1>1. /\ pc = "setCurrent" /\ pc' = "setEsp"
      /\ ready' = ready /\ iflag' = iflag /\ runner' = runner /\ left' = left
      /\ stack' = stack /\ saved' = saved /\ current_thread' = eax
      /\ esp' = esp /\ regs' = regs /\ eax' = eax
  BY DEF SetCurrent, Step
<1>2. /\ pc \in Instructions \ {"restore", "iret"} /\ pc' \in Instructions \ {"restore", "iret"}
      /\ pc' \notin Saving /\ pc' # "compare" /\ pc' # "loadOnly"
  BY <1>1 DEF Saving, Instructions
<1>3. /\ TypeOK /\ AsleepOK /\ esp.of = runner /\ esp \in [of : Owner, at : 0 .. Depth]
      /\ DOMAIN stack = Owner /\ DOMAIN saved = Thread
  BY <1>2, CallerFacts
<1>4. eax \in ready /\ (runner = Null => esp.at = First(runner) - 1)
  BY <1>1, <1>2, CallerFacts DEF Leaving
<1>5. eax \in Owner
  BY <1>3, <1>4 DEF TypeOK, Owner
<1>6. ASSUME runner \in ready PROVE Suspended(runner)'
  <2>1. Suspended(runner)
    BY <1>1, <1>3, <1>6 DEF AsleepOK
  <2>2. PICK o : o = runner
    OBVIOUS
  <2>3. Suspended(o)'
    BY <1>1, <2>1, <2>2, SuspendedKept
  <2> QED
    BY <1>1, <2>2, <2>3
<1>7. Leaving(pc, eax, regs, esp.at)'
  BY <1>1, <1>4 DEF Leaving, First
<1> QED
  BY <1>1, <1>2, <1>3, <1>5, <1>6, <1>7, LeavingStep

-----------------------------------------------------------------------------
(* The instructions on the stack of the thread that is switched to. *)

LEMMA SetEspStep == ASSUME IInv, SetEsp PROVE IInv'
<1>1. /\ pc = "setEsp" /\ pc' = "restore"
      /\ ready' = ready /\ iflag' = iflag /\ runner' = runner /\ left' = left
      /\ stack' = stack /\ saved' = saved /\ current_thread' = current_thread
      /\ esp' = saved[eax]
  BY DEF SetEsp, Step
<1>2. pc \in Instructions \ {"restore", "iret"} /\ pc' \in Instructions
  BY <1>1 DEF Instructions
<1>3. /\ TypeOK /\ AsleepOK /\ BootOK /\ iflag = (runner = Null) /\ eax \in ready /\ current_thread = eax
  BY <1>1, <1>2, CallerFacts, LeavingFacts DEF Leaving
<1>4. PICK o \in ready : o = eax
  BY <1>3
<1>5. Suspended(o) /\ o \in Owner
  BY <1>1, <1>3, <1>4 DEF AsleepOK, TypeOK, Owner
<1>6. esp'.of = o /\ esp'.at = First(o) - 7 /\ esp' \in [of : Owner, at : 0 .. Depth]
  <2>1. First(o) \in 7 .. Depth - 1
    BY <1>5, FirstCell DEF Suspended, Resumable
  <2>2. First(o) - 7 \in 0 .. Depth
    BY <2>1, StackAssumption
  <2> QED
    BY <1>1, <1>4, <1>5, <2>2 DEF Suspended
<1>7. TypeOK' /\ BootOK'
  BY <1>1, <1>3, <1>6 DEF TypeOK, BootOK
<1>8. AsleepOK'
  <2> SUFFICES ASSUME NEW t \in ready PROVE Suspended(t)'
    BY <1>1 DEF AsleepOK
  <2>1. Suspended(t)
    BY <1>1, <1>3 DEF AsleepOK
  <2> QED
    BY <1>1, <2>1, SuspendedKept
<1>9. Suspended(o)'
  BY <1>1, <1>5, SuspendedKept
<1>10. Within(pc, eax, regs, esp.of, esp.at)'
  <2>1. First(o)' = First(o)
    BY <1>1 DEF First
  <2>2. Entering(pc, eax, regs, o, esp.at)'
    BY <1>1, <1>6, <1>9, <2>1 DEF Entering, Suspended
  <2>3. esp'.of = current_thread' /\ esp'.of \in ready' /\ esp'.of = o
    BY <1>1, <1>3, <1>4, <1>6
  <2>4. Entering(pc, eax, regs, esp.of, esp.at)'
    BY <2>2, <2>3
  <2> QED
    BY <2>3, <2>4 DEF Within
<1>11. PlaceOK'
  BY <1>1, <1>2, <1>3, <1>10 DEF PlaceOK, Main
<1> QED
  BY <1>7, <1>8, <1>11 DEF IInv

\* The thread that is switched to, and its part of the stack.
LEMMA TargetFacts ==
    ASSUME IInv, pc \in {"restore", "iret"}
    PROVE  /\ TypeOK /\ AsleepOK /\ BootOK /\ iflag = (runner = Null) /\ esp.of = current_thread
           /\ current_thread \in ready /\ current_thread \in Owner /\ current_thread # Null
           /\ Resumable(current_thread) /\ ReturnPushed(current_thread)
           /\ First(current_thread) \in 7 .. Depth - 1 /\ Depth \in Nat /\ Cell = 0 .. Depth - 1
           /\ esp \in [of : Owner, at : 0 .. Depth]
           /\ pc = "restore" => esp.at = First(current_thread) - 7 /\ StatePushed(current_thread)
           /\ pc = "iret" => /\ esp.at = First(current_thread) - 3
                             /\ eax = left[current_thread].eax /\ regs = left[current_thread].regs
<1>1. pc \in Instructions
  BY DEF Instructions
<1>2. TypeOK /\ AsleepOK /\ BootOK /\ iflag = (runner = Null)
  BY <1>1, SwitchFacts DEF IInv
<1>3. /\ esp.of = current_thread /\ current_thread \in ready
      /\ Entering(pc, eax, regs, esp.of, esp.at)
  BY EnteringFacts
<1>4. First(current_thread) \in 7 .. Depth - 1
  BY <1>3, FirstCell DEF Entering, Resumable
<1> QED
  BY <1>2, <1>3, <1>4, StackAssumption DEF Entering, TypeOK, Cell

LEMMA RestoreStep == ASSUME IInv, Restore PROVE IInv'
<1>1. /\ pc = "restore" /\ pc' = "iret"
      /\ ready' = ready /\ iflag' = iflag /\ runner' = runner /\ left' = left
      /\ saved' = saved /\ current_thread' = current_thread
      /\ regs' = At(0) /\ eax' = At(1) /\ Pop(4)
  BY DEF Restore, Step
<1>2. PICK o \in Owner : o = current_thread
  BY <1>1, TargetFacts
<1>3. /\ TypeOK /\ AsleepOK /\ BootOK /\ iflag = (runner = Null) /\ esp.of = o
      /\ o \in ready /\ o # Null /\ Resumable(o) /\ ReturnPushed(o) /\ StatePushed(o)
      /\ First(o) \in 7 .. Depth - 1 /\ Depth \in Nat /\ Cell = 0 .. Depth - 1
      /\ esp.at = First(o) - 7
  BY <1>1, <1>2, TargetFacts
<1>4. regs' = left[o].regs /\ eax' = left[o].eax
  <2>1. First(o) - 7 + 0 = First(o) - 7 /\ First(o) - 7 + 1 = First(o) - 6
    BY <1>3
  <2>2. At(0) = stack[o][First(o) - 7].val /\ At(1) = stack[o][First(o) - 6].val
    BY <1>3, <2>1 DEF At
  <2> QED
    BY <1>1, <1>3, <2>2 DEF StatePushed, Word
<1>5. /\ esp' \in [of : Owner, at : 0 .. Depth] /\ esp'.of = o /\ esp'.at = First(o) - 3
      /\ DOMAIN stack' = Owner
      /\ \A u \in Owner : u # o => stack'[u] = stack[u]
      /\ \A c \in Cell : c >= First(o) - 3 => stack'[o][c] = stack[o][c]
  <2>1. 4 \in Nat /\ esp.at + 4 = First(o) - 3 /\ esp.at + 4 <= Depth
    BY <1>3
  <2> QED
    BY <1>1, <1>3, <2>1, PopFacts
<1>6. TypeOK' /\ BootOK'
  BY <1>1, <1>3, <1>5 DEF TypeOK, BootOK
<1>7. AsleepOK'
  <2>1. \A u \in Thread : u \in Owner
    BY DEF Owner
  <2> QED
    BY <1>1, <1>3, <1>5, <2>1, AsleepKept
<1>8. Resumable(o)' /\ First(o)' = First(o)
  <2>1. \A c \in Cell : c >= First(o) => c >= First(o) - 3
    BY <1>3
  <2> QED
    BY <1>1, <1>3, <1>5, <2>1, ResumableKept
<1>9. ReturnPushed(o)'
  <2>1. /\ First(o) - 1 \in Cell /\ First(o) - 1 >= First(o) - 3
        /\ First(o) - 2 \in Cell /\ First(o) - 2 >= First(o) - 3
        /\ First(o) - 3 \in Cell /\ First(o) - 3 >= First(o) - 3
    BY <1>3
  <2> QED
    BY <1>1, <1>3, <1>5, <1>8, <2>1 DEF ReturnPushed
<1>10. Within(pc, eax, regs, esp.of, esp.at)'
  <2>1. Entering(pc, eax, regs, o, esp.at)'
    BY <1>1, <1>4, <1>5, <1>8, <1>9 DEF Entering
  <2> QED
    BY <1>1, <1>2, <1>3, <1>5, <2>1 DEF Within
<1>11. PlaceOK'
  <2>1. pc' \in Instructions
    BY <1>1 DEF Instructions
  <2> QED
    BY <1>1, <1>3, <1>10, <2>1 DEF PlaceOK, Main
<1> QED
  BY <1>6, <1>7, <1>11 DEF IInv

\* iret: the thread finds what it left.
LEMMA IretFacts ==
    ASSUME IInv, Iret
    PROVE  /\ TypeOK /\ current_thread \in ready /\ current_thread \in Owner
           /\ pc' = left[current_thread].pc /\ iflag' = left[current_thread].iflag
           /\ eax' = left[current_thread].eax /\ regs' = left[current_thread].regs
           /\ InUse' = left[current_thread].words
           /\ esp' \in [of : Owner, at : 0 .. Depth] /\ esp'.of = current_thread
           /\ DOMAIN stack' = Owner
           /\ \A o \in Owner : o # current_thread => stack'[o] = stack[o]
<1>1. /\ pc = "iret" /\ ReturnFrom(0) /\ runner' = current_thread /\ eax' = eax /\ regs' = regs
      /\ left' = left
  BY DEF Iret
<1>2. PICK o \in Owner : o = current_thread
  BY <1>1, TargetFacts
<1>3. /\ TypeOK /\ esp.of = o /\ o \in ready /\ Resumable(o) /\ ReturnPushed(o)
      /\ First(o) \in 7 .. Depth - 1 /\ Depth \in Nat /\ Cell = 0 .. Depth - 1
      /\ esp.at = First(o) - 3 /\ eax = left[o].eax /\ regs = left[o].regs
  BY <1>1, <1>2, TargetFacts
<1>4. /\ esp.at + 0 = First(o) - 3 /\ esp.at + 0 + 1 = First(o) - 2 /\ esp.at + 0 + 2 = First(o) - 1
      /\ esp.at + (0 + 2) = First(o) - 1
  BY <1>3
<1>5. left[o].iflag = FALSE /\ Flags(left[o].iflag) = Word("eflags", "off")
  BY <1>3 DEF Resumable, Flags
<1>6. /\ stack[esp.of][esp.at + 0] = Word("eip", left[o].pc)
      /\ stack[esp.of][esp.at + 0 + 1] = Word("cs", "zero")
      /\ stack[esp.of][esp.at + 0 + 2] = Word("eflags", "off")
      /\ stack[esp.of][esp.at + (0 + 2)] = Word("eflags", "off")
  BY <1>3, <1>4, <1>5 DEF ReturnPushed
<1>7. pc' = At(0) /\ iflag' = (At(0 + 2) = "on") /\ Pop(0 + 3)
  <2>1. /\ stack[esp.of][esp.at + 0].kind = "eip" /\ stack[esp.of][esp.at + 0 + 1].kind = "cs"
        /\ stack[esp.of][esp.at + 0 + 2].kind = "eflags"
    BY <1>6 DEF Word
  <2>2. 0 \in Nat
    OBVIOUS
  <2> QED
    BY <1>1, <1>3, <2>1, <2>2, ReturnFromFacts
<1>8. pc' = left[o].pc /\ iflag' = left[o].iflag
  <2>1. At(0) = left[o].pc /\ At(0 + 2) = "off"
    BY <1>6 DEF At, Word
  <2> QED
    BY <1>5, <1>7, <2>1
<1>9. /\ esp' \in [of : Owner, at : 0 .. Depth] /\ esp'.of = o /\ esp'.at = First(o)
      /\ DOMAIN stack' = Owner
      /\ \A u \in Owner : u # o => stack'[u] = stack[u]
      /\ \A c \in Cell : c >= First(o) => stack'[o][c] = stack[o][c]
  <2>1. 3 \in Nat /\ esp.at + 3 = First(o) /\ esp.at + 3 <= Depth /\ 0 + 3 = 3
    BY <1>3
  <2>2. Pop(3)
    BY <1>7
  <2> QED
    BY <1>3, <2>1, <2>2, PopFacts
<1>10. InUse' = left[o].words
  <2>1. PICK n, ws : n = Len(left[o].words) /\ ws = left[o].words
    OBVIOUS
  <2>2. n \in 1 .. 11 /\ First(o) = Depth - n /\ ws = [k \in 1 .. n |-> ws[k]]
    BY <1>3, <2>1 DEF Resumable, IsContext, IsWords, First
  <2>3. \A k \in 1 .. n : stack[o][Depth - n + k - 1] = ws[k]
    BY <1>3, <2>1 DEF Resumable, Bottom
  <2>4. Depth - (Depth - n) = n /\ \A k \in 1 .. n : Depth - n + k - 1 \in Cell /\ Depth - n + k - 1 >= Depth - n
    BY <1>3, <2>2
  <2>5. \A k \in 1 .. n : stack'[o][Depth - n + k - 1] = ws[k]
    BY <1>9, <2>2, <2>3, <2>4
  <2>6. InUse' = [k \in 1 .. n |-> stack'[o][Depth - n + k - 1]]
    <3>1. InUse' = [k \in 1 .. Depth - esp'.at |-> stack'[esp'.of][esp'.at + k - 1]]
      BY DEF InUse
    <3>2. esp'.of = o /\ esp'.at = Depth - n /\ Depth - esp'.at = n
      BY <1>9, <2>2, <2>4
    <3> QED
      BY <3>1, <3>2
  <2>7. InUse' = ws
    BY <2>2, <2>5, <2>6
  <2> QED
    BY <2>1, <2>7
<1> QED
  BY <1>1, <1>2, <1>3, <1>8, <1>9, <1>10

LEMMA IretStep == ASSUME IInv, Iret PROVE IInv'
<1>1. /\ pc = "iret" /\ runner' = current_thread /\ saved' = saved /\ ready' = ready
      /\ current_thread' = current_thread /\ left' = left
  BY DEF Iret, memory
<1>2. /\ TypeOK /\ current_thread \in ready /\ current_thread \in Owner
      /\ pc' = left[current_thread].pc /\ iflag' = left[current_thread].iflag
      /\ InUse' = left[current_thread].words
      /\ esp' \in [of : Owner, at : 0 .. Depth] /\ esp'.of = current_thread
      /\ DOMAIN stack' = Owner
      /\ \A o \in Owner : o # current_thread => stack'[o] = stack[o]
  BY IretFacts
<1>3. /\ AsleepOK /\ Resumable(current_thread) /\ esp.of = current_thread /\ current_thread # Null
  BY <1>1, TargetFacts
<1>4. iflag' = FALSE /\ pc' \in Resumed /\ CodeWords(pc', InUse')
  <2>1. CodeWords(left[current_thread].pc, left[current_thread].words)
    BY <1>3 DEF Resumable
  <2> QED
    BY <1>2, <1>3, <2>1, Zenon DEF Resumable
<1>5. TypeOK'
  BY <1>1, <1>2, <1>4 DEF TypeOK
<1>6. AsleepOK'
  <2>1. \A u \in Thread : u \in Owner
    BY DEF Owner
  <2>2. pc' \notin {"loadParam", "setCurrent", "setEsp"}
    BY <1>4 DEF Resumed
  <2> QED
    BY <1>1, <1>2, <1>3, <2>1, <2>2, AsleepKept
<1>7. BootOK'
  BY <1>1, <1>3 DEF BootOK
<1>8. CodeWords(pc, InUse)'
  BY <1>4 DEF CodeWords, InterruptedAt, Flags, Base
<1>9. PlaceOK'
  BY <1>1, <1>2, <1>4, <1>8 DEF PlaceOK
<1> QED
  BY <1>5, <1>6, <1>7, <1>9 DEF IInv

-----------------------------------------------------------------------------
LEMMA SameWithin ==
    ASSUME stack' = stack, left' = left, ready' = ready, runner' = runner,
           current_thread' = current_thread,
           NEW p, NEW e, NEW r, NEW o, NEW a, Main(p, e, r, o, a)
    PROVE  Main(p, e, r, o, a)' /\ (Within(p, e, r, o, a) => Within(p, e, r, o, a)')
<1>1. \A u : First(u)' = First(u) /\ (ReturnPushed(u) => ReturnPushed(u)')
           /\ (StatePushed(u) => StatePushed(u)')
  BY DEF First, ReturnPushed, StatePushed
<1>2. ASSUME NEW u, Resumable(u) PROVE Resumable(u)'
  BY <1>2, ResumableKept
<1>3. ASSUME Calling PROVE Calling'
  <2>1. IsContext(left[runner])' /\ Bottom(runner, left[runner].words)'
    BY <1>3 DEF Calling, IsContext, IsWords, Bottom
  <2>2. (runner \in ready => Resumable(runner))'
    <3>1. PICK u : u = runner
      OBVIOUS
    <3>2. u \in ready => Resumable(u)'
      BY <1>2, <1>3, <3>1 DEF Calling
    <3> QED
      BY <3>1, <3>2
  <2> QED
    BY <1>3, <2>1, <2>2 DEF Calling
<1>4. ASSUME Leaving(p, e, r, a) PROVE Leaving(p, e, r, a)'
  BY <1>4 DEF Leaving, First, ReturnPushed, StatePushed
<1>5. ASSUME Entering(p, e, r, o, a) PROVE Entering(p, e, r, o, a)'
  BY <1>1, <1>2, <1>5 DEF Entering
<1> QED
  BY <1>3, <1>4, <1>5 DEF Main, Within

LEMMA StutteringStep == ASSUME IInv, UNCHANGED vars PROVE IInv'
<1>1. /\ stack' = stack /\ saved' = saved /\ current_thread' = current_thread /\ ready' = ready
      /\ pc' = pc /\ esp' = esp /\ eax' = eax /\ regs' = regs /\ iflag' = iflag
      /\ runner' = runner /\ left' = left
  BY DEF vars, memory, registers
<1>2. TypeOK /\ AsleepOK /\ BootOK /\ PlaceOK /\ TypeOK' /\ BootOK'
  BY <1>1 DEF IInv, TypeOK, BootOK
<1>3. AsleepOK'
  <2> SUFFICES ASSUME NEW t \in ready, t # esp.of \/ pc \in {"loadParam", "setCurrent", "setEsp"}
               PROVE  Suspended(t)'
    BY <1>1 DEF AsleepOK
  <2>1. Suspended(t)
    BY <1>2 DEF AsleepOK
  <2> QED
    BY <1>1, <2>1, SuspendedKept
<1>4. PlaceOK'
  <2>1. CASE /\ runner \in ready /\ current_thread = runner /\ esp.of = runner
             /\ CodeWords(pc, InUse) /\ (iflag => pc \in {"body", "shutdown"})
    <3>1. InUse' = InUse
      BY <1>1 DEF InUse
    <3>2. CodeWords(pc, InUse)'
      BY <1>1, <2>1, <3>1 DEF CodeWords, InterruptedAt, Flags, Base
    <3> QED
      BY <1>1, <2>1, <3>2 DEF PlaceOK
  <2>2. CASE /\ runner # Null /\ ~iflag /\ pc \in Instructions
             /\ Within(pc, eax, regs, esp.of, esp.at)
    <3>1. PICK p, e, r, o, a : p = pc /\ e = eax /\ r = regs /\ o = esp.of /\ a = esp.at
      OBVIOUS
    <3>2. Within(p, e, r, o, a)'
      <4>1. Within(p, e, r, o, a) /\ Main(p, e, r, o, a)
        BY <2>2, <3>1 DEF Main
      <4> QED
        BY <1>1, <4>1, SameWithin
    <3>3. Within(pc, eax, regs, esp.of, esp.at)'
      BY <1>1, <3>1, <3>2
    <3> QED
      BY <1>1, <2>2, <3>3 DEF PlaceOK
  <2>3. CASE runner = Null /\ iflag = TRUE /\ Main(pc, eax, regs, esp.of, esp.at)
    <3>1. PICK p, e, r, o, a : p = pc /\ e = eax /\ r = regs /\ o = esp.of /\ a = esp.at
      OBVIOUS
    <3>2. Main(p, e, r, o, a)'
      BY <1>1, <2>3, <3>1, SameWithin
    <3>3. Main(pc, eax, regs, esp.of, esp.at)'
      BY <1>1, <3>1, <3>2
    <3> QED
      BY <1>1, <2>3, <3>3 DEF PlaceOK
  <2>4. CASE runner = Null /\ pc = "handler"
    <3>1. /\ iflag = FALSE /\ esp.at + 8 <= Depth
          /\ stack[esp.of][esp.at + 5].kind = "eip" /\ stack[esp.of][esp.at + 6].kind = "cs"
          /\ stack[esp.of][esp.at + 7].kind = "eflags"
          /\ At(7) = "on" /\ Main(At(5), At(2), At(1), esp.of, esp.at + 8)
      BY <2>4, MainHandler
    <3>2. PICK p, e, r, o, a :
             p = At(5) /\ e = At(2) /\ r = At(1) /\ o = esp.of /\ a = esp.at + 8
      OBVIOUS
    <3>3. Main(p, e, r, o, a)'
      BY <1>1, <3>1, <3>2, SameWithin
    <3>4. p = At(5)' /\ e = At(2)' /\ r = At(1)' /\ o = esp'.of /\ a = esp'.at + 8 /\ At(7)' = At(7)
      BY <1>1, <3>2 DEF At
    <3>5. Main(At(5), At(2), At(1), esp.of, esp.at + 8)'
      BY <3>3, <3>4
    <3> QED
      BY <1>1, <2>4, <3>1, <3>4, <3>5 DEF PlaceOK
  <2> QED
    BY <1>2, <2>1, <2>2, <2>3, <2>4 DEF PlaceOK
<1> QED
  BY <1>2, <1>3, <1>4 DEF IInv

LEMMA NextInv == ASSUME IInv, Next PROVE IInv'
BY ConstructStep, DispatchStep, YieldStep, EndOfQuantumStep, ShutdownStep, ReturnedStep,
   ThreadStartStep, ComputeStep, ReturnStep, CompareStep, PushEaxStep, GetReturnStep,
   MoveReturnStep, MoveUpStep, PushFlagsStep, RestoreEaxStep, PushCSStep, MoveDownStep,
   PushStateStep, SaveEspStep, LoadParamStep, LoadOnlyStep, SetCurrentStep, SetEspStep,
   RestoreStep, IretStep, TickStep, LeaveHandlerStep
   DEF Next, Switch

LEMMA Invariance == Spec => []IInv
<1>1. Init => IInv
  BY InitInv
<1>2. IInv /\ [Next]_vars => IInv'
  BY NextInv, StutteringStep
<1> QED
  BY <1>1, <1>2, PTL DEF Spec

-----------------------------------------------------------------------------
\* However often a thread has been preempted and switched, its function finds
\* nothing on its own stack but the words of setup_context it will return to
\* (threads_low_switch_to, irq_common_stub).
THEOREM NothingLeftCorrect == Spec => []NothingLeft
<1>1. ASSUME IInv PROVE NothingLeft
  <2> SUFFICES ASSUME pc = "body" PROVE esp.of = runner /\ InUse = Base
    BY DEF NothingLeft
  <2>1. esp.of = runner /\ CodeWords(pc, InUse)
    BY <1>1, CodeFacts DEF CodePlaces
  <2>2. Len(InUse) = 2 /\ InUse[1] = Base[1] /\ InUse[2] = Base[2]
    BY <2>1 DEF CodeWords
  <2>3. InUse = <<InUse[1], InUse[2]>>
    <3>1. PICK n, f : n = Depth - esp.at /\ f = [k \in 1 .. n |-> stack[esp.of][esp.at + k - 1]]
      OBVIOUS
    <3>2. f = InUse /\ n = 2
      BY <1>1, <2>2, <3>1, InUseFacts DEF IInv, InUse
    <3>3. f = <<f[1], f[2]>>
      BY <3>1, <3>2
    <3> QED
      BY <3>2, <3>3
  <2>4. Base = <<Base[1], Base[2]>>
    BY DEF Base
  <2> QED
    BY <2>1, <2>2, <2>3, <2>4
<1> QED
  BY <1>1, Invariance, PTL

-----------------------------------------------------------------------------
(* The switch as a whole. *)

\* What the refinement takes for the registers and the stack.
LiveNow == IF pc \in Instructions THEN left[runner] ELSE Live

LEMMA CallRefines ==
    ASSUME IInv, runner \in Owner, NEW t, NEW f, NEW p, Call(t, f, p)
    PROVE  Abstract!Next
<1>1. /\ pc' = "compare" /\ runner' = runner
      /\ left' = [left EXCEPT ![runner] =
                     [pc |-> p, eax |-> eax, regs |-> regs, iflag |-> f,
                      words |-> <<Word("param", t)>> \o InUse]]
  BY DEF Call
<1>2. PICK c : left' = [left EXCEPT ![runner] = c]
  BY <1>1
<1>3. left'[runner'] = c
  BY <1>1, <1>2 DEF IInv, TypeOK
<1>4. pc' \in Instructions
  BY <1>1 DEF Instructions
<1>5. LiveNow' = c
  BY <1>3, <1>4 DEF LiveNow
<1> QED
  BY <1>1, <1>2, <1>5 DEF Abstract!Next, Abstract!Leave, LiveNow

LEMMA IretRefines == ASSUME IInv, Iret PROVE Abstract!Next
<1>1. pc = "iret" /\ runner' = current_thread /\ left' = left
  BY DEF Iret
<1>2. /\ current_thread \in ready
      /\ pc' = left[current_thread].pc /\ iflag' = left[current_thread].iflag
      /\ eax' = left[current_thread].eax /\ regs' = left[current_thread].regs
      /\ InUse' = left[current_thread].words
  BY IretFacts
<1>3. current_thread \in Thread /\ Resumable(current_thread)
  BY <1>1, <1>2, TargetFacts DEF TypeOK
<1>4. pc \in Instructions /\ pc' \notin Instructions
  BY <1>1, <1>2, <1>3 DEF Resumable, Resumed, Instructions
<1>5. Live' = left[current_thread]
  BY <1>2, <1>3 DEF Live, Resumable, IsContext
<1>6. LiveNow = left[runner] /\ LiveNow' = left[current_thread]
  BY <1>4, <1>5 DEF LiveNow
<1>7. Abstract!Enter(current_thread)
  BY <1>1, <1>6 DEF Abstract!Enter, LiveNow
<1> QED
  BY <1>3, <1>7 DEF Abstract!Next

LEMMA NextRefines == ASSUME IInv, Next PROVE Abstract!Next
<1>1. ASSUME runner' = runner /\ left' = left PROVE Abstract!Next
  BY <1>1 DEF Abstract!Next, Abstract!Work
<1>2. runner \in Owner
  BY DEF IInv, TypeOK
<1>3. ASSUME NEW t \in Thread,
             Construct(t) \/ Dispatch(t) \/ Yield(t) \/ EndOfQuantum(t) \/ Shutdown(t)
      PROVE  Abstract!Next
  BY <1>1, <1>2, <1>3, CallRefines DEF Construct, Dispatch, Yield, EndOfQuantum, Shutdown
<1>4. CASE Returned \/ ThreadStart \/ Compute \/ Return \/ Tick \/ LeaveHandler
  BY <1>1, <1>4 DEF Returned, ThreadStart, Compute, Return, Tick, LeaveHandler
<1>5. CASE Switch
  BY <1>1, <1>5, IretRefines
     DEF Switch, Step, Compare, PushEax, GetReturn, MoveReturn, MoveUp, PushFlags, RestoreEax, PushCS,
         MoveDown, PushState, SaveEsp, LoadParam, LoadOnly, SetCurrent, SetEsp, Restore
<1> QED
  BY <1>3, <1>4, <1>5 DEF Next

\* The instructions of threads_low_switch_to and of the stub of the interrupt
\* are together a switch of coroutines: whoever goes on goes on where it gave
\* the processor away, with the registers, the flag and the stack it had then.
THEOREM Refinement == Spec => ImplementsCoroutines
<1>1. IInv /\ [Next]_vars => [Abstract!Next]_vars
  BY NextRefines
<1> QED
  BY <1>1, Invariance, PTL DEF Spec, ImplementsCoroutines
=============================================================================
