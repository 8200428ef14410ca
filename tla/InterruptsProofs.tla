-------------------------- MODULE InterruptsProofs ---------------------------
(***************************************************************************)
(* What holds of Interrupts for any lines, any exceptions but one, any     *)
(* frequency of the timer and any depth of nested faults: main finds its   *)
(* stack and both controllers as it left them, and the clock can be read   *)
(* while it is counted on.  And of Console, which the timer's handler      *)
(* prints on: how far from the screen it reaches, that the screen shows    *)
(* the text, and that numbers read as what they are.                       *)
(*                                                                         *)
(* The stack is a sequence of frames of seven words.  Only the first frame *)
(* can be an interrupt's, and every frame but the last is that of a page   *)
(* fault whose handler faulted.                                            *)
(***************************************************************************)
EXTENDS Interrupts, Console, NaturalsInduction, SequenceTheorems, WellFoundedInduction, TLAPS

\* The processor pushes an error code for exception 17, the alignment check,
\* and its stub does as if it had not.  No kernel turns the check on.
AlignedAccesses == 17 \notin Faults

BootPlaces == {"idt", "exceptions", "irq", "interrupts", "handlers", "paging", "timer",
               "enable"}

MainPlaces == {"run", "current", "read", "wait", "waitTicks"}

DeepPlaces == {"dispatch", "handle", "retry", "answer", "answerMaster", "out", "abort"}

Place == BootPlaces \cup MainPlaces \cup DeepPlaces \cup {"stub"}

Vector == 0 .. IRQ_BASE + 15

Value == BOOLEAN \cup Nat \cup Place

Kind == {"eflags", "cs", "eip", "error", "number", "regs", "pointer"}

StackWord == [kind : Kind, val : Value]

TypeOK ==
    /\ pc \in Place
    /\ vector \in Vector
    /\ stack \in Seq(StackWord)
    /\ iflag \in BOOLEAN
    /\ gates \subseteq Vector
    /\ inMaster \subseteq 0 .. 15 /\ inSlave \subseteq 0 .. 15
    /\ seconds \in Nat /\ ticks \in Nat /\ elapsed \in Nat /\ began \in Nat
    /\ now \in [seconds : Nat, ticks : Nat]

-----------------------------------------------------------------------------
(* The stack. *)

\* What the processor pushes for the i-th nested frame: main was interrupted
\* with interrupts on, a handler of page faults with interrupts off.
Entry(s, i) ==
    /\ s[7 * i + 1].kind = "eflags" /\ s[7 * i + 1].val = (i = 0)
    /\ s[7 * i + 3].kind = "eip"
    /\ IF i = 0 THEN s[7 * i + 3].val \in MainPlaces ELSE s[7 * i + 3].val = "retry"

\* Its number, in a frame that the stub has completed.
Number(s, i) == s[7 * i + 5].val

Known == Faults \cup {IRQ_BASE + l : l \in Lines}

\* Frames 0 to n are of this form; all but the last are of page faults.
Nest(s, n) ==
    /\ \A i \in 0 .. n : Entry(s, i)
    /\ \A i \in 0 .. n - 1 : Number(s, i) = PageFault

\* The number of frames below the current one.
Below == IF pc = "stub" THEN Len(stack) \div 7 ELSE Len(stack) \div 7 - 1

\* What number the current activation has, or will have.
Current_no == IF pc = "stub" THEN vector ELSE Number(stack, Below)

StackOK ==
    /\ pc \in BootPlaces \cup MainPlaces => stack = <<>>
    /\ pc \in BootPlaces \cup DeepPlaces \cup {"stub"} => ~iflag
    /\ pc \in MainPlaces => iflag
    /\ pc \in DeepPlaces => /\ Len(stack) = 7 * (Below + 1) /\ Below \in Nat
    /\ pc = "stub" =>
           Len(stack) = 7 * Below + (IF vector \in WithErrorCode THEN 4 ELSE 3)
    /\ pc \in DeepPlaces \cup {"stub"} =>
           /\ Nest(stack, Below)
           /\ Current_no \in Known
           /\ Below > 0 => Current_no \in Faults /\ PageFault \in Faults
    /\ pc = "retry" => Current_no = PageFault
    /\ pc \in {"answer", "answerMaster"} => Current_no >= IRQ_BASE

\* Start-up fills the tables before interrupts or paging are on.
BootOK ==
    /\ pc \notin {"idt", "exceptions"} => Exceptions \subseteq gates
    /\ pc \notin {"idt", "exceptions", "irq"} => remapped
    /\ pc \notin {"idt", "exceptions", "irq", "interrupts"} => gates = Vector

\* The line in service is that of the current activation, until it is answered.
ServiceOK ==
    IF /\ pc \in {"stub", "dispatch", "handle", "answer", "answerMaster"}
       /\ Current_no >= IRQ_BASE
    THEN LET l == Current_no - IRQ_BASE IN
         /\ inMaster = {MasterLine(l)}
         /\ inSlave = IF l > 7 /\ pc # "answerMaster" THEN {l} ELSE {}
    ELSE pc # "abort" => inMaster = {} /\ inSlave = {}

\* Where main is, or was when it was interrupted.
MainAt == IF pc \in DeepPlaces \cup {"stub"} THEN stack[3].val ELSE pc

ClockOK ==
    /\ seconds * Hz + ticks = elapsed /\ ticks < Hz
    /\ MainAt = "current" => /\ now.seconds <= seconds
                             /\ now.seconds * Hz > began - Hz
    /\ MainAt = "read" => /\ now.seconds * Hz + now.ticks <= elapsed
                          /\ now.seconds * Hz + now.ticks > began - Hz

IInv == TypeOK /\ StackOK /\ BootOK /\ ServiceOK /\ ClockOK

USE DEF IRQ_BASE, DivideError, PageFault, Slave

-----------------------------------------------------------------------------
(* Frames and the sequence they are in. *)

LEMMA Concat ==
    ASSUME NEW s \in Seq(StackWord), NEW t \in Seq(StackWord)
    PROVE  /\ s \o t \in Seq(StackWord)
           /\ Len(s \o t) = Len(s) + Len(t)
           /\ \A k \in 1 .. Len(s) : (s \o t)[k] = s[k]
           /\ \A k \in 1 .. Len(t) : (s \o t)[Len(s) + k] = t[k]
OBVIOUS

LEMMA Prefix ==
    ASSUME NEW s \in Seq(StackWord), NEW m \in Nat, m <= Len(s)
    PROVE  /\ SubSeq(s, 1, m) \in Seq(StackWord) /\ Len(SubSeq(s, 1, m)) = m
           /\ \A k \in 1 .. m : SubSeq(s, 1, m)[k] = s[k]
<1>1. \A i \in 1 .. m : s[i] \in StackWord
  OBVIOUS
<1>2. PICK t : t = SubSeq(s, 1, m)
  OBVIOUS
<1>3. /\ t \in Seq(StackWord) /\ Len(t) = (IF 1 <= m THEN m - 1 + 1 ELSE 0)
      /\ \A i \in 1 .. m - 1 + 1 : t[i] = s[1 + i - 1]
  BY <1>1, <1>2, SubSeqProperties
<1> QED
  BY <1>2, <1>3

LEMMA Words ==
    ASSUME NEW a \in StackWord, NEW b \in StackWord, NEW c \in StackWord, NEW d \in StackWord
    PROVE  /\ <<>> \in Seq(StackWord) /\ <<a>> \in Seq(StackWord)
           /\ <<a, b>> \in Seq(StackWord) /\ <<a, b, c>> \in Seq(StackWord)
           /\ <<a, b, c, d>> \in Seq(StackWord)
           /\ Len(<<a>>) = 1 /\ Len(<<a, b>>) = 2 /\ Len(<<a, b, c>>) = 3
           /\ Len(<<a, b, c, d>>) = 4
           /\ <<a, b, c>>[1] = a /\ <<a, b, c>>[3] = c
           /\ <<a, b, c, d>>[1] = a /\ <<a, b, c, d>>[2] = b
OBVIOUS

\* What is pushed on complete frames leaves them as they are.
LEMMA NestPrefix ==
    ASSUME NEW n \in Nat, NEW s, NEW t,
           \A k \in 1 .. 7 * n : t[k] = s[k],
           \A i \in 0 .. n - 1 : Entry(s, i) /\ Number(s, i) = PageFault
    PROVE  /\ \A i \in 0 .. n - 1 : Entry(t, i) /\ Number(t, i) = PageFault
           /\ Entry(t, n) => Nest(t, n)
<1>1. ASSUME NEW i \in 0 .. n - 1
      PROVE  Entry(t, i) /\ Number(t, i) = PageFault
  <2>1. 7 * i + 1 \in 1 .. 7 * n /\ 7 * i + 3 \in 1 .. 7 * n /\ 7 * i + 5 \in 1 .. 7 * n
    OBVIOUS
  <2>2. t[7 * i + 1] = s[7 * i + 1] /\ t[7 * i + 3] = s[7 * i + 3] /\ t[7 * i + 5] = s[7 * i + 5]
    BY <2>1
  <2>3. Entry(s, i) /\ Number(s, i) = PageFault
    OBVIOUS
  <2> QED
    BY <2>2, <2>3 DEF Entry, Number
<1>2. \A i \in 0 .. n : i = n \/ i \in 0 .. n - 1
  OBVIOUS
<1> QED
  BY <1>1, <1>2 DEF Nest

LEMMA NestKept ==
    ASSUME NEW n \in Nat, NEW s, NEW t, Nest(s, n), Entry(t, n),
           \A k \in 1 .. 7 * n : t[k] = s[k]
    PROVE  Nest(t, n)
<1>1. \A i \in 0 .. n - 1 : Entry(s, i) /\ Number(s, i) = PageFault
  BY DEF Nest
<1> QED
  BY <1>1, NestPrefix

\* The processor's part of a frame, on n complete ones.
LEMMA EnterPushes ==
    ASSUME TypeOK, NEW n \in Nat, Len(stack) = 7 * n,
           \A i \in 0 .. n - 1 : Entry(stack, i) /\ Number(stack, i) = PageFault,
           NEW v \in Vector, v \in gates,
           NEW back, Enter(v, back),
           iflag <=> n = 0,
           IF n = 0 THEN back \in MainPlaces ELSE back = "retry"
    PROVE  /\ pc' = "stub" /\ vector' = v /\ ~iflag'
           /\ stack' \in Seq(StackWord)
           /\ Len(stack') = 7 * n + (IF v \in WithErrorCode THEN 4 ELSE 3)
           /\ Nest(stack', n)
           /\ stack'[3].val = IF n = 0 THEN back ELSE stack[3].val
<1> DEFINE flags == [kind |-> "eflags", val |-> iflag]
           cs    == [kind |-> "cs", val |-> 0]
           eip   == [kind |-> "eip", val |-> back]
           error == [kind |-> "error", val |-> 0]
           three == <<flags, cs, eip>>
           code  == IF v \in WithErrorCode THEN <<error>> ELSE <<>>
           s     == stack \o three
<1>1. /\ stack' = s \o code
      /\ pc' = "stub" /\ vector' = v /\ iflag' = FALSE
  BY DEF Enter
<1>2. stack \in Seq(StackWord)
  BY DEF TypeOK
<1>3. flags \in StackWord /\ cs \in StackWord /\ eip \in StackWord /\ error \in StackWord
  <2>1. iflag \in Value /\ 0 \in Value
    BY DEF TypeOK, Value
  <2>2. back \in Value
    BY DEF Value, Place, MainPlaces, DeepPlaces
  <2>3. \A k \in Kind, w \in Value : [kind |-> k, val |-> w] \in StackWord
    BY DEF StackWord
  <2>4. {"eflags", "cs", "eip", "error"} \subseteq Kind
    BY DEF Kind
  <2> QED
    BY <2>1, <2>2, <2>3, <2>4
<1>4. /\ flags.kind = "eflags" /\ flags.val = (n = 0)
      /\ eip.kind = "eip" /\ eip.val = back
  <2>1. iflag = (n = 0)
    BY DEF TypeOK
  <2> QED
    BY <2>1
<1> HIDE DEF flags, cs, eip, error
<1>5. /\ three \in Seq(StackWord) /\ Len(three) = 3
      /\ three[1] = flags /\ three[3] = eip
      /\ code \in Seq(StackWord)
      /\ Len(code) = IF v \in WithErrorCode THEN 1 ELSE 0
  BY <1>3, Words
<1> HIDE DEF three, code
<1>6. /\ s \in Seq(StackWord) /\ Len(s) = 7 * n + 3
      /\ \A k \in 1 .. 7 * n : s[k] = stack[k]
      /\ s[7 * n + 1] = three[1] /\ s[7 * n + 3] = three[3]
  <2>1. /\ s \in Seq(StackWord) /\ Len(s) = Len(stack) + Len(three)
        /\ \A k \in 1 .. Len(stack) : s[k] = stack[k]
        /\ \A k \in 1 .. Len(three) : s[Len(stack) + k] = three[k]
    BY <1>2, <1>5, Concat
  <2> HIDE DEF s
  <2> QED
    BY <2>1, <1>5
<1> HIDE DEF s
<1>7. /\ stack' \in Seq(StackWord)
      /\ Len(stack') = 7 * n + 3 + Len(code)
      /\ \A k \in 1 .. 7 * n + 3 : stack'[k] = s[k]
  <2>1. /\ s \o code \in Seq(StackWord) /\ Len(s \o code) = Len(s) + Len(code)
        /\ \A k \in 1 .. Len(s) : (s \o code)[k] = s[k]
    BY <1>5, <1>6, Concat
  <2> QED
    BY <1>1, <1>6, <2>1
<1>8. \A k \in 1 .. 7 * n : stack'[k] = stack[k]
  BY <1>6, <1>7
<1>9. stack'[7 * n + 1] = flags /\ stack'[7 * n + 3] = eip
  BY <1>5, <1>6, <1>7
<1>10. Entry(stack', n)
  BY <1>4, <1>9 DEF Entry
<1>11. Nest(stack', n)
  BY <1>8, <1>10, NestPrefix
<1>12. stack'[3].val = IF n = 0 THEN back ELSE stack[3].val
  <2>1. CASE n = 0
    BY <2>1, <1>4, <1>9
  <2>2. CASE n > 0
    BY <2>2, <1>8
  <2> QED
    BY <2>1, <2>2
<1> QED
  BY <1>1, <1>5, <1>7, <1>11, <1>12

\* The stub's part, which makes a complete frame of either kind of entry.
LEMMA StubCompletes ==
    ASSUME TypeOK, NEW n \in Nat,
           Len(stack) = 7 * n + (IF vector \in WithErrorCode THEN 4 ELSE 3),
           Nest(stack, n), vector # 17, StubIn
    PROVE  /\ stack' \in Seq(StackWord) /\ Len(stack') = 7 * (n + 1)
           /\ Nest(stack', n) /\ Number(stack', n) = vector
           /\ stack'[3].val = stack[3].val
<1> DEFINE error   == [kind |-> "error", val |-> 0]
           number  == [kind |-> "number", val |-> vector]
           regs    == [kind |-> "regs", val |-> 0]
           pointer == [kind |-> "pointer", val |-> 0]
           code    == IF vector \in {8, 10, 11, 12, 13, 14} THEN <<>> ELSE <<error>>
           one     == <<number>>
           pushes  == code \o one
           saved   == <<regs, pointer>>
           s       == stack \o pushes
<1>1. stack' = s \o saved
  BY DEF StubIn, StubPushes
<1>2. stack \in Seq(StackWord)
  BY DEF TypeOK
<1>3. /\ error \in StackWord /\ number \in StackWord
      /\ regs \in StackWord /\ pointer \in StackWord
  <2>1. 0 \in Value /\ vector \in Value
    BY DEF TypeOK, Value, Vector
  <2>2. \A k \in Kind, w \in Value : [kind |-> k, val |-> w] \in StackWord
    BY DEF StackWord
  <2>3. {"error", "number", "regs", "pointer"} \subseteq Kind
    BY DEF Kind
  <2> QED
    BY <2>1, <2>2, <2>3
<1>4. number.val = vector
  OBVIOUS
<1> HIDE DEF error, number, regs, pointer
<1>5. /\ code \in Seq(StackWord) /\ one \in Seq(StackWord) /\ saved \in Seq(StackWord)
      /\ Len(code) = IF vector \in WithErrorCode THEN 0 ELSE 1
      /\ Len(one) = 1 /\ one[1] = number /\ Len(saved) = 2
  BY <1>3, Words DEF WithErrorCode
<1> HIDE DEF code, saved, one
<1>6. /\ pushes \in Seq(StackWord) /\ Len(pushes) = Len(code) + 1
      /\ pushes[Len(code) + 1] = number
  <2>1. /\ pushes \in Seq(StackWord) /\ Len(pushes) = Len(code) + Len(one)
        /\ \A k \in 1 .. Len(one) : pushes[Len(code) + k] = one[k]
    BY <1>5, Concat
  <2> HIDE DEF pushes
  <2> QED
    BY <1>5, <2>1
<1> HIDE DEF pushes
<1>7. /\ s \in Seq(StackWord) /\ Len(s) = Len(stack) + Len(pushes)
      /\ \A k \in 1 .. Len(stack) : s[k] = stack[k]
      /\ \A k \in 1 .. Len(pushes) : s[Len(stack) + k] = pushes[k]
  BY <1>2, <1>6, Concat
<1> HIDE DEF s
<1>8. /\ stack' \in Seq(StackWord) /\ Len(stack') = Len(s) + Len(saved)
      /\ \A k \in 1 .. Len(s) : stack'[k] = s[k]
  <2>1. /\ s \o saved \in Seq(StackWord) /\ Len(s \o saved) = Len(s) + Len(saved)
        /\ \A k \in 1 .. Len(s) : (s \o saved)[k] = s[k]
    BY <1>5, <1>7, Concat
  <2> QED
    BY <1>1, <2>1
<1>9. Len(s) = 7 * n + 5 /\ Len(stack') = 7 * (n + 1)
  BY <1>5, <1>6, <1>7, <1>8
<1>10. \A k \in 1 .. 7 * n + 3 : stack'[k] = stack[k]
  BY <1>7, <1>8, <1>9
<1>11. stack'[7 * n + 5] = number
  <2>1. s[Len(stack) + (Len(code) + 1)] = number
    <3>1. Len(code) + 1 \in 1 .. Len(pushes)
      BY <1>5, <1>6
    <3> QED
      BY <1>6, <1>7, <3>1
  <2>2. Len(stack) + (Len(code) + 1) = 7 * n + 5
    BY <1>5
  <2> QED
    BY <1>8, <1>9, <2>1, <2>2
<1>12. Nest(stack', n)
  <2>1. Entry(stack', n)
    <3>1. Entry(stack, n)
      BY DEF Nest
    <3>2. stack'[7 * n + 1] = stack[7 * n + 1] /\ stack'[7 * n + 3] = stack[7 * n + 3]
      BY <1>10
    <3> QED
      BY <3>1, <3>2 DEF Entry
  <2>2. \A k \in 1 .. 7 * n : stack'[k] = stack[k]
    BY <1>10
  <2> QED
    BY <2>1, <2>2, NestKept
<1> QED
  BY <1>4, <1>8, <1>9, <1>10, <1>11, <1>12 DEF Number

\* The way back takes off the last frame, and the processor finds where and
\* with which flag it was entered.
LEMMA StubReturns ==
    ASSUME TypeOK, NEW n \in Nat, Len(stack) = 7 * (n + 1), Nest(stack, n), StubOut
    PROVE  /\ pc' = stack[7 * n + 3].val /\ iflag' \in BOOLEAN /\ (iflag' <=> n = 0)
           /\ stack' \in Seq(StackWord) /\ Len(stack') = 7 * n
           /\ \A k \in 1 .. 7 * n : stack'[k] = stack[k]
           /\ n = 0 => stack' = <<>>
<1>1. Entry(stack, n)
  BY DEF Nest
<1>2. /\ Len(stack) - 4 = 7 * n + 3 /\ Len(stack) - 4 - 2 = 7 * n + 1
      /\ Len(stack) - 4 - 3 = 7 * n
  OBVIOUS
<1>3. stack[Len(stack) - 4].kind = "eip" /\ stack[Len(stack) - 4 - 2].kind = "eflags"
  BY <1>1, <1>2 DEF Entry
<1>4. /\ pc' = stack[7 * n + 3].val
      /\ iflag' = stack[7 * n + 1].val
      /\ stack' = SubSeq(stack, 1, 7 * n)
  BY <1>2, <1>3 DEF StubOut
<1>5. stack \in Seq(StackWord) /\ 7 * n <= Len(stack) /\ 7 * n \in Nat
  BY DEF TypeOK
<1>6. /\ stack' \in Seq(StackWord) /\ Len(stack') = 7 * n
      /\ \A k \in 1 .. 7 * n : stack'[k] = stack[k]
  BY <1>4, <1>5, Prefix
<1>7. iflag' \in BOOLEAN /\ (iflag' <=> n = 0)
  BY <1>1, <1>4 DEF Entry
<1>8. n = 0 => stack' = <<>>
  BY <1>6
<1> QED
  BY <1>4, <1>6, <1>7, <1>8

-----------------------------------------------------------------------------
(* The steps. *)

LEMMA Vectors ==
    /\ Exceptions \subseteq Vector /\ Known \subseteq Vector
    /\ \A l \in Lines : l \in 0 .. 15 /\ l # Slave /\ IRQ_BASE + l \in Known
    /\ \A v \in Faults : v \in Known /\ v \in Nat /\ v < IRQ_BASE
    /\ \A v \in Known : v >= IRQ_BASE => v - IRQ_BASE \in Lines
<1>1. \A l \in Lines : l \in 0 .. 15 /\ l # Slave
  BY LinesAssumption
<1>2. \A v \in Faults : v \in 0 .. 31
  BY LinesAssumption DEF Exceptions
<1>3. Exceptions \subseteq Vector
  BY DEF Exceptions, Vector
<1>4. Known \subseteq Vector
  BY <1>1, <1>2 DEF Vector, Known
<1>5. \A v \in Known : v >= IRQ_BASE => v - IRQ_BASE \in Lines
  <2> SUFFICES ASSUME NEW v \in Known, v >= IRQ_BASE PROVE v - IRQ_BASE \in Lines
    OBVIOUS
  <2>1. v \notin Faults
    BY <1>2
  <2>2. PICK l \in Lines : v = IRQ_BASE + l
    BY <2>1 DEF Known
  <2> QED
    BY <1>1, <2>2
<1> QED
  BY <1>1, <1>2, <1>3, <1>4, <1>5 DEF Known

\* What an activation finds on the stack.
LEMMA DeepStack ==
    ASSUME IInv, pc \in DeepPlaces
    PROVE  /\ Below \in Nat /\ Len(stack) = 7 * (Below + 1) /\ Nest(stack, Below)
           /\ int_no = Number(stack, Below) /\ int_no = Current_no
           /\ ~iflag /\ int_no \in Known /\ (Below > 0 => int_no \in Faults /\ PageFault \in Faults)
           /\ stack # <<>>
<1>1. /\ Below \in Nat /\ Len(stack) = 7 * (Below + 1) /\ Nest(stack, Below) /\ ~iflag
      /\ Current_no \in Known /\ (Below > 0 => Current_no \in Faults /\ PageFault \in Faults)
  BY DEF IInv, StackOK
<1>2. Len(stack) - 2 = 7 * Below + 5
  BY <1>1
<1>3. int_no = Number(stack, Below)
  BY <1>2 DEF int_no, Number
<1>4. Current_no = Number(stack, Below)
  BY DEF Current_no, DeepPlaces
<1>5. stack # <<>>
  BY <1>1
<1> QED
  BY <1>1, <1>3, <1>4, <1>5

\* A step between two places of one activation.
LEMMA DeepStep ==
    ASSUME IInv, pc \in DeepPlaces, pc' \in DeepPlaces, pc' # "retry",
           UNCHANGED <<processor, tables, now, began>>,
           pc' \in {"answer", "answerMaster"} => Current_no >= IRQ_BASE
    PROVE  /\ StackOK' /\ BootOK'
           /\ MainAt' = MainAt /\ Current_no' = Current_no
<1>1. /\ UNCHANGED <<vector, stack, iflag, gates, remapped>>
  BY DEF processor, tables
<1>2. pc # "stub" /\ pc' # "stub"
  BY DEF DeepPlaces
<1>3. Below' = Below /\ Current_no' = Current_no
  BY <1>1, <1>2 DEF Below, Current_no, Number
<1>4. MainAt' = MainAt
  BY <1>1 DEF MainAt
<1>5. /\ pc' \notin BootPlaces \cup MainPlaces \cup {"stub"}
      /\ pc \notin BootPlaces
  BY DEF DeepPlaces, BootPlaces, MainPlaces
<1>6. Nest(stack', Below') = Nest(stack, Below)
  BY <1>1, <1>3 DEF Nest, Entry, Number
<1>7. StackOK'
  BY <1>1, <1>3, <1>5, <1>6 DEF IInv, StackOK
<1>8. BootOK'
  BY <1>1, <1>5 DEF IInv, BootOK, BootPlaces
<1> QED
  BY <1>3, <1>4, <1>7, <1>8

LEMMA DispatchSteps ==
    ASSUME IInv, DispatchException \/ DispatchInterrupt \/ HandleException \/ HandleOther
    PROVE  IInv'
<1>1. /\ pc \in {"dispatch", "handle", "retry"}
      /\ UNCHANGED <<processor, tables, clock, caller, controllers>>
  BY DEF DispatchException, DispatchInterrupt, HandleException, HandleOther, Goto
<1>2. /\ pc \in DeepPlaces /\ pc' \in {"handle", "answer", "out", "abort"}
  BY <1>1 DEF DispatchException, DispatchInterrupt, HandleException, HandleOther, Goto,
              DeepPlaces
<1>3. pc' \in DeepPlaces /\ pc' # "retry"
  BY <1>2 DEF DeepPlaces
<1>4. int_no = Current_no /\ int_no \in Nat
  <2>1. int_no = Current_no /\ int_no \in Known
    BY <1>2, DeepStack
  <2>2. Known \subseteq Vector
    BY Vectors
  <2> QED
    BY <2>1, <2>2 DEF Vector
<1>5. /\ pc' = "answer" => Current_no >= IRQ_BASE
      /\ pc' = "out" => Current_no < IRQ_BASE
  BY <1>4 DEF DispatchException, DispatchInterrupt, HandleException, HandleOther, Goto
<1>6. /\ StackOK' /\ BootOK'
      /\ MainAt' = MainAt /\ Current_no' = Current_no
  BY <1>1, <1>2, <1>3, <1>5, DeepStep DEF caller
<1>7. TypeOK'
  BY <1>1, <1>3 DEF IInv, TypeOK, Place, processor, tables, clock, caller, controllers
<1>8. ServiceOK'
  <2>1. UNCHANGED <<inMaster, inSlave>>
    BY <1>1 DEF controllers
  <2>2. pc = "retry" => Current_no < IRQ_BASE
    BY DEF IInv, StackOK
  <2>3. Current_no' \in Nat
    BY <1>4, <1>6
  <2>4. CASE Current_no >= IRQ_BASE
    BY <1>1, <1>2, <1>5, <1>6, <2>1, <2>2, <2>3, <2>4 DEF IInv, ServiceOK
  <2>5. CASE ~(Current_no >= IRQ_BASE)
    BY <1>1, <1>2, <1>5, <1>6, <2>1, <2>3, <2>5 DEF IInv, ServiceOK
  <2> QED
    BY <2>4, <2>5
<1>9. ClockOK'
  BY <1>1, <1>6 DEF IInv, ClockOK, clock, caller
<1> QED
  BY <1>6, <1>7, <1>8, <1>9 DEF IInv

\* The handler of the timer: a second more and no tick, or a tick more.
LEMMA TickStep == IInv /\ Tick => IInv'
<1> SUFFICES ASSUME IInv, Tick PROVE IInv'
  OBVIOUS
<1>1. /\ pc = "handle" /\ pc' = "answer" /\ int_no = IRQ_BASE
      /\ UNCHANGED <<processor, tables, caller, controllers>>
  BY DEF Tick
<1>2. pc \in DeepPlaces /\ pc' \in DeepPlaces
  BY <1>1 DEF DeepPlaces
<1>3. int_no = Current_no
  BY <1>2, DeepStack
<1>4. /\ StackOK' /\ BootOK'
      /\ MainAt' = MainAt /\ Current_no' = Current_no
  BY <1>1, <1>2, <1>3, DeepStep DEF caller
<1>5. /\ seconds \in Nat /\ ticks \in Nat /\ elapsed \in Nat /\ Hz \in Nat /\ ticks < Hz
      /\ seconds * Hz + ticks = elapsed /\ began \in Nat
      /\ now.seconds \in Nat /\ now.ticks \in Nat
  BY LinesAssumption DEF IInv, TypeOK, ClockOK
<1>6. /\ seconds' \in Nat /\ ticks' \in Nat /\ ticks' < Hz /\ elapsed' = elapsed + 1
      /\ seconds' * Hz + ticks' = elapsed' /\ seconds <= seconds'
  <2>1. CASE ticks + 1 >= Hz
    <3>1. seconds' = seconds + 1 /\ ticks' = 0 /\ elapsed' = elapsed + 1
      BY <2>1 DEF Tick
    <3>2. (seconds + 1) * Hz = seconds * Hz + Hz
      BY <1>5
    <3> QED
      BY <1>5, <2>1, <3>1, <3>2
  <2>2. CASE ~(ticks + 1 >= Hz)
    BY <1>5, <2>2 DEF Tick
  <2> QED
    BY <2>1, <2>2
<1>7. TypeOK'
  BY <1>1, <1>2, <1>6 DEF IInv, TypeOK, Place, processor, tables, caller, controllers
<1>8. ServiceOK'
  BY <1>1, <1>3, <1>4 DEF IInv, ServiceOK, controllers
<1>9. ClockOK'
  <2>1. now' = now /\ began' = began
    BY <1>1 DEF caller
  <2>2. MainAt = "current" => /\ now.seconds <= seconds'
                              /\ now.seconds * Hz > began - Hz
    BY <1>5, <1>6 DEF IInv, ClockOK
  <2>3. MainAt = "read" => /\ now.seconds * Hz + now.ticks <= elapsed'
                           /\ now.seconds * Hz + now.ticks > began - Hz
    BY <1>5, <1>6 DEF IInv, ClockOK
  <2> QED
    BY <1>4, <1>6, <2>1, <2>2, <2>3 DEF ClockOK
<1> QED
  BY <1>4, <1>7, <1>8, <1>9 DEF IInv

\* One line in service is answered at the controllers it is in service at.
LEMMA AnswerSteps == IInv /\ (AnswerSlave \/ AnswerMaster) => IInv'
<1> SUFFICES ASSUME IInv, AnswerSlave \/ AnswerMaster PROVE IInv'
  OBVIOUS
<1>1. /\ pc \in {"answer", "answerMaster"}
      /\ pc' = IF pc = "answer" THEN "answerMaster" ELSE "out"
      /\ UNCHANGED <<processor, tables, clock, caller>>
  BY DEF AnswerSlave, AnswerMaster, Goto
<1>2. pc \in DeepPlaces /\ pc' \in DeepPlaces /\ pc' # "retry"
  BY <1>1 DEF DeepPlaces
<1>3. int_no = Current_no /\ int_no \in Known /\ Current_no >= IRQ_BASE
  BY <1>1, <1>2, DeepStack DEF IInv, StackOK
<1>4. /\ StackOK' /\ BootOK'
      /\ MainAt' = MainAt /\ Current_no' = Current_no
  BY <1>1, <1>2, <1>3, DeepStep DEF caller
<1> DEFINE l == Current_no - IRQ_BASE
<1>5. /\ l \in Lines /\ l \in Nat /\ MasterLine(l) \in Nat /\ inMaster = {MasterLine(l)}
      /\ pc = "answer" => inSlave = IF l > 7 THEN {l} ELSE {}
      /\ pc = "answerMaster" => inSlave = {}
  BY <1>1, <1>3, Vectors DEF IInv, ServiceOK, MasterLine
<1>6. \A x \in Nat : Answered({x}) = {}
  BY DEF Answered
<1>7. Answered({}) = {}
  BY DEF Answered
<1>8. /\ inMaster' = IF pc = "answer" THEN inMaster ELSE {}
      /\ inSlave' = {}
  <2>1. CASE pc = "answer"
    <3>1. /\ inMaster' = inMaster
          /\ inSlave' = IF l > 7 THEN Answered(inSlave) ELSE inSlave
      BY <1>3, <2>1 DEF AnswerSlave, AnswerMaster, generated_by_slave_PIC
    <3> HIDE DEF l
    <3> QED
      BY <1>5, <1>6, <2>1, <3>1
  <2>2. CASE pc = "answerMaster"
    BY <1>5, <1>6, <2>2 DEF AnswerSlave, AnswerMaster
  <2> QED
    BY <1>1, <2>1, <2>2
<1>9. ServiceOK'
  BY <1>1, <1>3, <1>4, <1>5, <1>8 DEF ServiceOK
<1>10. TypeOK'
  BY <1>1, <1>2, <1>8 DEF IInv, TypeOK, Place, processor, tables, clock, caller
<1>11. ClockOK'
  BY <1>1, <1>4 DEF IInv, ClockOK, clock, caller
<1> QED
  BY <1>4, <1>9, <1>10, <1>11 DEF IInv

\* The stub saves the rest, and the activation is the same.
LEMMA StubInStep == IInv /\ AlignedAccesses /\ StubIn => IInv'
<1> SUFFICES ASSUME IInv, AlignedAccesses, StubIn PROVE IInv'
  OBVIOUS
<1> DEFINE n == Below
<1>1. /\ pc = "stub" /\ pc' = "dispatch"
      /\ UNCHANGED <<vector, iflag, tables, controllers, clock, caller>>
  BY DEF StubIn
<1>2. /\ Len(stack) = 7 * n + (IF vector \in WithErrorCode THEN 4 ELSE 3)
      /\ Nest(stack, n) /\ vector \in Known /\ (n > 0 => vector \in Faults /\ PageFault \in Faults) /\ ~iflag
  BY <1>1 DEF IInv, StackOK, Current_no
<1>3. n \in Nat
  <2>1. Len(stack) \in Nat
    BY DEF IInv, TypeOK
  <2> QED
    BY <1>1, <2>1 DEF Below
<1>4. vector # 17
  BY <1>2, Vectors DEF AlignedAccesses, Known
<1> HIDE DEF n
<1>5. /\ stack' \in Seq(StackWord) /\ Len(stack') = 7 * (n + 1)
      /\ Nest(stack', n) /\ Number(stack', n) = vector
      /\ stack'[3].val = stack[3].val
  BY <1>2, <1>3, <1>4, StubCompletes DEF IInv
<1>6. Below' = n
  BY <1>1, <1>3, <1>5 DEF Below
<1>7. Current_no = vector /\ Current_no' = vector /\ MainAt' = MainAt
  BY <1>1, <1>5, <1>6 DEF Current_no, MainAt, DeepPlaces
<1>8. TypeOK'
  BY <1>1, <1>5 DEF IInv, TypeOK, Place, DeepPlaces, tables, controllers, clock, caller
<1>9. StackOK'
  BY <1>1, <1>2, <1>3, <1>5, <1>6, <1>7 DEF StackOK, BootPlaces, MainPlaces
<1>10. BootOK'
  BY <1>1 DEF IInv, BootOK, tables
<1>11. ServiceOK'
  BY <1>1, <1>7 DEF IInv, ServiceOK, controllers
<1>12. ClockOK'
  BY <1>1, <1>7 DEF IInv, ClockOK, clock, caller
<1> QED
  BY <1>8, <1>9, <1>10, <1>11, <1>12 DEF IInv

\* The way back leads to main, or to the instruction of the handler of page faults
\* that faulted.
LEMMA StubOutStep == IInv /\ StubOut => IInv'
<1> SUFFICES ASSUME IInv, StubOut PROVE IInv'
  OBVIOUS
<1> DEFINE n == Below
<1>1. /\ pc = "out"
      /\ UNCHANGED <<vector, tables, controllers, clock, caller>>
  BY DEF StubOut
<1>2. pc \in DeepPlaces
  BY <1>1 DEF DeepPlaces
<1>3. /\ n \in Nat /\ Len(stack) = 7 * (n + 1) /\ Nest(stack, n)
      /\ n > 0 => PageFault \in Faults
  BY <1>2, DeepStack
<1> HIDE DEF n
<1>4. /\ pc' = stack[7 * n + 3].val /\ iflag' \in BOOLEAN /\ (iflag' <=> n = 0)
      /\ stack' \in Seq(StackWord) /\ Len(stack') = 7 * n
      /\ \A k \in 1 .. 7 * n : stack'[k] = stack[k]
      /\ n = 0 => stack' = <<>>
  BY <1>3, StubReturns DEF IInv
<1>5. /\ MainAt' = MainAt
      /\ IF n = 0 THEN pc' \in MainPlaces ELSE pc' = "retry"
  <2>1. Entry(stack, n)
    BY <1>3 DEF Nest
  <2>2. CASE n = 0
    <3>1. pc' = stack[3].val /\ pc' \in MainPlaces
      BY <1>4, <2>1, <2>2 DEF Entry
    <3>2. MainAt = stack[3].val /\ MainAt' = pc'
      BY <1>2, <3>1 DEF MainAt, MainPlaces, DeepPlaces
    <3> QED
      BY <2>2, <3>1, <3>2
  <2>3. CASE n > 0
    <3>1. pc' = "retry" /\ stack'[3] = stack[3]
      BY <1>3, <1>4, <2>1, <2>3 DEF Entry
    <3> QED
      BY <1>2, <2>3, <3>1 DEF MainAt, DeepPlaces
  <2> QED
    BY <1>3, <2>2, <2>3
<1>6. inMaster = {} /\ inSlave = {}
  BY <1>1 DEF IInv, ServiceOK
<1>7. TypeOK'
  <2>1. pc' \in Place
    BY <1>5 DEF Place, DeepPlaces
  <2> QED
    BY <1>1, <1>4, <2>1 DEF IInv, TypeOK, tables, controllers, clock, caller
<1>8. StackOK'
  <2>1. CASE n = 0
    BY <1>4, <1>5, <2>1 DEF StackOK, MainPlaces, BootPlaces, DeepPlaces
  <2>2. CASE n > 0
    <3>1. pc' = "retry" /\ ~iflag'
      BY <1>3, <1>4, <1>5, <2>2
    <3>2. Below' = n - 1 /\ Below' \in Nat /\ Len(stack') = 7 * (Below' + 1)
      BY <1>3, <1>4, <2>2, <3>1 DEF Below
    <3>3. /\ \A i \in 0 .. n - 1 : Entry(stack, i) /\ Number(stack, i) = PageFault
      BY <1>3 DEF Nest
    <3>4. \A i \in 0 .. n - 1 : Entry(stack', i) /\ Number(stack', i) = PageFault
      <4>1. n \in Nat /\ \A k \in 1 .. 7 * n : stack'[k] = stack[k]
        BY <1>3, <1>4
      <4> QED
        BY <3>3, <4>1, NestPrefix
    <3>5. Nest(stack', Below') /\ Number(stack', Below') = PageFault
      BY <1>3, <2>2, <3>2, <3>4 DEF Nest
    <3>6. Current_no' = PageFault
      BY <3>1, <3>5 DEF Current_no
    <3> QED
      BY <1>3, <2>2, <3>1, <3>2, <3>5, <3>6 DEF StackOK, MainPlaces, BootPlaces, DeepPlaces, Known
  <2> QED
    BY <1>3, <2>1, <2>2
<1>9. BootOK'
  <2>1. pc' \notin BootPlaces
    BY <1>5 DEF MainPlaces, BootPlaces
  <2> QED
    BY <1>1, <2>1 DEF IInv, BootOK, tables, BootPlaces
<1>10. ServiceOK'
  <2>1. pc' \notin {"stub", "dispatch", "handle", "answer", "answerMaster"}
    BY <1>5 DEF MainPlaces
  <2> QED
    BY <1>1, <1>6, <2>1 DEF ServiceOK, controllers
<1>11. ClockOK'
  BY <1>1, <1>5 DEF IInv, ClockOK, clock, caller
<1> QED
  BY <1>7, <1>8, <1>9, <1>10, <1>11 DEF IInv

\* The processor leaves main, or the handler of page faults, for a stub.
LEMMA EnterStep ==
    ASSUME IInv, pc \in MainPlaces \cup {"handle"}, pc = "handle" => int_no = PageFault,
           NEW v \in Known, pc = "handle" => v \in Faults,
           Enter(v, IF pc = "handle" THEN "retry" ELSE pc)
    PROVE  /\ pc' = "stub" /\ vector' = v /\ stack' \in Seq(StackWord) /\ iflag' \in BOOLEAN
           /\ UNCHANGED <<seconds, ticks, elapsed, now, began>> =>
                  ClockOK' /\ (UNCHANGED <<gates, remapped>> => StackOK' /\ BootOK')
           /\ Current_no' = v
<1> DEFINE n == IF pc = "handle" THEN Below + 1 ELSE 0
           back == IF pc = "handle" THEN "retry" ELSE pc
<1>1. TypeOK /\ v \in Vector /\ v \in gates /\ remapped
  <2>1. pc \notin BootPlaces
    BY DEF MainPlaces, BootPlaces
  <2> QED
    BY <2>1, Vectors DEF IInv, BootOK, BootPlaces
<1>2. /\ n \in Nat /\ Len(stack) = 7 * n
      /\ \A i \in 0 .. n - 1 : Entry(stack, i) /\ Number(stack, i) = PageFault
      /\ iflag <=> n = 0
      /\ IF n = 0 THEN back \in MainPlaces ELSE back = "retry"
      /\ n > 0 => v \in Faults /\ PageFault \in Faults
  <2>1. CASE pc = "handle"
    <3>1. pc \in DeepPlaces
      BY <2>1 DEF DeepPlaces
    <3>2. /\ Below \in Nat /\ Len(stack) = 7 * (Below + 1) /\ Nest(stack, Below)
          /\ Number(stack, Below) = PageFault /\ ~iflag /\ PageFault \in Known
      BY <2>1, <3>1, DeepStack
    <3>3. PageFault \in Faults
      BY <3>2, Vectors DEF Known
    <3>4. \A i \in 0 .. Below : i = Below \/ i \in 0 .. Below - 1
      BY <3>2
    <3>5. \A i \in 0 .. Below : Entry(stack, i) /\ Number(stack, i) = PageFault
      BY <3>2, <3>4 DEF Nest
    <3>6. n = Below + 1 /\ n > 0 /\ n - 1 = Below
      BY <2>1, <3>2
    <3> HIDE DEF n
    <3> QED
      BY <2>1, <3>2, <3>3, <3>5, <3>6
  <2>2. CASE pc \in MainPlaces
    <3>1. pc # "handle" /\ stack = <<>> /\ iflag
      BY <2>2 DEF IInv, StackOK, MainPlaces
    <3>2. n = 0 /\ back = pc
      BY <3>1
    <3> HIDE DEF n, back
    <3> QED
      BY <2>2, <3>1, <3>2
  <2> QED
    BY <2>1, <2>2
<1>3. MainAt = IF n = 0 THEN back ELSE stack[3].val
  <2>1. CASE pc = "handle"
    <3>1. n > 0 /\ MainAt = stack[3].val
      BY <2>1, DeepStack DEF MainAt, DeepPlaces
    <3> HIDE DEF n
    <3> QED
      BY <1>2, <3>1
  <2>2. CASE pc # "handle"
    BY <2>2 DEF MainAt, DeepPlaces, MainPlaces
  <2> QED
    BY <2>1, <2>2
<1>4. Enter(v, back)
  OBVIOUS
<1> HIDE DEF n, back
<1>5. /\ pc' = "stub" /\ vector' = v /\ ~iflag'
      /\ stack' \in Seq(StackWord)
      /\ Len(stack') = 7 * n + (IF v \in WithErrorCode THEN 4 ELSE 3)
      /\ Nest(stack', n)
      /\ stack'[3].val = IF n = 0 THEN back ELSE stack[3].val
  BY <1>1, <1>2, <1>4, EnterPushes
<1>6. Below' = n /\ Current_no' = v
  BY <1>2, <1>5 DEF Below, Current_no
<1>7. MainAt' = MainAt
  BY <1>3, <1>5 DEF MainAt
<1>8. StackOK'
  BY <1>2, <1>5, <1>6 DEF StackOK, BootPlaces, MainPlaces, DeepPlaces
<1>9. UNCHANGED <<gates, remapped>> => BootOK'
  <2>1. gates = Vector
    <3>1. pc \notin BootPlaces
      BY DEF MainPlaces, BootPlaces
    <3> QED
      BY <3>1 DEF IInv, BootOK, BootPlaces
  <2> QED
    BY <1>1, <1>5, <2>1, Vectors DEF BootOK
<1>10. UNCHANGED <<seconds, ticks, elapsed, now, began>> => ClockOK'
  BY <1>7 DEF IInv, ClockOK
<1>11. iflag' \in BOOLEAN
  BY <1>1, <1>4 DEF Enter, TypeOK
<1> QED
  BY <1>5, <1>6, <1>8, <1>9, <1>10, <1>11

LEMMA FaultStep ==
    ASSUME IInv, NEW v \in Faults, Fault(v)
    PROVE  IInv'
<1>1. /\ pc \in MainPlaces \cup {"handle"} /\ (pc = "handle" => int_no = PageFault)
      /\ Enter(v, IF pc = "handle" THEN "retry" ELSE pc)
      /\ UNCHANGED <<tables, controllers, clock, caller>>
      /\ pc = "run" \/ pc = "handle"
  BY DEF Fault, MainPlaces
<1>2. v \in Known /\ v \in Vector /\ v < IRQ_BASE /\ v \in Nat
  BY Vectors
<1>3. /\ pc' = "stub" /\ vector' = v /\ stack' \in Seq(StackWord) /\ iflag' \in BOOLEAN
      /\ ClockOK' /\ StackOK' /\ BootOK' /\ Current_no' = v
  BY <1>1, <1>2, EnterStep DEF tables, clock, caller
<1>4. TypeOK'
  BY <1>1, <1>2, <1>3 DEF IInv, TypeOK, Place, tables, controllers, clock, caller
<1>5. inMaster = {} /\ inSlave = {}
  <2>1. CASE pc = "run"
    BY <2>1 DEF IInv, ServiceOK
  <2>2. CASE pc = "handle"
    <3>1. Current_no = PageFault
      BY <1>1, <2>2, DeepStack DEF DeepPlaces
    <3> QED
      BY <2>2, <3>1 DEF IInv, ServiceOK
  <2> QED
    BY <1>1, <2>1, <2>2
<1>6. ServiceOK'
  BY <1>1, <1>2, <1>3, <1>5 DEF ServiceOK, controllers
<1> QED
  BY <1>3, <1>4, <1>6 DEF IInv

LEMMA AcceptStep ==
    ASSUME IInv, NEW l \in Lines, Accept(l)
    PROVE  IInv'
<1>1. pc \in MainPlaces /\ pc \notin BootPlaces
  <2>1. iflag /\ pc \in Place
    BY DEF Accept, IInv, TypeOK
  <2>2. pc \notin BootPlaces \cup DeepPlaces \cup {"stub"}
    BY <2>1 DEF IInv, StackOK
  <2> QED
    BY <2>1, <2>2 DEF Place
<1>2. remapped /\ inMaster = {} /\ inSlave = {} /\ pc # "handle"
  BY <1>1 DEF IInv, BootOK, ServiceOK, MainPlaces, BootPlaces
<1> DEFINE v == IRQ_BASE + l
<1>3. /\ Enter(v, IF pc = "handle" THEN "retry" ELSE pc)
      /\ inMaster' = {MasterLine(l)} /\ inSlave' = IF l > 7 THEN {l} ELSE {}
      /\ UNCHANGED <<tables, clock, caller>>
  BY <1>2 DEF Accept
<1>4. v \in Known /\ v \in Vector /\ l \in 0 .. 15 /\ v >= IRQ_BASE /\ v - IRQ_BASE = l
  BY Vectors
<1> HIDE DEF v
<1>5. /\ pc' = "stub" /\ vector' = v /\ stack' \in Seq(StackWord) /\ iflag' \in BOOLEAN
      /\ ClockOK' /\ StackOK' /\ BootOK' /\ Current_no' = v
  BY <1>1, <1>2, <1>3, <1>4, EnterStep DEF tables, clock, caller
<1>6. TypeOK'
  <2>1. inMaster' \subseteq 0 .. 15 /\ inSlave' \subseteq 0 .. 15
    BY <1>3, <1>4 DEF MasterLine
  <2> QED
    BY <1>3, <1>4, <1>5, <2>1 DEF IInv, TypeOK, Place, tables, clock, caller
<1>7. ServiceOK'
  BY <1>3, <1>4, <1>5 DEF ServiceOK
<1> QED
  BY <1>5, <1>6, <1>7 DEF IInv

LEMMA BootSteps == IInv /\ Boot => IInv'
<1> SUFFICES ASSUME IInv, Boot PROVE IInv'
  OBVIOUS
<1>1. PICK from, to : Startup(from, to) /\ from \in BootPlaces
  BY DEF Boot, InitIDT, InitExceptions, InitIRQ, InitInterrupts, RegisterExceptions,
         EnablePaging, RegisterTimer, EnableInterrupts, BootPlaces
<1>2. /\ pc \in BootPlaces /\ stack = <<>> /\ ~iflag
      /\ UNCHANGED <<vector, stack, controllers, clock, caller>>
  BY <1>1 DEF Startup, IInv, StackOK
<1>3. /\ pc' \in BootPlaces \cup {"run"} /\ pc' # "idt" /\ iflag' \in BOOLEAN
      /\ iflag' <=> pc' = "run"
  <2>1. CASE EnableInterrupts
    <3>1. pc' = "run"
      BY <2>1 DEF Startup, EnableInterrupts
    <3>2. iflag' = TRUE
      BY <2>1, Zenon DEF EnableInterrupts
    <3>3. iflag' \in BOOLEAN
      BY <3>2, Zenon
    <3> QED
      BY <3>1, <3>2, <3>3 DEF BootPlaces
  <2>2. CASE InitIDT \/ InitExceptions \/ InitIRQ \/ InitInterrupts
    <3>1. pc' \in {"exceptions", "irq", "interrupts", "handlers"}
      BY <2>2 DEF Startup, InitIDT, InitExceptions, InitIRQ, InitInterrupts
    <3>2. iflag' = iflag /\ iflag' \in BOOLEAN
      BY <2>2 DEF InitIDT, InitExceptions, InitIRQ, InitInterrupts, IInv, TypeOK
    <3> QED
      BY <1>2, <3>1, <3>2 DEF BootPlaces
  <2>3. CASE RegisterExceptions \/ EnablePaging \/ RegisterTimer
    <3>1. pc' \in {"paging", "timer", "enable"}
      BY <2>3 DEF Startup, RegisterExceptions, EnablePaging, RegisterTimer
    <3>2. iflag' = iflag /\ iflag' \in BOOLEAN
      BY <2>3 DEF RegisterExceptions, EnablePaging, RegisterTimer, IInv, TypeOK
    <3> QED
      BY <1>2, <3>1, <3>2 DEF BootPlaces
  <2> QED
    BY <2>1, <2>2, <2>3 DEF Boot
<1>4. gates' \subseteq Vector /\ BootOK'
  <2>1. gates \subseteq Vector
    BY DEF IInv, TypeOK
  <2>2. CASE InitIDT
    BY <2>2 DEF InitIDT, Startup, BootOK
  <2>3. CASE InitExceptions
    BY <2>1, <2>3, Vectors DEF InitExceptions, Startup, BootOK
  <2>4. CASE InitIRQ
    BY <2>1, <2>4 DEF InitIRQ, Startup, BootOK, IInv
  <2>5. CASE InitInterrupts
    <3>1. /\ gates' = gates \cup {IRQ_BASE + l : l \in 0 .. 15}
          /\ Exceptions \subseteq gates /\ remapped' /\ pc' = "handlers"
      BY <2>5 DEF InitInterrupts, Startup, BootOK, IInv
    <3>2. Vector \subseteq Exceptions \cup {IRQ_BASE + l : l \in 0 .. 15}
      <4> SUFFICES ASSUME NEW v \in Vector, v \notin Exceptions
                   PROVE  \E l \in 0 .. 15 : v = IRQ_BASE + l
        OBVIOUS
      <4>1. v - IRQ_BASE \in 0 .. 15 /\ v = IRQ_BASE + (v - IRQ_BASE)
        BY DEF Vector, Exceptions
      <4> QED
        BY <4>1
    <3>3. {IRQ_BASE + l : l \in 0 .. 15} \subseteq Vector
      BY DEF Vector
    <3>4. gates' = Vector
      BY <2>1, <3>1, <3>2, <3>3
    <3> QED
      BY <3>1, <3>4 DEF BootOK
  <2>6. CASE RegisterExceptions \/ EnablePaging \/ RegisterTimer \/ EnableInterrupts
    <3>1. gates' = gates /\ remapped' = remapped /\ gates = Vector /\ remapped
          /\ Exceptions \subseteq gates
      BY <2>6 DEF RegisterExceptions, EnablePaging, RegisterTimer, EnableInterrupts,
                  Startup, tables, IInv, BootOK
    <3> QED
      BY <2>1, <3>1 DEF BootOK
  <2> QED
    BY <2>2, <2>3, <2>4, <2>5, <2>6 DEF Boot
<1>5. TypeOK'
  BY <1>2, <1>3, <1>4 DEF IInv, TypeOK, Place, MainPlaces, controllers, clock, caller
<1>6. StackOK'
  BY <1>2, <1>3 DEF StackOK, BootPlaces, MainPlaces, DeepPlaces
<1>7. ServiceOK'
  BY <1>2, <1>3 DEF IInv, ServiceOK, BootPlaces, controllers
<1>8. ClockOK'
  <2>1. MainAt' \notin {"current", "read"}
    BY <1>3 DEF MainAt, BootPlaces, DeepPlaces
  <2> QED
    BY <1>2, <2>1 DEF IInv, ClockOK, clock, caller
<1> QED
  BY <1>4, <1>5, <1>6, <1>7, <1>8 DEF IInv

\* A step of main that leaves everything but its place, and what it has read.
LEMMA MainStep ==
    ASSUME IInv, pc \in MainPlaces, pc' \in MainPlaces,
           UNCHANGED <<processor, tables, controllers, clock>>
    PROVE  /\ StackOK' /\ BootOK' /\ ServiceOK' /\ MainAt = pc /\ MainAt' = pc'
           /\ now' \in [seconds : Nat, ticks : Nat] /\ began' \in Nat => TypeOK'
<1>1. pc' \notin BootPlaces \cup DeepPlaces \cup {"stub"} /\ pc \notin BootPlaces \cup DeepPlaces
  BY DEF MainPlaces, BootPlaces, DeepPlaces
<1>2. StackOK'
  BY <1>1 DEF IInv, StackOK, MainPlaces, processor
<1>3. BootOK'
  BY <1>1 DEF IInv, BootOK, BootPlaces, tables
<1>4. ServiceOK'
  BY DEF IInv, ServiceOK, MainPlaces, controllers
<1>5. MainAt = pc /\ MainAt' = pc'
  BY <1>1 DEF MainAt, MainPlaces
<1>6. now' \in [seconds : Nat, ticks : Nat] /\ began' \in Nat => TypeOK'
  BY DEF IInv, TypeOK, Place, processor, tables, controllers, clock
<1> QED
  BY <1>2, <1>3, <1>4, <1>5, <1>6

\* seconds, read first, may be out of date when ticks is read, but only by ticks
\* that have been counted since.
LEMMA MainSteps == IInv /\ Main => IInv'
<1> SUFFICES ASSUME IInv, Main PROVE IInv'
  OBVIOUS
<1>1. /\ pc \in MainPlaces /\ pc' \in MainPlaces
      /\ UNCHANGED <<processor, tables, controllers, clock>>
  BY DEF Main, Current, CurrentEnd, Return, Wait, WaitSeconds, WaitTicks, Goto, MainPlaces
<1>2. /\ StackOK' /\ BootOK' /\ ServiceOK' /\ MainAt = pc /\ MainAt' = pc'
      /\ now' \in [seconds : Nat, ticks : Nat] /\ began' \in Nat => TypeOK'
  BY <1>1, MainStep
<1>3. /\ seconds \in Nat /\ ticks \in Nat /\ elapsed \in Nat /\ Hz \in Nat /\ began \in Nat
      /\ now \in [seconds : Nat, ticks : Nat]
      /\ seconds * Hz \in Nat /\ seconds * Hz + ticks = elapsed /\ ticks < Hz
      /\ seconds' = seconds /\ ticks' = ticks /\ elapsed' = elapsed
  BY <1>1, LinesAssumption DEF IInv, TypeOK, ClockOK, clock
<1>4. CASE Current
  <2>1. now' = [now EXCEPT !.seconds = seconds] /\ began' = elapsed /\ pc' = "current"
    BY <1>4 DEF Current, CurrentReads, Timer
  <2>2. /\ now' \in [seconds : Nat, ticks : Nat] /\ began' \in Nat
        /\ now'.seconds = seconds
    BY <1>3, <2>1
  <2>3. ClockOK'
    BY <1>2, <1>3, <2>1, <2>2 DEF ClockOK
  <2> QED
    BY <1>2, <2>2, <2>3 DEF IInv
<1>5. CASE CurrentEnd
  <2>1. /\ now' = [now EXCEPT !.ticks = ticks] /\ began' = began
        /\ pc = "current" /\ pc' = "read"
    BY <1>5 DEF CurrentEnd, CurrentReads, Timer
  <2>2. /\ now' \in [seconds : Nat, ticks : Nat] /\ began' \in Nat
        /\ now'.seconds = now.seconds /\ now'.ticks = ticks /\ now.seconds \in Nat
    BY <1>3, <2>1
  <2>3. now.seconds <= seconds /\ now.seconds * Hz > began - Hz
    BY <1>2, <2>1 DEF IInv, ClockOK
  <2>4. now.seconds * Hz <= seconds * Hz /\ now.seconds * Hz \in Nat
    BY <1>3, <2>2, <2>3
  <2>5. ClockOK'
    BY <1>2, <1>3, <2>1, <2>2, <2>3, <2>4 DEF ClockOK
  <2> QED
    BY <1>2, <2>2, <2>5 DEF IInv
<1>6. CASE Return \/ (\E s \in 0 .. 1 : Wait(s)) \/ WaitSeconds \/ WaitTicks
  <2>1. now' = now /\ began' = began /\ pc' \notin {"current", "read"}
    BY <1>6 DEF Return, Wait, WaitSeconds, WaitTicks, Goto, caller
  <2>2. ClockOK'
    BY <1>2, <1>3, <2>1 DEF ClockOK
  <2> QED
    BY <1>2, <1>3, <2>1, <2>2 DEF IInv
<1> QED
  BY <1>4, <1>5, <1>6 DEF Main

\* What only changes requests and the tables of handlers.
LEMMA OtherSteps ==
    ASSUME IInv,
           UNCHANGED <<pc, processor, gates, remapped, inMaster, inSlave, clock, now, began>>
    PROVE  IInv'
<1>1. /\ UNCHANGED <<pc, vector, stack, iflag, gates, remapped, inMaster, inSlave>>
      /\ UNCHANGED <<seconds, ticks, elapsed, now, began>>
  BY DEF processor, clock
<1>2. Below' = Below /\ Current_no' = Current_no /\ MainAt' = MainAt
  BY <1>1 DEF Below, Current_no, Number, MainAt
<1>3. Nest(stack', Below') = Nest(stack, Below)
  BY <1>1, <1>2 DEF Nest, Entry, Number
<1>4. TypeOK'
  BY <1>1 DEF IInv, TypeOK
<1>5. StackOK'
  BY <1>1, <1>2, <1>3 DEF IInv, StackOK
<1>6. BootOK' /\ ServiceOK'
  BY <1>1, <1>2 DEF IInv, BootOK, ServiceOK
<1>7. ClockOK'
  BY <1>1, <1>2 DEF IInv, ClockOK
<1> QED
  BY <1>4, <1>5, <1>6, <1>7 DEF IInv

LEMMA InitInv == Init => IInv
<1> SUFFICES ASSUME Init PROVE IInv
  OBVIOUS
<1>1. pc = "idt" /\ stack = <<>> /\ ~iflag /\ inMaster = {} /\ inSlave = {}
  BY DEF Init
<1>2. TypeOK
  <2>1. pc \in Place /\ vector \in Vector
    BY DEF Init, Place, BootPlaces, Vector
  <2>2. iflag = FALSE
    BY Zenon DEF Init
  <2>3. iflag \in BOOLEAN
    BY <2>2, Zenon
  <2>4. stack \in Seq(StackWord)
    BY <1>1, EmptySeq
  <2>5. now \in [seconds : Nat, ticks : Nat] /\ began \in Nat
    BY DEF Init
  <2> QED
    BY <2>1, <2>3, <2>4, <2>5 DEF Init, TypeOK
<1>3. StackOK
  BY <1>1 DEF StackOK, MainPlaces, DeepPlaces
<1>4. BootOK /\ ServiceOK
  BY <1>1 DEF BootOK, ServiceOK
<1>5. ClockOK
  BY LinesAssumption DEF Init, ClockOK, MainAt, DeepPlaces
<1> QED
  BY <1>2, <1>3, <1>4, <1>5 DEF IInv

LEMMA NextInv ==
    ASSUME AlignedAccesses, IInv, [Next]_vars
    PROVE  IInv'
<1>1. CASE Boot
  BY <1>1, BootSteps
<1>2. CASE Main
  BY <1>2, MainSteps
<1>3. CASE Handling
  BY <1>3, StubInStep, DispatchSteps, TickStep, AnswerSteps, StubOutStep DEF Handling
<1>4. ASSUME NEW l \in Lines, Raise(l) \/ Accept(l) \/ Register(l) \/ Deregister(l)
      PROVE  IInv'
  <2>1. CASE Accept(l)
    BY <2>1, AcceptStep
  <2>2. CASE Raise(l) \/ Register(l) \/ Deregister(l)
    BY <2>2, OtherSteps DEF Raise, Register, Deregister, tables, controllers, caller
  <2> QED
    BY <1>4, <2>1, <2>2
<1>5. ASSUME NEW v \in Faults, Fault(v) \/ RegisterException(v) \/ DeregisterException(v)
      PROVE  IInv'
  <2>1. CASE Fault(v)
    BY <2>1, FaultStep
  <2>2. CASE RegisterException(v) \/ DeregisterException(v)
    BY <2>2, OtherSteps DEF RegisterException, DeregisterException, controllers, caller
  <2> QED
    BY <1>5, <2>1, <2>2
<1>6. CASE UNCHANGED vars
  BY <1>6, OtherSteps DEF vars, tables, controllers, caller
<1> QED
  BY <1>1, <1>2, <1>3, <1>4, <1>5, <1>6 DEF Next

LEMMA Invariance == ASSUME AlignedAccesses PROVE Spec => []IInv
<1>1. IInv /\ [Next]_vars => IInv'
  BY NextInv
<1> QED
  BY <1>1, InitInv, PTL DEF Spec

\* The kinds of the words on the stack and the ranges of everything else: no
\* nest of entries and returns leaves a word that is taken for another.
THEOREM TypeCorrect == ASSUME AlignedAccesses PROVE Spec => []TypeOK
<1>1. IInv => TypeOK
  BY DEF IInv
<1> QED
  BY <1>1, Invariance, PTL

\* However interrupts and faults nest, main finds nothing on the stack, nothing
\* in service and interrupts on, and the machine is never reset.
THEOREM BackInMainCorrect == ASSUME AlignedAccesses PROVE Spec => []BackInMain
<1>1. IInv => BackInMain
  BY DEF IInv, TypeOK, Place, StackOK, ServiceOK, BackInMain, BootPlaces, MainPlaces,
         DeepPlaces
<1> QED
  BY <1>1, Invariance, PTL

\* The clock is read without turning interrupts off, and is at most a second slow.
THEOREM ClockReadingCorrect == ASSUME AlignedAccesses PROVE Spec => []ClockReading
<1>1. IInv => ClockReading
  BY DEF IInv, ClockOK, ClockReading, MainAt, DeepPlaces
<1> QED
  BY <1>1, Invariance, PTL

-----------------------------------------------------------------------------
(* A set of numbers has a least element, and induction from that. *)

LEMMA LeastOf ==
    ASSUME NEW S \in SUBSET Nat, S # {}
    PROVE  \E m \in S : \A k \in S : m <= k
<1> DEFINE R == OpToRel(<, Nat)
<1>1. IsWellFoundedOn(R, Nat)
  BY NatLessThanWellFounded
<1>2. PICK m \in S : \A k \in S : <<k, m>> \notin R
  <2> HIDE DEF R
  <2> QED
    BY <1>1, WFMin
<1>3. \A k \in S : ~(k < m)
  BY <1>2 DEF OpToRel
<1> QED
  BY <1>3

\* Induction over 0 .. n, for a set of numbers.
LEMMA Upward ==
    ASSUME NEW n \in Nat, NEW S, 0 \in S, \A k \in 1 .. n : k - 1 \in S => k \in S
    PROVE  \A k \in 0 .. n : k \in S
<1> DEFINE bad == {k \in 0 .. n : k \notin S}
<1> SUFFICES ASSUME bad # {} PROVE FALSE
  OBVIOUS
<1>1. bad \in SUBSET Nat
  OBVIOUS
<1>2. PICK k \in bad : \A l \in bad : k <= l
  <2> HIDE DEF bad
  <2> QED
    BY <1>1, LeastOf
<1>3. k \in 1 .. n /\ k - 1 \in 0 .. n /\ k - 1 \notin bad
  BY <1>2
<1> QED
  BY <1>2, <1>3

-----------------------------------------------------------------------------
(* puts: the function that Puts is the last value of exists. *)

IsAfter(f, c, s, n) == f = [i \in 0 .. n |-> IF i = 0 THEN c ELSE Put(f[i - 1], s[i])]

LEMMA AfterExists ==
    ASSUME NEW c, NEW s, NEW n \in Nat
    PROVE  \E f : IsAfter(f, c, s, n)
<1> DEFINE S == {k \in 0 .. n : \E f : IsAfter(f, c, s, k)}
<1>1. 0 \in S
  <2>1. PICK f : f = [i \in 0 .. 0 |-> c]
    OBVIOUS
  <2>2. IsAfter(f, c, s, 0)
    BY <2>1 DEF IsAfter
  <2> QED
    BY <2>2
<1>2. ASSUME NEW k \in 1 .. n, k - 1 \in S PROVE k \in S
  <2>1. PICK f : IsAfter(f, c, s, k - 1)
    BY <1>2
  <2>2. PICK g : g = [i \in 0 .. k |-> IF i = k THEN Put(f[k - 1], s[k]) ELSE f[i]]
    OBVIOUS
  <2>3. ASSUME NEW i \in 0 .. k PROVE g[i] = IF i = 0 THEN c ELSE Put(g[i - 1], s[i])
    BY <2>1, <2>2, <2>3 DEF IsAfter
  <2>4. g = [i \in 0 .. k |-> IF i = 0 THEN c ELSE Put(g[i - 1], s[i])]
    BY <2>2, <2>3
  <2> QED
    BY <2>4 DEF IsAfter
<1>3. n \in S
  <2> HIDE DEF S
  <2> QED
    BY <1>1, <1>2, Upward
<1> QED
  BY <1>3

LEMMA PutsIs ==
    ASSUME NEW c, NEW s, Len(s) \in Nat
    PROVE  \E f : IsAfter(f, c, s, Len(s)) /\ Puts(c, s) = f[Len(s)]
<1> DEFINE f == CHOOSE f : f = [i \in 0 .. Len(s) |-> IF i = 0 THEN c ELSE Put(f[i - 1], s[i])]
<1>1. \E g : g = [i \in 0 .. Len(s) |-> IF i = 0 THEN c ELSE Put(g[i - 1], s[i])]
  <2>1. \E g : IsAfter(g, c, s, Len(s))
    BY AfterExists, Zenon
  <2> QED
    BY <2>1, Zenon DEF IsAfter
<1>2. f = [i \in 0 .. Len(s) |-> IF i = 0 THEN c ELSE Put(f[i - 1], s[i])]
  BY <1>1, Zenon
<1>3. Puts(c, s) = f[Len(s)]
  BY DEF Puts
<1> HIDE DEF f
<1> QED
  BY <1>2, <1>3, Zenon DEF IsAfter

-----------------------------------------------------------------------------
(* The cursor.  What a message in the middle of a backspace breaks is claimed *)
(* only of a console that is whole, which no such message has come to.        *)

Members(text, x, y, outside) == [text |-> text, x |-> x, y |-> y, outside |-> outside]

\* A console has its four members.
IsConsole(c) ==
    /\ c = Members(c.text, c.x, c.y, c.outside)
    /\ c.x \in Int /\ c.y \in Nat /\ c.outside \subseteq Int

\* A cell of the screen or of the line behind it.
Near(k, whole) == k < (Height + 1) * Width /\ (whole => k >= 0)

StoresNear(c, whole) ==
    /\ IsConsole(c) /\ (whole => c.x >= 0)
    /\ \A k \in c.outside : Near(k, whole)

\* The cursor is on the screen, and so is every store, or one line behind it.
OnScreen(c, whole) == StoresNear(c, whole) /\ c.x < Width /\ c.y < Height

\* Within one character: the cursor is behind the line, or behind the last one.
NearScreen(c, whole) ==
    /\ StoresNear(c, whole)
    /\ \/ c.x < 2 * Width /\ c.y < Height
       \/ c.x < Width /\ c.y = Height

\* Before the statements at which the cursor is on the screen.
AtHome == {"idle", "back", "feed", "fed", "address", "store", "advance", "column",
           "down", "wrapped"}

\* What has been worked out and is not yet stored, for the statement that is next.
RegOK(r, whole) ==
    /\ statement = "address" => \E y \in 0 .. Height - 1 : r = y * Width
    /\ statement = "store" => r \in Int /\ Near(r, whole)
    /\ statement = "column" => r \in Int /\ r < 2 * Width /\ (whole => r >= 0)
    /\ statement \in {"fed", "wrapped"} => r \in 0 .. Height

CursorOK ==
    /\ slipped \in BOOLEAN /\ NearScreen(con, ~slipped)
    /\ statement \in AtHome => OnScreen(con, ~slipped)
    /\ statement = "wrap" => con.y < Height
    /\ statement \in {"scroll", "temp", "move", "clear", "bottom"} => con.x < Width
    /\ statement = "back" /\ ~slipped => con.x > 0
    /\ RegOK(reg, ~slipped)
    /\ statement = "temp" => con.y >= Height - 1
    /\ statement \in {"move", "clear"} => temp \in {0, 1} /\ row \in Nat

LEMMA Sizes ==
    /\ Width \in Nat /\ Width >= 1 /\ Height \in Nat /\ Height >= 2
    /\ Tab \in Nat /\ Tab >= 1 /\ Tab <= Width
    /\ (Height + 1) * Width \in Nat /\ (Height + 1) * Width > 0
BY ConsoleAssumption

LEMMA Members4 ==
    ASSUME NEW text, NEW x \in Int, NEW y \in Nat, NEW outside \in SUBSET Int,
           NEW c, c = Members(text, x, y, outside)
    PROVE  IsConsole(c) /\ c.text = text /\ c.x = x /\ c.y = y /\ c.outside = outside
BY DEF Members, IsConsole

\* What the statements that move the cursor do.
LEMMA Moves ==
    ASSUME NEW c, IsConsole(c)
    PROVE  /\ Back(c) = Members(c.text, c.x - 1, c.y, c.outside)
           /\ ToMargin(c) = Members(c.text, 0, c.y, c.outside)
           /\ Tabbed(c) = Members(c.text, ((c.x + Tab) \div Tab) * Tab, c.y, c.outside)
           /\ Advanced(c) = Members(c.text, c.x + 1, c.y, c.outside)
           /\ Down(c) = Members(c.text, c.x, c.y + 1, c.outside)
           /\ AtBottom(c) = Members(c.text, c.x, Height - 1, c.outside)
           /\ \A x : AtColumn(c, x) = Members(c.text, x, c.y, c.outside)
           /\ \A y : AtLine(c, y) = Members(c.text, c.x, y, c.outside)
BY DEF IsConsole, Members, Back, ToMargin, Tabbed, Advanced, Down, AtBottom, AtColumn, AtLine

\* What they work out.
LEMMA Workings ==
    ASSUME NEW c, IsConsole(c)
    PROVE  /\ Back(c).x = c.x - 1 /\ Advanced(c).x = c.x + 1 /\ Down(c).y = c.y + 1
           /\ Tabbed(c).x = ((c.x + Tab) \div Tab) * Tab
BY Moves DEF Members

\* What a store does.
LEMMA WrittenIs ==
    ASSUME NEW c, IsConsole(c), NEW text, NEW cells \in SUBSET Int
    PROVE  Written([c EXCEPT !.text = text], cells) =
               Members(text, c.x, c.y, c.outside \cup (cells \ Shown))
<1>1. PICK d : d = [c EXCEPT !.text = text]
  OBVIOUS
<1>2. d = Members(text, c.x, c.y, c.outside)
  BY <1>1 DEF IsConsole, Members
<1>3. Written(d, cells) = [d EXCEPT !.outside = d.outside \cup (cells \ Shown)]
  BY DEF Written
<1> QED
  BY <1>1, <1>2, <1>3 DEF Members

LEMMA StoredIs ==
    ASSUME NEW c, IsConsole(c), NEW k \in Int, NEW ch
    PROVE  Stored(c, k, ch) =
               Members(IF k \in Cell THEN [c.text EXCEPT ![k] = ch] ELSE c.text,
                       c.x, c.y, c.outside \cup ({k} \ Shown))
<1>1. PICK text : text = IF k \in Cell THEN [c.text EXCEPT ![k] = ch] ELSE c.text
  OBVIOUS
<1>2. Stored(c, k, ch) = Written([c EXCEPT !.text = text], {k})
  BY <1>1 DEF Stored
<1> QED
  BY <1>1, <1>2, WrittenIs

\* The same, where the cells are on the screen.
LEMMA WrittenShown ==
    ASSUME NEW c, IsConsole(c), NEW text, NEW cells \in SUBSET Shown
    PROVE  Written([c EXCEPT !.text = text], cells) = Members(text, c.x, c.y, c.outside)
<1>1. cells \in SUBSET Int
  BY DEF Shown
<1>2. c.outside \cup (cells \ Shown) = c.outside
  OBVIOUS
<1> QED
  BY <1>1, <1>2, WrittenIs

\* A row is on the screen, or behind it.
LEMMA RowPlaces ==
    ASSUME NEW r \in 0 .. Height
    PROVE  /\ RowCells(r) \subseteq Int /\ \A k \in RowCells(r) : Near(k, TRUE)
           /\ r < Height => RowCells(r) \subseteq Shown
<1>1. \A a, b \in Nat : a <= b => a * Width <= b * Width
  BY Sizes
<1>2. PICK m, n \in Nat : m = r * Width /\ n = Height * Width
  BY Sizes
<1>3. (Height + 1) * Width = n + Width /\ m <= n
  BY <1>1, <1>2, Sizes
<1>4. ASSUME r < Height PROVE m + Width <= n
  <2>1. (r + 1) * Width <= Height * Width
    BY <1>1, <1>4, Sizes
  <2>2. (r + 1) * Width = m + Width
    BY <1>2, Sizes
  <2> QED
    BY <1>2, <2>1, <2>2
<1>5. RowCells(r) = m .. m + Width - 1
  BY <1>2 DEF RowCells
<1> QED
  BY <1>2, <1>3, <1>4, <1>5, Sizes DEF Near, Shown

\* The rows that scroll moves up are on the screen.
LEMMA MovedPlaces ==
    ASSUME NEW t \in Nat, t <= Height
    PROVE  0 .. (Height - t) * Width - 1 \subseteq Shown
<1>1. (Height - t) * Width <= Height * Width
  <2>1. \A a, b \in Nat : a <= b => a * Width <= b * Width
    BY Sizes
  <2> QED
    BY <2>1, Sizes
<1>2. (Height - t) * Width \in Int /\ Height * Width \in Int
  BY Sizes
<1> QED
  BY <1>1, <1>2 DEF Shown

LEMMA RowMovedIs ==
    ASSUME NEW c, IsConsole(c), NEW r \in 0 .. Height - 1, NEW t
    PROVE  RowMoved(c, r, t) =
               Members([k \in Cell |-> IF k \div Width = r THEN c.text[k + t * Width]
                                                           ELSE c.text[k]],
                       c.x, c.y, c.outside)
<1>1. RowCells(r) \in SUBSET Shown
  <2>1. r \in 0 .. Height /\ r < Height
    BY Sizes
  <2> QED
    BY <2>1, RowPlaces
<1> QED
  BY <1>1, WrittenShown DEF RowMoved

LEMMA MovedIs ==
    ASSUME NEW c, IsConsole(c), NEW t \in Nat, t <= Height
    PROVE  Moved(c, t) =
               Members([k \in Cell |-> IF k \div Width < Height - t
                                       THEN c.text[k + t * Width] ELSE c.text[k]],
                       c.x, c.y, c.outside)
BY MovedPlaces, WrittenShown DEF Moved

LEMMA ClearedIs ==
    ASSUME NEW c, IsConsole(c), NEW t \in 1 .. Height
    PROVE  Cleared(c, t) =
               Members([k \in Cell |-> IF k \div Width = Height - t THEN Blank ELSE c.text[k]],
                       c.x, c.y, c.outside)
<1>1. RowCells(Height - t) \in SUBSET Shown
  <2>1. PICK r \in 0 .. Height : r = Height - t /\ r < Height
    BY Sizes
  <2> QED
    BY <2>1, RowPlaces
<1> QED
  BY <1>1, WrittenShown DEF Cleared

\* The cell that a character is stored to.
LEMMA StoredCell ==
    ASSUME NEW c, NEW whole \in BOOLEAN, NearScreen(c, whole)
    PROVE  CursorCell(c) \in Int /\ Near(CursorCell(c), whole)
<1>1. PICK x \in Int, y \in Nat : x = c.x /\ y = c.y
  BY DEF NearScreen, StoresNear, IsConsole
<1>2. \A a, b \in Nat : a <= b => a * Width <= b * Width
  BY Sizes
<1>3. PICK m, n \in Nat : m = y * Width /\ n = Height * Width
  BY Sizes
<1>4. (Height + 1) * Width = n + Width
  BY <1>3, Sizes
<1>5. (whole => x >= 0) /\ ((x < 2 * Width /\ y < Height) \/ (x < Width /\ y = Height))
  BY <1>1 DEF NearScreen, StoresNear
<1>6. y < Height => m + Width <= n
  <2> SUFFICES ASSUME y < Height PROVE m + Width <= n
    OBVIOUS
  <2>1. (y + 1) * Width <= Height * Width
    BY <1>2, Sizes
  <2>2. (y + 1) * Width = m + Width
    BY <1>3, Sizes
  <2> QED
    BY <1>3, <2>1, <2>2
<1>7. CursorCell(c) = m + x
  BY <1>1, <1>3 DEF CursorCell
<1> QED
  BY <1>3, <1>4, <1>5, <1>6, <1>7, Sizes DEF Near

\* A cell of the screen, or before it.
LEMMA AddressNear ==
    ASSUME NEW whole \in BOOLEAN, NEW y \in 0 .. Height - 1, NEW x \in Int,
           x < Width, whole => x >= 0
    PROVE  y * Width + x \in Int /\ Near(y * Width + x, whole)
<1>1. PICK c : c = Members(0, x, y, {})
  OBVIOUS
<1>2. IsConsole(c) /\ c.x = x /\ c.y = y /\ c.outside = {}
  BY <1>1, Members4, Sizes
<1>3. NearScreen(c, whole)
  BY <1>2, Sizes DEF NearScreen, StoresNear
<1> QED
  BY <1>2, <1>3, StoredCell DEF CursorCell

\* A store near the screen.
LEMMA StoredNear ==
    ASSUME NEW c, NEW whole \in BOOLEAN, StoresNear(c, whole), NEW k \in Int, Near(k, whole), NEW ch
    PROVE  /\ StoresNear(Stored(c, k, ch), whole)
           /\ Stored(c, k, ch).x = c.x /\ Stored(c, k, ch).y = c.y
<1>1. PICK text, outside : /\ outside = c.outside \cup ({k} \ Shown)
                           /\ Stored(c, k, ch) = Members(text, c.x, c.y, outside)
  <2>1. PICK text, outside :
            /\ text = (IF k \in Cell THEN [c.text EXCEPT ![k] = ch] ELSE c.text)
            /\ outside = c.outside \cup ({k} \ Shown)
    OBVIOUS
  <2>2. Stored(c, k, ch) = Members(text, c.x, c.y, outside)
    BY <2>1, StoredIs DEF StoresNear
  <2> QED
    BY <2>1, <2>2
<1>2. outside \subseteq Int /\ c.x \in Int /\ c.y \in Nat
  BY <1>1 DEF StoresNear, IsConsole
<1> QED
  BY <1>1, <1>2, Members4 DEF StoresNear

\* Where a tab leads to.
LEMMA TabReach ==
    ASSUME NEW x \in Int
    PROVE  /\ ((x + Tab) \div Tab) * Tab \in Int /\ ((x + Tab) \div Tab) * Tab <= x + Tab
           /\ x >= 0 => ((x + Tab) \div Tab) * Tab >= 0
<1>1. Tab \in Nat \ {0} /\ x + Tab \in Int
  BY Sizes
<1>2. \A a \in Int, b \in Nat \ {0} : a \div b \in Int /\ (a \div b) * b <= a
  OBVIOUS
<1>3. PICK q \in Int : q = (x + Tab) \div Tab
  BY <1>1, <1>2
<1>4. q * Tab \in Int /\ q * Tab <= x + Tab
  BY <1>1, <1>2, <1>3
<1>5. ASSUME x >= 0 PROVE q * Tab >= 0
  <2>1. \A a \in Nat, b \in Nat \ {0} : a \div b \in Nat
    OBVIOUS
  <2>2. q \in Nat
    BY <1>1, <1>3, <1>5, <2>1
  <2> QED
    BY <1>1, <2>2
<1> QED
  BY <1>3, <1>4, <1>5

LEMMA BegunIs ==
    ASSUME NEW c, NEW ch
    PROVE  /\ ch = BS => Begun(c, ch) = IF c.x # 0 THEN Back(c) ELSE c
           /\ ch = HT => Begun(c, ch) = Tabbed(c)
           /\ ch = CR => Begun(c, ch) = ToMargin(c)
           /\ ch = LF => Begun(c, ch) = Down(ToMargin(c))
           /\ ch \notin Controls => Begun(c, ch) = Advanced(Stored(c, CursorCell(c), ch))
BY DEF Begun, Controls, BS, HT, CR, LF

\* The cursor at another place.
LEMMA Movement ==
    ASSUME NEW c, NEW whole \in BOOLEAN, StoresNear(c, whole),
           NEW d, IsConsole(d), d.outside = c.outside, whole => d.x >= 0
    PROVE  StoresNear(d, whole)
BY DEF StoresNear

\* The first statements of putch, whole.
LEMMA BegunFacts ==
    ASSUME NEW c, NEW whole \in BOOLEAN, NearScreen(c, whole), NEW ch
    PROVE  /\ StoresNear(Begun(c, ch), whole)
           /\ Begun(c, ch).y \in {c.y, c.y + 1}
           /\ Begun(c, ch).y = c.y + 1 => Begun(c, ch).x < Width
<1>1. /\ StoresNear(c, whole) /\ IsConsole(c) /\ c.x \in Int /\ c.y \in Nat
      /\ c.outside \in SUBSET Int /\ (whole => c.x >= 0)
      /\ \A k \in c.outside : Near(k, whole)
  BY DEF NearScreen, StoresNear, IsConsole
<1>2. CASE ch = BS
  <2>1. Begun(c, ch) = IF c.x # 0 THEN Back(c) ELSE c
    BY <1>2, BegunIs
  <2>2. CASE c.x # 0
    <3>1. PICK x \in Int : x = c.x - 1 /\ (whole => x >= 0)
      BY <1>1, <2>2
    <3>2. Begun(c, ch) = Members(c.text, x, c.y, c.outside)
      BY <1>1, <2>1, <2>2, <3>1, Moves
    <3> QED
      BY <1>1, <3>1, <3>2, Members4, Movement
  <2>3. CASE c.x = 0
    BY <1>1, <2>1, <2>3
  <2> QED
    BY <2>2, <2>3
<1>3. CASE ch = HT
  <2>1. PICK x \in Int : x = ((c.x + Tab) \div Tab) * Tab /\ (whole => x >= 0)
    BY <1>1, TabReach
  <2>2. Begun(c, ch) = Members(c.text, x, c.y, c.outside)
    BY <1>1, <1>3, <2>1, Moves, BegunIs
  <2> QED
    BY <1>1, <2>1, <2>2, Members4, Movement
<1>4. CASE ch = CR
  <2>1. Begun(c, ch) = Members(c.text, 0, c.y, c.outside)
    BY <1>1, <1>4, Moves, BegunIs
  <2> QED
    BY <1>1, <2>1, Members4, Movement
<1>5. CASE ch = LF
  <2>1. PICK d : d = ToMargin(c)
    OBVIOUS
  <2>2. IsConsole(d) /\ d.text = c.text /\ d.x = 0 /\ d.y = c.y /\ d.outside = c.outside
    BY <1>1, <2>1, Moves, Members4
  <2>3. Begun(c, ch) = Down(d)
    BY <1>5, <2>1, BegunIs
  <2>4. Begun(c, ch) = Members(c.text, 0, c.y + 1, c.outside) /\ c.y + 1 \in Nat
    BY <1>1, <2>2, <2>3, Moves
  <2> QED
    BY <1>1, <2>4, Members4, Movement, Sizes
<1>6. CASE ch \notin Controls
  <2>1. PICK k \in Int : k = CursorCell(c) /\ Near(k, whole)
    BY StoredCell
  <2>2. PICK d : d = Stored(c, k, ch)
    OBVIOUS
  <2>3. StoresNear(d, whole) /\ d.x = c.x /\ d.y = c.y
    BY <1>1, <2>1, <2>2, StoredNear
  <2>4. Begun(c, ch) = Advanced(d)
    BY <1>6, <2>1, <2>2, BegunIs
  <2>5. PICK x \in Int : x = c.x + 1 /\ (whole => x >= 0)
    BY <1>1
  <2>6. Begun(c, ch) = Members(d.text, x, c.y, d.outside)
    BY <2>3, <2>4, <2>5, Moves DEF StoresNear
  <2>7. d.outside \in SUBSET Int
    BY <2>3 DEF StoresNear, IsConsole
  <2> QED
    BY <1>1, <2>3, <2>5, <2>6, <2>7, Members4 DEF StoresNear
<1> QED
  BY <1>2, <1>3, <1>4, <1>5, <1>6 DEF Controls

\* The end of a line.
LEMMA WrappedFacts ==
    ASSUME NEW c, NEW whole \in BOOLEAN, StoresNear(c, whole)
    PROVE  /\ StoresNear(Wrapped(c), whole) /\ Wrapped(c).x < Width
           /\ Wrapped(c).y = IF AtEdge(c) THEN c.y + 1 ELSE c.y
           /\ Wrapped(c) = IF AtEdge(c) THEN Members(c.text, 0, c.y + 1, c.outside) ELSE c
<1>1. /\ IsConsole(c) /\ c.x \in Int /\ c.y \in Nat /\ c.outside \in SUBSET Int
      /\ \A k \in c.outside : Near(k, whole)
  BY DEF StoresNear, IsConsole
<1>2. CASE AtEdge(c)
  <2>1. PICK d : d = ToMargin(c)
    OBVIOUS
  <2>2. IsConsole(d) /\ d.text = c.text /\ d.x = 0 /\ d.y = c.y /\ d.outside = c.outside
    BY <1>1, <2>1, Moves, Members4
  <2>3. Wrapped(c) = Down(d)
    BY <1>2, <2>1 DEF Wrapped
  <2>4. Wrapped(c) = Members(c.text, 0, c.y + 1, c.outside) /\ c.y + 1 \in Nat
    BY <1>1, <2>2, <2>3, Moves
  <2> QED
    BY <1>1, <1>2, <2>4, Members4, Sizes DEF StoresNear
<1>3. CASE ~AtEdge(c)
  BY <1>1, <1>3, Sizes DEF Wrapped, AtEdge
<1> QED
  BY <1>2, <1>3

\* scroll brings the cursor back to the screen.
LEMMA ScrolledFacts ==
    ASSUME NEW c, NEW whole \in BOOLEAN, StoresNear(c, whole), c.y <= Height + 1
    PROVE  /\ StoresNear(Scrolled(c), whole)
           /\ Scrolled(c).x = c.x
           /\ Scrolled(c).y = IF OffScreen(c) THEN Height - 1 ELSE c.y
           /\ Scrolled(c).y < Height
<1>1. /\ IsConsole(c) /\ c.x \in Int /\ c.y \in Nat /\ c.outside \in SUBSET Int
  BY DEF StoresNear, IsConsole
<1>2. CASE ~OffScreen(c)
  BY <1>1, <1>2, Sizes DEF Scrolled, OffScreen
<1>3. CASE OffScreen(c)
  <2>1. PICK t \in 1 .. Height : t = Excess(c)
    BY <1>1, <1>3, Sizes DEF Excess, OffScreen
  <2>2. PICK d, e : d = Moved(c, t) /\ e = Cleared(d, t)
    OBVIOUS
  <2>3. IsConsole(d) /\ d.x = c.x /\ d.y = c.y /\ d.outside = c.outside
    <3>1. t \in Nat /\ t <= Height
      BY Sizes
    <3>2. PICK text : d = Members(text, c.x, c.y, c.outside)
      BY <1>1, <2>2, <3>1, MovedIs
    <3> QED
      BY <1>1, <3>2, Members4
  <2>4. IsConsole(e) /\ e.x = c.x /\ e.y = c.y /\ e.outside = c.outside
    <3>1. PICK text : e = Members(text, d.x, d.y, d.outside)
      BY <2>2, <2>3, ClearedIs
    <3> QED
      BY <1>1, <2>3, <3>1, Members4
  <2>5. Scrolled(c) = AtBottom(e)
    BY <1>3, <2>1, <2>2 DEF Scrolled
  <2>6. Scrolled(c) = Members(e.text, c.x, Height - 1, c.outside) /\ Height - 1 \in Nat
    BY <2>4, <2>5, Moves, Sizes
  <2> QED
    BY <1>1, <1>3, <2>6, Members4, Sizes DEF StoresNear
<1> QED
  BY <1>2, <1>3

\* putch brings the cursor back to the screen, and from the last line to the last.
LEMMA PutFacts ==
    ASSUME NEW c, NEW whole \in BOOLEAN, NearScreen(c, whole), NEW ch
    PROVE  /\ OnScreen(Put(c, ch), whole)
           /\ c.y >= Height - 1 => Put(c, ch).y >= Height - 1
<1>1. PICK d, w : d = Begun(c, ch) /\ w = Wrapped(d)
  OBVIOUS
<1>2. /\ StoresNear(d, whole) /\ d.y \in {c.y, c.y + 1} /\ (d.y = c.y + 1 => d.x < Width)
      /\ c.y \in Nat /\ c.y <= Height
  BY <1>1, BegunFacts, Sizes DEF NearScreen, StoresNear, IsConsole
<1>3. StoresNear(w, whole) /\ w.x < Width /\ w.y = IF AtEdge(d) THEN d.y + 1 ELSE d.y
  BY <1>1, <1>2, WrappedFacts
<1>4. w.y \in Nat /\ c.y <= w.y /\ w.y <= Height + 1
  BY <1>2, <1>3, Sizes DEF AtEdge, StoresNear, IsConsole
<1>5. Put(c, ch) = Scrolled(w)
  BY <1>1 DEF Put
<1> QED
  BY <1>2, <1>3, <1>4, <1>5, ScrolledFacts, Sizes DEF OnScreen, OffScreen

\* A message leaves the cursor as it was, or on the screen.
LEMMA PutsFacts ==
    ASSUME NEW c, NEW whole \in BOOLEAN, NearScreen(c, whole), NEW s, Len(s) \in Nat
    PROVE  /\ Puts(c, s) = c \/ OnScreen(Puts(c, s), whole)
           /\ c.y >= Height - 1 => Puts(c, s).y >= Height - 1
<1>1. PICK f : IsAfter(f, c, s, Len(s)) /\ Puts(c, s) = f[Len(s)]
  BY PutsIs
<1> DEFINE S == {k \in 0 .. Len(s) : /\ f[k] = c \/ OnScreen(f[k], whole)
                                     /\ c.y >= Height - 1 => f[k].y >= Height - 1}
<1>2. 0 \in S
  BY <1>1 DEF IsAfter
<1>3. ASSUME NEW k \in 1 .. Len(s), k - 1 \in S PROVE k \in S
  <2>1. f[k] = Put(f[k - 1], s[k])
    BY <1>1 DEF IsAfter
  <2>2. NearScreen(f[k - 1], whole)
    BY <1>3, Sizes DEF OnScreen, NearScreen, StoresNear, IsConsole
  <2> QED
    BY <1>3, <2>1, <2>2, PutFacts
<1>4. Len(s) \in S
  <2> HIDE DEF S
  <2>1. PICK n \in Nat : n = Len(s)
    OBVIOUS
  <2>2. \A k \in 0 .. n : k \in S
    BY <1>2, <1>3, <2>1, Upward
  <2> QED
    BY <2>1, <2>2
<1> QED
  BY <1>1, <1>4

LEMMA ConsoleInitInv == ConsoleInit => CursorOK
<1> SUFFICES ASSUME ConsoleInit PROVE CursorOK
  OBVIOUS
<1>1. con = Members([k \in Cell |-> Blank], 0, 0, {}) /\ statement = "idle" /\ slipped = FALSE
  BY DEF ConsoleInit, Members
<1>2. IsConsole(con) /\ con.x = 0 /\ con.y = 0 /\ con.outside = {}
  BY <1>1, Members4
<1>3. StoresNear(con, ~slipped)
  BY <1>2 DEF StoresNear
<1>4. OnScreen(con, ~slipped) /\ NearScreen(con, ~slipped)
  BY <1>2, <1>3, Sizes DEF OnScreen, NearScreen
<1> QED
  BY <1>1, <1>4 DEF CursorOK, RegOK, AtHome

\* Where the cursor is on the screen, it is near it.
LEMMA OnIsNear ==
    ASSUME NEW c, NEW whole \in BOOLEAN, OnScreen(c, whole)
    PROVE  NearScreen(c, whole)
BY Sizes DEF OnScreen, NearScreen, StoresNear, IsConsole

LEMMA PutchStep ==
    ASSUME CursorOK, NEW ch \in Letters \cup Controls, Putch(ch)
    PROVE  CursorOK'
<1>1. PICK whole \in BOOLEAN : whole = ~slipped
  BY DEF CursorOK
<1>2. /\ statement = "idle" /\ slipped' = slipped /\ slipped \in BOOLEAN
      /\ OnScreen(con, whole) /\ NearScreen(con, whole) /\ StoresNear(con, whole)
      /\ con.x \in Int /\ con.y \in Nat /\ con.x < Width /\ con.y < Height
      /\ (whole => con.x >= 0) /\ IsConsole(con)
  BY <1>1 DEF Putch, PutBackspace, PutTab, PutReturn, PutPrintable, Start, CursorOK, AtHome,
              OnScreen, NearScreen, StoresNear, IsConsole
<1>3. CASE PutBackspace
  <2>1. con' = con /\ statement' = IF con.x # 0 THEN "back" ELSE "edge"
    BY <1>3 DEF PutBackspace
  <2>2. statement' = "back" /\ whole => con.x > 0
    BY <1>2, <2>1
  <2> QED
    BY <1>1, <1>2, <2>1, <2>2 DEF CursorOK, RegOK
<1>4. CASE PutTab
  <2>1. con' = con /\ statement' = "column" /\ reg' = ((con.x + Tab) \div Tab) * Tab
    BY <1>2, <1>4, Workings DEF PutTab
  <2>2. reg' \in Int /\ reg' < 2 * Width /\ (whole => reg' >= 0)
    BY <1>2, <2>1, TabReach, Sizes
  <2> QED
    BY <1>1, <1>2, <2>1, <2>2 DEF CursorOK, RegOK
<1>5. CASE PutReturn(ch)
  <2>1. con' = Members(con.text, 0, con.y, con.outside) /\ statement' \in {"feed", "edge"}
    BY <1>2, <1>5, Moves DEF PutReturn
  <2>2. StoresNear(con', whole) /\ con'.x = 0 /\ con'.y = con.y
    <3>1. IsConsole(con') /\ con'.x = 0 /\ con'.y = con.y /\ con'.outside = con.outside
      BY <1>2, <2>1, Members4 DEF IsConsole
    <3> QED
      BY <1>2, <3>1, Movement
  <2> QED
    BY <1>1, <1>2, <2>1, <2>2, Sizes DEF CursorOK, RegOK, NearScreen, OnScreen
<1>6. CASE PutPrintable(ch)
  <2>1. con' = con /\ statement' = "address" /\ con.y \in 0 .. Height - 1 /\ reg' = con.y * Width
    BY <1>2, <1>6, Sizes DEF PutPrintable
  <2> QED
    BY <1>1, <1>2, <2>1 DEF CursorOK, RegOK
<1> QED
  BY <1>3, <1>4, <1>5, <1>6 DEF Putch

LEMMA StatementStep == ASSUME CursorOK, Statement PROVE CursorOK'
<1>1. PICK whole \in BOOLEAN : whole = ~slipped
  BY DEF CursorOK
<1>2. /\ slipped' = slipped /\ slipped \in BOOLEAN
      /\ NearScreen(con, whole) /\ StoresNear(con, whole)
      /\ con.x \in Int /\ con.y \in Nat /\ con.outside \in SUBSET Int
      /\ (whole => con.x >= 0) /\ IsConsole(con) /\ RegOK(reg, whole)
  <2>1. slipped' = slipped
    BY DEF Statement, StepBack, Feed, FeedLine, Address, Store, Advance, SetColumn, Edge, Wrap,
           NextLine, WrapLine, Scroll, SetTemp, MoveRow, Clear, Bottom, WorkOut, PutBack, GoOn
  <2> QED
    BY <1>1, <2>1 DEF CursorOK, NearScreen, StoresNear, IsConsole
<1>3. ASSUME statement \in AtHome
      PROVE  OnScreen(con, whole) /\ con.x < Width /\ con.y < Height
  BY <1>1, <1>3 DEF CursorOK, OnScreen
<1>4. CASE StepBack \/ Advance
  <2>1. /\ con' = con /\ statement' = "column" /\ statement \in AtHome
        /\ reg' \in {con.x - 1, con.x + 1} /\ (reg' = con.x - 1 => statement = "back")
    BY <1>2, <1>4, Workings DEF StepBack, Advance, WorkOut, GoOn, AtHome
  <2>2. statement = "back" /\ whole => con.x > 0
    BY <1>1 DEF CursorOK
  <2>3. reg' \in Int /\ reg' < 2 * Width /\ (whole => reg' >= 0)
    BY <1>2, <1>3, <2>1, <2>2, Sizes
  <2> QED
    BY <1>1, <1>2, <1>3, <2>1, <2>3 DEF CursorOK, RegOK
<1>5. CASE Feed \/ NextLine
  <2>1. /\ con' = con /\ statement' \in {"fed", "wrapped"} /\ statement \in AtHome
        /\ reg' = con.y + 1
    BY <1>2, <1>5, Workings DEF Feed, NextLine, WorkOut, GoOn, AtHome
  <2>2. reg' \in 0 .. Height
    BY <1>2, <1>3, <2>1, Sizes
  <2> QED
    BY <1>1, <1>2, <1>3, <2>1, <2>2 DEF CursorOK, RegOK
<1>6. CASE FeedLine \/ WrapLine
  <2>1. /\ con' = AtLine(con, reg) /\ statement' \in {"edge", "scroll"}
        /\ statement \in {"fed", "wrapped"}
    BY <1>6 DEF FeedLine, WrapLine, PutBack, GoOn
  <2>2. reg \in 0 .. Height /\ con.x < Width
    BY <1>2, <1>3, <2>1 DEF RegOK, AtHome
  <2>3. con' = Members(con.text, con.x, reg, con.outside)
    BY <1>2, <2>1, Moves
  <2>4. StoresNear(con', whole) /\ con'.x = con.x /\ con'.y = reg
    <3>1. reg \in Nat
      BY <2>2
    <3>2. IsConsole(con') /\ con'.x = con.x /\ con'.y = reg /\ con'.outside = con.outside
      BY <1>2, <2>3, <3>1, Members4
    <3> QED
      BY <1>2, <3>2, Movement
  <2>5. NearScreen(con', whole)
    BY <1>2, <2>2, <2>4, Sizes DEF NearScreen
  <2> QED
    BY <1>1, <1>2, <2>1, <2>2, <2>4, <2>5 DEF CursorOK, RegOK, AtHome
<1>7. CASE Address
  <2>1. con' = con /\ statement = "address" /\ statement' = "store" /\ reg' = reg + con.x
    BY <1>7 DEF Address, WorkOut, GoOn
  <2>2. PICK y \in 0 .. Height - 1 : reg = y * Width
    BY <1>2, <2>1 DEF RegOK
  <2>3. con.x < Width /\ OnScreen(con, whole)
    BY <1>3, <2>1 DEF AtHome
  <2>4. reg' \in Int /\ Near(reg', whole)
    BY <1>2, <2>1, <2>2, <2>3, AddressNear
  <2> QED
    BY <1>1, <1>2, <2>1, <2>3, <2>4 DEF CursorOK, RegOK
<1>8. CASE Store
  <2>1. con' = Stored(con, reg, char) /\ statement = "store" /\ statement' = "advance"
    BY <1>8 DEF Store, PutBack, GoOn
  <2>2. StoresNear(con', whole) /\ con'.x = con.x /\ con'.y = con.y
    BY <1>2, <2>1, StoredNear DEF RegOK
  <2>3. OnScreen(con', whole)
    BY <1>3, <2>1, <2>2 DEF AtHome, OnScreen
  <2> QED
    BY <1>1, <1>2, <2>1, <2>3, OnIsNear DEF CursorOK, RegOK
<1>9. CASE SetColumn
  <2>1. con' = AtColumn(con, reg) /\ statement = "column" /\ statement' = "edge"
    BY <1>9 DEF SetColumn, PutBack, GoOn
  <2>2. reg \in Int /\ reg < 2 * Width /\ (whole => reg >= 0) /\ con.y < Height
    BY <1>2, <1>3, <2>1 DEF RegOK, AtHome
  <2>3. con' = Members(con.text, reg, con.y, con.outside)
    BY <1>2, <2>1, Moves
  <2>4. StoresNear(con', whole) /\ con'.x = reg /\ con'.y = con.y
    <3>1. IsConsole(con') /\ con'.x = reg /\ con'.y = con.y /\ con'.outside = con.outside
      BY <1>2, <2>2, <2>3, Members4
    <3> QED
      BY <1>2, <2>2, <3>1, Movement
  <2>5. NearScreen(con', whole)
    BY <2>2, <2>4 DEF NearScreen
  <2> QED
    BY <1>1, <1>2, <2>1, <2>5 DEF CursorOK, RegOK, AtHome
<1>10. CASE Edge
  <2>1. con' = con /\ statement' = IF AtEdge(con) THEN "wrap" ELSE "scroll"
    BY <1>10 DEF Edge, GoOn
  <2> QED
    BY <1>1, <1>2, <2>1, Sizes DEF AtEdge, CursorOK, RegOK, AtHome, NearScreen
<1>11. CASE Wrap
  <2>1. con' = Members(con.text, 0, con.y, con.outside) /\ statement' = "down"
    BY <1>2, <1>11, Moves DEF Wrap, GoOn
  <2>2. StoresNear(con', whole) /\ con'.x = 0 /\ con'.y = con.y
    <3>1. IsConsole(con') /\ con'.x = 0 /\ con'.y = con.y /\ con'.outside = con.outside
      BY <1>2, <2>1, Members4 DEF IsConsole
    <3> QED
      BY <1>2, <3>1, Movement
  <2>3. OnScreen(con', whole)
    BY <1>11, <2>2, Sizes DEF Wrap, CursorOK, OnScreen
  <2> QED
    BY <1>1, <1>2, <2>1, <2>3, OnIsNear DEF CursorOK, RegOK
<1>12. CASE Scroll
  <2>1. /\ con' = con /\ statement = "scroll"
        /\ statement' = IF OffScreen(con) THEN "temp" ELSE "idle"
    BY <1>12 DEF Scroll, GoOn
  <2>2. con.x < Width
    BY <2>1 DEF CursorOK
  <2> QED
    BY <1>1, <1>2, <2>1, <2>2, Sizes DEF OffScreen, CursorOK, RegOK, AtHome, NearScreen, OnScreen
<1>13. CASE SetTemp
  <2>1. /\ con' = con /\ statement = "temp" /\ statement' = "move"
        /\ temp' = con.y - Height + 1 /\ row' = 0
    BY <1>13 DEF SetTemp, Excess, GoOn
  <2>2. con.x < Width /\ con.y >= Height - 1 /\ con.y <= Height
    BY <1>2, <2>1, Sizes DEF CursorOK, NearScreen
  <2>3. temp' \in {0, 1}
    BY <1>2, <2>1, <2>2, Sizes
  <2> QED
    BY <1>1, <1>2, <2>1, <2>2, <2>3 DEF CursorOK, RegOK, AtHome
<1>14. CASE MoveRow
  <2>1. /\ statement = "move" /\ temp \in {0, 1} /\ row \in Nat /\ con.x < Width
        /\ temp' = temp
    BY <1>14 DEF MoveRow, CursorOK
  <2>2. CASE row < Height - temp
    <3>1. con' = RowMoved(con, row, temp) /\ row' = row + 1 /\ statement' = "move"
      BY <1>14, <2>2 DEF MoveRow, GoOn
    <3>2. row \in 0 .. Height - 1
      BY <2>1, <2>2, Sizes
    <3>3. PICK text : con' = Members(text, con.x, con.y, con.outside)
      BY <1>2, <3>1, <3>2, RowMovedIs
    <3>4. IsConsole(con') /\ con'.x = con.x /\ con'.y = con.y /\ con'.outside = con.outside
      BY <1>2, <3>3, Members4
    <3>5. NearScreen(con', whole)
      BY <1>2, <3>4 DEF NearScreen, StoresNear
    <3> QED
      BY <1>1, <1>2, <2>1, <3>1, <3>4, <3>5 DEF CursorOK, RegOK, AtHome
  <2>3. CASE ~(row < Height - temp)
    <3>1. con' = con /\ row' = row /\ statement' = "clear"
      BY <1>14, <2>3 DEF MoveRow, GoOn
    <3> QED
      BY <1>1, <1>2, <2>1, <3>1 DEF CursorOK, RegOK, AtHome
  <2> QED
    BY <2>2, <2>3
<1>15. CASE Clear
  <2>1. /\ statement = "clear" /\ temp \in {0, 1} /\ con.x < Width
        /\ con' = Cleared(con, temp) /\ statement' = "bottom"
    BY <1>15 DEF Clear, GoOn, CursorOK
  <2>2. PICK r \in 0 .. Height : r = Height - temp
    BY <2>1, Sizes
  <2>3. RowCells(r) \in SUBSET Int /\ \A k \in RowCells(r) : Near(k, TRUE)
    BY RowPlaces
  <2>4. PICK text, outside :
            /\ outside = con.outside \cup (RowCells(r) \ Shown)
            /\ con' = Members(text, con.x, con.y, outside)
    <3>1. PICK text : Cleared(con, temp) = Written([con EXCEPT !.text = text], RowCells(r))
      BY <2>2 DEF Cleared
    <3>2. PICK outside : outside = con.outside \cup (RowCells(r) \ Shown)
      OBVIOUS
    <3>3. con' = Members(text, con.x, con.y, outside)
      BY <1>2, <2>1, <2>3, <3>1, <3>2, WrittenIs
    <3> QED
      BY <3>2, <3>3
  <2>5. outside \in SUBSET Int
    BY <1>2, <2>3, <2>4
  <2>6. IsConsole(con') /\ con'.x = con.x /\ con'.y = con.y /\ con'.outside = outside
    BY <1>2, <2>4, <2>5, Members4
  <2>7. \A k \in outside : Near(k, whole)
    BY <1>2, <2>3, <2>4 DEF StoresNear, Near
  <2>8. NearScreen(con', whole)
    BY <1>2, <2>6, <2>7 DEF NearScreen, StoresNear
  <2> QED
    BY <1>1, <1>2, <2>1, <2>6, <2>8 DEF CursorOK, RegOK, AtHome
<1>16. CASE Bottom
  <2>1. con' = Members(con.text, con.x, Height - 1, con.outside) /\ statement' = "idle"
    BY <1>2, <1>16, Moves DEF Bottom, GoOn
  <2>2. StoresNear(con', whole) /\ con'.x = con.x /\ con'.y = Height - 1
    BY <1>2, <2>1, Members4, Movement, Sizes
  <2>3. OnScreen(con', whole)
    BY <1>16, <2>2, Sizes DEF Bottom, CursorOK, OnScreen
  <2> QED
    BY <1>1, <1>2, <2>1, <2>3, OnIsNear DEF CursorOK, RegOK, AtHome
<1> QED
  BY <1>4, <1>5, <1>6, <1>7, <1>8, <1>9, <1>10, <1>11, <1>12, <1>13, <1>14, <1>15, <1>16
  DEF Statement

LEMMA InterruptStep == ASSUME CursorOK, NEW m \in Messages, Interrupt(m) PROVE CursorOK'
<1>1. Len(m) \in Nat
  BY ConsoleAssumption
<1>2. PICK whole \in BOOLEAN : whole = ~slipped
  BY DEF CursorOK
<1>3. /\ con' = Puts(con, m) /\ statement' = statement
      /\ UNCHANGED <<reg, temp, row>>
      /\ slipped' = (slipped \/ (statement = "back" /\ con'.x = 0))
  BY DEF Interrupt, locals
<1>4. slipped \in BOOLEAN /\ slipped' \in BOOLEAN /\ NearScreen(con, whole)
  BY <1>2, <1>3 DEF CursorOK
<1>5. /\ con' = con \/ OnScreen(con', whole)
      /\ con.y >= Height - 1 => con'.y >= Height - 1
  BY <1>1, <1>3, <1>4, PutsFacts
<1>6. PICK still \in BOOLEAN : still = ~slipped' /\ (still => whole)
  BY <1>2, <1>3, <1>4
<1>7. \A k \in Int : Near(k, whole) => Near(k, still)
  BY <1>6 DEF Near
<1>8. NearScreen(con', still) /\ (OnScreen(con', whole) => OnScreen(con', still))
  BY <1>4, <1>5, <1>6, <1>7, OnIsNear DEF NearScreen, OnScreen, StoresNear, IsConsole
<1>9. OnScreen(con', whole) =>
          con'.x \in Int /\ con'.x < Width /\ con'.y < Height /\ (whole => con'.x >= 0)
  BY DEF OnScreen, StoresNear, IsConsole
<1>10. RegOK(reg, still)'
  <2>1. RegOK(reg, whole) /\ reg' = reg /\ statement' = statement
    BY <1>2, <1>3 DEF CursorOK
  <2> QED
    BY <1>6, <1>7, <2>1 DEF RegOK
<1>11. CASE statement \in AtHome
  <2>1. OnScreen(con', whole)
    BY <1>2, <1>5, <1>11 DEF CursorOK
  <2>2. statement = "back" /\ still => con'.x > 0
    <3> SUFFICES ASSUME statement = "back", still PROVE con'.x > 0
      OBVIOUS
    <3>1. con'.x # 0
      BY <1>3, <1>6
    <3>2. con'.x \in Int /\ con'.x >= 0
      BY <1>6, <1>9, <2>1
    <3> QED
      BY <3>1, <3>2
  <2> QED
    BY <1>3, <1>4, <1>6, <1>8, <1>10, <1>11, <2>1, <2>2 DEF CursorOK, AtHome
<1>12. CASE statement \notin AtHome
  BY <1>3, <1>4, <1>5, <1>6, <1>8, <1>9, <1>10, <1>12 DEF CursorOK, AtHome
<1> QED
  BY <1>11, <1>12

LEMMA ConsoleNextInv == ASSUME CursorOK, [ConsoleNext]_consoleVars PROVE CursorOK'
<1>1. CASE UNCHANGED consoleVars
  BY <1>1 DEF consoleVars, locals, CursorOK, RegOK, AtHome
<1> QED
  BY <1>1, PutchStep, StatementStep, InterruptStep DEF ConsoleNext

\* Wherever the timer's handler prints within putch or scroll, no store is further
\* than one line behind the screen, and between characters the cursor is not below
\* the screen nor behind its line; nothing is before the screen or its margin,
\* until a message comes between the two halves of a backspace and leaves the
\* cursor at the margin (putch, scroll, memcpy, memsetw).
THEOREM WithinReachCorrect == ConsoleSpec => []WithinReach
<1>1. CursorOK => WithinReach
  <2> SUFFICES ASSUME CursorOK PROVE WithinReach
    OBVIOUS
  <2>1. PICK whole \in BOOLEAN : whole = ~slipped
    BY DEF CursorOK
  <2>2. NearScreen(con, whole) /\ (statement = "idle" => OnScreen(con, whole))
    BY <2>1 DEF CursorOK, AtHome
  <2>3. /\ \A k \in con.outside : k < (Height + 1) * Width /\ (whole => k >= 0)
        /\ con.x \in Int /\ con.y \in Nat /\ (whole => con.x >= 0)
    BY <2>2 DEF NearScreen, StoresNear, IsConsole, Near
  <2>4. statement = "idle" => con.x < Width /\ con.y \in 0 .. Height - 1
    BY <2>2, <2>3, Sizes DEF OnScreen
  <2> QED
    BY <2>1, <2>3, <2>4 DEF WithinReach
<1> QED
  BY <1>1, ConsoleInitInv, ConsoleNextInv, PTL DEF ConsoleSpec
-----------------------------------------------------------------------------
(* int2str: the functions Rest and ReadBack are defined by exist, by the same *)
(* induction as above, and each digit takes back one division.               *)

IsRest(f, n, m) == f = [k \in 0 .. m |-> IF k = 0 THEN n ELSE f[k - 1] \div Base]

LEMMA RestExists ==
    ASSUME NEW n, NEW m \in Nat
    PROVE  \E f : IsRest(f, n, m)
<1> DEFINE S == {k \in 0 .. m : \E f : IsRest(f, n, k)}
<1>1. 0 \in S
  <2>1. PICK f : f = [k \in 0 .. 0 |-> n]
    OBVIOUS
  <2>2. IsRest(f, n, 0)
    BY <2>1 DEF IsRest
  <2> QED
    BY <2>2
<1>2. ASSUME NEW k \in 1 .. m, k - 1 \in S PROVE k \in S
  <2>1. PICK f : IsRest(f, n, k - 1)
    BY <1>2
  <2>2. PICK g : g = [i \in 0 .. k |-> IF i = k THEN f[k - 1] \div Base ELSE f[i]]
    OBVIOUS
  <2>3. ASSUME NEW i \in 0 .. k PROVE g[i] = IF i = 0 THEN n ELSE g[i - 1] \div Base
    BY <2>1, <2>2, <2>3 DEF IsRest
  <2>4. g = [i \in 0 .. k |-> IF i = 0 THEN n ELSE g[i - 1] \div Base]
    BY <2>2, <2>3
  <2> QED
    BY <2>4 DEF IsRest
<1>3. m \in S
  <2> HIDE DEF S
  <2> QED
    BY <1>1, <1>2, Upward
<1> QED
  BY <1>3

LEMMA RestEquations ==
    ASSUME NEW f, NEW n, NEW m \in Nat, IsRest(f, n, m)
    PROVE  f[0] = n /\ \A k \in 1 .. m : f[k] = f[k - 1] \div Base
<1>1. 0 \in 0 .. m /\ \A k \in 1 .. m : k \in 0 .. m /\ k # 0
  OBVIOUS
<1>2. f = [k \in 0 .. m |-> IF k = 0 THEN n ELSE f[k - 1] \div Base]
  BY DEF IsRest
<1>3. \A k \in 0 .. m : f[k] = IF k = 0 THEN n ELSE f[k - 1] \div Base
  BY <1>2, Zenon
<1> QED
  BY <1>1, <1>3, Zenon

LEMMA RestIs == ASSUME NEW n PROVE IsRest(Rest(n), n, DigitCount)
<1> DEFINE f == CHOOSE f : f = [k \in 0 .. DigitCount |-> IF k = 0 THEN n ELSE f[k - 1] \div Base]
<1>1. \E g : g = [k \in 0 .. DigitCount |-> IF k = 0 THEN n ELSE g[k - 1] \div Base]
  <2>1. DigitCount \in Nat
    BY ConsoleAssumption
  <2>2. \E g : IsRest(g, n, DigitCount)
    BY <2>1, RestExists, Zenon
  <2> QED
    BY <2>2, Zenon DEF IsRest
<1>2. f = [k \in 0 .. DigitCount |-> IF k = 0 THEN n ELSE f[k - 1] \div Base]
  BY <1>1, Zenon
<1>3. Rest(n) = f
  BY DEF Rest
<1> HIDE DEF f
<1> QED
  BY <1>2, <1>3, Zenon DEF IsRest

\* Division with remainder, and that it is monotonic.
LEMMA Division ==
    ASSUME NEW a \in Nat, NEW b \in Nat \ {0}
    PROVE  /\ a \div b \in Nat /\ a % b \in 0 .. b - 1
           /\ a = (a \div b) * b + (a % b)
<1> DEFINE q == a \div b
           r == a % b
<1>1. q \in Nat /\ r \in 0 .. b - 1 /\ r = a - b * q
  OBVIOUS
<1> HIDE DEF q, r
<1>2. b * q \in Nat /\ b * q = q * b
  BY <1>1
<1>3. a = q * b + r
  BY <1>1, <1>2
<1> QED
  BY <1>1, <1>3, Zenon DEF q, r

LEMMA DivisionMonotonic ==
    ASSUME NEW a \in Nat, NEW c \in Nat, NEW b \in Nat \ {0}, a <= c
    PROVE  a \div b <= c \div b
<1>1. PICK p \in Nat, r \in 0 .. b - 1 : p = a \div b /\ a = p * b + r
  BY Division
<1>2. PICK q \in Nat, s \in 0 .. b - 1 : q = c \div b /\ c = q * b + s
  BY Division
<1>3. ASSUME q < p PROVE FALSE
  <2>1. PICK d \in Nat : p = q + 1 + d
    <3>1. p - q - 1 \in Nat /\ p = q + 1 + (p - q - 1)
      BY <1>3
    <3> QED
      BY <3>1
  <2>2. p * b = q * b + b + d * b
    BY <2>1
  <2>3. d * b \in Nat /\ q * b \in Nat
    OBVIOUS
  <2> QED
    BY <1>1, <1>2, <2>2, <2>3
<1> QED
  BY <1>1, <1>2, <1>3

\* What is left of a number after each division; nothing after the last.
LEMMA RestFacts ==
    ASSUME NEW n \in 0 .. Largest
    PROVE  /\ Rest(n)[0] = n /\ \A k \in 0 .. DigitCount : Rest(n)[k] \in Nat
           /\ \A k \in 1 .. DigitCount : Rest(n)[k] = Rest(n)[k - 1] \div Base
           /\ Rest(n)[DigitCount] = 0
<1>1. /\ DigitCount \in Nat /\ DigitCount >= 1 /\ Base \in Nat \ {0} /\ Largest \in Nat
      /\ Rest(Largest)[DigitCount] = 0
  BY ConsoleAssumption, NumbersAssumption
<1>2. PICK f : f = Rest(n) /\ IsRest(f, n, DigitCount)
  BY RestIs
<1>3. PICK g : g = Rest(Largest) /\ IsRest(g, Largest, DigitCount)
  BY RestIs
<1>4. /\ f[0] = n /\ \A k \in 1 .. DigitCount : f[k] = f[k - 1] \div Base
      /\ g[0] = Largest /\ \A k \in 1 .. DigitCount : g[k] = g[k - 1] \div Base
  <2>1. f[0] = n /\ \A k \in 1 .. DigitCount : f[k] = f[k - 1] \div Base
    BY <1>1, <1>2, RestEquations, Zenon
  <2>2. g[0] = Largest /\ \A k \in 1 .. DigitCount : g[k] = g[k - 1] \div Base
    BY <1>1, <1>3, RestEquations, Zenon
  <2> QED
    BY <2>1, <2>2, Zenon
<1> DEFINE S == {k \in 0 .. DigitCount : f[k] \in Nat /\ g[k] \in Nat /\ f[k] <= g[k]}
<1>5. 0 \in S
  BY <1>1, <1>4
<1>6. ASSUME NEW k \in 1 .. DigitCount, k - 1 \in S PROVE k \in S
  <2>1. PICK a \in Nat, c \in Nat : a = f[k - 1] /\ c = g[k - 1] /\ a <= c
    BY <1>6
  <2>2. a \div Base \in Nat /\ c \div Base \in Nat /\ a \div Base <= c \div Base
    BY <1>1, <2>1, Division, DivisionMonotonic
  <2>3. f[k] = a \div Base /\ g[k] = c \div Base
    BY <1>4, <2>1
  <2>4. f[k] \in Nat /\ g[k] \in Nat /\ f[k] <= g[k]
    BY <2>2, <2>3
  <2> QED
    BY <2>4
<1>7. \A k \in 0 .. DigitCount : k \in S
  <2> HIDE DEF S
  <2> QED
    BY <1>1, <1>5, <1>6, Upward
<1>8. f[DigitCount] \in Nat /\ f[DigitCount] <= 0
  <2>1. DigitCount \in S
    BY <1>1, <1>7
  <2> QED
    BY <1>1, <1>3, <2>1
<1>9. \A k \in 0 .. DigitCount : f[k] \in Nat
  BY <1>7
<1> QED
  BY <1>2, <1>4, <1>8, <1>9

\* The digits of n, and that each takes back a division.
LEMMA DigitsFacts ==
    ASSUME NEW n \in 0 .. Largest
    PROVE  \A k \in 1 .. DigitCount :
               /\ Digits(n)[k] \in 0 .. Base - 1
               /\ Rest(n)[k - 1] = Rest(n)[k] * Base + Digits(n)[k]
<1> SUFFICES ASSUME NEW k \in 1 .. DigitCount
             PROVE  /\ Digits(n)[k] \in 0 .. Base - 1
                    /\ Rest(n)[k - 1] = Rest(n)[k] * Base + Digits(n)[k]
  OBVIOUS
<1>1. Base \in Nat \ {0} /\ DigitCount \in Nat
  BY ConsoleAssumption
<1>2. PICK a \in Nat : a = Rest(n)[k - 1]
  BY <1>1, RestFacts
<1> DEFINE q == a \div Base
           r == a % Base
<1>3. Rest(n)[k] = q /\ Digits(n)[k] = r
  BY <1>2, RestFacts DEF Digits
<1>4. r \in 0 .. Base - 1 /\ a = q * Base + r
  BY <1>1, Division, Zenon
<1> HIDE DEF q, r
<1>5. Rest(n)[k - 1] = Rest(n)[k] * Base + Digits(n)[k]
  BY <1>2, <1>3, <1>4
<1>6. Digits(n)[k] \in 0 .. Base - 1
  BY <1>3, <1>4, Zenon
<1> QED
  BY <1>5, <1>6

\* The search for the first digit ends, and nothing is left behind it.
LEMMA TopFacts ==
    ASSUME NEW n \in 0 .. Largest
    PROVE  /\ Top(n) \in 0 .. DigitCount
           /\ Top(n) > 0 => Digits(n)[Top(n)] # 0
           /\ Rest(n)[Top(n)] = 0
<1>1. DigitCount \in Nat /\ DigitCount >= 1 /\ Base \in Nat
  BY ConsoleAssumption
<1>2. PICK d : d = Digits(n)
  OBVIOUS
<1>3. PICK q : q = Rest(n)
  OBVIOUS
<1>4. /\ \A k \in 0 .. DigitCount : q[k] \in Nat
      /\ q[DigitCount] = 0
      /\ \A k \in 1 .. DigitCount : d[k] \in Nat /\ q[k - 1] = q[k] * Base + d[k]
  BY <1>1, <1>2, <1>3, RestFacts, DigitsFacts
<1> DEFINE IsTop(k) == /\ k > 0 => d[k] # 0
                       /\ \A j \in k + 1 .. DigitCount : d[j] = 0
           below == {k \in 0 .. DigitCount : \A j \in DigitCount - k + 1 .. DigitCount : d[j] = 0}
           ends == {k \in 0 .. DigitCount : DigitCount - k = 0 \/ d[DigitCount - k] # 0}
<1>5. \E k \in 0 .. DigitCount : IsTop(k)
  <2>1. DigitCount \in ends /\ ends \in SUBSET Nat
    BY <1>1
  <2>2. PICK m \in ends : \A k \in ends : m <= k
    <3> HIDE DEF ends
    <3> QED
      BY <2>1, LeastOf
  <2>3. ASSUME NEW j \in DigitCount - m + 1 .. DigitCount PROVE d[j] = 0
    <3>1. DigitCount - j \in 0 .. DigitCount /\ DigitCount - j < m /\ DigitCount - (DigitCount - j) = j
      BY <1>1, <2>2, <2>3
    <3>2. DigitCount - j \notin ends
      BY <1>1, <2>2, <3>1
    <3> QED
      BY <3>1, <3>2
  <2>4. DigitCount - m \in 0 .. DigitCount /\ (DigitCount - m > 0 => d[DigitCount - m] # 0)
    BY <1>1, <2>2
  <2> QED
    BY <2>3, <2>4
<1>6. Top(n) \in 0 .. DigitCount /\ IsTop(Top(n))
  <2>1. Top(n) = CHOOSE k \in 0 .. DigitCount : IsTop(k)
    BY <1>2 DEF Top
  <2> HIDE DEF IsTop
  <2> QED
    BY <1>5, <2>1
<1>7. PICK t \in 0 .. DigitCount : t = Top(n) /\ IsTop(t)
  BY <1>6
<1> DEFINE S == {k \in 0 .. DigitCount - t : q[DigitCount - k] = 0}
<1>8. 0 \in S
  BY <1>1, <1>4, <1>7
<1>9. ASSUME NEW k \in 1 .. DigitCount - t, k - 1 \in S PROVE k \in S
  <2>1. PICK j \in t + 1 .. DigitCount : j = DigitCount - k + 1
    BY <1>1, <1>7
  <2>2. DigitCount - (k - 1) = j /\ DigitCount - k = j - 1 /\ j \in 1 .. DigitCount
    BY <1>1, <1>7, <2>1
  <2>3. q[j] = 0 /\ d[j] = 0
    BY <1>7, <1>9, <2>1, <2>2
  <2>4. q[j - 1] = 0 * Base + 0
    BY <1>4, <2>2, <2>3
  <2> QED
    BY <1>1, <2>2, <2>4
<1>10. DigitCount - t \in S
  <2>1. DigitCount - t \in Nat
    BY <1>1, <1>7
  <2> HIDE DEF S
  <2> QED
    BY <1>8, <1>9, <2>1, Upward
<1>11. q[t] = 0
  BY <1>1, <1>7, <1>10
<1> QED
  BY <1>2, <1>3, <1>7, <1>11

IsValue(f, s, m) == f = [k \in 0 .. m |-> IF k = 0 THEN 0 ELSE f[k - 1] * Base + (s[k] - Zero)]

LEMMA ValueExists ==
    ASSUME NEW s, NEW m \in Nat
    PROVE  \E f : IsValue(f, s, m)
<1> DEFINE S == {k \in 0 .. m : \E f : IsValue(f, s, k)}
<1>1. 0 \in S
  <2>1. PICK f : f = [k \in 0 .. 0 |-> 0]
    OBVIOUS
  <2>2. IsValue(f, s, 0)
    BY <2>1 DEF IsValue
  <2> QED
    BY <2>2
<1>2. ASSUME NEW k \in 1 .. m, k - 1 \in S PROVE k \in S
  <2>1. PICK f : IsValue(f, s, k - 1)
    BY <1>2
  <2>2. PICK g : g = [i \in 0 .. k |-> IF i = k THEN f[k - 1] * Base + (s[k] - Zero) ELSE f[i]]
    OBVIOUS
  <2>3. ASSUME NEW i \in 0 .. k
        PROVE  g[i] = IF i = 0 THEN 0 ELSE g[i - 1] * Base + (s[i] - Zero)
    <3>1. /\ k - 1 \in 0 .. k /\ k - 1 # k /\ k # 0
          /\ i # k /\ i # 0 => i \in 0 .. k - 1 /\ i - 1 \in 0 .. k /\ i - 1 # k
      OBVIOUS
    <3>2. CASE i = k
      BY <2>2, <3>1, <3>2, Zenon
    <3>3. CASE i # k
      <4>1. g[i] = f[i] /\ (i # 0 => g[i - 1] = f[i - 1])
        BY <2>2, <3>1, <3>3
      <4>2. f[i] = IF i = 0 THEN 0 ELSE f[i - 1] * Base + (s[i] - Zero)
        BY <2>1, <3>1, <3>3 DEF IsValue
      <4> QED
        BY <4>1, <4>2, Zenon
    <3> QED
      BY <3>2, <3>3
  <2>4. g = [i \in 0 .. k |-> IF i = 0 THEN 0 ELSE g[i - 1] * Base + (s[i] - Zero)]
    BY <2>2, <2>3, Zenon
  <2> QED
    BY <2>4 DEF IsValue
<1>3. m \in S
  <2> HIDE DEF S
  <2> QED
    BY <1>1, <1>2, Upward
<1> QED
  BY <1>3

\* ReadBack is the last value of such a function.
LEMMA ReadBackIs ==
    ASSUME NEW s, Len(s) \in Nat
    PROVE  \E f : IsValue(f, s, Len(s)) /\ ReadBack(s) = f[Len(s)]
<1> DEFINE f == CHOOSE f : f = [k \in 0 .. Len(s) |->
                                  IF k = 0 THEN 0 ELSE f[k - 1] * Base + (s[k] - Zero)]
<1>1. \E g : g = [k \in 0 .. Len(s) |-> IF k = 0 THEN 0 ELSE g[k - 1] * Base + (s[k] - Zero)]
  <2>1. \E g : IsValue(g, s, Len(s))
    BY ValueExists, Zenon
  <2> QED
    BY <2>1, Zenon DEF IsValue
<1>2. f = [k \in 0 .. Len(s) |-> IF k = 0 THEN 0 ELSE f[k - 1] * Base + (s[k] - Zero)]
  BY <1>1, Zenon
<1>3. ReadBack(s) = f[Len(s)]
  BY DEF ReadBack
<1> HIDE DEF f
<1> QED
  BY <1>2, <1>3, Zenon DEF IsValue

\* The digits, read from the first, undo the divisions one by one.
LEMMA NumeralFacts ==
    ASSUME NEW n \in 0 .. Largest
    PROVE  /\ Numeral(n) # <<>>
           /\ n > 0 => Numeral(n)[1] # Zero
           /\ ReadBack(Numeral(n)) = n
<1>0. PICK t \in 0 .. DigitCount : t = Top(n)
  BY TopFacts
<1>1. PICK q, d : q = Rest(n) /\ d = Digits(n) /\ t = Top(n)
  BY <1>0
<1>2. /\ DigitCount \in Nat /\ DigitCount >= 1 /\ Base \in Nat \ {0} /\ n \in Nat
  BY ConsoleAssumption, NumbersAssumption
<1>3. /\ q[0] = n /\ \A k \in 0 .. DigitCount : q[k] \in Nat
      /\ \A k \in 1 .. DigitCount : q[k] = q[k - 1] \div Base
      /\ \A k \in 1 .. DigitCount : d[k] \in Nat /\ q[k - 1] = q[k] * Base + d[k]
      /\ t > 0 => d[t] # 0
      /\ q[t] = 0
  <2>1. \A k \in 1 .. DigitCount : d[k] \in 0 .. Base - 1 /\ q[k - 1] = q[k] * Base + d[k]
    BY <1>1, DigitsFacts, Zenon
  <2>2. \A k \in 1 .. DigitCount : d[k] \in Nat
    BY <1>2, <2>1
  <2> QED
    BY <1>1, <2>1, <2>2, RestFacts, TopFacts
<1>4. PICK i \in 1 .. DigitCount : i = IF t = 0 THEN 1 ELSE t
  BY <1>2
<1>5. q[i] = 0
  <2>1. CASE t = 0
    <3>1. i = 1 /\ q[0] = 0 /\ q[1] = q[0] \div Base
      BY <1>2, <1>3, <1>4, <2>1
    <3>2. 0 \div Base = 0
      BY <1>2
    <3> QED
      BY <3>1, <3>2
  <2>2. CASE t # 0
    BY <1>3, <1>4, <2>2
  <2> QED
    BY <2>1, <2>2
<1>6. PICK s : s = Numeral(n) /\ s = [k \in 1 .. i |-> Zero + d[i + 1 - k]]
  BY <1>1, <1>4 DEF Numeral
<1>7. s \in Seq(Int) /\ Len(s) = i /\ \A k \in 1 .. i : s[k] - Zero = d[i + 1 - k]
  <2>1. \A k \in 1 .. i : i + 1 - k \in 1 .. DigitCount
    BY <1>2
  <2>2. \A k \in 1 .. i : d[i + 1 - k] \in Nat /\ s[k] = Zero + d[i + 1 - k]
    BY <1>3, <1>6, <2>1
  <2>3. s \in [1 .. i -> Int]
    BY <1>6, <2>2 DEF Zero
  <2>4. s \in Seq(Int)
    BY <2>3, SeqDef
  <2> QED
    BY <2>2, <2>3, <2>4, LenProperties DEF Zero
<1>8. s # <<>>
  BY <1>7
<1>9. ASSUME n > 0 PROVE s[1] # Zero
  <2>1. t # 0
    BY <1>2, <1>3, <1>9
  <2>2. i = t /\ d[i] # 0 /\ i + 1 - 1 = i /\ 1 \in 1 .. i /\ d[i] \in Nat
    BY <1>3, <1>4, <2>1
  <2> QED
    BY <1>6, <2>2 DEF Zero
<1>10. PICK v : IsValue(v, s, i) /\ ReadBack(s) = v[i]
  BY <1>7, ReadBackIs
<1> DEFINE S == {k \in 0 .. i : v[k] = q[i - k]}
<1>11. 0 \in S
  BY <1>5, <1>10 DEF IsValue
<1>12. ASSUME NEW k \in 1 .. i, k - 1 \in S PROVE k \in S
  <2>1. v[k] = v[k - 1] * Base + (s[k] - Zero)
    BY <1>10 DEF IsValue
  <2>2. PICK j \in 1 .. DigitCount : j = i + 1 - k
    BY <1>2
  <2>3. i - (k - 1) = j /\ i - k = j - 1
    BY <2>2
  <2>4. v[k - 1] = q[j] /\ s[k] - Zero = d[j]
    BY <1>7, <1>12, <2>2, <2>3
  <2>5. v[k] = q[j] * Base + d[j]
    BY <2>1, <2>4, Zenon
  <2>6. v[k] = q[j - 1]
    BY <1>3, <2>5, Zenon
  <2> QED
    BY <2>3, <2>6
<1>13. i \in S
  <2> HIDE DEF S
  <2> QED
    BY <1>11, <1>12, Upward
<1>14. ReadBack(s) = n
  BY <1>3, <1>10, <1>13
<1> QED
  BY <1>6, <1>8, <1>9, <1>14

\* What int2str and uint2str make of a number, which puti and putui print, has a
\* digit, no zero in front, and is the number when it is read, up to the largest.
THEOREM NumbersReadCorrect == ConsoleSpec => []NumbersRead
<1>1. NumbersRead
  BY NumeralFacts DEF NumbersRead
<1> QED
  BY <1>1, PTL

-----------------------------------------------------------------------------
(* The text: rows of cells, and what moving and blanking do to them. *)

IsText(f) == f = [k \in Cell |-> f[k]]

\* The place of a row and a column, and that it is no other's.
LEMMA CellAt ==
    ASSUME NEW r \in 0 .. Height + 1, NEW x \in 0 .. Width - 1
    PROVE  /\ r * Width + x \in Cell /\ (r * Width + x) \div Width = r
           /\ \A t \in Nat : (r + t) * Width + x = r * Width + x + t * Width
<1>1. Width \in Nat \ {0} /\ Height \in Nat /\ r \in Nat /\ x \in Nat
  BY Sizes
<1>2. \A a, b \in Nat : a <= b => a * Width <= b * Width
  BY <1>1
<1>3. (r + 1) * Width <= (Height + 2) * Width
  BY <1>1, <1>2
<1>4. (r + 1) * Width = r * Width + Width /\ r * Width \in Nat /\ (Height + 2) * Width \in Nat
  BY <1>1
<1>5. r * Width + x \in Cell
  BY <1>1, <1>3, <1>4 DEF Cell
<1>6. (r * Width + x) \div Width = r
  <2>1. PICK a \in Nat : a = r * Width + x
    BY <1>1, <1>4
  <2>2. PICK q \in Nat, m \in 0 .. Width - 1 : q = a \div Width /\ a = q * Width + m
    BY <1>1, <2>1, Division
  <2>3. q * Width \in Nat /\ (q + 1) * Width = q * Width + Width
    BY <1>1
  <2>4. ~(q < r)
    <3>1. q + 1 <= r => (q + 1) * Width <= r * Width
      BY <1>1, <1>2
    <3> QED
      BY <1>1, <1>4, <2>1, <2>2, <2>3, <3>1
  <2>5. ~(r < q)
    <3>1. r + 1 <= q => (r + 1) * Width <= q * Width
      BY <1>1, <1>2
    <3> QED
      BY <1>1, <1>4, <2>1, <2>2, <2>3, <3>1
  <2> QED
    BY <1>1, <2>1, <2>2, <2>4, <2>5
<1>7. \A t \in Nat : (r + t) * Width + x = r * Width + x + t * Width
  BY <1>1
<1> QED
  BY <1>5, <1>6, <1>7

\* A character at the cursor.
Kept(c, ch) == Stored(c, CursorCell(c), ch)

\* A store changes one place of one row.
LEMMA StoredText ==
    ASSUME NEW c, IsConsole(c), IsText(c.text), c.x \in 0 .. Width - 1, c.y \in 0 .. Height - 1,
           NEW ch, NEW r \in 0 .. Height + 1, NEW x \in 0 .. Width - 1
    PROVE  /\ IsText(Kept(c, ch).text)
           /\ r = c.y /\ x = c.x => Kept(c, ch).text[r * Width + x] = ch
           /\ ~(r = c.y /\ x = c.x) => Kept(c, ch).text[r * Width + x] = c.text[r * Width + x]
           /\ IsConsole(Kept(c, ch)) /\ Kept(c, ch).x = c.x /\ Kept(c, ch).y = c.y
<1>1. PICK k \in Cell : k = CursorCell(c) /\ k = c.y * Width + c.x /\ k \div Width = c.y
  <2>1. c.y \in 0 .. Height + 1
    BY Sizes
  <2> QED
    BY <2>1, CellAt DEF CursorCell
<1>2. PICK j \in Cell : j = r * Width + x /\ j \div Width = r
  BY CellAt
<1>3. PICK outside : /\ outside = c.outside \cup ({k} \ Shown)
                     /\ Kept(c, ch) = Members([c.text EXCEPT ![k] = ch], c.x, c.y, outside)
  <2>1. PICK outside : outside = c.outside \cup ({k} \ Shown)
    OBVIOUS
  <2>2. k \in Int
    BY <1>1, Sizes DEF Cell
  <2>3. Kept(c, ch) = Members([c.text EXCEPT ![k] = ch], c.x, c.y, outside)
    BY <1>1, <2>1, <2>2, StoredIs DEF Kept
  <2> QED
    BY <2>1, <2>3
<1>4. /\ Kept(c, ch).text = [c.text EXCEPT ![k] = ch]
      /\ IsConsole(Kept(c, ch)) /\ Kept(c, ch).x = c.x /\ Kept(c, ch).y = c.y
  <2>1. outside \in SUBSET Int /\ c.x \in Int /\ c.y \in Nat
    BY <1>1, <1>3, Sizes DEF Cell, IsConsole
  <2> QED
    BY <1>3, <2>1, Members4
<1>5. IsText(Kept(c, ch).text)
  BY <1>4 DEF IsText
<1>6. Kept(c, ch).text[j] = IF j = k THEN ch ELSE c.text[j]
  BY <1>1, <1>4 DEF IsText
<1>7. j = k <=> (r = c.y /\ x = c.x)
  <2>1. j = k => r = c.y
    BY <1>1, <1>2
  <2>2. r = c.y /\ j = k => x = c.x
    <3>1. PICK n \in Int : n = c.y * Width
      BY Sizes
    <3>2. k = n + c.x /\ (r = c.y => j = n + x)
      BY <1>1, <1>2, <3>1, Zenon
    <3> QED
      BY <3>1, <3>2, Sizes
  <2> QED
    BY <1>1, <1>2, <2>1, <2>2
<1> QED
  BY <1>2, <1>4, <1>5, <1>6, <1>7

\* Rows above the last ones are those that were t below them.
LEMMA MovedText ==
    ASSUME NEW c, IsText(c.text), IsConsole(c), NEW t \in Nat, t <= Height,
           NEW r \in 0 .. Height + 1, NEW x \in 0 .. Width - 1
    PROVE  /\ IsText(Moved(c, t).text)
           /\ Moved(c, t).text[r * Width + x] =
                  IF r < Height - t THEN c.text[(r + t) * Width + x] ELSE c.text[r * Width + x]
<1>1. PICK j \in Cell : j = r * Width + x /\ j \div Width = r /\ (r + t) * Width + x = j + t * Width
  BY CellAt
<1>2. Moved(c, t).text = [k \in Cell |-> IF k \div Width < Height - t THEN c.text[k + t * Width]
                                                                  ELSE c.text[k]]
  BY MovedIs DEF Members
<1>3. IsText(Moved(c, t).text)
  BY <1>2 DEF IsText
<1>4. Moved(c, t).text[j] = IF j \div Width < Height - t THEN c.text[j + t * Width] ELSE c.text[j]
  BY <1>2
<1> QED
  BY <1>1, <1>3, <1>4

\* One row is blanked.
LEMMA ClearedText ==
    ASSUME NEW c, IsText(c.text), IsConsole(c), NEW t \in 1 .. Height,
           NEW r \in 0 .. Height + 1, NEW x \in 0 .. Width - 1
    PROVE  /\ IsText(Cleared(c, t).text)
           /\ Cleared(c, t).text[r * Width + x] =
                  IF r = Height - t THEN Blank ELSE c.text[r * Width + x]
<1>1. PICK j \in Cell : j = r * Width + x /\ j \div Width = r
  BY CellAt
<1>2. Cleared(c, t).text = [k \in Cell |-> IF k \div Width = Height - t THEN Blank
                                                             ELSE c.text[k]]
  BY ClearedIs DEF Members
<1>3. IsText(Cleared(c, t).text)
  BY <1>2 DEF IsText
<1>4. Cleared(c, t).text[j] = IF j \div Width = Height - t THEN Blank ELSE c.text[j]
  BY <1>2
<1> QED
  BY <1>1, <1>3, <1>4

\* A screen that the cursor has just left is moved up by one line.
LEMMA ScrolledText ==
    ASSUME NEW c, IsText(c.text), IsConsole(c), c.y = Height,
           NEW r \in 0 .. Height - 1, NEW x \in 0 .. Width - 1
    PROVE  /\ IsText(Scrolled(c).text)
           /\ Scrolled(c).x = c.x /\ Scrolled(c).y = Height - 1
           /\ Scrolled(c).text[r * Width + x] =
                  IF r = Height - 1 THEN Blank ELSE c.text[(r + 1) * Width + x]
<1>1. /\ Height \in Nat /\ r \in 0 .. Height + 1 /\ 1 \in 1 .. Height /\ 1 <= Height
      /\ c.x \in Int /\ c.y \in Nat /\ c.outside \in SUBSET Int
  BY Sizes DEF IsConsole
<1>2. Scrolled(c) = AtBottom(Cleared(Moved(c, 1), 1))
  <2>1. OffScreen(c) /\ Excess(c) = 1
    BY <1>1 DEF OffScreen, Excess
  <2> QED
    BY <2>1 DEF Scrolled
<1>3. PICK d : d = Moved(c, 1)
  OBVIOUS
<1>4. IsConsole(d) /\ d.x = c.x /\ d.y = c.y /\ d.outside = c.outside
  <2>1. PICK text : d = Members(text, c.x, c.y, c.outside)
    BY <1>1, <1>3, MovedIs
  <2> QED
    BY <1>1, <2>1, Members4
<1>5. /\ IsText(d.text)
      /\ d.text[r * Width + x] =
             IF r < Height - 1 THEN c.text[(r + 1) * Width + x] ELSE c.text[r * Width + x]
  BY <1>1, <1>3, MovedText
<1>6. PICK e : e = Cleared(d, 1)
  OBVIOUS
<1>7. IsConsole(e) /\ e.x = c.x
  <2>1. PICK text : e = Members(text, d.x, d.y, d.outside)
    BY <1>1, <1>4, <1>6, ClearedIs
  <2> QED
    BY <1>1, <1>4, <2>1, Members4
<1>8. IsText(e.text) /\ e.text[r * Width + x] = IF r = Height - 1 THEN Blank ELSE d.text[r * Width + x]
  BY <1>1, <1>4, <1>5, <1>6, ClearedText
<1>9. Scrolled(c) = AtBottom(e)
  BY <1>2, <1>3, <1>6
<1>10. Scrolled(c).text = e.text /\ Scrolled(c).x = e.x /\ Scrolled(c).y = Height - 1
  BY <1>7, <1>9, Moves DEF Members
<1> QED
  BY <1>1, <1>5, <1>7, <1>8, <1>10

-----------------------------------------------------------------------------
(* The screen as the terminal has it. *)

Row(c, q) == [x \in 0 .. Width - 1 |-> c.text[q * Width + x]]

Screen(c) == [rows |-> [r \in 1 .. c.y + 1 |-> Row(c, r - 1)], column |-> c.x]

\* As long as no message has come in the middle of a backspace.
Whole == TRUE

LEMMA WholeIs == Whole \in BOOLEAN /\ Whole
BY DEF Whole

\* A console between characters; the lines behind the cursor's are blank.
Sound(c) ==
    /\ OnScreen(c, Whole) /\ IsText(c.text)
    /\ \A q \in c.y + 1 .. Height - 1 : Row(c, q) = Abstract!BlankRow

LEMMA SoundFacts ==
    ASSUME NEW c, Sound(c)
    PROVE  /\ OnScreen(c, Whole) /\ NearScreen(c, Whole) /\ StoresNear(c, Whole)
           /\ IsConsole(c) /\ IsText(c.text) /\ c.outside \in SUBSET Int
           /\ c.x \in 0 .. Width - 1 /\ c.y \in 0 .. Height - 1
           /\ Width \in Nat /\ Width >= 1 /\ Height \in Nat /\ Height >= 2
<1>1. OnScreen(c, Whole) /\ IsText(c.text)
  BY DEF Sound
<1>2. StoresNear(c, Whole) /\ c.x < Width /\ c.y < Height
  BY <1>1 DEF OnScreen
<1>3. IsConsole(c) /\ c.x >= 0
  BY <1>2, WholeIs DEF StoresNear
<1>4. c.x \in Int /\ c.y \in Nat /\ c.outside \in SUBSET Int
  BY <1>3 DEF IsConsole
<1>5. NearScreen(c, Whole)
  BY <1>1, OnIsNear, WholeIs
<1> QED
  BY <1>1, <1>2, <1>3, <1>4, <1>5, Sizes

LEMMA MovedSound ==
    ASSUME NEW c, StoresNear(c, Whole), NEW d, IsConsole(d), d.outside = c.outside, d.x >= 0
    PROVE  StoresNear(d, Whole)
<1>1. Whole \in BOOLEAN
  BY WholeIs
<1>2. PICK whole \in BOOLEAN : whole = Whole
  BY <1>1
<1>3. StoresNear(c, whole)
  BY <1>2
<1>4. StoresNear(d, whole)
  BY <1>3, Movement
<1> QED
  BY <1>2, <1>4

\* Append and Tail of a sequence that is written as a function.
LEMMA AppendRow ==
    ASSUME NEW n \in Nat, NEW f, f = [r \in 1 .. n |-> f[r]], NEW e
    PROVE  /\ Len(f) = n
           /\ Append(f, e) = [r \in 1 .. n + 1 |-> IF r = n + 1 THEN e ELSE f[r]]
<1> DEFINE S == {f[r] : r \in 1 .. n} \cup {e}
<1>1. f \in [1 .. n -> S]
  OBVIOUS
<1> HIDE DEF S
<1>2. f \in Seq(S)
  BY <1>1, SeqDef
<1>3. Len(f) = n
  BY <1>1, <1>2, LenProperties
<1>4. e \in S
  BY DEF S
<1>5. PICK g : g = Append(f, e)
  OBVIOUS
<1>6. /\ g \in Seq(S) /\ Len(g) = n + 1
      /\ \A i \in 1 .. n : g[i] = f[i]
      /\ g[n + 1] = e
  BY <1>2, <1>3, <1>4, <1>5, AppendProperties
<1>7. g = [r \in 1 .. n + 1 |-> g[r]]
  BY <1>6, LenProperties
<1>8. g = [r \in 1 .. n + 1 |-> IF r = n + 1 THEN e ELSE f[r]]
  BY <1>6, <1>7
<1> QED
  BY <1>3, <1>5, <1>8

LEMMA TailRows ==
    ASSUME NEW n \in Nat, n >= 1, NEW f, f = [r \in 1 .. n |-> f[r]]
    PROVE  Tail(f) = [r \in 1 .. n - 1 |-> f[r + 1]]
<1> DEFINE S == {f[r] : r \in 1 .. n}
<1>1. f \in [1 .. n -> S]
  OBVIOUS
<1> HIDE DEF S
<1>2. f \in Seq(S)
  BY <1>1, SeqDef
<1>3. Len(f) = n /\ f # <<>>
  BY <1>1, <1>2, LenProperties
<1>4. PICK g : g = Tail(f)
  OBVIOUS
<1>5. g \in Seq(S) /\ Len(g) = n - 1 /\ \A i \in 1 .. n - 1 : g[i] = f[i + 1]
  BY <1>2, <1>3, <1>4, HeadTailProperties
<1>6. g = [r \in 1 .. n - 1 |-> g[r]]
  BY <1>5, LenProperties
<1> QED
  BY <1>4, <1>5, <1>6

\* A new line, which scrolls the screen or not.
LEMMA NewLineShown ==
    ASSUME NEW c, Sound(c),
           NEW e, e = Members(c.text, 0, c.y + 1, c.outside)
    PROVE  Sound(Scrolled(e)) /\ Screen(Scrolled(e)) = Abstract!NewLine(Screen(c))
<1>1. /\ IsConsole(c) /\ IsText(c.text) /\ StoresNear(c, Whole) /\ c.outside \in SUBSET Int
      /\ c.y \in 0 .. Height - 1 /\ Height \in Nat /\ Width \in Nat /\ Width >= 1
  BY SoundFacts
<1>2. /\ IsConsole(e) /\ IsText(e.text) /\ StoresNear(e, Whole)
      /\ e.x = 0 /\ e.y = c.y + 1 /\ e.text = c.text
  <2>1. /\ IsConsole(e) /\ e.x = 0 /\ e.y = c.y + 1 /\ e.text = c.text
        /\ e.outside = c.outside
    BY <1>1, Members4
  <2>2. StoresNear(e, Whole)
    BY <1>1, <2>1, MovedSound
  <2> QED
    BY <1>1, <2>1, <2>2
<1>3. PICK d : d = Scrolled(e)
  OBVIOUS
<1>4. StoresNear(d, Whole) /\ d.x = 0 /\ d.y < Height
  <2>1. e.y <= Height + 1
    BY <1>1, <1>2
  <2> QED
    BY <1>2, <1>3, <2>1, WholeIs, ScrolledFacts
<1>5. OnScreen(d, Whole)
  BY <1>1, <1>4 DEF OnScreen
<1>6. PICK f : f = Screen(c).rows /\ f = [r \in 1 .. c.y + 1 |-> Row(c, r - 1)]
  BY DEF Screen
<1>7. PICK n \in 1 .. Height : n = c.y + 1
  BY <1>1
<1>8. f = [r \in 1 .. n |-> f[r]] /\ n \in Nat
  BY <1>6, <1>7
<1>9. Len(f) = n
  BY <1>8, AppendRow
<1>10. Screen(d) = [rows |-> [r \in 1 .. d.y + 1 |-> Row(d, r - 1)], column |-> 0]
  BY <1>4 DEF Screen
<1>11. Abstract!NewLine(Screen(c)) =
          [rows |-> Append(IF n < Height THEN f ELSE Tail(f), Abstract!BlankRow), column |-> 0]
  BY <1>6, <1>9 DEF Abstract!NewLine
<1>12. CASE n < Height
  <2>1. d = e
    <3>1. e.y = n /\ ~(n >= Height)
      BY <1>1, <1>2, <1>7, <1>12
    <3> QED
      BY <1>3, <3>1 DEF Scrolled, OffScreen
  <2>2. \A q : Row(d, q) = Row(c, q)
    BY <1>2, <2>1 DEF Row
  <2>3. d.y = n /\ d.text = c.text
    BY <1>2, <1>7, <2>1
  <2>4. Sound(d)
    BY <1>1, <1>5, <1>7, <2>2, <2>3 DEF Sound
  <2>5. Row(c, n) = Abstract!BlankRow
    BY <1>1, <1>7, <1>12 DEF Sound
  <2>6. Append(f, Abstract!BlankRow) =
            [r \in 1 .. n + 1 |-> IF r = n + 1 THEN Abstract!BlankRow ELSE f[r]]
    BY <1>8, AppendRow
  <2>7. \A r \in 1 .. n + 1 : Row(d, r - 1) = IF r = n + 1 THEN Abstract!BlankRow ELSE f[r]
    BY <1>6, <1>7, <2>2, <2>5
  <2> QED
    BY <1>3, <1>10, <1>11, <1>12, <2>3, <2>4, <2>6, <2>7
<1>13. CASE n = Height
  <2>1. e.y = Height
    BY <1>2, <1>7, <1>13
  <2>2. ASSUME NEW r \in 0 .. Height - 1, NEW x \in 0 .. Width - 1
        PROVE  /\ IsText(d.text) /\ d.y = Height - 1
               /\ d.text[r * Width + x] = IF r = Height - 1 THEN Blank
                                                          ELSE c.text[(r + 1) * Width + x]
    BY <1>2, <1>3, <2>1, <2>2, ScrolledText
  <2>3. IsText(d.text) /\ d.y = Height - 1
    <3>1. 0 \in 0 .. Height - 1 /\ 0 \in 0 .. Width - 1
      BY <1>1
    <3> QED
      BY <2>2, <3>1
  <2>4. ASSUME NEW r \in 0 .. Height - 1
        PROVE  Row(d, r) = IF r = Height - 1 THEN Abstract!BlankRow ELSE Row(c, r + 1)
    BY <2>2 DEF Row, Abstract!BlankRow
  <2>5. Sound(d)
    BY <1>1, <1>5, <2>3 DEF Sound
  <2>6. PICK g : g = Tail(f) /\ g = [r \in 1 .. n - 1 |-> f[r + 1]]
    <3>1. n >= 1 /\ n \in Nat
      BY <1>1, <1>7
    <3>2. Tail(f) = [r \in 1 .. n - 1 |-> f[r + 1]]
      BY <1>8, <3>1, TailRows
    <3> QED
      BY <3>2
  <2>7. n - 1 \in Nat /\ g = [r \in 1 .. n - 1 |-> g[r]]
    <3>1. n - 1 \in Nat
      BY <1>1, <1>7
    <3>2. \A r \in 1 .. n - 1 : g[r] = f[r + 1]
      BY <2>6, Zenon
    <3> QED
      BY <2>6, <3>1, <3>2, Zenon
  <2>8. Append(g, Abstract!BlankRow) =
            [r \in 1 .. n - 1 + 1 |-> IF r = n - 1 + 1 THEN Abstract!BlankRow ELSE g[r]]
    BY <2>7, AppendRow
  <2>9. \A r \in 1 .. n : Row(d, r - 1) = IF r = n THEN Abstract!BlankRow ELSE g[r]
    <3> SUFFICES ASSUME NEW r \in 1 .. n
                 PROVE  Row(d, r - 1) = IF r = n THEN Abstract!BlankRow ELSE g[r]
      OBVIOUS
    <3>1. r - 1 \in 0 .. Height - 1 /\ (r - 1 = Height - 1 <=> r = n) /\ r - 1 + 1 = r
      BY <1>1, <1>13
    <3>2. Row(d, r - 1) = IF r = n THEN Abstract!BlankRow ELSE Row(c, r)
      BY <2>4, <3>1
    <3>3. r # n => g[r] = Row(c, r)
      BY <1>6, <1>7, <2>6
    <3> QED
      BY <3>2, <3>3
  <2>10. d.y + 1 = n /\ n - 1 + 1 = n /\ ~(n < Height)
    BY <1>13, <2>3
  <2>11. [r \in 1 .. d.y + 1 |-> Row(d, r - 1)] = Append(g, Abstract!BlankRow)
    BY <2>8, <2>9, <2>10
  <2> QED
    BY <1>3, <1>10, <1>11, <2>5, <2>6, <2>10, <2>11
<1> QED
  BY <1>1, <1>7, <1>12, <1>13

\* The cursor moves along its line, or behind it and so to the next.
LEMMA MoveShown ==
    ASSUME NEW c, Sound(c), NEW x \in Nat,
           NEW e, e = Members(c.text, x, c.y, c.outside)
    PROVE  /\ Sound(Scrolled(Wrapped(e)))
           /\ Screen(Scrolled(Wrapped(e))) = Abstract!MoveTo(Screen(c), x)
<1>1. /\ IsConsole(c) /\ IsText(c.text) /\ StoresNear(c, Whole)
      /\ c.y \in 0 .. Height - 1 /\ Height \in Nat /\ Width \in Nat
      /\ IsConsole(e) /\ e.text = c.text /\ e.x = x /\ e.y = c.y /\ e.outside = c.outside
      /\ StoresNear(e, Whole)
  <2>1. /\ IsConsole(c) /\ IsText(c.text) /\ StoresNear(c, Whole) /\ c.outside \in SUBSET Int
        /\ c.y \in 0 .. Height - 1 /\ c.y \in Nat /\ Height \in Nat /\ Width \in Nat
    BY SoundFacts
  <2>2. /\ IsConsole(e) /\ e.text = c.text /\ e.x = x /\ e.y = c.y /\ e.outside = c.outside
    BY <2>1, Members4
  <2>3. StoresNear(e, Whole)
    BY <2>1, <2>2, MovedSound
  <2> QED
    BY <2>1, <2>2, <2>3
<1>2. CASE x >= Width
  <2>1. Wrapped(e) = Members(c.text, 0, c.y + 1, c.outside)
    BY <1>1, <1>2, WrappedFacts, WholeIs DEF AtEdge
  <2>2. /\ Sound(Scrolled(Wrapped(e)))
        /\ Screen(Scrolled(Wrapped(e))) = Abstract!NewLine(Screen(c))
    BY <2>1, NewLineShown
  <2>3. Abstract!MoveTo(Screen(c), x) = Abstract!NewLine(Screen(c))
    BY <1>1, <1>2 DEF Abstract!MoveTo
  <2> QED
    BY <2>2, <2>3
<1>3. CASE ~(x >= Width)
  <2>1. Wrapped(e) = e /\ Scrolled(e) = e
    BY <1>1, <1>3 DEF AtEdge, Wrapped, Scrolled, OffScreen
  <2>2. e.text = c.text /\ e.x = x /\ e.y = c.y
    BY <1>1
  <2>3. \A q : Row(e, q) = Row(c, q)
    BY <2>2 DEF Row
  <2>4. Sound(e)
    BY <1>1, <1>3, <2>2, <2>3 DEF Sound, OnScreen
  <2>5. Screen(e) = [Screen(c) EXCEPT !.column = x]
    <3>1. PICK f : f = [r \in 1 .. c.y + 1 |-> Row(c, r - 1)]
      OBVIOUS
    <3>2. Screen(e) = [rows |-> f, column |-> x]
      BY <2>2, <2>3, <3>1 DEF Screen
    <3>3. Screen(c) = [rows |-> f, column |-> c.x]
      BY <3>1 DEF Screen
    <3> QED
      BY <3>2, <3>3
  <2>6. Abstract!MoveTo(Screen(c), x) = [Screen(c) EXCEPT !.column = x]
    BY <1>1, <1>3 DEF Abstract!MoveTo
  <2> QED
    BY <2>1, <2>4, <2>5, <2>6
<1> QED
  BY <1>1, <1>2, <1>3

\* A stored character changes one place of the cursor's row.
LEMMA StoredRow ==
    ASSUME NEW c, Sound(c), NEW ch
    PROVE  /\ IsText(Kept(c, ch).text)
           /\ \A r \in 0 .. Height - 1 :
                  Row(Kept(c, ch), r) = IF r = c.y THEN [Row(c, r) EXCEPT ![c.x] = ch]
                                                   ELSE Row(c, r)
<1>1. /\ IsConsole(c) /\ IsText(c.text) /\ c.x \in 0 .. Width - 1 /\ c.y \in 0 .. Height - 1
      /\ Height \in Nat /\ Width \in Nat /\ Width >= 1 /\ Height >= 1
  BY SoundFacts
<1>2. PICK d : d = Kept(c, ch)
  OBVIOUS
<1>3. ASSUME NEW r \in 0 .. Height - 1, NEW x \in 0 .. Width - 1
      PROVE  /\ IsText(d.text)
             /\ d.text[r * Width + x] =
                    IF r = c.y /\ x = c.x THEN ch ELSE c.text[r * Width + x]
  <2>1. r \in 0 .. Height + 1
    BY <1>1
  <2>2. PICK q \in 0 .. Height + 1 : q = r
    BY <2>1
  <2>3. /\ IsText(Kept(c, ch).text)
        /\ q = c.y /\ x = c.x => Kept(c, ch).text[q * Width + x] = ch
        /\ ~(q = c.y /\ x = c.x) => Kept(c, ch).text[q * Width + x] = c.text[q * Width + x]
    BY <1>1, <1>3, StoredText
  <2> QED
    BY <1>2, <2>2, <2>3
<1>4. IsText(d.text)
  <2>1. 0 \in 0 .. Height - 1 /\ 0 \in 0 .. Width - 1
    BY <1>1
  <2> QED
    BY <1>3, <2>1
<1>5. ASSUME NEW r \in 0 .. Height - 1
      PROVE  Row(d, r) = IF r = c.y THEN [Row(c, r) EXCEPT ![c.x] = ch] ELSE Row(c, r)
  BY <1>1, <1>3 DEF Row
<1> QED
  BY <1>2, <1>4, <1>5

\* A stored character is in the terminal's row and column.
LEMMA StoreShown ==
    ASSUME NEW c, Sound(c), NEW ch, NEW d, d = Kept(c, ch)
    PROVE  /\ Sound(d) /\ d.x = c.x /\ d.y = c.y
           /\ Screen(d) = [Screen(c) EXCEPT !.rows[Len(Screen(c).rows)][Screen(c).column] = ch]
<1>1. /\ IsConsole(c) /\ IsText(c.text) /\ c.x \in 0 .. Width - 1 /\ c.y \in 0 .. Height - 1
      /\ Height \in Nat /\ Width \in Nat /\ Width >= 1 /\ Height >= 1
  BY SoundFacts
<1>2. StoresNear(d, Whole) /\ d.x = c.x /\ d.y = c.y
  <2>1. OnScreen(c, Whole) /\ StoresNear(c, Whole)
    BY DEF Sound, OnScreen
  <2>2. CursorCell(c) \in Int /\ Near(CursorCell(c), Whole)
    BY <2>1, OnIsNear, StoredCell, WholeIs
  <2> QED
    BY <2>1, <2>2, StoredNear, WholeIs DEF Kept
<1>3. IsText(d.text)
  BY StoredRow
<1>4. ASSUME NEW r \in 0 .. Height - 1
      PROVE  Row(d, r) = IF r = c.y THEN [Row(c, r) EXCEPT ![c.x] = ch] ELSE Row(c, r)
  BY StoredRow
<1>5. Sound(d)
  BY <1>1, <1>2, <1>3, <1>4 DEF Sound, OnScreen
<1>6. PICK n \in 1 .. Height : n = c.y + 1
  BY <1>1
<1>7. PICK f : f = Screen(c).rows /\ f = [r \in 1 .. n |-> Row(c, r - 1)]
  BY <1>6 DEF Screen
<1>8. Len(f) = n
  <2>1. n \in Nat /\ f = [r \in 1 .. n |-> f[r]]
    BY <1>1, <1>6, <1>7
  <2> QED
    BY <2>1, AppendRow
<1>9. Screen(d) = [rows |-> [r \in 1 .. n |-> Row(d, r - 1)], column |-> c.x]
  BY <1>2, <1>6 DEF Screen
<1>10. Screen(c) = [rows |-> f, column |-> c.x]
  BY <1>7 DEF Screen
<1>11. \A r \in 1 .. n : Row(d, r - 1) = IF r = n THEN [f[n] EXCEPT ![c.x] = ch] ELSE f[r]
  <2> SUFFICES ASSUME NEW r \in 1 .. n
               PROVE  Row(d, r - 1) = IF r = n THEN [f[n] EXCEPT ![c.x] = ch] ELSE f[r]
    OBVIOUS
  <2>1. r - 1 \in 0 .. Height - 1 /\ (r - 1 = c.y <=> r = n)
    BY <1>1, <1>6
  <2>2. f[r] = Row(c, r - 1)
    BY <1>7
  <2> QED
    BY <1>4, <2>1, <2>2
<1>12. [r \in 1 .. n |-> Row(d, r - 1)] = [f EXCEPT ![n] = [f[n] EXCEPT ![c.x] = ch]]
  BY <1>1, <1>6, <1>7, <1>11
<1>13. [Screen(c) EXCEPT !.rows[Len(Screen(c).rows)][Screen(c).column] = ch] =
           [rows |-> [f EXCEPT ![n] = [f[n] EXCEPT ![c.x] = ch]], column |-> c.x]
  <2>1. PICK t : t = Screen(c)
    OBVIOUS
  <2>2. t.rows = f /\ t.column = c.x /\ Len(t.rows) = n
    BY <1>8, <1>10, <2>1
  <2>3. [t EXCEPT !.rows[Len(t.rows)][t.column] = ch] = [t EXCEPT !.rows[n][c.x] = ch]
    BY <2>2
  <2>4. [t EXCEPT !.rows[n][c.x] = ch] =
            [rows |-> [f EXCEPT ![n] = [f[n] EXCEPT ![c.x] = ch]], column |-> c.x]
    BY <1>10, <2>1
  <2> QED
    BY <2>1, <2>3, <2>4
<1> QED
  BY <1>2, <1>5, <1>9, <1>12, <1>13

\* Where a tab leads to is the only place it can lead to.
LEMMA TabStop ==
    ASSUME NEW x \in Nat
    PROVE  ((x + Tab) \div Tab) * Tab = CHOOSE y \in x + 1 .. x + Tab : y % Tab = 0
<1>1. Tab \in Nat \ {0} /\ x + Tab \in Nat
  BY Sizes
<1>2. PICK q \in Nat, m \in 0 .. Tab - 1 : q = (x + Tab) \div Tab /\ x + Tab = q * Tab + m
  BY <1>1, Division
<1>3. PICK z \in Nat : z = q * Tab
  BY <1>1
<1>4. z \in x + 1 .. x + Tab
  BY <1>1, <1>2, <1>3
<1>5. \A p, r \in Nat : p < r => p * Tab + Tab <= r * Tab
  <2> SUFFICES ASSUME NEW p \in Nat, NEW r \in Nat, p < r PROVE p * Tab + Tab <= r * Tab
    OBVIOUS
  <2>1. PICK d \in Nat : r = p + 1 + d
    <3>1. r - p - 1 \in Nat /\ r = p + 1 + (r - p - 1)
      OBVIOUS
    <3> QED
      BY <3>1
  <2>2. r * Tab = p * Tab + Tab + d * Tab /\ d * Tab \in Nat /\ p * Tab \in Nat
    BY <1>1, <2>1
  <2> QED
    BY <1>1, <2>2
<1>6. z % Tab = 0
  <2>1. PICK p \in Nat, r \in 0 .. Tab - 1 : r = z % Tab /\ z = p * Tab + r
    BY <1>1, Division
  <2>2. p * Tab \in Nat
    BY <1>1
  <2>3. ~(p < q) /\ ~(q < p)
    BY <1>1, <1>3, <1>5, <2>1, <2>2
  <2>4. p = q
    BY <2>3
  <2> QED
    BY <1>3, <2>1, <2>2, <2>4
<1>7. ASSUME NEW y \in x + 1 .. x + Tab, y % Tab = 0 PROVE y = z
  <2>1. y \in Nat
    BY <1>1
  <2>2. PICK p \in Nat, r \in 0 .. Tab - 1 : r = y % Tab /\ y = p * Tab + r
    BY <1>1, <2>1, Division
  <2>3. y = p * Tab /\ p * Tab \in Nat
    BY <1>1, <1>7, <2>2
  <2>4. ~(p < q) /\ ~(q < p)
    BY <1>1, <1>3, <1>4, <1>5, <1>7, <2>3
  <2>5. p = q
    BY <2>4
  <2> QED
    BY <1>3, <2>3, <2>5
<1>8. z = CHOOSE y \in x + 1 .. x + Tab : y % Tab = 0
  BY <1>4, <1>6, <1>7
<1> QED
  BY <1>2, <1>3, <1>8, Zenon

\* One character: putch shows what the terminal shows.
LEMMA PutShown ==
    ASSUME NEW c, Sound(c), NEW ch \in Letters \cup Controls
    PROVE  Sound(Put(c, ch)) /\ Screen(Put(c, ch)) = Abstract!Shown(Screen(c), ch)
<1>1. /\ IsConsole(c) /\ StoresNear(c, Whole) /\ c.x \in Nat /\ c.x < Width /\ c.y \in Nat
      /\ c.outside \in SUBSET Int
  BY SoundFacts
<1>2. PICK t : t = Screen(c) /\ t.column = c.x
  <2>1. PICK f : Screen(c) = [rows |-> f, column |-> c.x]
    BY DEF Screen
  <2> QED
    BY <2>1
<1>3. Letters \cap Controls = {}
  BY ConsoleAssumption
<1>4. CASE ch = LF
  <2>1. PICK m : m = ToMargin(c)
    OBVIOUS
  <2>2. IsConsole(m) /\ m.text = c.text /\ m.x = 0 /\ m.y = c.y /\ m.outside = c.outside
    BY <1>1, <2>1, Moves, Members4
  <2>3. PICK e : e = Down(m) /\ e = Members(c.text, 0, c.y + 1, c.outside)
    BY <2>2, Moves
  <2>4. Wrapped(e) = e
    <3>1. e.x = 0
      BY <2>3 DEF Members
    <3> QED
      BY <3>1, Sizes DEF Wrapped, AtEdge
  <2>5. Put(c, ch) = Scrolled(e)
    BY <1>4, <2>1, <2>3, <2>4, BegunIs DEF Put
  <2>6. Abstract!Shown(t, ch) = Abstract!NewLine(t)
    BY <1>3, <1>4 DEF Abstract!Shown, Controls, BS, HT, CR, LF
  <2> QED
    BY <1>2, <2>3, <2>5, <2>6, NewLineShown
<1>5. CASE ch \in {BS, HT, CR}
  <2>1. PICK e : e = Begun(c, ch)
    OBVIOUS
  <2>2. PICK x \in Nat : /\ e = Members(c.text, x, c.y, c.outside)
                         /\ ch = BS => x = IF c.x > 0 THEN c.x - 1 ELSE 0
                         /\ ch = HT => x = ((c.x + Tab) \div Tab) * Tab
                         /\ ch = CR => x = 0
    <3>1. CASE ch = BS
      <4>1. e = (IF c.x # 0 THEN Back(c) ELSE c) /\ ch # HT /\ ch # CR
        BY <2>1, <3>1, BegunIs DEF BS, HT, CR
      <4>2. PICK x \in Nat : x = IF c.x > 0 THEN c.x - 1 ELSE 0
        BY <1>1
      <4>3. e = Members(c.text, x, c.y, c.outside)
        BY <1>1, <4>1, <4>2, Moves DEF IsConsole
      <4> QED
        BY <4>1, <4>2, <4>3
    <3>2. CASE ch = HT
      <4>1. e = Tabbed(c) /\ ch # BS /\ ch # CR
        BY <2>1, <3>2, BegunIs DEF BS, HT, CR
      <4>2. PICK x \in Nat : x = ((c.x + Tab) \div Tab) * Tab
        BY <1>1, TabReach
      <4>3. e = Members(c.text, x, c.y, c.outside)
        BY <1>1, <4>1, <4>2, Moves
      <4> QED
        BY <4>1, <4>2, <4>3
    <3>3. CASE ch = CR
      <4>1. e = ToMargin(c) /\ ch # BS /\ ch # HT
        BY <2>1, <3>3, BegunIs DEF BS, HT, CR
      <4>2. e = Members(c.text, 0, c.y, c.outside)
        BY <1>1, <4>1, Moves
      <4> QED
        BY <4>1, <4>2
    <3> QED
      BY <1>5, <3>1, <3>2, <3>3
  <2>3. PICK w : w = Wrapped(e)
    OBVIOUS
  <2>4. Put(c, ch) = Scrolled(w)
    BY <2>1, <2>3 DEF Put
  <2>5. Sound(Scrolled(w)) /\ Screen(Scrolled(w)) = Abstract!MoveTo(t, x)
    BY <1>2, <2>2, <2>3, MoveShown
  <2>6. Abstract!Shown(t, ch) = Abstract!MoveTo(t, x)
    <3>1. ch \notin Letters
      BY <1>3, <1>5 DEF Controls
    <3>2. CASE ch = BS /\ c.x > 0
      BY <1>2, <2>2, <3>1, <3>2 DEF Abstract!Shown, BS, HT, CR, LF
    <3>3. CASE ch = BS /\ c.x = 0
      <4>1. Abstract!Shown(t, ch) = t
        BY <1>2, <3>1, <3>3 DEF Abstract!Shown, BS, HT, CR, LF
      <4>2. x = 0 /\ t = [t EXCEPT !.column = 0]
        BY <1>2, <2>2, <3>3 DEF Screen
      <4>3. Abstract!MoveTo(t, 0) = [t EXCEPT !.column = 0]
        BY Sizes DEF Abstract!MoveTo
      <4> QED
        BY <4>1, <4>2, <4>3
    <3>4. CASE ch = HT
      <4>1. Abstract!Shown(t, ch) =
                Abstract!MoveTo(t, CHOOSE y \in c.x + 1 .. c.x + Tab : y % Tab = 0)
        BY <1>2, <3>1, <3>4 DEF Abstract!Shown, BS, HT, CR, LF
      <4>2. x = CHOOSE y \in c.x + 1 .. c.x + Tab : y % Tab = 0
        BY <1>1, <2>2, <3>4, TabStop
      <4> QED
        BY <4>1, <4>2, Zenon
    <3>5. CASE ch = CR
      BY <2>2, <3>1, <3>5 DEF Abstract!Shown, BS, HT, CR, LF
    <3> QED
      BY <1>1, <1>5, <3>2, <3>3, <3>4, <3>5
  <2> QED
    BY <1>2, <2>4, <2>5, <2>6
<1>6. CASE ch \in Letters
  <2>1. PICK d : d = Kept(c, ch)
    OBVIOUS
  <2>2. ch \notin Controls
    BY <1>3, <1>6
  <2>3. /\ Sound(d) /\ d.x = c.x /\ d.y = c.y
        /\ Screen(d) = [t EXCEPT !.rows[Len(t.rows)][t.column] = ch]
    BY <1>2, <2>1, StoreShown
  <2>4. IsConsole(d)
    BY <2>3 DEF Sound, OnScreen, StoresNear
  <2>5. PICK e : e = Advanced(d) /\ e = Members(d.text, c.x + 1, d.y, d.outside)
    BY <2>3, <2>4, Moves
  <2>6. Begun(c, ch) = e
    <3>1. d = Stored(c, CursorCell(c), ch)
      BY <2>1 DEF Kept
    <3>2. Begun(c, ch) = Advanced(Stored(c, CursorCell(c), ch))
      BY <2>2, BegunIs, Zenon
    <3> QED
      BY <2>5, <3>1, <3>2
  <2>7. PICK w : w = Wrapped(e)
    OBVIOUS
  <2>8. Put(c, ch) = Scrolled(w)
    BY <2>6, <2>7 DEF Put
  <2>9. c.x + 1 \in Nat
    BY <1>1
  <2>10. Sound(Scrolled(w)) /\ Screen(Scrolled(w)) = Abstract!MoveTo(Screen(d), c.x + 1)
    BY <2>3, <2>5, <2>7, <2>9, MoveShown
  <2>11. Abstract!Shown(t, ch) =
             Abstract!MoveTo([t EXCEPT !.rows[Len(t.rows)][t.column] = ch], t.column + 1)
    BY <1>6, <2>2 DEF Abstract!Shown, Controls
  <2> QED
    BY <1>2, <2>3, <2>8, <2>10, <2>11
<1> QED
  BY <1>4, <1>5, <1>6 DEF Controls

-----------------------------------------------------------------------------
(* A string, and Show. *)

\* The terminal before the first character of s, and after each.
Screens(t, s) ==
    CHOOSE after : after = [i \in 0 .. Len(s) |->
                              IF i = 0 THEN t ELSE Abstract!Shown(after[i - 1], s[i])]

\* A string: the screens that puts goes through are those of the terminal.
LEMMA PutsShown ==
    ASSUME NEW c, Sound(c), NEW s \in Seq(Letters \cup Controls)
    PROVE  Sound(Puts(c, s)) /\ Screen(Puts(c, s)) = Screens(Screen(c), s)[Len(s)]
<1>1. PICK n \in Nat : n = Len(s) /\ \A i \in 1 .. n : s[i] \in Letters \cup Controls
  OBVIOUS
<1>2. PICK g : IsAfter(g, c, s, n) /\ Puts(c, s) = g[n]
  BY <1>1, PutsIs
<1>3. g[0] = c /\ \A i \in 1 .. n : g[i] = Put(g[i - 1], s[i])
  <2>1. 0 \in 0 .. n /\ \A i \in 1 .. n : i \in 0 .. n /\ i # 0
    BY <1>1
  <2>2. \A i \in 0 .. n : g[i] = IF i = 0 THEN c ELSE Put(g[i - 1], s[i])
    BY <1>2, Zenon DEF IsAfter
  <2> QED
    BY <2>1, <2>2, Zenon
<1> DEFINE S == {k \in 0 .. n : Sound(g[k])}
<1>4. 0 \in S
  BY <1>3
<1>5. ASSUME NEW k \in 1 .. n, k - 1 \in S PROVE k \in S
  BY <1>1, <1>3, <1>5, PutShown
<1>6. \A k \in 0 .. n : Sound(g[k])
  <2>1. \A k \in 0 .. n : k \in S
    <3> HIDE DEF S
    <3> QED
      BY <1>4, <1>5, Upward
  <2> QED
    BY <2>1
<1>7. \A k \in 1 .. n : Screen(g[k]) = Abstract!Shown(Screen(g[k - 1]), s[k])
  <2> SUFFICES ASSUME NEW k \in 1 .. n
               PROVE  Screen(g[k]) = Abstract!Shown(Screen(g[k - 1]), s[k])
    OBVIOUS
  <2>1. k - 1 \in 0 .. n
    OBVIOUS
  <2>2. Sound(g[k - 1]) /\ s[k] \in Letters \cup Controls /\ g[k] = Put(g[k - 1], s[k])
    BY <1>1, <1>3, <1>6, <2>1
  <2> QED
    BY <2>2, PutShown, Zenon
<1>8. PICK f : f = [i \in 0 .. n |-> Screen(g[i])]
  OBVIOUS
<1>9. f = [i \in 0 .. n |-> IF i = 0 THEN Screen(c) ELSE Abstract!Shown(f[i - 1], s[i])]
  <2>1. ASSUME NEW i \in 0 .. n
        PROVE  f[i] = IF i = 0 THEN Screen(c) ELSE Abstract!Shown(f[i - 1], s[i])
    <3>1. CASE i = 0
      BY <1>3, <1>8, <3>1
    <3>2. CASE i # 0
      <4>1. i \in 1 .. n /\ i - 1 \in 0 .. n
        BY <3>2
      <4>2. f[i] = Screen(g[i]) /\ f[i - 1] = Screen(g[i - 1])
        BY <1>8, <4>1, Zenon
      <4> QED
        BY <1>7, <3>2, <4>1, <4>2, Zenon
    <3> QED
      BY <3>1, <3>2
  <2>2. f = [i \in 0 .. n |-> f[i]]
    BY <1>8, Zenon
  <2> QED
    BY <2>1, <2>2, Zenon
<1>10. PICK h : /\ h = Screens(Screen(c), s)
                /\ h = [i \in 0 .. n |->
                          IF i = 0 THEN Screen(c) ELSE Abstract!Shown(h[i - 1], s[i])]
  <2>1. \E e : e = [i \in 0 .. n |-> IF i = 0 THEN Screen(c) ELSE Abstract!Shown(e[i - 1], s[i])]
    BY <1>9, Zenon
  <2> QED
    BY <1>1, <2>1, Zenon DEF Screens
<1> DEFINE T == {k \in 0 .. n : h[k] = Screen(g[k])}
<1>11. 0 \in T
  <2>1. 0 \in 0 .. n
    OBVIOUS
  <2>2. h[0] = Screen(c)
    BY <1>10, <2>1, Zenon
  <2> QED
    BY <1>3, <2>1, <2>2
<1>12. ASSUME NEW k \in 1 .. n, k - 1 \in T PROVE k \in T
  <2>1. k \in 0 .. n /\ k # 0 /\ h[k - 1] = Screen(g[k - 1])
    BY <1>12
  <2>2. h[k] = Abstract!Shown(h[k - 1], s[k])
    BY <1>10, <2>1, Zenon
  <2>3. h[k] = Screen(g[k])
    BY <1>7, <2>1, <2>2, Zenon
  <2> QED
    BY <2>1, <2>3
<1>13. n \in T
  <2> HIDE DEF T
  <2> QED
    BY <1>11, <1>12, Upward
<1> QED
  BY <1>1, <1>2, <1>6, <1>10, <1>13

LEMMA ShowStep ==
    ASSUME NEW s \in Seq(Letters \cup Controls), Sound(Settled), Settled' = Puts(Settled, s)
    PROVE  Abstract!Show(s)
<1>1. PICK c : c = Settled
  OBVIOUS
<1>2. PICK d : d = Settled' /\ d = Puts(c, s)
  BY <1>1
<1>3. PICK h : h = Screens(Screen(c), s)
  OBVIOUS
<1>4. Screen(d) = h[Len(s)]
  BY <1>1, <1>2, <1>3, PutsShown
<1>5. Screen(c) = [rows |-> [r \in 1 .. Settled.y + 1 |->
                              [x \in 0 .. Width - 1 |-> Settled.text[(r - 1) * Width + x]]],
                   column |-> Settled.x]
  BY <1>1 DEF Screen, Row
<1>6. Screen(d) = [rows |-> [r \in 1 .. Settled'.y + 1 |->
                              [x \in 0 .. Width - 1 |-> Settled'.text[(r - 1) * Width + x]]],
                   column |-> Settled'.x]
  BY <1>2 DEF Screen, Row
<1>7. /\ [r \in 1 .. Settled'.y + 1 |->
            [x \in 0 .. Width - 1 |-> Settled'.text[(r - 1) * Width + x]]] = h[Len(s)].rows
      /\ Settled'.x = h[Len(s)].column
  BY <1>4, <1>6
<1> QED
  BY <1>3, <1>5, <1>7, Zenon DEF Abstract!Show, Screens

-----------------------------------------------------------------------------
(* The statements of a character that no message has come in the middle of:  *)
(* what each leaves is on the way from start to Put(start, char).            *)

\* With n rows moved.
PartMoved(c, n, t) ==
    [c EXCEPT !.text = [k \in Cell |-> IF k \div Width < n THEN c.text[k + t * Width]
                                                          ELSE c.text[k]]]

OnItsWay ==
    LET d == Begun(start, char)
        w == Wrapped(d)
    IN  /\ Sound(start) /\ char \in Letters \cup Controls
        /\ statement = "back" => char = BS /\ start.x # 0 /\ con = start
        /\ statement \in {"feed", "fed"} => char = LF /\ con = ToMargin(start)
        /\ statement = "fed" => reg = Down(con).y
        /\ statement \in {"address", "store"} => char \notin Controls /\ con = start
        /\ statement = "address" => reg = start.y * Width
        /\ statement = "store" => reg = CursorCell(start)
        /\ statement = "advance" => char \notin Controls /\ con = Kept(start, char)
        /\ statement = "column" => AtColumn(con, reg) = d
        /\ statement = "edge" => con = d
        /\ statement = "wrap" => AtEdge(d) /\ con = d
        /\ statement \in {"down", "wrapped"} => AtEdge(d) /\ con = ToMargin(d)
        /\ statement = "wrapped" => reg = Down(con).y
        /\ statement \in {"scroll", "temp"} => con = w
        /\ statement \in {"temp", "move", "clear", "bottom"} => OffScreen(w)
        /\ statement \in {"move", "clear", "bottom"} => temp = Excess(w)
        /\ statement = "move" => row \in 0 .. Height - temp /\ con = PartMoved(w, row, temp)
        /\ statement = "clear" => con = Moved(w, temp)
        /\ statement = "bottom" => con = Cleared(Moved(w, temp), temp)

TextOK == ~torn => IF statement = "idle" THEN Sound(con) ELSE OnItsWay

\* The cursor is on the screen or on the line behind it when scroll begins.
LEMMA WrappedText ==
    ASSUME NEW c, Sound(c), NEW ch, NEW w, w = Wrapped(Begun(c, ch))
    PROVE  IsConsole(w) /\ IsText(w.text) /\ w.y <= Height
<1>1. /\ NearScreen(c, Whole) /\ IsConsole(c) /\ IsText(c.text)
      /\ c.x \in 0 .. Width - 1 /\ c.y \in 0 .. Height - 1
      /\ Width \in Nat /\ Width >= 1 /\ Height \in Nat
  BY SoundFacts
<1>2. PICK d : d = Begun(c, ch)
  OBVIOUS
<1>3. PICK whole \in BOOLEAN : whole = Whole /\ NearScreen(c, whole)
  BY <1>1, WholeIs
<1>4. StoresNear(d, whole) /\ d.y \in {c.y, c.y + 1} /\ (d.y = c.y + 1 => d.x < Width)
  BY <1>2, <1>3, BegunFacts
<1>5. IsConsole(d) /\ d.x \in Int /\ d.y \in Nat
  BY <1>4 DEF StoresNear, IsConsole
<1>6. IsText(d.text)
  <2>1. CASE ch = BS
    <3>1. d = IF c.x # 0 THEN Back(c) ELSE c
      BY <1>2, <2>1, BegunIs
    <3> QED
      BY <1>1, <3>1, Moves DEF Members
  <2>2. CASE ch = HT
    BY <1>1, <1>2, <2>2, BegunIs, Moves DEF Members
  <2>3. CASE ch = CR
    BY <1>1, <1>2, <2>3, BegunIs, Moves DEF Members
  <2>4. CASE ch = LF
    <3>1. PICK m : m = ToMargin(c)
      OBVIOUS
    <3>2. IsConsole(m) /\ m.text = c.text
      BY <1>1, <3>1, Moves DEF Members, IsConsole
    <3>3. d = Down(m)
      BY <1>2, <2>4, <3>1, BegunIs
    <3> QED
      BY <1>1, <3>2, <3>3, Moves DEF Members
  <2>5. CASE ch \notin Controls
    <3>1. PICK m : m = Kept(c, ch)
      OBVIOUS
    <3>2. 0 \in 0 .. Height + 1 /\ 0 \in 0 .. Width - 1
      BY <1>1
    <3>3. IsConsole(m) /\ IsText(m.text)
      BY <1>1, <3>1, <3>2, StoredText
    <3>4. d = Advanced(m)
      BY <1>2, <2>5, <3>1, BegunIs DEF Kept
    <3> QED
      BY <3>3, <3>4, Moves DEF Members
  <2> QED
    BY <2>1, <2>2, <2>3, <2>4, <2>5 DEF Controls
<1>7. /\ StoresNear(w, whole) /\ w.y = IF AtEdge(d) THEN d.y + 1 ELSE d.y
      /\ w = IF AtEdge(d) THEN Members(d.text, 0, d.y + 1, d.outside) ELSE d
  BY <1>2, <1>4, WrappedFacts
<1>8. IsConsole(w)
  BY <1>7 DEF StoresNear
<1>9. IsText(w.text)
  BY <1>6, <1>7 DEF Members
<1>10. w.y <= Height
  BY <1>1, <1>4, <1>5, <1>7 DEF AtEdge
<1> QED
  BY <1>8, <1>9, <1>10

\* Nothing is moved at first; one row at a time; and all at last.
LEMMA PartMovedFacts ==
    ASSUME NEW w, IsConsole(w), IsText(w.text), NEW t \in Nat, NEW n \in 0 .. Height - t
    PROVE  /\ PartMoved(w, 0, t) = w
           /\ n < Height - t => RowMoved(PartMoved(w, n, t), n, t) = PartMoved(w, n + 1, t)
           /\ PartMoved(w, Height - t, t) = Moved(w, t)
<1>1. Width \in Nat \ {0} /\ Height \in Nat /\ \A k \in Cell : k \in Nat /\ k \div Width \in Nat
  <2>1. \A k \in Cell : k \in Nat
    BY Sizes DEF Cell
  <2>2. Width \in Nat \ {0} /\ Height \in Nat
    BY Sizes
  <2> QED
    BY <2>1, <2>2, Division
<1>2. PartMoved(w, 0, t) = w
  <2>1. [k \in Cell |-> IF k \div Width < 0 THEN w.text[k + t * Width] ELSE w.text[k]] = w.text
    BY <1>1 DEF IsText
  <2>2. PartMoved(w, 0, t) = [w EXCEPT !.text = w.text]
    BY <2>1 DEF PartMoved
  <2> QED
    BY <2>2 DEF IsConsole, Members
<1>3. ASSUME n < Height - t
      PROVE  RowMoved(PartMoved(w, n, t), n, t) = PartMoved(w, n + 1, t)
  <2>1. PICK d : d = PartMoved(w, n, t)
    OBVIOUS
  <2>2. PICK f : f = [k \in Cell |-> IF k \div Width < n THEN w.text[k + t * Width]
                                                        ELSE w.text[k]]
    OBVIOUS
  <2>3. d = Members(f, w.x, w.y, w.outside)
    BY <2>1, <2>2 DEF PartMoved, IsConsole, Members
  <2>4. RowMoved(d, n, t) =
            Members([k \in Cell |-> IF k \div Width = n THEN f[k + t * Width] ELSE f[k]],
                    w.x, w.y, w.outside)
    <3>1. /\ IsConsole(d) /\ d.text = f /\ d.x = w.x /\ d.y = w.y
          /\ d.outside = w.outside
      BY <2>3, Members4 DEF IsConsole
    <3>2. n \in 0 .. Height - 1
      BY <1>1, <1>3
    <3> QED
      BY <3>1, <3>2, RowMovedIs
  <2>5. ASSUME NEW k \in Cell
        PROVE  (IF k \div Width = n THEN f[k + t * Width] ELSE f[k]) =
               (IF k \div Width < n + 1 THEN w.text[k + t * Width] ELSE w.text[k])
    <3>1. PICK q \in Nat : q = k \div Width
      BY <1>1
    <3>2. CASE q = n
      <4>1. PICK m \in 0 .. Width - 1 : k = n * Width + m
        <5>1. k \in Nat /\ k \div Width = n
          BY <1>1, <3>1, <3>2
        <5>2. k % Width \in 0 .. Width - 1 /\ k = (k \div Width) * Width + (k % Width)
          BY <1>1, <5>1, Division, Zenon
        <5>3. k = n * Width + (k % Width)
          BY <5>1, <5>2, Zenon
        <5> QED
          BY <5>2, <5>3, Zenon
      <4>2. n + t \in 0 .. Height + 1 /\ n \in 0 .. Height + 1
        BY <1>1, <1>3
      <4>3. k + t * Width = (n + t) * Width + m
        BY <4>1, <4>2, CellAt
      <4>4. (n + t) * Width + m \in Cell /\ ((n + t) * Width + m) \div Width = n + t
        BY <4>2, CellAt
      <4>5. PICK j \in Cell : j = k + t * Width /\ j \div Width = n + t
        BY <4>3, <4>4
      <4>6. f[j] = w.text[j]
        BY <2>2, <4>5
      <4> QED
        BY <3>1, <3>2, <4>5, <4>6
    <3>3. CASE q < n
      BY <2>2, <3>1, <3>3
    <3>4. CASE q > n
      BY <2>2, <3>1, <3>4
    <3> QED
      BY <3>1, <3>2, <3>3, <3>4
  <2>6. [k \in Cell |-> IF k \div Width = n THEN f[k + t * Width] ELSE f[k]] =
        [k \in Cell |-> IF k \div Width < n + 1 THEN w.text[k + t * Width] ELSE w.text[k]]
    BY <2>5
  <2>7. PartMoved(w, n + 1, t) =
            Members([k \in Cell |-> IF k \div Width < n + 1 THEN w.text[k + t * Width]
                                                            ELSE w.text[k]],
                    w.x, w.y, w.outside)
    BY DEF PartMoved, IsConsole, Members
  <2> QED
    BY <2>1, <2>4, <2>6, <2>7
<1>4. PartMoved(w, Height - t, t) = Moved(w, t)
  <2>1. t <= Height
    BY <1>1
  <2>2. PICK f : f = [k \in Cell |-> IF k \div Width < Height - t
                                      THEN w.text[k + t * Width] ELSE w.text[k]]
    OBVIOUS
  <2>3. PartMoved(w, Height - t, t) = Members(f, w.x, w.y, w.outside)
    BY <2>2 DEF PartMoved, IsConsole, Members
  <2> QED
    BY <2>1, <2>2, <2>3, MovedIs
<1> QED
  BY <1>2, <1>3, <1>4

LEMMA TextInit == ConsoleInit => TextOK
<1> SUFFICES ASSUME ConsoleInit PROVE Sound(con)
  BY DEF ConsoleInit, TextOK
<1>1. con = Members([k \in Cell |-> Blank], 0, 0, {})
  BY DEF ConsoleInit, Members
<1>2. OnScreen(con, Whole)
  <2>1. IsConsole(con) /\ con.x = 0 /\ con.y = 0 /\ con.outside = {}
    BY <1>1, Members4
  <2>2. StoresNear(con, Whole)
    BY <2>1 DEF StoresNear
  <2> QED
    BY <2>1, <2>2, Sizes DEF OnScreen
<1>3. con.text = [k \in Cell |-> Blank] /\ con.y = 0 /\ IsText(con.text)
  BY <1>1 DEF IsText, Members
<1>4. ASSUME NEW q \in 1 .. Height - 1 PROVE Row(con, q) = Abstract!BlankRow
  <2>1. q \in 0 .. Height + 1
    BY Sizes
  <2>2. \A x \in 0 .. Width - 1 : con.text[q * Width + x] = Blank
    BY <1>3, <2>1, CellAt
  <2> QED
    BY <2>2 DEF Row, Abstract!BlankRow
<1>5. con.y + 1 = 1
  BY <1>3
<1> QED
  BY <1>2, <1>3, <1>4, <1>5 DEF Sound

\* csr_x or csr_y is read, worked out and stored: the same as in one step.
LEMMA InTwoSteps ==
    ASSUME NEW c, IsConsole(c)
    PROVE  /\ AtColumn(c, Back(c).x) = Back(c) /\ AtColumn(c, Advanced(c).x) = Advanced(c)
           /\ AtColumn(c, Tabbed(c).x) = Tabbed(c) /\ AtLine(c, Down(c).y) = Down(c)
BY Moves DEF Members

\* The consoles whose cursor the statements of putch move.
LEMMA OnItsWayConsoles ==
    ASSUME OnItsWay
    PROVE  /\ IsConsole(start) /\ IsConsole(ToMargin(start)) /\ IsConsole(Kept(start, char))
           /\ IsConsole(ToMargin(Begun(start, char)))
<1>1. Sound(start)
  BY DEF OnItsWay
<1>2. /\ NearScreen(start, Whole) /\ IsConsole(start) /\ IsText(start.text)
      /\ start.x \in 0 .. Width - 1 /\ start.y \in 0 .. Height - 1
      /\ Width \in Nat /\ Width >= 1 /\ Height \in Nat
  BY <1>1, SoundFacts
<1>3. \A c : IsConsole(c) => IsConsole(ToMargin(c))
  <2> SUFFICES ASSUME NEW c, IsConsole(c) PROVE IsConsole(ToMargin(c))
    OBVIOUS
  <2>1. ToMargin(c) = Members(c.text, 0, c.y, c.outside)
    BY Moves
  <2> QED
    BY <2>1, Members4 DEF IsConsole
<1>4. IsConsole(Kept(start, char))
  <2>1. 0 \in 0 .. Height + 1 /\ 0 \in 0 .. Width - 1
    BY <1>2
  <2> QED
    BY <1>2, <2>1, StoredText
<1>5. IsConsole(Begun(start, char))
  <2>1. PICK whole \in BOOLEAN : whole = Whole /\ NearScreen(start, whole)
    BY <1>2, WholeIs
  <2> QED
    BY <2>1, BegunFacts DEF StoresNear
<1> QED
  BY <1>2, <1>3, <1>4, <1>5

\* The step before the last leads to the end of the character.
LEMMA ScrollEnds ==
    ASSUME OnItsWay
    PROVE  /\ statement = "scroll" /\ ~OffScreen(con) => con = Put(start, char)
           /\ statement = "bottom" => AtBottom(con) = Put(start, char)
           /\ Sound(Put(start, char))
<1>1. PICK w : w = Wrapped(Begun(start, char)) /\ Put(start, char) = Scrolled(w)
  BY DEF Put
<1>2. statement = "scroll" /\ ~OffScreen(con) => con = Put(start, char)
  BY <1>1 DEF OnItsWay, Scrolled
<1>3. statement = "bottom" => AtBottom(con) = Put(start, char)
  BY <1>1 DEF OnItsWay, Scrolled
<1>4. Sound(Put(start, char))
  BY PutShown DEF OnItsWay
<1> QED
  BY <1>2, <1>3, <1>4

LEMMA TextPutch == ASSUME TextOK, NEW ch \in Letters \cup Controls, Putch(ch) PROVE TextOK'
<1> SUFFICES ASSUME ~torn PROVE statement' # "idle" /\ OnItsWay'
  BY DEF TextOK, Putch, PutBackspace, PutTab, PutReturn, PutPrintable, Start
<1>1. Sound(con) /\ start' = con /\ char' = ch
  BY DEF TextOK, Putch, PutBackspace, PutTab, PutReturn, PutPrintable, Start
<1>2. CASE ch = BS /\ PutBackspace
  <2>1. con' = con /\ statement' = IF con.x # 0 THEN "back" ELSE "edge"
    BY <1>2 DEF PutBackspace
  <2>2. con.x = 0 => Begun(con, ch) = con
    BY <1>2, BegunIs
  <2> QED
    BY <1>1, <1>2, <2>1, <2>2 DEF OnItsWay
<1>3. CASE ch = HT /\ PutTab
  <2>1. con' = con /\ statement' = "column" /\ reg' = Tabbed(con).x
    BY <1>3 DEF PutTab
  <2>2. IsConsole(con)
    BY <1>1, SoundFacts
  <2>3. AtColumn(con, reg') = Begun(con, ch)
    BY <1>3, <2>1, <2>2, InTwoSteps, BegunIs
  <2> QED
    BY <1>1, <2>1, <2>3 DEF OnItsWay
<1>4. CASE PutReturn(ch)
  <2>1. /\ ch \in {CR, LF} /\ con' = ToMargin(con)
        /\ statement' = IF ch = LF THEN "feed" ELSE "edge"
    BY <1>4 DEF PutReturn
  <2>2. ch # LF => con' = Begun(con, ch)
    BY <2>1, BegunIs
  <2> QED
    BY <1>1, <2>1, <2>2 DEF OnItsWay
<1>5. CASE PutPrintable(ch)
  <2>1. /\ ch \notin Controls /\ con' = con /\ reg' = con.y * Width
        /\ statement' = "address"
    BY <1>5, ConsoleAssumption DEF PutPrintable
  <2> QED
    BY <1>1, <2>1 DEF OnItsWay
<1> QED
  BY <1>2, <1>3, <1>4, <1>5 DEF Putch

LEMMA TextSteps == ASSUME TextOK, ~torn, Statement PROVE TextOK'
<1>1. /\ statement # "idle" /\ OnItsWay /\ start' = start /\ char' = char /\ torn' = torn
  BY DEF TextOK, Statement, StepBack, Feed, FeedLine, Address, Store, Advance, SetColumn, Edge, Wrap,
         NextLine, WrapLine, Scroll, SetTemp, MoveRow, Clear, Bottom, WorkOut, PutBack, GoOn
<1>2. PICK d, w : d = Begun(start, char) /\ w = Wrapped(d)
  OBVIOUS
<1>3. /\ Sound(start) /\ char \in Letters \cup Controls /\ IsConsole(w) /\ IsText(w.text)
      /\ w.y <= Height
  BY <1>1, <1>2, WrappedText DEF OnItsWay
<1>4. /\ IsConsole(start) /\ IsConsole(ToMargin(start)) /\ IsConsole(Kept(start, char))
      /\ IsConsole(ToMargin(d))
  BY <1>1, <1>2, OnItsWayConsoles
<1>5. CASE StepBack
  <2>1. /\ con = start /\ con' = con /\ char = BS /\ start.x # 0
        /\ statement' = "column" /\ reg' = Back(start).x
    BY <1>1, <1>5 DEF OnItsWay, StepBack, WorkOut, GoOn
  <2>2. AtColumn(con', reg') = d
    BY <1>2, <1>4, <2>1, BegunIs, InTwoSteps
  <2> QED
    BY <1>1, <1>2, <1>3, <2>1, <2>2 DEF TextOK, OnItsWay
<1>6. CASE Feed
  <2>1. statement = "feed" /\ statement' = "fed" /\ con' = con /\ reg' = Down(con).y
    BY <1>6 DEF Feed, WorkOut, GoOn
  <2> QED
    BY <1>1, <1>3, <2>1 DEF TextOK, OnItsWay
<1>7. CASE FeedLine
  <2>1. /\ char = LF /\ con = ToMargin(start) /\ reg = Down(con).y
        /\ statement' = "edge" /\ con' = AtLine(con, reg)
    BY <1>1, <1>7 DEF OnItsWay, FeedLine, PutBack, GoOn
  <2>2. con' = d
    BY <1>2, <1>4, <2>1, BegunIs, InTwoSteps
  <2> QED
    BY <1>1, <1>2, <1>3, <2>1, <2>2 DEF TextOK, OnItsWay
<1>8. CASE Address
  <2>1. /\ char \notin Controls /\ con = start /\ con' = con /\ statement' = "store"
        /\ reg' = start.y * Width + start.x
    BY <1>1, <1>8 DEF OnItsWay, Address, WorkOut, GoOn
  <2> QED
    BY <1>1, <1>3, <2>1 DEF TextOK, OnItsWay, CursorCell
<1>9. CASE Store
  <2>1. statement = "store" /\ statement' = "advance" /\ con' = Stored(con, reg, char)
    BY <1>9 DEF Store, PutBack, GoOn
  <2>2. char \notin Controls /\ con' = Kept(start, char)
    BY <1>1, <2>1 DEF OnItsWay, Kept
  <2> QED
    BY <1>1, <1>3, <2>1, <2>2 DEF TextOK, OnItsWay
<1>10. CASE Advance
  <2>1. /\ char \notin Controls /\ con = Kept(start, char) /\ con' = con
        /\ statement' = "column" /\ reg' = Advanced(con).x
    BY <1>1, <1>10 DEF OnItsWay, Advance, WorkOut, GoOn
  <2>2. AtColumn(con', reg') = d
    BY <1>2, <1>4, <2>1, BegunIs, InTwoSteps DEF Kept
  <2> QED
    BY <1>1, <1>2, <1>3, <2>1, <2>2 DEF TextOK, OnItsWay
<1>11. CASE SetColumn
  <2>1. AtColumn(con, reg) = d /\ statement' = "edge" /\ con' = AtColumn(con, reg)
    BY <1>1, <1>2, <1>11 DEF OnItsWay, SetColumn, PutBack, GoOn
  <2> QED
    BY <1>1, <1>2, <1>3, <2>1 DEF TextOK, OnItsWay
<1>12. CASE Edge
  <2>1. con = d /\ con' = con /\ statement' = IF AtEdge(con) THEN "wrap" ELSE "scroll"
    BY <1>1, <1>2, <1>12 DEF OnItsWay, Edge, GoOn
  <2>2. ~AtEdge(d) => con = w
    BY <1>2, <2>1 DEF Wrapped
  <2> QED
    BY <1>1, <1>2, <1>3, <2>1, <2>2 DEF TextOK, OnItsWay
<1>13. CASE Wrap
  <2>1. statement = "wrap" /\ statement' = "down" /\ con' = ToMargin(con)
    BY <1>13 DEF Wrap, GoOn
  <2> QED
    BY <1>1, <1>3, <2>1 DEF TextOK, OnItsWay
<1>14. CASE NextLine
  <2>1. statement = "down" /\ statement' = "wrapped" /\ con' = con /\ reg' = Down(con).y
    BY <1>14 DEF NextLine, WorkOut, GoOn
  <2> QED
    BY <1>1, <1>3, <2>1 DEF TextOK, OnItsWay
<1>15. CASE WrapLine
  <2>1. /\ AtEdge(d) /\ con = ToMargin(d) /\ reg = Down(con).y
        /\ statement' = "scroll" /\ con' = AtLine(con, reg)
    BY <1>1, <1>2, <1>15 DEF OnItsWay, WrapLine, PutBack, GoOn
  <2>2. con' = w
    BY <1>2, <1>4, <2>1, InTwoSteps DEF Wrapped
  <2> QED
    BY <1>1, <1>2, <1>3, <2>1, <2>2 DEF TextOK, OnItsWay
<1>16. CASE Scroll
  <2>1. /\ con = w /\ con' = con /\ statement = "scroll"
        /\ statement' = IF OffScreen(con) THEN "temp" ELSE "idle"
    BY <1>1, <1>2, <1>16 DEF OnItsWay, Scroll, GoOn
  <2>2. CASE OffScreen(con)
    BY <1>1, <1>2, <1>3, <2>1, <2>2 DEF TextOK, OnItsWay
  <2>3. CASE ~OffScreen(con)
    <3>1. Sound(con)
      BY <1>1, <2>1, <2>3, ScrollEnds
    <3> QED
      BY <2>1, <2>3, <3>1 DEF TextOK
  <2> QED
    BY <2>2, <2>3
<1>17. CASE SetTemp
  <2>1. /\ con = w /\ OffScreen(w) /\ con' = con /\ statement' = "move"
        /\ temp' = Excess(w) /\ row' = 0
    BY <1>1, <1>2, <1>17 DEF OnItsWay, SetTemp, GoOn
  <2>2. temp' = 1 /\ Height >= 1 /\ Height \in Nat
    BY <1>3, <2>1, Sizes DEF OffScreen, Excess, IsConsole
  <2>3. row' \in 0 .. Height - temp' /\ temp' \in Nat
    BY <2>1, <2>2
  <2>4. con' = PartMoved(w, row', temp')
    BY <1>3, <2>1, <2>3, PartMovedFacts
  <2> QED
    BY <1>1, <1>2, <1>3, <2>1, <2>3, <2>4 DEF TextOK, OnItsWay
<1>18. CASE MoveRow
  <2>1. /\ OffScreen(w) /\ temp = Excess(w) /\ temp' = temp
        /\ row \in 0 .. Height - temp /\ con = PartMoved(w, row, temp)
    BY <1>1, <1>2, <1>18 DEF OnItsWay, MoveRow
  <2>2. temp \in Nat /\ Height \in Nat
    BY <1>3, <2>1, Sizes DEF OffScreen, Excess, IsConsole
  <2>3. CASE row < Height - temp
    <3>1. con' = RowMoved(con, row, temp) /\ row' = row + 1 /\ statement' = "move"
      BY <1>18, <2>3 DEF MoveRow, GoOn
    <3>2. con' = PartMoved(w, row + 1, temp)
      BY <1>3, <2>1, <2>2, <2>3, <3>1, PartMovedFacts
    <3>3. row' \in 0 .. Height - temp
      BY <2>1, <2>2, <2>3, <3>1
    <3> QED
      BY <1>1, <1>2, <1>3, <2>1, <3>1, <3>2, <3>3 DEF TextOK, OnItsWay
  <2>4. CASE ~(row < Height - temp)
    <3>1. con' = con /\ row' = row /\ statement' = "clear"
      BY <1>18, <2>4 DEF MoveRow, GoOn
    <3>2. row = Height - temp
      BY <2>1, <2>2, <2>4
    <3>3. con' = Moved(w, temp)
      BY <1>3, <2>1, <2>2, <3>1, <3>2, PartMovedFacts
    <3> QED
      BY <1>1, <1>2, <1>3, <2>1, <3>1, <3>3 DEF TextOK, OnItsWay
  <2> QED
    BY <2>3, <2>4
<1>19. CASE Clear
  <2>1. statement = "clear" /\ statement' = "bottom" /\ con' = Cleared(con, temp) /\ temp' = temp
    BY <1>19 DEF Clear, GoOn, locals
  <2>2. OffScreen(w) /\ temp' = Excess(w) /\ con' = Cleared(Moved(w, temp'), temp')
    BY <1>1, <1>2, <2>1 DEF OnItsWay
  <2> QED
    BY <1>1, <1>2, <1>3, <2>1, <2>2 DEF TextOK, OnItsWay
<1>20. CASE Bottom
  <2>1. statement = "bottom" /\ statement' = "idle" /\ con' = AtBottom(con)
    BY <1>20 DEF Bottom, GoOn
  <2>2. Sound(con')
    BY <1>1, <2>1, ScrollEnds
  <2> QED
    BY <2>1, <2>2 DEF TextOK
<1> QED
  BY <1>5, <1>6, <1>7, <1>8, <1>9, <1>10, <1>11, <1>12, <1>13, <1>14, <1>15, <1>16, <1>17,
     <1>18, <1>19, <1>20
  DEF Statement

LEMMA TextInterrupt == ASSUME TextOK, NEW m \in Messages, Interrupt(m) PROVE TextOK'
<1> SUFFICES ASSUME ~torn, statement = "idle" PROVE Sound(con')
  BY DEF TextOK, Interrupt
<1>1. m \in Seq(Letters \cup Controls)
  BY ConsoleAssumption
<1>2. Sound(con) /\ con' = Puts(con, m)
  BY DEF TextOK, Interrupt
<1> QED
  BY <1>1, <1>2, PutsShown

LEMMA TextNext == ASSUME TextOK, [ConsoleNext]_consoleVars PROVE TextOK'
<1>1. CASE \E ch \in Letters \cup Controls : Putch(ch)
  BY <1>1, TextPutch
<1>2. CASE Statement
  <2>1. torn' = torn
    BY <1>2 DEF Statement, StepBack, Feed, FeedLine, Address, Store, Advance, SetColumn, Edge, Wrap,
         NextLine, WrapLine, Scroll, SetTemp, MoveRow, Clear, Bottom, WorkOut, PutBack, GoOn
  <2>2. torn => TextOK'
    BY <2>1 DEF TextOK
  <2> QED
    BY <1>2, <2>2, TextSteps
<1>3. CASE \E m \in Messages : Interrupt(m)
  BY <1>3, TextInterrupt
<1>4. CASE UNCHANGED consoleVars
  BY <1>4 DEF consoleVars, locals, TextOK, OnItsWay
<1> QED
  BY <1>1, <1>2, <1>3, <1>4 DEF ConsoleNext

LEMMA ShowSame == ASSUME NEW s, s = <<char>>, Abstract!Show(s) PROVE Abstract!Show(<<char>>)
BY SMT DEF Abstract!Show

\* The end of a character, and no other step of it, shows the character.
LEMMA CharacterShown ==
    ASSUME TextOK, ~torn, statement # "idle", statement' = "idle", con' = Put(start, char)
    PROVE  Abstract!Show(<<char>>)
<1>1. Sound(start) /\ char \in Letters \cup Controls
  BY DEF TextOK, OnItsWay
<1>2. Settled = start /\ Settled' = con'
  BY DEF Settled
<1>3. PICK ch, c : ch = char /\ c = start /\ ch \in Letters \cup Controls
  BY <1>1
<1>4. PICK s \in Seq(Letters \cup Controls) : s = <<char>> /\ Len(s) = 1 /\ s[1] = ch
  <2>1. <<ch>> \in Seq(Letters \cup Controls) /\ Len(<<ch>>) = 1 /\ <<ch>>[1] = ch
    BY <1>3
  <2> QED
    BY <1>3, <2>1
<1>5. Puts(c, s) = Put(c, ch)
  <2>1. PICK g : IsAfter(g, c, s, 1) /\ Puts(c, s) = g[1]
    BY <1>4, PutsIs
  <2>2. g[0] = c /\ g[1] = Put(g[0], s[1])
    BY <2>1 DEF IsAfter
  <2> QED
    BY <1>4, <2>1, <2>2
<1>6. Abstract!Show(s)
  BY <1>1, <1>2, <1>3, <1>5, ShowStep
<1> QED
  BY <1>4, <1>6, ShowSame

LEMMA TextShown ==
    ASSUME TextOK, ConsoleNext, ~torn'
    PROVE  \/ Abstract!Show(<<char>>) /\ statement' = "idle"
           \/ \E m \in Messages : Abstract!Show(m) /\ statement = "idle"
           \/ Settled' = Settled
<1>1. CASE \E ch \in Letters \cup Controls : Putch(ch)
  <2>1. PICK ch : Putch(ch)
    BY <1>1
  <2>2. statement = "idle" /\ statement' # "idle" /\ start' = con
    BY <2>1 DEF Putch, PutBackspace, PutTab, PutReturn, PutPrintable, Start
  <2> QED
    BY <2>2 DEF Settled
<1>2. CASE Statement
  <2>1. statement # "idle" /\ start' = start /\ torn' = torn
    BY <1>2 DEF Statement, StepBack, Feed, FeedLine, Address, Store, Advance, SetColumn, Edge, Wrap,
         NextLine, WrapLine, Scroll, SetTemp, MoveRow, Clear, Bottom, WorkOut, PutBack, GoOn
  <2>2. CASE statement' # "idle"
    BY <2>1, <2>2 DEF Settled
  <2>3. CASE statement' = "idle"
    <3>1. /\ OnItsWay
          /\ \/ statement = "scroll" /\ ~OffScreen(con) /\ con' = con
             \/ statement = "bottom" /\ con' = AtBottom(con)
      BY <1>2, <2>1, <2>3
      DEF TextOK, Statement, StepBack, Feed, FeedLine, Address, Store, Advance, SetColumn, Edge, Wrap,
         NextLine, WrapLine, Scroll, SetTemp, MoveRow, Clear, Bottom, WorkOut, PutBack, GoOn
    <3>2. con' = Put(start, char)
      BY <3>1, ScrollEnds
    <3> QED
      BY <2>1, <2>3, <3>2, CharacterShown
  <2> QED
    BY <2>2, <2>3
<1>3. CASE \E m \in Messages : Interrupt(m)
  <2>1. PICK m \in Messages : Interrupt(m)
    BY <1>3
  <2>2. /\ ~torn /\ statement = "idle" /\ statement' = "idle" /\ con' = Puts(con, m)
    BY <2>1 DEF Interrupt
  <2>3. Sound(Settled) /\ Settled' = Puts(Settled, m) /\ m \in Seq(Letters \cup Controls)
    BY <2>2, ConsoleAssumption DEF TextOK, Settled
  <2> QED
    BY <2>2, <2>3, ShowStep
<1> QED
  BY <1>1, <1>2, <1>3 DEF ConsoleNext

\* The screen shows the last lines of the text, whatever is scrolled and wherever a
\* message comes between two characters, until one comes within (putch, scroll,
\* memcpy, memsetw).
THEOREM TextCorrect == ConsoleSpec => ShowsText
<1>1. ConsoleInit => Abstract!Init
  <2> SUFFICES ASSUME ConsoleInit PROVE Abstract!Init
    OBVIOUS
  <2>1. /\ Settled = con
        /\ con = [text |-> [k \in Cell |-> Blank], x |-> 0, y |-> 0, outside |-> {}]
    BY DEF ConsoleInit, Settled
  <2>2. 0 \in 0 .. Height + 1
    BY Sizes
  <2>3. \A x \in 0 .. Width - 1 : Settled.text[0 * Width + x] = Blank
    BY <2>1, <2>2, CellAt
  <2>4. [x \in 0 .. Width - 1 |-> Settled.text[(1 - 1) * Width + x]] = Abstract!BlankRow
    BY <2>3 DEF Abstract!BlankRow
  <2>5. Settled.x = 0 /\ Settled.y + 1 = 1
    BY <2>1
  <2>6. [r \in 1 .. Settled.y + 1 |->
           [x \in 0 .. Width - 1 |-> Settled.text[(r - 1) * Width + x]]] = <<Abstract!BlankRow>>
    <3>1. PICK f : f = [r \in 1 .. 1 |->
                          [x \in 0 .. Width - 1 |-> Settled.text[(r - 1) * Width + x]]]
      OBVIOUS
    <3>2. f = [r \in 1 .. 1 |-> Abstract!BlankRow]
      BY <2>4, <3>1
    <3>3. f = <<Abstract!BlankRow>>
      BY <3>2
    <3> QED
      BY <2>5, <3>1, <3>3
  <2> QED
    BY <2>5, <2>6 DEF Abstract!Init
<1>2. TextOK /\ [ConsoleNext]_consoleVars =>
          [\/ torn'
           \/ Abstract!Show(<<char>>) /\ statement' = "idle"
           \/ \E m \in Messages : Abstract!Show(m) /\ statement = "idle"
           \/ UNCHANGED <<Settled.text, Settled.x, Settled.y>>]_consoleVars
  <2> SUFFICES ASSUME TextOK, ConsoleNext, ~torn'
               PROVE  \/ Abstract!Show(<<char>>) /\ statement' = "idle"
                      \/ \E m \in Messages : Abstract!Show(m) /\ statement = "idle"
                      \/ UNCHANGED <<Settled.text, Settled.x, Settled.y>>
    OBVIOUS
  <2>1. Settled' = Settled => UNCHANGED <<Settled.text, Settled.x, Settled.y>>
    OBVIOUS
  <2> QED
    BY <2>1, TextShown
<1> QED
  BY <1>1, <1>2, TextInit, TextNext, PTL DEF ConsoleSpec, ShowsText
=============================================================================
