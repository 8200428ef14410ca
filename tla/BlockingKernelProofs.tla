------------------------- MODULE BlockingKernelProofs -------------------------
(***************************************************************************)
(* The critical section of the scheduler in P5_DiskRead&write/, for every  *)
(* number of threads, order of switches and use of the disk: each thread   *)
(* is in the ready queue at most once, and is there exactly when it should *)
(* be.                                                                     *)
(*                                                                         *)
(* And its ready queue pointer by pointer: the linked list is a first-in   *)
(* first-out queue for any threads, node size and sizes of other objects.  *)
(* The inductive invariant is Linked with the types; what makes each step  *)
(* easy is that new nodes lie behind all others and that no two places of  *)
(* chain are the same node (DistinctNodes).                                *)
(***************************************************************************)
EXTENDS BlockingKernel, LinkedQueue, SequenceTheorems, TLAPS

-----------------------------------------------------------------------------
(* What Append and Tail do to the threads a sequence holds.                *)

LEMMA AppendFacts ==
    ASSUME NEW s \in Seq(Thread), NEW x \in Thread
    PROVE  /\ Append(s, x) \in Seq(Thread)
           /\ Len(Append(s, x)) = Len(s) + 1 /\ Append(s, x) # <<>>
           /\ Append(s, x)[Len(s) + 1] = x
           /\ \A t \in Thread : Holds(Append(s, x), t) <=> Holds(s, t) \/ t = x
           /\ Distinct(s) /\ ~Holds(s, x) => Distinct(Append(s, x))
<1>1. Len(s) \in Nat
  OBVIOUS
<1>2. /\ Append(s, x) \in Seq(Thread) /\ Append(s, x) # <<>>
      /\ Len(Append(s, x)) = Len(s) + 1
      /\ Append(s, x)[Len(s) + 1] = x
      /\ \A i \in 1 .. Len(s) : Append(s, x)[i] = s[i]
  OBVIOUS
<1>3. ASSUME NEW t \in Thread
      PROVE  Holds(Append(s, x), t) <=> Holds(s, t) \/ t = x
  BY <1>1, <1>2 DEF Holds
<1>4. ASSUME Distinct(s), ~Holds(s, x)
      PROVE  Distinct(Append(s, x))
  BY <1>1, <1>2, <1>4 DEF Holds, Distinct
<1> QED
  BY <1>2, <1>3, <1>4

LEMMA TailFacts ==
    ASSUME NEW s \in Seq(Thread), s # <<>>, Distinct(s)
    PROVE  /\ Tail(s) \in Seq(Thread) /\ Head(s) \in Thread
           /\ Holds(s, Head(s))
           /\ \A t \in Thread : Holds(Tail(s), t) <=> Holds(s, t) /\ t # Head(s)
           /\ Distinct(Tail(s))
<1>1. Len(s) \in Nat /\ Len(s) >= 1
  OBVIOUS
<1>2. /\ Tail(s) \in Seq(Thread) /\ Head(s) \in Thread /\ Head(s) = s[1]
      /\ Len(Tail(s)) = Len(s) - 1
      /\ \A i \in 1 .. Len(s) - 1 : Tail(s)[i] = s[i + 1]
  OBVIOUS
<1>3. Holds(s, Head(s))
  BY <1>1, <1>2 DEF Holds
<1>4. ASSUME NEW t \in Thread, Holds(Tail(s), t)
      PROVE  Holds(s, t) /\ t # Head(s)
  <2>1. PICK i \in 1 .. Len(s) - 1 : Tail(s)[i] = t
    BY <1>2, <1>4 DEF Holds
  <2>2. i + 1 \in 1 .. Len(s) /\ s[i + 1] = t /\ i + 1 # 1 /\ 1 \in 1 .. Len(s)
    BY <1>1, <1>2, <2>1
  <2> QED
    BY <1>2, <2>2 DEF Holds, Distinct
<1>5. ASSUME NEW t \in Thread, Holds(s, t), t # Head(s)
      PROVE  Holds(Tail(s), t)
  <2>1. PICK i \in 1 .. Len(s) : s[i] = t
    BY <1>5 DEF Holds
  <2>2. i - 1 \in 1 .. Len(s) - 1 /\ (i - 1) + 1 = i
    BY <1>1, <1>2, <1>5, <2>1
  <2>3. Tail(s)[i - 1] = t
    BY <1>2, <2>1, <2>2
  <2> QED
    BY <1>2, <2>2, <2>3 DEF Holds
<1>6. Distinct(Tail(s))
  BY <1>1, <1>2 DEF Distinct
<1> QED
  BY <1>2, <1>3, <1>4, <1>5, <1>6

-----------------------------------------------------------------------------
(* The inductive invariant.                                                *)

\* Before the first dispatch nothing has happened but calls of add.
BootOK == current = Null => /\ leaving = {}
                            /\ \A t \in Thread : pc[t] = "start"

\* main adds each of the threads it still has to add once.
ToAddOK == /\ Distinct(toAdd)
           /\ \A t \in Thread : Holds(toAdd, t) => Holds(Added, t)

\* Only threads that main dispatches or adds ever run.
CurrentOK == current # Null => current = First \/ Holds(Added, current)

\* A thread between resume and yield has the CPU and interrupts off.  So the
\* timer finds no thread in the queue that runs as well.
CriticalSection == \A t \in Thread :
    pc[t] = "yield" /\ t \notin leaving => t = current /\ ~iflag

\* A thread whose function has returned only yields.
LeavingOK == \A t \in leaving : pc[t] \in {"yield", "gone", "abort"}

PlacesOK == pc[Null] \in {"boot", "abort"} /\ \A t \in Thread : pc[t] # "boot"

\* The thread that resumed itself is the last of the queue.
LastOK == current # Null /\ pc[current] = "yield" /\ current \notin leaving
              => queue # <<>> /\ queue[Len(queue)] = current

IInv == /\ TypeOK
        /\ EachThreadOnce
        /\ BootOK
        /\ ToAddOK
        /\ CurrentOK
        /\ CriticalSection
        /\ LeavingOK
        /\ PlacesOK
        /\ LastOK

-----------------------------------------------------------------------------
(* The type invariant is inductive by itself.                              *)

LEMMA DiskTypes ==
    ASSUME NEW d \in Disk
    PROVE  /\ IdleDisk \in Disk
           /\ \A b \in Block : SetBlock(d, b) \in Disk
           /\ \A op \in Operation : Command(d, op) \in Disk
           /\ MoveWord(d) \in Disk
           /\ BecomeReady(d) \in Disk
<1>1. Words \in Nat /\ Words > 0
  BY WordsAssumption
<1>2. d.left \in 0 .. Words /\ d.register \in Block \cup {NoBlock}
  BY DEF Disk
<1>3. IdleDisk \in Disk
  BY <1>1 DEF IdleDisk, Disk, Operation
<1>4. \A b \in Block : SetBlock(d, b) \in Disk
  BY DEF SetBlock, Disk
<1>5. \A op \in Operation : Command(d, op) \in Disk
  <2> TAKE op \in Operation
  <2> DEFINE e == [d EXCEPT !.op = op, !.block = d.register]
             f == [e EXCEPT !.status = "busy"]
  <2>1. e \in Disk
    BY <1>2 DEF Disk
  <2>2. f \in Disk
    BY <2>1 DEF Disk
  <2>3. Words \in 0 .. Words
    BY <1>1
  <2>4. Command(d, op) = [f EXCEPT !.left = Words]
    BY DEF Command
  <2> HIDE DEF f
  <2> QED
    BY <2>2, <2>3, <2>4 DEF Disk
<1>6. MoveWord(d) \in Disk
  <2> DEFINE l == IF d.left = 0 THEN 0 ELSE d.left - 1
             s == IF d.left <= 1 THEN "idle" ELSE d.status
             e == [d EXCEPT !.left = l]
  <2>1. l \in 0 .. Words
    BY <1>1, <1>2
  <2>2. s \in {"idle", "busy", "ready"}
    BY DEF Disk
  <2> HIDE DEF l, s
  <2>3. e \in Disk /\ e.status = d.status
    BY <2>1 DEF Disk
  <2>4. MoveWord(d) = [e EXCEPT !.status = s]
    BY <2>3 DEF MoveWord, l, s
  <2> HIDE DEF e
  <2> QED
    BY <2>2, <2>3, <2>4 DEF Disk
<1>7. BecomeReady(d) \in Disk
  BY DEF BecomeReady, Disk
<1> QED
  BY <1>3, <1>4, <1>5, <1>6, <1>7

LEMMA InitType == Init => TypeOK
<1> SUFFICES ASSUME Init PROVE TypeOK
  OBVIOUS
<1>1. pc \in [Actor -> PC]
  BY DEF Init, PC
<1>2. job \in [Thread -> [op : Operation, block : Block \cup {NoBlock}]]
  BY DEF Init, NoJob, Operation
<1>3. disk \in Disk
  <2>1. Words \in Nat
    BY WordsAssumption
  <2> QED
    BY <2>1 DEF Init, IdleDisk, Disk, Operation
<1>4. Added \in Seq(Thread)
  <2>1. Added \in Seq(Thread \ {First})
    BY ThreadsAssumption
  <2> QED
    BY <2>1, SeqMonotonic, Thread \ {First} \subseteq Thread
<1>5. ticks \in 0 .. Quantum - 1
  BY QuantumAssumption DEF Init
<1>6. queue \in Seq(Thread) /\ toAdd \in Seq(Thread)
  BY <1>4 DEF Init
<1>7. current \in Actor /\ leaving \subseteq Thread /\ handler \subseteq Thread
  BY DEF Init, Actor
<1>8. iflag \in BOOLEAN /\ inService \in BOOLEAN
  BY DEF Init
<1> QED
  BY <1>1, <1>2, <1>3, <1>5, <1>6, <1>7, <1>8 DEF TypeOK

\* Every step that stays with the current thread.
LEMMA GotoType ==
    ASSUME TypeOK, NEW l \in PC, Goto(l)
    PROVE  pc' \in [Actor -> PC]
BY DEF TypeOK, Goto

\* What switching the context to a thread does to the registers.
LEMMA SwitchType ==
    ASSUME NEW t \in Thread, NEW frames \in SUBSET Thread,
           NEW service \in BOOLEAN, SwitchTo(t, frames, service)
    PROVE  /\ current' = t /\ current' \in Actor
           /\ handler' \subseteq Thread
           /\ iflag' \in BOOLEAN /\ inService' \in BOOLEAN
BY DEF SwitchTo, Actor

LEMMA NextType == TypeOK /\ PlacesOK /\ [Next]_vars => TypeOK'
<1> SUFFICES ASSUME TypeOK, PlacesOK, [Next]_vars PROVE TypeOK'
  OBVIOUS
<1>u. Users \subseteq Thread /\ Terminating \subseteq Thread
  BY ThreadsAssumption
<1>n. current \notin Thread => current = Null /\ pc[current] \in {"boot", "abort"}
  BY DEF TypeOK, Actor, PlacesOK
<1>r. ASSUME Resume, current \in Thread PROVE TypeOK'
  <2>1. queue' \in Seq(Thread)
    BY <1>r, AppendFacts DEF TypeOK, Resume, Enqueue
  <2>2. pc' \in [Actor -> PC]
    BY <1>r, GotoType DEF Resume, PC
  <2> QED
    BY <1>r, <2>1, <2>2 DEF TypeOK, Resume, diskVars
<1>1. CASE Yield
  <2>1. CASE queue = <<>>
    <3>1. pc' \in [Actor -> PC]
      BY <1>1, <2>1, GotoType DEF Yield, PC
    <3> QED
      BY <1>1, <2>1, <3>1 DEF TypeOK, Yield, diskVars
  <2>2. CASE queue # <<>>
    <3>1. pc' \in [Actor -> PC]
      BY <1>1, <2>2, GotoType DEF Yield, AfterYield, PC
    <3>2. Head(queue) \in Thread /\ Tail(queue) \in Seq(Thread)
      BY <2>2 DEF TypeOK
    <3>3. /\ current' \in Actor /\ handler' \subseteq Thread
          /\ iflag' \in BOOLEAN /\ inService' \in BOOLEAN
      BY <1>1, <2>2, <3>2, SwitchType DEF TypeOK, Yield
    <3> QED
      BY <1>1, <2>2, <3>1, <3>2, <3>3 DEF TypeOK, Yield, diskVars
  <2> QED
    BY <2>1, <2>2
<1>2. CASE ThreadStart
  <2>1. pc' \in [Actor -> PC]
    BY <1>2, GotoType DEF ThreadStart, PC
  <2> QED
    BY <1>2, <2>1 DEF TypeOK, ThreadStart, diskVars
<1>3. CASE BootAdd
  <2>1. Head(toAdd) \in Thread /\ Tail(toAdd) \in Seq(Thread)
    BY <1>3 DEF BootAdd, TypeOK
  <2>2. queue' \in Seq(Thread)
    BY <1>3, <2>1, AppendFacts DEF BootAdd, TypeOK, Enqueue
  <2> QED
    BY <1>3, <2>1, <2>2 DEF BootAdd, TypeOK, cpuVars, diskVars
<1>4. CASE BootDispatch
  <2>1. /\ current' \in Actor /\ handler' \subseteq Thread
        /\ iflag' \in BOOLEAN /\ inService' \in BOOLEAN
    BY <1>4, SwitchType, ThreadsAssumption DEF TypeOK, BootDispatch
  <2> QED
    BY <1>4, <2>1 DEF TypeOK, BootDispatch, diskVars
<1>5. ASSUME NEW op \in Operation, NEW b \in Block, IssueBlock(op, b)
      PROVE  TypeOK'
  <2>1. pc' \in [Actor -> PC]
    BY <1>5, GotoType DEF IssueBlock, PC
  <2>2. disk' \in Disk
    BY <1>5, DiskTypes DEF IssueBlock, TypeOK
  <2>3. job' \in [Thread -> [op : Operation, block : Block \cup {NoBlock}]]
    BY <1>5, <1>u DEF IssueBlock, TypeOK
  <2> QED
    BY <1>5, <2>1, <2>2, <2>3 DEF TypeOK, IssueBlock, cpuVars
<1>6. CASE IssueCommand
  <2>1. pc' \in [Actor -> PC]
    BY <1>6, GotoType DEF IssueCommand, PC
  <2>2. current \in Thread
    BY <1>6, <1>n DEF IssueCommand, At
  <2>3. job[current].op \in Operation
    BY <2>2 DEF TypeOK
  <2>4. disk' \in Disk
    BY <1>6, <2>3, DiskTypes DEF IssueCommand, TypeOK
  <2> QED
    BY <1>6, <2>1, <2>4 DEF TypeOK, IssueCommand, cpuVars
<1>7. CASE Poll
  <2>1. pc' \in [Actor -> PC]
    BY <1>7, GotoType DEF Poll, PC
  <2> QED
    BY <1>7, <2>1 DEF TypeOK, Poll, cpuVars, diskVars
<1>8. CASE Wait
  BY <1>8, <1>r, <1>n DEF Wait, At
<1>9. CASE Move
  <2>1. disk' \in Disk
    BY <1>9, DiskTypes DEF Move, TypeOK
  <2>2. NoJob \in [op : Operation, block : Block \cup {NoBlock}]
    BY DEF NoJob, Operation
  <2>3. job' \in [Thread -> [op : Operation, block : Block \cup {NoBlock}]]
    BY <1>9, <2>2 DEF Move, TypeOK
  <2>4. pc' \in [Actor -> PC]
    BY <1>9, GotoType DEF Move, TypeOK, PC
  <2> QED
    BY <1>9, <2>1, <2>3, <2>4 DEF TypeOK, Move, cpuVars
<1>10. CASE PassOnCPU
  BY <1>10, <1>r, <1>n DEF PassOnCPU, At
<1>11. CASE Return
  <2>1. pc' \in [Actor -> PC]
    BY <1>11, GotoType DEF Return, PC
  <2> QED
    BY <1>11, <1>u, <2>1 DEF TypeOK, Return, cpuVars, diskVars
<1>12. CASE DiskReady
  BY <1>12, DiskTypes DEF TypeOK, DiskReady, cpuVars
<1>13. CASE Tick
  <2>1. ticks' \in 0 .. Quantum - 1
    BY <1>13, QuantumAssumption DEF TypeOK, Tick
  <2> QED
    BY <1>13, <2>1 DEF TypeOK, Tick, cpuVars, diskVars
<1>14. CASE EndOfQuantum
  <2> DEFINE q == Enqueue(queue, current)
  <2>1. current \in Thread
    BY <1>14 DEF EndOfQuantum, TypeOK, Actor
  <2>2. q \in Seq(Thread) /\ q # <<>>
    BY <2>1, AppendFacts DEF Enqueue, TypeOK
  <2>3. Head(q) \in Thread /\ Tail(q) \in Seq(Thread)
    BY <2>2
  <2>4. ticks' \in 0 .. Quantum - 1
    BY <1>14, QuantumAssumption DEF EndOfQuantum
  <2>5. SwitchTo(Head(q), handler \cup {current}, TRUE)
    BY <1>14 DEF EndOfQuantum
  <2>6. handler \cup {current} \in SUBSET Thread
    BY <2>1 DEF TypeOK
  <2>7. /\ current' \in Actor /\ handler' \subseteq Thread
        /\ iflag' \in BOOLEAN /\ inService' \in BOOLEAN
    BY <2>3, <2>5, <2>6, SwitchType
  <2> QED
    BY <1>14, <2>3, <2>4, <2>7 DEF EndOfQuantum, TypeOK, diskVars
<1>15. CASE UNCHANGED vars
  BY <1>15 DEF vars, cpuVars, diskVars, TypeOK
<1> QED
  BY <1>1, <1>2, <1>3, <1>4, <1>5, <1>6, <1>7, <1>8, <1>9, <1>10, <1>11, <1>12,
     <1>13, <1>14, <1>15 DEF Next, Kernel, Issue, Give

-----------------------------------------------------------------------------
(* Each step keeps the invariant.                                          *)

LEMMA InitInv == Init => IInv
<1> SUFFICES ASSUME Init PROVE IInv
  OBVIOUS
<1>1. TypeOK
  BY InitType
<1>2. \A t \in Thread : pc[t] = "start" /\ t # Null
  BY ThreadsAssumption DEF Init, Actor
<1>3. pc[Null] = "boot"
  BY DEF Init, Actor
<1>4. ToAddOK
  BY ThreadsAssumption DEF Init, ToAddOK, Distinct
<1>5. EachThreadOnce
  BY <1>2, <1>3 DEF Init, EachThreadOnce, Distinct, Holds, Queued
<1>6. BootOK /\ CurrentOK /\ LastOK
  BY <1>2 DEF Init, BootOK, CurrentOK, LastOK
<1>7. CriticalSection /\ LeavingOK /\ PlacesOK
  BY <1>2, <1>3 DEF Init, CriticalSection, LeavingOK, PlacesOK
<1> QED
  BY <1>1, <1>4, <1>5, <1>6, <1>7 DEF IInv

\* A thread that is not between resume and yield goes on to another statement
\* and leaves the queue alone.
LEMMA LocalStep ==
    ASSUME IInv, TypeOK', NEW l \in PC \ {"yield", "gone", "boot"},
           current \in Thread, pc[current] \notin {"yield", "gone", "abort"},
           Goto(l), UNCHANGED <<queue, current, toAdd, leaving>>
    PROVE  IInv'
<1>1. /\ pc'[current] = l
      /\ \A a \in Actor : a # current => pc'[a] = pc[a]
  BY DEF IInv, TypeOK, Goto, Actor
<1>2. current # Null /\ current \notin leaving
  BY ThreadsAssumption DEF IInv, LeavingOK
<1>3. \A t \in Thread : Queued(t)' <=> Queued(t)
  BY <1>1, <1>2 DEF Queued, Actor
<1>4. EachThreadOnce'
  BY <1>1, <1>3 DEF IInv, EachThreadOnce
<1>5. ToAddOK' /\ CurrentOK' /\ BootOK'
  BY <1>2 DEF IInv, ToAddOK, CurrentOK, BootOK
<1>6. CriticalSection'
  BY <1>1, <1>2 DEF IInv, CriticalSection, Actor
<1>7. LeavingOK' /\ PlacesOK' /\ LastOK'
  BY <1>1, <1>2 DEF IInv, LeavingOK, PlacesOK, LastOK, Actor, TypeOK
<1> QED
  BY <1>4, <1>5, <1>6, <1>7 DEF IInv

LEMMA ResumeStep ==
    ASSUME IInv, TypeOK', current \in Thread, Resume,
           pc[current] \notin {"yield", "gone", "abort"}
    PROVE  IInv'
<1>1. /\ pc'[current] = "yield"
      /\ \A a \in Actor : a # current => pc'[a] = pc[a]
  BY DEF IInv, TypeOK, Resume, Goto, Actor
<1>2. current # Null /\ current \notin leaving
  BY ThreadsAssumption DEF IInv, LeavingOK
<1>3. /\ queue' = Append(queue, current) /\ queue \in Seq(Thread)
      /\ UNCHANGED <<current, toAdd, leaving>> /\ iflag' = FALSE
  BY DEF Resume, Enqueue, IInv, TypeOK
<1>4. Distinct(queue) /\ \A t \in Thread : Holds(queue, t) <=> Queued(t)
  BY DEF IInv, EachThreadOnce
<1>5. ~Holds(queue, current)
  BY <1>4 DEF Queued
<1>6. /\ Distinct(queue')
      /\ \A t \in Thread : Holds(queue', t) <=> Holds(queue, t) \/ t = current
      /\ Len(queue') = Len(queue) + 1 /\ queue' # <<>>
      /\ queue'[Len(queue) + 1] = current
  BY <1>3, <1>4, <1>5, AppendFacts
<1>7. \A t \in Thread : Queued(t)' <=> Queued(t) \/ t = current
  BY <1>1, <1>2, <1>3 DEF Queued, Actor
<1>8. EachThreadOnce'
  BY <1>1, <1>3, <1>4, <1>6, <1>7 DEF EachThreadOnce
<1>9. ToAddOK' /\ CurrentOK' /\ BootOK'
  BY <1>2, <1>3 DEF IInv, ToAddOK, CurrentOK, BootOK
<1>10. CriticalSection'
  BY <1>1, <1>2, <1>3 DEF IInv, CriticalSection, Actor
<1>11. LeavingOK' /\ PlacesOK'
  BY <1>1, <1>2, <1>3 DEF IInv, LeavingOK, PlacesOK, Actor, TypeOK
<1>12. LastOK'
  BY <1>3, <1>6 DEF LastOK
<1> QED
  BY <1>8, <1>9, <1>10, <1>11, <1>12 DEF IInv

LEMMA ReturnStep ==
    ASSUME IInv, TypeOK', Return
    PROVE  IInv'
<1>0. current \in Thread /\ pc[current] = "body"
  BY ThreadsAssumption DEF Return, At
<1>1. /\ pc'[current] = "yield"
      /\ \A a \in Actor : a # current => pc'[a] = pc[a]
  BY <1>0 DEF IInv, TypeOK, Return, Goto, Actor
<1>2. current # Null
  BY <1>0, ThreadsAssumption
<1>3. UNCHANGED <<queue, current, toAdd>> /\ leaving' = leaving \cup {current}
  BY DEF Return
<1>4. \A t \in Thread : Queued(t)' <=> Queued(t)
  BY <1>0, <1>1, <1>2, <1>3 DEF Queued, Actor
<1>5. EachThreadOnce'
  BY <1>1, <1>3, <1>4 DEF IInv, EachThreadOnce
<1>6. ToAddOK' /\ CurrentOK' /\ BootOK'
  BY <1>2, <1>3 DEF IInv, ToAddOK, CurrentOK, BootOK
<1>7. CriticalSection'
  BY <1>0, <1>1, <1>3 DEF IInv, CriticalSection, Actor
<1>8. LeavingOK' /\ PlacesOK' /\ LastOK'
  BY <1>0, <1>1, <1>3 DEF IInv, LeavingOK, PlacesOK, LastOK, Actor, TypeOK
<1> QED
  BY <1>5, <1>6, <1>7, <1>8 DEF IInv

\* The CPU goes to the first of the queue: nothing in IInv is disturbed when the
\* others of the queue are those that should be there after the switch.
LEMMA HandOver ==
    ASSUME IInv, TypeOK', NEW q \in Seq(Thread), q # <<>>, Distinct(q),
           current # Null, current' = Head(q), queue' = Tail(q),
           UNCHANGED <<toAdd, leaving>>,
           \A a \in Actor : a # current => pc'[a] = pc[a],
           pc'[current] # "boot",
           pc'[current] = "yield" => current \in leaving,
           current \in leaving => pc'[current] \in {"yield", "gone", "abort"},
           \A t \in Thread : Holds(q, t) <=>
               pc'[t] # "gone" /\ (t = First \/ Holds(Added, t))
    PROVE  IInv'
<1>1. /\ Tail(q) \in Seq(Thread) /\ Head(q) \in Thread /\ Holds(q, Head(q))
      /\ \A t \in Thread : Holds(Tail(q), t) <=> Holds(q, t) /\ t # Head(q)
      /\ Distinct(Tail(q))
  BY TailFacts
<1>2. current' # Null /\ current' \in Thread /\ current \in Thread
  BY <1>1, ThreadsAssumption DEF IInv, TypeOK, Actor
<1>3. \A t \in Thread : ~(pc'[t] = "yield" /\ t \notin leaving)
  BY <1>2 DEF IInv, CriticalSection, Actor
<1>4. \A t \in Thread : Queued(t)' <=>
          t # Head(q) /\ pc'[t] # "gone" /\ (t = First \/ Holds(Added, t))
  BY <1>2, <1>3 DEF Queued
<1>5. EachThreadOnce'
  BY <1>1, <1>2, <1>4 DEF EachThreadOnce
<1>6. ToAddOK' /\ CurrentOK' /\ BootOK'
  BY <1>1, <1>2 DEF IInv, ToAddOK, CurrentOK, BootOK
<1>7. CriticalSection' /\ LastOK'
  BY <1>2, <1>3 DEF CriticalSection, LastOK
<1>8. LeavingOK'
  BY <1>2 DEF IInv, LeavingOK, TypeOK, Actor
<1>9. PlacesOK'
  BY <1>2, ThreadsAssumption DEF IInv, PlacesOK, Actor
<1> QED
  BY <1>5, <1>6, <1>7, <1>8, <1>9 DEF IInv

\* The threads that the kernel is to run, once it runs one: all that main
\* dispatched or added, but those that are gone.
LEMMA Runnable ==
    ASSUME IInv, current # Null, NEW t \in Thread
    PROVE  /\ t # current => (Holds(queue, t) <=>
                  pc[t] # "gone" /\ (t = First \/ Holds(Added, t)))
           /\ t = current => /\ pc[t] # "gone" /\ (t = First \/ Holds(Added, t))
                             /\ Holds(queue, t) <=> pc[t] = "yield" /\ t \notin leaving
BY DEF IInv, EachThreadOnce, Queued, CurrentOK

LEMMA YieldStep ==
    ASSUME IInv, TypeOK', Yield
    PROVE  IInv'
<1>0. /\ pc[current] = "yield" /\ current \in Thread /\ current # Null
      /\ queue \in Seq(Thread) /\ Distinct(queue)
      /\ UNCHANGED <<toAdd, leaving>>
  BY ThreadsAssumption DEF Yield, At, IInv, PlacesOK, TypeOK, Actor, EachThreadOnce
<1>1. CASE queue = <<>>
  <2>1. /\ pc'[current] = "abort"
        /\ \A a \in Actor : a # current => pc'[a] = pc[a]
        /\ UNCHANGED <<queue, current>>
    BY <1>0, <1>1 DEF IInv, TypeOK, Yield, Goto, Actor
  <2>2. current \in leaving
    BY <1>0, <1>1, Runnable DEF Holds
  <2>3. \A t \in Thread : Queued(t)' <=> Queued(t)
    BY <1>0, <2>1, <2>2 DEF Queued, Actor
  <2>4. EachThreadOnce'
    BY <2>1, <2>3 DEF IInv, EachThreadOnce
  <2>5. ToAddOK' /\ CurrentOK' /\ BootOK'
    BY <1>0, <2>1 DEF IInv, ToAddOK, CurrentOK, BootOK
  <2>6. CriticalSection'
    BY <1>0, <2>1, <2>2 DEF IInv, CriticalSection, Actor
  <2>7. LeavingOK' /\ PlacesOK' /\ LastOK'
    BY <1>0, <2>1, <2>2 DEF IInv, LeavingOK, PlacesOK, LastOK, Actor, TypeOK
  <2> QED
    BY <2>4, <2>5, <2>6, <2>7 DEF IInv
<1>2. CASE queue # <<>>
  <2>1. /\ pc'[current] = AfterYield
        /\ \A a \in Actor : a # current => pc'[a] = pc[a]
        /\ current' = Head(queue) /\ queue' = Tail(queue)
    BY <1>0, <1>2 DEF IInv, TypeOK, Yield, Goto, SwitchTo, Actor
  <2>2. /\ AfterYield \in {"gone", "poll", "body"}
        /\ AfterYield = "gone" <=> current \in leaving
    BY DEF AfterYield
  <2>3. \A t \in Thread : Holds(queue, t) <=>
            pc'[t] # "gone" /\ (t = First \/ Holds(Added, t))
    BY <1>0, <2>1, <2>2, Runnable DEF Actor
  <2> QED
    BY <1>0, <1>2, <2>1, <2>2, <2>3, HandOver
<1> QED
  BY <1>1, <1>2

LEMMA EndOfQuantumStep ==
    ASSUME IInv, TypeOK', EndOfQuantum
    PROVE  IInv'
<1> DEFINE q == Append(queue, current)
<1>0. /\ current \in Thread /\ current # Null /\ iflag
      /\ queue \in Seq(Thread) /\ Distinct(queue)
      /\ UNCHANGED <<pc, toAdd, leaving>>
      /\ current' = Head(q) /\ queue' = Tail(q)
  BY DEF EndOfQuantum, TimerPending, IInv, TypeOK, Actor, EachThreadOnce, SwitchTo,
         Enqueue
<1>1. ~Holds(queue, current)
  BY <1>0, Runnable DEF IInv, CriticalSection
<1>2. /\ q \in Seq(Thread) /\ q # <<>> /\ Distinct(q)
      /\ \A t \in Thread : Holds(q, t) <=> Holds(queue, t) \/ t = current
  BY <1>0, <1>1, AppendFacts
<1>3. \A t \in Thread : Holds(q, t) <=>
          pc'[t] # "gone" /\ (t = First \/ Holds(Added, t))
  BY <1>0, <1>2, Runnable
<1>4. pc'[current] # "boot"
  BY <1>0 DEF IInv, PlacesOK
<1>5. /\ current \in leaving => pc'[current] \in {"yield", "gone", "abort"}
      /\ pc'[current] = "yield" => current \in leaving
  BY <1>0 DEF IInv, LeavingOK, CriticalSection
<1> HIDE DEF q
<1> QED
  BY <1>0, <1>2, <1>3, <1>4, <1>5, HandOver

LEMMA BootAddStep ==
    ASSUME IInv, TypeOK', BootAdd
    PROVE  IInv'
<1> DEFINE x == Head(toAdd)
<1>0. current = Null /\ Null \notin Thread
  BY ThreadsAssumption DEF BootAdd, At, IInv, PlacesOK, TypeOK, Actor
<1>1. /\ queue' = Append(queue, x) /\ toAdd' = Tail(toAdd) /\ toAdd # <<>>
      /\ UNCHANGED <<current, pc, leaving, iflag>>
      /\ queue \in Seq(Thread) /\ toAdd \in Seq(Thread)
      /\ Distinct(queue) /\ Distinct(toAdd)
  BY DEF BootAdd, Enqueue, IInv, TypeOK, EachThreadOnce, ToAddOK, cpuVars
<1>2. /\ x \in Thread /\ Holds(toAdd, x) /\ Distinct(Tail(toAdd))
      /\ \A t \in Thread : Holds(Tail(toAdd), t) <=> Holds(toAdd, t) /\ t # x
  BY <1>1, TailFacts
<1>3. \A t \in Thread : Queued(t) <=>
          t # First /\ Holds(Added, t) /\ ~Holds(toAdd, t)
  BY <1>0 DEF Queued
<1>4. ~Holds(queue, x) /\ Holds(Added, x)
  BY <1>2, <1>3 DEF IInv, EachThreadOnce, ToAddOK
<1>5. x # First
  <2>1. PICK i \in 1 .. Len(Added) : Added[i] = x
    BY <1>4 DEF Holds
  <2> QED
    BY <2>1, ThreadsAssumption, ElementOfSeq
<1>6. /\ Distinct(queue')
      /\ \A t \in Thread : Holds(queue', t) <=> Holds(queue, t) \/ t = x
  BY <1>1, <1>2, <1>4, AppendFacts
<1>7. \A t \in Thread : Queued(t)' <=>
          t # First /\ Holds(Added, t) /\ ~Holds(toAdd', t)
  BY <1>0, <1>1 DEF Queued
<1>8. EachThreadOnce'
  BY <1>1, <1>2, <1>3, <1>4, <1>5, <1>6, <1>7 DEF IInv, EachThreadOnce
<1>9. ToAddOK'
  BY <1>1, <1>2 DEF IInv, ToAddOK
<1>10. BootOK' /\ CurrentOK' /\ LastOK'
  BY <1>0, <1>1 DEF IInv, BootOK, CurrentOK, LastOK
<1>11. CriticalSection' /\ LeavingOK' /\ PlacesOK'
  BY <1>1 DEF IInv, CriticalSection, LeavingOK, PlacesOK
<1> QED
  BY <1>8, <1>9, <1>10, <1>11 DEF IInv

LEMMA BootDispatchStep ==
    ASSUME IInv, TypeOK', BootDispatch
    PROVE  IInv'
<1>0. /\ current = Null /\ Null \notin Thread /\ First \in Thread
      /\ current' = First /\ toAdd = <<>>
      /\ UNCHANGED <<queue, pc, toAdd, leaving>>
  BY ThreadsAssumption
  DEF BootDispatch, At, IInv, PlacesOK, TypeOK, Actor, SwitchTo
<1>1. leaving = {} /\ \A t \in Thread : pc[t] = "start"
  BY <1>0 DEF IInv, BootOK
<1>2. ~Holds(Added, First)
  <2> SUFFICES ASSUME Holds(Added, First) PROVE FALSE
    OBVIOUS
  <2>1. PICK i \in 1 .. Len(Added) : Added[i] = First
    BY DEF Holds
  <2> QED
    BY <2>1, ThreadsAssumption, ElementOfSeq
<1>3. \A t \in Thread : Queued(t) <=> t # First /\ Holds(Added, t)
  BY <1>0 DEF Queued, Holds
<1>4. \A t \in Thread : Queued(t)' <=> t # First /\ Holds(Added, t)
  BY <1>0, <1>1 DEF Queued
<1>5. EachThreadOnce'
  BY <1>0, <1>1, <1>3, <1>4 DEF IInv, EachThreadOnce
<1>6. ToAddOK' /\ CurrentOK' /\ BootOK' /\ PlacesOK'
  BY <1>0 DEF IInv, ToAddOK, CurrentOK, BootOK, PlacesOK
<1>7. CriticalSection' /\ LeavingOK' /\ LastOK'
  BY <1>0, <1>1 DEF CriticalSection, LeavingOK, LastOK
<1> QED
  BY <1>5, <1>6, <1>7 DEF IInv

LEMMA NextInv == IInv /\ [Next]_vars => IInv'
<1> SUFFICES ASSUME IInv, [Next]_vars PROVE IInv'
  OBVIOUS
<1>t. TypeOK'
  BY NextType DEF IInv
<1>n. current \notin Thread => pc[current] \in {"boot", "abort"}
  BY DEF IInv, TypeOK, PlacesOK, Actor
<1>u. Users \subseteq Thread
  BY ThreadsAssumption
<1>1. CASE Yield
  BY <1>1, <1>t, YieldStep
<1>2. CASE ThreadStart
  <2>1. \E l \in PC \ {"yield", "gone", "boot"} : Goto(l)
    BY <1>2 DEF ThreadStart, PC
  <2> QED
    BY <1>2, <1>t, <1>n, <2>1, LocalStep DEF ThreadStart, At
<1>3. CASE BootAdd
  BY <1>3, <1>t, BootAddStep
<1>4. CASE BootDispatch
  BY <1>4, <1>t, BootDispatchStep
<1>5. CASE Issue
  <2>1. PICK op \in Operation, b \in Block : IssueBlock(op, b)
    BY <1>5 DEF Issue
  <2> QED
    BY <2>1, <1>t, <1>u, LocalStep DEF IssueBlock, At, PC
<1>6. CASE IssueCommand
  BY <1>6, <1>t, <1>n, LocalStep DEF IssueCommand, At, PC
<1>7. CASE Poll
  <2>1. \E l \in PC \ {"yield", "gone", "boot"} : Goto(l)
    BY <1>7 DEF Poll, PC
  <2> QED
    BY <1>7, <1>t, <1>n, <2>1, LocalStep DEF Poll, diskVars, At
<1>8. CASE Wait
  BY <1>8, <1>t, <1>n, ResumeStep DEF Wait, At
<1>9. CASE Move
  <2>1. pc[current] = "move" /\ current \in Thread
    BY <1>9, <1>n DEF Move, At
  <2>2. Goto("body") \/ Goto("move")
    BY <1>9, <2>1 DEF Move, Goto, IInv, TypeOK
  <2> QED
    BY <1>9, <1>t, <2>1, <2>2, LocalStep DEF Move, PC
<1>10. CASE PassOnCPU
  BY <1>10, <1>t, <1>n, ResumeStep DEF PassOnCPU, At
<1>11. CASE Return
  BY <1>11, <1>t, ReturnStep
<1>12. CASE EndOfQuantum
  BY <1>12, <1>t, EndOfQuantumStep
<1>13. CASE DiskReady \/ Tick \/ UNCHANGED vars
  <2>1. UNCHANGED <<queue, current, pc, toAdd, leaving, iflag>>
    BY <1>13 DEF DiskReady, Tick, vars, cpuVars
  <2>2. \A t \in Thread : Queued(t)' <=> Queued(t)
    BY <2>1 DEF Queued
  <2>3. EachThreadOnce'
    BY <2>1, <2>2 DEF IInv, EachThreadOnce
  <2> QED
    BY <1>t, <2>1, <2>3 DEF IInv, BootOK, ToAddOK, CurrentOK, CriticalSection,
                            LeavingOK, PlacesOK, LastOK
<1> QED
  BY <1>1, <1>2, <1>3, <1>4, <1>5, <1>6, <1>7, <1>8, <1>9, <1>10, <1>11, <1>12,
     <1>13 DEF Next, Kernel, Give

LEMMA Invariance == Spec => []IInv
<1> QED
  BY InitInv, NextInv, PTL DEF Spec

-----------------------------------------------------------------------------
\* The scheduler, the processor and the disk registers keep their types, for
\* every number of threads, quantum and size of the disk.
THEOREM TypeCorrect == Spec => []TypeOK
<1>1. IInv => TypeOK
  BY DEF IInv
<1> QED
  BY <1>1, Invariance, PTL

\* The calls of resume and yield, by threads, the disk driver and the timer,
\* never put a thread in the ready queue twice and never drop one.
THEOREM QueueCorrect == Spec => []EachThreadOnce
<1>1. IInv => EachThreadOnce
  BY DEF IInv
<1> QED
  BY <1>1, Invariance, PTL

\* A thread that resumed itself cannot be preempted before it yields: this is
\* what disabling the interrupts in resume is for (scheduler.C).
THEOREM MutualExclusion == Spec => []CriticalSection
<1>1. IInv => CriticalSection
  BY DEF IInv
<1> QED
  BY <1>1, Invariance, PTL

-----------------------------------------------------------------------------
(* The disk, when one thread uses it, as in kernel.C.                      *)

OneUser == \A s, t \in Users : s = t

\* The disk is at the operation t has asked for.
Given(t) == /\ disk.status \in {"busy", "ready"}
            /\ disk.op = job[t].op
            /\ disk.block = job[t].block

InDriver == {"command", "poll", "wait", "move"}

\* What a thread in read or write may rely on, at each of its places.
DiskOK == \A t \in Thread :
    /\ pc[t] \in InDriver \/ job[t] # NoJob => t \in Users
    /\ pc[t] \in {"start", "body"} => job[t] = NoJob
    /\ pc[t] = "command" => disk.register = job[t].block
    /\ pc[t] \in {"poll", "wait"} => Given(t)
    /\ pc[t] = "yield" /\ job[t] # NoJob => Given(t)
    /\ pc[t] = "move" => Given(t) /\ disk.status = "ready"

LEMMA DiskInit == Init => DiskOK
BY ThreadsAssumption DEF Init, DiskOK, Actor, InDriver

\* A step of the current thread that leaves the disk and the jobs alone.
LEMMA SameDisk ==
    ASSUME IInv, DiskOK, current \in Thread, UNCHANGED diskVars,
           NEW l \in PC, Goto(l),
           l \in InDriver \cup {"start"} => l = pc[current],
           l = "body" => job[current] = NoJob,
           l = "yield" /\ job[current] # NoJob => Given(current)
    PROVE  DiskOK'
<1>1. /\ \A t \in Thread : pc'[t] = IF t = current THEN l ELSE pc[t]
      /\ job' = job /\ disk' = disk
  BY DEF IInv, TypeOK, Goto, Actor, diskVars
<1> QED
  BY <1>1 DEF DiskOK, Given, InDriver

\* A step of the driver by the one user of the disk: the others are elsewhere.
LEMMA DriverStep ==
    ASSUME IInv, OneUser, DiskOK, current \in Users, NEW l \in InDriver \cup {"body"},
           Goto(l),
           \A t \in Thread \ {current} : job'[t] = job[t],
           l = "body" => job'[current] = NoJob,
           l = "command" => disk'.register = job'[current].block,
           \A t \in {current} : l \in {"poll", "wait", "move"} => Given(t)',
           l = "move" => disk'.status = "ready"
    PROVE  DiskOK'
<1>1. /\ \A t \in Thread : pc'[t] = IF t = current THEN l ELSE pc[t]
      /\ current \in Thread
  BY ThreadsAssumption DEF IInv, TypeOK, Goto, Actor
<1>2. ASSUME NEW t \in Thread \ {current}
      PROVE  pc'[t] \notin InDriver /\ job'[t] = NoJob
  BY <1>1 DEF DiskOK, OneUser
<1> QED
  BY <1>1, <1>2 DEF DiskOK, InDriver, Given

LEMMA DiskNext == OneUser /\ IInv /\ DiskOK /\ [Next]_vars => DiskOK'
<1> SUFFICES ASSUME OneUser, IInv, DiskOK, [Next]_vars PROVE DiskOK'
  OBVIOUS
<1>t. /\ current \in Actor /\ pc \in [Actor -> PC] /\ disk \in Disk
      /\ job \in [Thread -> [op : Operation, block : Block \cup {NoBlock}]]
      /\ Users \subseteq Thread
  BY ThreadsAssumption DEF IInv, TypeOK
<1>n. pc[current] \notin {"boot", "abort"} => current \in Thread
  BY <1>t DEF IInv, PlacesOK, Actor
<1>u. pc[current] \in InDriver => current \in Users
  BY <1>n DEF DiskOK, InDriver
<1>1. CASE Yield
  <2>1. current \in Thread /\ pc[current] = "yield"
    BY <1>1, <1>n DEF Yield, At
  <2>2. /\ UNCHANGED diskVars
        /\ Goto("abort") \/ Goto(AfterYield)
    BY <1>1 DEF Yield
  <2>3. CASE AfterYield = "poll"
    <3>1. job[current] # NoJob /\ current \in Users /\ Given(current)
      BY <2>1, <2>3 DEF AfterYield, DiskOK
    <3>2. CASE Goto("poll")
      <4>1. \A t \in {current} : Given(t)'
        BY <2>2, <3>1 DEF diskVars, Given
      <4> QED
        BY <2>2, <3>1, <3>2, <4>1, DriverStep DEF diskVars, InDriver
    <3> QED
      BY <2>1, <2>2, <2>3, <3>2, SameDisk DEF PC, InDriver
  <2>4. CASE AfterYield # "poll"
    <3>1. PICK l \in {"abort", "gone", "body"} :
              Goto(l) /\ (l = "body" => job[current] = NoJob)
      BY <2>2, <2>4 DEF AfterYield
    <3> QED
      BY <2>1, <2>2, <3>1, SameDisk DEF PC, InDriver
  <2> QED
    BY <2>3, <2>4
<1>2. CASE ThreadStart
  <2>1. current \in Thread /\ job[current] = NoJob /\ UNCHANGED diskVars
    BY <1>2, <1>n DEF ThreadStart, At, DiskOK
  <2>2. PICK l \in {"abort", "body"} : Goto(l)
    BY <1>2 DEF ThreadStart
  <2> QED
    BY <2>1, <2>2, SameDisk DEF PC, InDriver
<1>3. CASE Issue
  <2>1. PICK op \in Operation, b \in Block : IssueBlock(op, b)
    BY <1>3 DEF Issue
  <2>2. /\ job'[current].block = b
        /\ \A t \in Thread \ {current} : job'[t] = job[t]
        /\ disk'.register = b
    BY <2>1, <1>t DEF IssueBlock, SetBlock, Disk
  <2> QED
    BY <2>1, <2>2, DriverStep DEF IssueBlock, InDriver
<1>4. CASE IssueCommand
  <2>1. current \in Users /\ disk.register = job[current].block
    BY <1>4, <1>n, <1>u DEF IssueCommand, At, DiskOK, InDriver
  <2>2. /\ disk'.status = "busy" /\ disk'.op = job[current].op
        /\ disk'.block = disk.register /\ job' = job
    BY <1>4, <1>t DEF IssueCommand, Command, Disk
  <2>3. \A t \in {current} : Given(t)'
    BY <1>4, <2>1, <2>2 DEF IssueCommand, Given
  <2> QED
    BY <1>4, <2>1, <2>2, <2>3, DriverStep DEF IssueCommand, InDriver
<1>5. CASE Poll
  <2>1. current \in Users /\ Given(current) /\ UNCHANGED <<diskVars, current>>
    BY <1>5, <1>n, <1>u DEF Poll, At, DiskOK, InDriver
  <2>2. \A t \in {current} : Given(t)'
    BY <2>1 DEF Given, diskVars
  <2> QED
    BY <1>5, <2>1, <2>2, DriverStep DEF Poll, IsReady, InDriver, diskVars
<1>6. CASE Wait \/ PassOnCPU
  <2>1. current \in Thread /\ Goto("yield") /\ UNCHANGED diskVars
    BY <1>6, <1>n DEF Wait, PassOnCPU, At, Resume
  <2>2. job[current] # NoJob => Given(current)
    BY <1>6, <2>1 DEF Wait, PassOnCPU, At, DiskOK
  <2> QED
    BY <2>1, <2>2, SameDisk DEF PC, InDriver
<1>7. CASE Move
  <2>1. /\ current \in Users /\ Given(current) /\ disk.status = "ready"
        /\ pc[current] = "move" /\ current' = current
    BY <1>7, <1>n, <1>u DEF Move, At, DiskOK, InDriver
  <2>2. CASE disk.left <= 1
    <3>1. /\ Goto("body") /\ job'[current] = NoJob
          /\ \A t \in Thread \ {current} : job'[t] = job[t]
      BY <1>7, <1>t, <2>1, <2>2 DEF Move
    <3> QED
      BY <2>1, <3>1, DriverStep DEF InDriver
  <2>3. CASE ~(disk.left <= 1)
    <3>1. /\ disk'.status = "ready" /\ disk'.op = disk.op
          /\ disk'.block = disk.block /\ job' = job
      BY <1>7, <1>t, <2>1, <2>3 DEF Move, MoveWord, Disk
    <3>2. Goto("move")
      BY <1>7, <1>t, <2>1, <2>3 DEF Move, Goto
    <3>3. Given(current)'
      BY <2>1, <3>1 DEF Given
    <3> QED
      BY <2>1, <3>1, <3>2, <3>3, DriverStep DEF InDriver
  <2> QED
    BY <2>2, <2>3
<1>8. CASE Return
  <2>1. current \in Thread /\ job[current] = NoJob
    BY <1>8, <1>n DEF Return, At, DiskOK
  <2> QED
    BY <1>8, <2>1, SameDisk DEF Return, PC, InDriver
<1>9. CASE DiskReady
  <2>1. /\ disk'.status = "ready" /\ disk'.op = disk.op
        /\ disk'.block = disk.block /\ disk'.register = disk.register
        /\ disk.status = "busy" /\ UNCHANGED <<pc, job>>
    BY <1>9, <1>t DEF DiskReady, BecomeReady, Disk
  <2> QED
    BY <2>1 DEF DiskOK, Given
<1>10. CASE BootAdd \/ BootDispatch \/ Tick \/ EndOfQuantum \/ UNCHANGED vars
  <2>1. UNCHANGED <<pc, diskVars>>
    BY <1>10 DEF BootAdd, BootDispatch, Tick, EndOfQuantum, vars
  <2> QED
    BY <2>1 DEF DiskOK, Given, diskVars
<1> QED
  BY <1>1, <1>2, <1>3, <1>4, <1>5, <1>6, <1>7, <1>8, <1>9, <1>10 DEF Next, Kernel, Give

\* With one thread that uses the disk, as thread2 in kernel.C, what read and write
\* move are the words of the block they were called for, however often the
\* thread gives up the CPU or loses it between two words.
THEOREM OwnBlockCorrect ==
    ASSUME OneUser
    PROVE  Spec => []OwnBlock
<1>1. DiskOK => OwnBlock
  BY DEF DiskOK, OwnBlock, Given
<1> QED
  BY <1>1, DiskInit, DiskNext, Invariance, PTL DEF Spec

-----------------------------------------------------------------------------
(* The refinement: switches are the steps of the round robin, all else     *)
(* stutters.                                                               *)

LEMMA FrontFacts ==
    ASSUME NEW s \in Seq(Thread), NEW x \in Thread
    PROVE  /\ SubSeq(Append(s, x), 1, Len(Append(s, x)) - 1) = s
           /\ s # <<>> /\ s[Len(s)] = x => Append(SubSeq(s, 1, Len(s) - 1), x) = s
<1>1. Len(s) \in Nat /\ (s # <<>> => Len(s) >= 1)
  OBVIOUS
<1>2. SubSeq(Append(s, x), 1, Len(Append(s, x)) - 1) = s
  BY <1>1
<1>3. ASSUME s # <<>>, s[Len(s)] = x
      PROVE  Append(SubSeq(s, 1, Len(s) - 1), x) = s
  BY <1>1, <1>3
<1> QED
  BY <1>2, <1>3

\* Only where a thread has resumed itself does the queue run ahead.
LEMMA ReadyIsQueue ==
    ASSUME CriticalSection, iflag \/ current = Null \/ pc[current] # "yield"
                                 \/ current \in leaving,
           current \in Actor
    PROVE  ready = queue
BY DEF ready, CriticalSection, Actor

LEMMA InitReady == Init => RR!Init
BY DEF Init, RR!Init, ready

LEMMA NextReady == IInv /\ IInv' /\ [Next]_vars => [RR!Next]_(RR!vars)
<1> SUFFICES ASSUME IInv, IInv', [Next]_vars PROVE [RR!Next]_(RR!vars)
  OBVIOUS
<1>t. /\ queue \in Seq(Thread) /\ current \in Actor /\ current' \in Actor
      /\ CriticalSection /\ CriticalSection' /\ Null \notin Thread
      /\ current # Null => current \in Thread
      /\ current = Null => pc[current] \in {"boot", "abort"}
  BY ThreadsAssumption DEF IInv, TypeOK, PlacesOK, Actor
<1>r. ASSUME Resume, pc[current] \in {"body", "wait"}
      PROVE  UNCHANGED RR!vars
  <2>0. current \in Thread /\ current # Null /\ current \notin leaving
    BY <1>r, <1>t DEF IInv, LeavingOK
  <2>1. /\ queue' = Append(queue, current) /\ current' = current
        /\ pc'[current] = "yield" /\ leaving' = leaving
    BY <1>r DEF Resume, Enqueue, Goto, IInv, TypeOK, Actor
  <2>2. ready = queue
    BY <1>r, <1>t, ReadyIsQueue
  <2>3. ready' = SubSeq(queue', 1, Len(queue') - 1)
    BY <2>0, <2>1 DEF ready
  <2>4. ready' = queue
    BY <1>t, <2>0, <2>1, <2>3, FrontFacts
  <2> QED
    BY <2>1, <2>2, <2>4 DEF RR!vars
\* Where no switch is made and nobody is between resume and yield, before or
\* after, what happens is not the abstract scheduler's.
<1>s. ASSUME UNCHANGED <<queue, current>>,
             pc[current] = "yield" => current \in leaving,
             pc'[current] = "yield" => current \in leaving'
      PROVE  UNCHANGED RR!vars
  BY <1>s DEF RR!vars, ready
<1>1. CASE Yield
  <2>1. current \in Thread /\ current # Null /\ pc[current] = "yield"
    BY <1>1, <1>t DEF Yield, At
  <2>2. CASE queue = <<>>
    <3>1. /\ current \in leaving
          /\ UNCHANGED <<queue, current, leaving>>
      BY <1>1, <2>1, <2>2 DEF Yield, IInv, LastOK
    <3> QED
      BY <1>s, <3>1
  <2>3. CASE queue # <<>>
    <3>1. current' = Head(queue) /\ queue' = Tail(queue)
      BY <1>1, <2>3 DEF Yield, SwitchTo
    <3>2. current' \in Thread
      BY <1>t, <2>3, <3>1
    <3>3. ~(pc'[current'] = "yield" /\ current' \notin leaving')
      <4>1. /\ pc'[current] # "yield"
            /\ \A a \in Actor : a # current => pc'[a] = pc[a]
            /\ leaving' = leaving
        BY <1>1, <2>3 DEF Yield, Goto, AfterYield, IInv, TypeOK
      <4> QED
        BY <1>t, <2>1, <3>2, <4>1 DEF CriticalSection
    <3>4. ready' = Tail(queue)
      BY <3>1, <3>3 DEF ready
    <3>5. CASE current \in leaving
      <4>1. ready = queue
        BY <3>5 DEF ready
      <4>2. RR!Finish
        BY <2>1, <2>3, <3>1, <3>4, <4>1 DEF RR!Finish
      <4> QED
        BY <4>2 DEF RR!Next
    <3>6. CASE current \notin leaving
      <4>1. queue[Len(queue)] = current
        BY <2>1, <3>6 DEF IInv, LastOK
      <4>2. Append(ready, current) = queue
        BY <1>t, <2>1, <2>3, <3>6, <4>1, FrontFacts DEF ready
      <4>3. RR!Rotate
        BY <2>1, <3>1, <3>4, <4>2 DEF RR!Rotate
      <4> QED
        BY <4>3 DEF RR!Next
    <3> QED
      BY <3>5, <3>6
  <2> QED
    BY <2>2, <2>3
<1>2. CASE ThreadStart
  <2>1. pc[current] # "yield" /\ pc'[current] # "yield"
    BY <1>2, <1>t DEF ThreadStart, At, Goto, IInv, TypeOK
  <2> QED
    BY <1>2, <1>s, <2>1 DEF ThreadStart
<1>3. CASE BootAdd
  <2>1. current = Null /\ toAdd \in Seq(Thread) /\ toAdd # <<>>
    BY <1>3, <1>t DEF BootAdd, At, IInv, PlacesOK, TypeOK, Actor
  <2>2. Head(toAdd) \in Thread
    BY <2>1
  <2>3. RR!Admit(Head(toAdd))
    BY <1>3, <2>1 DEF BootAdd, RR!Admit, Enqueue, ready
  <2> QED
    BY <2>2, <2>3 DEF RR!Next
<1>4. CASE BootDispatch
  <2>1. current = Null /\ First \in Thread
    BY <1>4, ThreadsAssumption DEF BootDispatch, At, IInv, PlacesOK, TypeOK, Actor
  <2>2. /\ current' = First /\ queue' = queue /\ pc' = pc
        /\ pc[First] = "start"
    BY <1>4, <2>1 DEF BootDispatch, SwitchTo, IInv, BootOK
  <2>3. ready = queue /\ ready' = queue
    BY <2>1, <2>2 DEF ready
  <2>4. RR!Start(First)
    BY <2>1, <2>2, <2>3 DEF RR!Start
  <2> QED
    BY <2>1, <2>4 DEF RR!Next
<1>5. CASE Issue
  <2>1. PICK op \in Operation, b \in Block : IssueBlock(op, b)
    BY <1>5 DEF Issue
  <2>2. pc[current] # "yield" /\ pc'[current] # "yield"
    BY <2>1, <1>t DEF IssueBlock, At, Goto, IInv, TypeOK
  <2> QED
    BY <1>s, <2>1, <2>2 DEF IssueBlock
<1>6. CASE IssueCommand
  <2>1. pc[current] # "yield" /\ pc'[current] # "yield"
    BY <1>6, <1>t DEF IssueCommand, At, Goto, IInv, TypeOK
  <2> QED
    BY <1>6, <1>s, <2>1 DEF IssueCommand
<1>7. CASE Poll
  <2>1. pc[current] # "yield" /\ pc'[current] # "yield"
    BY <1>7, <1>t DEF Poll, At, Goto, IInv, TypeOK
  <2> QED
    BY <1>7, <1>s, <2>1 DEF Poll
<1>8. CASE Wait
  BY <1>8, <1>r DEF Wait, At
<1>9. CASE Move
  <2>1. pc[current] # "yield" /\ pc'[current] # "yield"
    BY <1>9, <1>t DEF Move, At, Goto, IInv, TypeOK
  <2> QED
    BY <1>9, <1>s, <2>1 DEF Move
<1>10. CASE PassOnCPU
  BY <1>10, <1>r DEF PassOnCPU, At
<1>11. CASE Return
  <2>1. /\ pc[current] # "yield" /\ current \in leaving'
        /\ UNCHANGED <<queue, current>>
    BY <1>11 DEF Return, At
  <2> QED
    BY <1>s, <2>1
<1>12. CASE DiskReady \/ Tick \/ UNCHANGED vars
  BY <1>12 DEF DiskReady, Tick, vars, cpuVars, RR!vars, ready
<1>13. CASE EndOfQuantum
  <2>1. /\ iflag /\ current # Null
        /\ current' = Head(Append(queue, current))
        /\ queue' = Tail(Append(queue, current))
        /\ UNCHANGED <<pc, leaving>>
    BY <1>13 DEF EndOfQuantum, TimerPending, SwitchTo, Enqueue
  <2>2. ready = queue
    BY <1>t, <2>1, ReadyIsQueue
  <2>3. ready' = queue'
    BY <1>t, <2>1 DEF ready, CriticalSection, Actor
  <2>4. RR!Rotate
    BY <2>1, <2>2, <2>3 DEF RR!Rotate
  <2> QED
    BY <2>4 DEF RR!Next
<1> QED
  BY <1>1, <1>2, <1>3, <1>4, <1>5, <1>6, <1>7, <1>8, <1>9, <1>10, <1>11, <1>12,
     <1>13 DEF Next, Kernel, Give

\* For any number of threads, whatever mix of voluntary and timed switches and
\* of waits for the disk there is, the threads take turns as in a round robin.
THEOREM Refinement == Spec => ImplementsRoundRobin
<1>1. IInv /\ IInv' /\ [Next]_vars => [RR!Next]_(RR!vars)
  BY NextReady
<1> QED
  BY <1>1, InitReady, Invariance, PTL DEF Spec, ImplementsRoundRobin, RR!Spec

-----------------------------------------------------------------------------
(* The linked queue.                                                       *)

QueueTypeOK ==
    /\ start_address \in Int /\ FirstFrame <= start_address
    /\ val \in [Addresses -> Element \cup {NoElement}]
    /\ next \in [Addresses -> Addresses \cup {NoNode}]
    /\ head \in Addresses \cup {NoNode} /\ tail \in Addresses \cup {NoNode}
    /\ size \in Int
    /\ chain \in Seq(Addresses)

QueueIInv == QueueTypeOK /\ Linked

USE DEF NoNode

LEMMA AddressType == Addresses \subseteq Int /\ NoNode \notin Addresses
BY LinkedAssumption DEF Addresses

\* The chain of a constructed queue: its length and its nodes.
LEMMA ChainOf ==
    ASSUME QueueIInv, head # NoNode
    PROVE  /\ Len(chain) \in Nat /\ Len(chain) = size + 1 /\ Len(chain) >= 1
           /\ \A i \in 1 .. Len(chain) : chain[i] \in Addresses
           /\ head = chain[1] /\ tail = chain[Len(chain)]
           /\ \A i \in 1 .. Len(chain) - 1 : next[chain[i]] = chain[i + 1]
           /\ next[tail] = NoNode
BY DEF QueueIInv, QueueTypeOK, Linked

\* No node is twice in the list, and none lies in memory still to be handed out.
LEMMA DistinctNodes ==
    ASSUME QueueIInv, head # NoNode
    PROVE  /\ \A i, j \in 1 .. Len(chain) : i # j => chain[i] # chain[j]
           /\ \A i \in 1 .. Len(chain) : chain[i] < start_address
<1>1. /\ \A i, j \in 1 .. Len(chain) : i < j => chain[i] + NodeSize <= chain[j]
      /\ \A i \in 1 .. Len(chain) : chain[i] + NodeSize <= start_address
      /\ \A i \in 1 .. Len(chain) : chain[i] \in Int
  BY ChainOf, AddressType DEF QueueIInv, Linked
<1>2. ASSUME NEW i \in 1 .. Len(chain), NEW j \in 1 .. Len(chain), i < j
      PROVE  chain[i] # chain[j]
  <2>1. chain[i] + NodeSize <= chain[j] /\ chain[i] \in Int
    BY <1>1, <1>2
  <2> QED
    BY <2>1, LinkedAssumption
<1>3. ASSUME NEW i \in 1 .. Len(chain) PROVE chain[i] < start_address
  BY <1>1, <1>3, LinkedAssumption DEF QueueIInv, QueueTypeOK
<1>4. ASSUME NEW i \in 1 .. Len(chain), NEW j \in 1 .. Len(chain), i # j
      PROVE  chain[i] # chain[j]
  <2>1. CASE i < j
    BY <1>2, <2>1
  <2>2. CASE j < i
    BY <1>2, <2>2
  <2> QED
    BY <1>4, <2>1, <2>2
<1> QED
  BY <1>3, <1>4

LEMMA QueueInitInv == QueueInit => QueueIInv
<1> SUFFICES ASSUME QueueInit PROVE QueueIInv
  OBVIOUS
<1>1. QueueTypeOK
  BY LinkedAssumption, EmptySeq DEF QueueInit, QueueTypeOK
<1> QED
  BY <1>1 DEF QueueInit, QueueIInv, Linked

LEMMA NewObjectInv == ASSUME QueueIInv, NEW n \in ObjectSizes, NewObject(n) PROVE QueueIInv'
<1>1. /\ start_address' = start_address + n
      /\ UNCHANGED <<val, next, head, tail, size, element, aborted, chain>>
  BY DEF NewObject, Allocate
<1>2. QueueTypeOK'
  BY <1>1, LinkedAssumption DEF QueueIInv, QueueTypeOK
<1>3. CASE head = NoNode
  BY <1>1, <1>2, <1>3 DEF QueueIInv, Linked
<1>4. CASE head # NoNode
  <2>1. ASSUME NEW i \in 1 .. Len(chain) PROVE chain[i] + NodeSize <= start_address + n
    <3>1. chain[i] + NodeSize <= start_address /\ chain[i] \in Int
      BY <1>4, ChainOf, AddressType DEF QueueIInv, Linked
    <3> QED
      BY <3>1, LinkedAssumption DEF QueueIInv, QueueTypeOK
  <2> QED
    BY <1>1, <1>2, <1>4, <2>1 DEF QueueIInv, Linked
<1> QED
  BY <1>3, <1>4

LEMMA ConstructInv == ASSUME QueueIInv, Construct PROVE QueueIInv'
<1> DEFINE dummy == start_address + NodeSize
<1>1. /\ dummy \in Addresses /\ dummy # NoNode
      /\ start_address' = start_address + 2 * NodeSize
      /\ val' = [val EXCEPT ![dummy] = NoElement]
      /\ next' = [next EXCEPT ![dummy] = NoNode]
      /\ head' = dummy /\ tail' = dummy /\ size' = 0
      /\ chain' = <<dummy>>
  BY LinkedAssumption DEF Construct, Room, Allocate, QueueIInv, QueueTypeOK, Addresses
<1>4. dummy + NodeSize <= start_address'
  BY <1>1, LinkedAssumption DEF QueueIInv, QueueTypeOK
<1>7. FirstFrame <= start_address' /\ start_address' \in Int
  BY <1>1, LinkedAssumption DEF QueueIInv, QueueTypeOK
<1> HIDE DEF dummy
<1>2. chain' \in Seq(Addresses) /\ Len(chain') = 1 /\ chain'[1] = dummy
  BY <1>1
<1>3. QueueTypeOK'
  BY <1>1, <1>2, <1>7 DEF QueueIInv, QueueTypeOK
<1>5. next'[dummy] = NoNode
  BY <1>1 DEF QueueIInv, QueueTypeOK
<1>6. Linked'
  BY <1>1, <1>2, <1>4, <1>5, LinkedAssumption DEF Linked
<1> QED
  BY <1>3, <1>6 DEF QueueIInv

LEMMA EnqueueInv == ASSUME QueueIInv, NEW t \in Element, EnqueueNode(t) PROVE QueueIInv'
<1> DEFINE n == start_address
<1>1. /\ head # NoNode
      /\ n \in Addresses /\ n # NoNode
      /\ start_address' = n + NodeSize
      /\ val' = [val EXCEPT ![n] = t]
      /\ next' = [next EXCEPT ![n] = NoNode, ![tail] = n]
      /\ tail' = n /\ size' = size + 1 /\ head' = head
      /\ chain' = Append(chain, n)
  BY LinkedAssumption DEF EnqueueNode, Ready, Room, Allocate, QueueIInv, QueueTypeOK, Addresses
<1>2. /\ Len(chain) \in Nat /\ Len(chain) >= 1 /\ Len(chain) = size + 1
      /\ \A i \in 1 .. Len(chain) : chain[i] \in Addresses
      /\ \A i \in 1 .. Len(chain) : chain[i] \in Int
      /\ head = chain[1] /\ tail = chain[Len(chain)]
      /\ \A i \in 1 .. Len(chain) - 1 : next[chain[i]] = chain[i + 1]
      /\ \A i, j \in 1 .. Len(chain) : i # j => chain[i] # chain[j]
      /\ \A i \in 1 .. Len(chain) : chain[i] # n
  <2>1. ASSUME NEW i \in 1 .. Len(chain) PROVE chain[i] \in Int /\ chain[i] # n
    <3>1. chain[i] \in Int /\ chain[i] < start_address
      BY <1>1, ChainOf, DistinctNodes, AddressType
    <3> QED
      BY <3>1 DEF QueueIInv, QueueTypeOK
  <2> QED
    BY <1>1, <2>1, ChainOf, DistinctNodes
<1>3. /\ Len(chain') = Len(chain) + 1 /\ chain'[Len(chain) + 1] = n
      /\ \A i \in 1 .. Len(chain) : chain'[i] = chain[i]
      /\ chain' \in Seq(Addresses)
  BY <1>1, <1>2, AppendProperties DEF QueueIInv, QueueTypeOK
<1> HIDE DEF n
<1>4. /\ tail \in Addresses /\ tail # n
      /\ next'[n] = NoNode /\ next'[tail] = n
      /\ \A i \in 1 .. Len(chain) - 1 : next'[chain[i]] = next[chain[i]]
      /\ next' \in [Addresses -> Addresses \cup {NoNode}]
      /\ val' \in [Addresses -> Element \cup {NoElement}]
  BY <1>1, <1>2 DEF QueueIInv, QueueTypeOK
<1>5. QueueTypeOK'
  BY <1>1, <1>3, <1>4, LinkedAssumption DEF QueueIInv, QueueTypeOK, n
<1>6. \A i \in 1 .. Len(chain) : next'[chain'[i]] = chain'[i + 1]
  <2> SUFFICES ASSUME NEW i \in 1 .. Len(chain)
               PROVE  next'[chain'[i]] = chain'[i + 1]
    OBVIOUS
  <2>1. CASE i = Len(chain)
    BY <1>2, <1>3, <1>4, <2>1
  <2>2. CASE i # Len(chain)
    BY <1>2, <1>3, <1>4, <2>2
  <2> QED
    BY <2>1, <2>2
<1>7. /\ \A i, j \in 1 .. Len(chain') : i < j => chain'[i] + NodeSize <= chain'[j]
      /\ \A i \in 1 .. Len(chain') : chain'[i] + NodeSize <= start_address'
  <2>1. /\ \A i, j \in 1 .. Len(chain) : i < j => chain[i] + NodeSize <= chain[j]
        /\ \A i \in 1 .. Len(chain) : chain[i] + NodeSize <= n
        /\ n \in Int
    BY <1>1 DEF QueueIInv, Linked, QueueTypeOK, n
  <2> QED
    BY <1>1, <1>2, <1>3, <2>1, LinkedAssumption
<1>8. Linked'
  BY <1>1, <1>2, <1>3, <1>4, <1>6, <1>7 DEF Linked, QueueIInv, QueueTypeOK
<1> QED
  BY <1>5, <1>8 DEF QueueIInv

LEMMA DequeueInv == ASSUME QueueIInv, Dequeue PROVE QueueIInv'
<1>1. /\ head # NoNode /\ size # 0
      /\ head' = next[head] /\ size' = size - 1 /\ chain' = Tail(chain)
      /\ UNCHANGED <<start_address, val, next, tail>>
  BY DEF Dequeue, Ready, Release
<1>2. /\ Len(chain) \in Nat /\ Len(chain) = size + 1 /\ size >= 1 /\ size \in Nat
      /\ chain \in Seq(Addresses) /\ chain # <<>>
  BY <1>1, ChainOf DEF QueueIInv, QueueTypeOK, Linked
<1>3. /\ Len(chain') = Len(chain) - 1 /\ chain' \in Seq(Addresses)
      /\ \A i \in 1 .. Len(chain) - 1 : chain'[i] = chain[i + 1]
  BY <1>1, <1>2, HeadTailProperties
<1>4. head' = chain[2] /\ chain[2] \in Addresses /\ chain[2] # NoNode
  <2>1. 1 \in 1 .. Len(chain) - 1 /\ 1 + 1 = 2 /\ 2 \in 1 .. Len(chain)
    BY <1>2
  <2>2. chain[2] \in Addresses /\ next[chain[1]] = chain[2] /\ head = chain[1]
    BY <1>1, <2>1, ChainOf
  <2> QED
    BY <1>1, <2>2, AddressType
<1>5. QueueTypeOK'
  BY <1>1, <1>3, <1>4 DEF QueueIInv, QueueTypeOK
<1>6. Linked'
  <2>1. /\ chain'[1] = head' /\ chain'[Len(chain')] = tail' /\ next'[tail'] = NoNode
    <3>1. chain[Len(chain)] = tail /\ next[tail] = NoNode
      BY <1>1, ChainOf
    <3>2. 1 \in 1 .. Len(chain) - 1 /\ Len(chain) - 1 \in 1 .. Len(chain) - 1
      BY <1>2
    <3>3. chain'[1] = chain[1 + 1] /\ chain'[Len(chain) - 1] = chain[(Len(chain) - 1) + 1]
      BY <1>3, <3>2
    <3> QED
      BY <1>1, <1>2, <1>3, <1>4, <3>1, <3>3
  <2>2. \A i \in 1 .. Len(chain') - 1 : next'[chain'[i]] = chain'[i + 1]
    BY <1>1, <1>2, <1>3, ChainOf
  <2>3. /\ \A i, j \in 1 .. Len(chain) : i < j => chain[i] + NodeSize <= chain[j]
        /\ \A i \in 1 .. Len(chain) : chain[i] + NodeSize <= start_address
    BY <1>1 DEF QueueIInv, Linked
  <2>4. /\ \A i, j \in 1 .. Len(chain') : i < j => chain'[i] + NodeSize <= chain'[j]
        /\ \A i \in 1 .. Len(chain') : chain'[i] + NodeSize <= start_address'
    BY <1>1, <1>2, <1>3, <2>3
  <2> QED
    BY <1>1, <1>2, <1>3, <1>4, <2>1, <2>2, <2>4 DEF Linked
<1> QED
  BY <1>5, <1>6 DEF QueueIInv

\* What remove does to chain and to the pointers, when it finds t behind the
\* i-th node.
LEMMA RemoveAt ==
    ASSUME QueueIInv, NEW t \in Element, Remove(t)
    PROVE  \E i \in 1 .. Len(chain) - 1 :
             /\ FoundAt(t, i)
             /\ chain' = Unchained(i + 1) /\ chain' \in Seq(Addresses)
             /\ Len(chain') = Len(chain) - 1 /\ Len(chain) = size + 1 /\ size >= 1
             /\ \A k \in 1 .. i : chain'[k] = chain[k]
             /\ \A k \in i + 1 .. Len(chain) - 1 : chain'[k] = chain[k + 1]
             /\ next' = [next EXCEPT ![chain[i]] = IF i = Len(chain) - 1 THEN NoNode
                                                   ELSE chain[i + 2]]
             /\ tail' = (IF i = Len(chain) - 1 THEN chain[i] ELSE tail)
             /\ size' = size - 1
             /\ head # NoNode /\ UNCHANGED <<start_address, val, head>>
<1>1. head # NoNode /\ size' = size - 1 /\ UNCHANGED <<start_address, val, head>>
  BY DEF Remove, Ready, Release
<1>2. PICK i \in 1 .. Len(chain) - 1 :
        /\ FoundAt(t, i)
        /\ next' = [next EXCEPT ![chain[i]] = next[next[chain[i]]]]
        /\ tail' = (IF next[next[chain[i]]] = NoNode THEN chain[i] ELSE tail)
        /\ chain' = Unchained(i + 1)
  BY DEF Remove
<1>3. Len(chain) \in Nat /\ Len(chain) = size + 1 /\ size >= 1 /\ size \in Int
  BY <1>1, ChainOf DEF QueueIInv, QueueTypeOK
<1>4. next[chain[i]] = chain[i + 1]
  BY <1>1, ChainOf
<1>5. next[next[chain[i]]] = IF i = Len(chain) - 1 THEN NoNode ELSE chain[i + 2]
  <2>1. CASE i = Len(chain) - 1
    BY <1>1, <1>3, <1>4, <2>1, ChainOf
  <2>2. CASE i # Len(chain) - 1
    <3>1. i + 1 \in 1 .. Len(chain) - 1 /\ (i + 1) + 1 = i + 2
      BY <1>3, <2>2
    <3>2. next[chain[i + 1]] = chain[i + 2]
      BY <1>1, <3>1, ChainOf
    <3> QED
      BY <1>4, <2>2, <3>2
  <2> QED
    BY <2>1, <2>2
<1>6. \A k \in 1 .. Len(chain) : chain[k] \in Addresses
  BY <1>1, ChainOf
<1>7. ~(IF i = Len(chain) - 1 THEN NoNode ELSE chain[i + 2]) = NoNode
        <=> i # Len(chain) - 1
  BY <1>3, <1>6, AddressType
<1>8. /\ chain' \in [1 .. Len(chain) - 1 -> Addresses]
      /\ \A k \in 1 .. i : chain'[k] = chain[k]
      /\ \A k \in i + 1 .. Len(chain) - 1 : chain'[k] = chain[k + 1]
  BY <1>2, <1>3, <1>6 DEF Unchained
<1>9. chain' \in Seq(Addresses) /\ Len(chain') = Len(chain) - 1
  <2>1. Len(chain) - 1 \in Nat
    BY <1>3
  <2>2. chain' \in Seq(Addresses)
    BY <2>1, <1>8, SeqDef
  <2> QED
    BY <2>1, <2>2, <1>8, LenProperties
<1> QED
  BY <1>1, <1>2, <1>3, <1>5, <1>7, <1>8, <1>9

LEMMA RemoveInv == ASSUME QueueIInv, NEW t \in Element, Remove(t) PROVE QueueIInv'
<1>1. PICK i \in 1 .. Len(chain) - 1 :
             /\ chain' \in Seq(Addresses)
             /\ Len(chain') = Len(chain) - 1 /\ Len(chain) = size + 1 /\ size >= 1
             /\ \A k \in 1 .. i : chain'[k] = chain[k]
             /\ \A k \in i + 1 .. Len(chain) - 1 : chain'[k] = chain[k + 1]
             /\ next' = [next EXCEPT ![chain[i]] = IF i = Len(chain) - 1 THEN NoNode
                                                   ELSE chain[i + 2]]
             /\ tail' = (IF i = Len(chain) - 1 THEN chain[i] ELSE tail)
             /\ size' = size - 1
             /\ head # NoNode /\ UNCHANGED <<start_address, val, head>>
  BY RemoveAt
<1>2. /\ Len(chain) \in Nat /\ \A k \in 1 .. Len(chain) : chain[k] \in Addresses
      /\ \A j, k \in 1 .. Len(chain) : j # k => chain[j] # chain[k]
      /\ tail = chain[Len(chain)] /\ head = chain[1] /\ next[tail] = NoNode
      /\ \A k \in 1 .. Len(chain) - 1 : next[chain[k]] = chain[k + 1]
  BY <1>1, ChainOf, DistinctNodes
<1>3. /\ chain[i] \in Addresses
      /\ next'[chain[i]] = IF i = Len(chain) - 1 THEN NoNode ELSE chain[i + 2]
      /\ \A k \in 1 .. Len(chain) : k # i => next'[chain[k]] = next[chain[k]]
      /\ next' \in [Addresses -> Addresses \cup {NoNode}]
  BY <1>1, <1>2 DEF QueueIInv, QueueTypeOK
<1>4. QueueTypeOK'
  BY <1>1, <1>2, <1>3 DEF QueueIInv, QueueTypeOK
<1>5. /\ chain'[1] = head' /\ chain'[Len(chain')] = tail' /\ next'[tail'] = NoNode
  <2>1. CASE i = Len(chain) - 1
    BY <1>1, <1>2, <1>3, <2>1
  <2>2. CASE i # Len(chain) - 1
    BY <1>1, <1>2, <1>3, <2>2
  <2> QED
    BY <2>1, <2>2
<1>6. ASSUME NEW k \in 1 .. Len(chain') - 1 PROVE next'[chain'[k]] = chain'[k + 1]
  <2>1. CASE k < i
    BY <1>1, <1>2, <1>3, <2>1
  <2>2. CASE k = i
    BY <1>1, <1>2, <1>3, <2>2
  <2>3. CASE k > i
    <3>1. k \in i + 1 .. Len(chain) - 1 /\ k + 1 \in i + 1 .. Len(chain) - 1
      BY <1>1, <1>2, <2>3
    <3>2. chain'[k] = chain[k + 1] /\ chain'[k + 1] = chain[(k + 1) + 1]
      BY <1>1, <3>1
    <3>3. next[chain[k + 1]] = chain[(k + 1) + 1] /\ next'[chain[k + 1]] = next[chain[k + 1]]
      BY <1>1, <1>2, <1>3, <3>1
    <3> QED
      BY <3>2, <3>3
  <2> QED
    BY <2>1, <2>2, <2>3, <1>2
<1>7. /\ \A j, k \in 1 .. Len(chain) : j < k => chain[j] + NodeSize <= chain[k]
      /\ \A k \in 1 .. Len(chain) : chain[k] + NodeSize <= start_address
  BY <1>1 DEF QueueIInv, Linked
<1>8. \A k \in 1 .. Len(chain') : chain'[k] + NodeSize <= start_address'
  <2> SUFFICES ASSUME NEW k \in 1 .. Len(chain')
               PROVE  chain'[k] + NodeSize <= start_address
    BY <1>1
  <2>1. CASE k <= i
    BY <1>1, <1>2, <1>7, <2>1
  <2>2. CASE k > i
    BY <1>1, <1>2, <1>7, <2>2
  <2> QED
    BY <2>1, <2>2, <1>2
<1>9. \A j, k \in 1 .. Len(chain') : j < k => chain'[j] + NodeSize <= chain'[k]
  <2> SUFFICES ASSUME NEW j \in 1 .. Len(chain'), NEW k \in 1 .. Len(chain'), j < k
               PROVE  chain'[j] + NodeSize <= chain'[k]
    OBVIOUS
  <2>1. CASE k <= i
    BY <1>1, <1>2, <1>7, <2>1
  <2>2. CASE j > i
    BY <1>1, <1>2, <1>7, <2>2
  <2>3. CASE j <= i /\ k > i
    BY <1>1, <1>2, <1>7, <2>3
  <2> QED
    BY <2>1, <2>2, <2>3, <1>2
<1>10. Linked'
  BY <1>1, <1>2, <1>5, <1>6, <1>8, <1>9 DEF Linked, QueueIInv, QueueTypeOK
<1> QED
  BY <1>4, <1>10 DEF QueueIInv

LEMMA QueueNextInv == ASSUME QueueIInv, [QueueNext]_nodeVars PROVE QueueIInv'
<1>1. CASE \E n \in ObjectSizes : NewObject(n)
  BY <1>1, NewObjectInv
<1>2. CASE Construct
  BY <1>2, ConstructInv
<1>3. CASE \E t \in Element : EnqueueNode(t)
  BY <1>3, EnqueueInv
<1>4. CASE \E t \in Element : Remove(t)
  BY <1>4, RemoveInv
<1>5. CASE Dequeue
  BY <1>5, DequeueInv
<1>6. CASE DequeueNothing \/ UNCHANGED nodeVars
  <2>1. UNCHANGED <<start_address, val, next, head, tail, size, chain>>
    BY <1>6 DEF DequeueNothing, nodeVars
  <2> QED
    BY <2>1 DEF QueueIInv, QueueTypeOK, Linked
<1> QED
  BY <1>1, <1>2, <1>3, <1>4, <1>5, <1>6 DEF QueueNext

\* Whatever takes memory from the same pool, the pointers are a list of nodes
\* that do not overlap, from head to tail, one more than size (queue.H).
THEOREM LinkedCorrect == QueueSpec => []Linked
<1>1. QueueIInv => Linked
  BY DEF QueueIInv
<1> QED
  BY QueueInitInv, QueueNextInv, <1>1, PTL DEF QueueSpec

-----------------------------------------------------------------------------
\* The threads of the nodes behind the first one of a chain c.
Behind(c, v) == [i \in 1 .. Len(c) - 1 |-> v[c[i + 1]]]

LEMMA BehindFirst ==
    \A n \in Nat, c \in Seq(Addresses), v \in [Addresses -> Element \cup {NoElement}] :
        Len(c) = n + 1
        => /\ Behind(c, v) \in Seq(Element \cup {NoElement}) /\ Len(Behind(c, v)) = n
           /\ \A i \in 1 .. n : Behind(c, v)[i] = v[c[i + 1]]
<1> SUFFICES ASSUME NEW n \in Nat, NEW c \in Seq(Addresses),
                    NEW v \in [Addresses -> Element \cup {NoElement}], Len(c) = n + 1
             PROVE  /\ Behind(c, v) \in Seq(Element \cup {NoElement}) /\ Len(Behind(c, v)) = n
                    /\ \A i \in 1 .. n : Behind(c, v)[i] = v[c[i + 1]]
  OBVIOUS
<1>1. \A i \in 1 .. n : c[i + 1] \in Addresses
  OBVIOUS
<1>2. /\ Behind(c, v) \in [1 .. n -> Element \cup {NoElement}]
      /\ \A i \in 1 .. n : Behind(c, v)[i] = v[c[i + 1]]
  BY <1>1 DEF Behind
<1>3. Behind(c, v) \in Seq(Element \cup {NoElement})
  BY <1>2, SeqDef
<1> QED
  BY <1>2, <1>3, LenProperties

\* Contents is the sequence of the threads behind the head.
LEMMA ContentsOf ==
    ASSUME QueueIInv, head # NoNode
    PROVE  /\ Contents \in Seq(Element \cup {NoElement}) /\ Len(Contents) = size
           /\ size \in Nat /\ Len(chain) = size + 1
           /\ \A i \in 1 .. size : Contents[i] = val[chain[i + 1]]
<1>1. size \in Nat /\ Len(chain) = size + 1
  BY ChainOf DEF QueueIInv, QueueTypeOK
<1>2. Contents = Behind(chain, val)
  BY DEF Contents, Behind
<1> QED
  BY <1>1, <1>2, BehindFirst DEF QueueIInv, QueueTypeOK

LEMMA ContentsNext ==
    /\ size' \in Nat /\ Len(chain') = size' + 1 /\ chain' \in Seq(Addresses)
    /\ val' \in [Addresses -> Element \cup {NoElement}]
    => /\ Contents' \in Seq(Element \cup {NoElement}) /\ Len(Contents') = size'
       /\ \A i \in 1 .. size' : Contents'[i] = val'[chain'[i + 1]]
<1>1. Contents' = Behind(chain', val')
  BY DEF Contents, Behind
<1> QED
  BY <1>1, BehindFirst

LEMMA ConstructStep == ASSUME QueueIInv, Construct PROVE UNCHANGED Abstract!vars
<1>1. PICK dummy : chain' = <<dummy>>
  BY DEF Construct
<1>2. chain = <<>> /\ element' = element
  BY DEF Construct, QueueIInv, Linked
<1>3. Len(chain) - 1 < 1 /\ Len(chain') - 1 < 1
  BY <1>1, <1>2
<1>4. 1 .. Len(chain) - 1 = {} /\ 1 .. Len(chain') - 1 = {}
  BY <1>1, <1>2
<1>5. Contents' = Contents
  BY <1>4 DEF Contents
<1> QED
  BY <1>2, <1>5 DEF Abstract!vars

LEMMA EnqueueStep == ASSUME QueueIInv, NEW t \in Element, EnqueueNode(t) PROVE Abstract!Enter(t)
<1>1. QueueIInv'
  BY EnqueueInv
<1>2. /\ head # NoNode /\ head' = head /\ size' = size + 1 /\ element' = element
      /\ val' = [val EXCEPT ![start_address] = t]
      /\ chain' = Append(chain, start_address)
      /\ start_address \in Addresses
  BY LinkedAssumption DEF EnqueueNode, Ready, Room, QueueIInv, QueueTypeOK, Addresses
<1>3. /\ Contents' \in Seq(Element \cup {NoElement}) /\ Len(Contents') = size'
      /\ \A i \in 1 .. size' : Contents'[i] = val'[chain'[i + 1]]
  <2>1. head' # NoNode
    BY <1>2
  <2>2. size' >= 0 /\ Len(chain') = size' + 1
    BY <1>1, <2>1 DEF QueueIInv, Linked
  <2>3. /\ size' \in Nat /\ chain' \in Seq(Addresses)
        /\ val' \in [Addresses -> Element \cup {NoElement}]
    BY <1>1, <2>2 DEF QueueIInv, QueueTypeOK
  <2> QED
    BY <2>2, <2>3, ContentsNext
<1>4. /\ Contents \in Seq(Element \cup {NoElement}) /\ Len(Contents) = size
      /\ size \in Nat /\ Len(chain) = size + 1
      /\ \A i \in 1 .. size : Contents[i] = val[chain[i + 1]]
  BY <1>2, ContentsOf
<1>5. /\ \A i \in 1 .. Len(chain) : chain'[i] = chain[i]
      /\ chain'[Len(chain) + 1] = start_address
  BY <1>2, AppendProperties DEF QueueIInv, QueueTypeOK
<1>6. ASSUME NEW i \in 1 .. size PROVE Contents'[i] = Contents[i]
  <2>1. /\ i \in 1 .. size' /\ i + 1 \in 1 .. Len(chain)
    BY <1>2, <1>4
  <2>2. chain[i + 1] < start_address /\ chain[i + 1] \in Addresses
    BY <1>2, <2>1, ChainOf, DistinctNodes
  <2>3. chain[i + 1] # start_address
    BY <2>2, AddressType DEF QueueIInv, QueueTypeOK
  <2>4. val'[chain[i + 1]] = val[chain[i + 1]]
    BY <1>2, <2>2, <2>3 DEF QueueIInv, QueueTypeOK
  <2> QED
    BY <1>3, <1>4, <1>5, <2>1, <2>4
<1>7. Contents'[size + 1] = t
  <2>1. size + 1 \in 1 .. size' /\ (size + 1) + 1 = Len(chain) + 1
    BY <1>2, <1>4
  <2>2. val'[start_address] = t
    BY <1>2 DEF QueueIInv, QueueTypeOK
  <2> QED
    BY <1>3, <1>5, <2>1, <2>2
<1>8. /\ Append(Contents, t) \in Seq(Element \cup {NoElement})
      /\ Len(Append(Contents, t)) = size + 1
      /\ \A i \in 1 .. size : Append(Contents, t)[i] = Contents[i]
      /\ Append(Contents, t)[size + 1] = t
  BY <1>4, AppendProperties
<1>9. \A i \in 1 .. size + 1 : Contents'[i] = Append(Contents, t)[i]
  BY <1>4, <1>6, <1>7, <1>8
<1>10. Contents' = Append(Contents, t)
  BY <1>2, <1>3, <1>8, <1>9, SeqEqual
<1> QED
  BY <1>2, <1>10 DEF Abstract!Enter

LEMMA DequeueStep == ASSUME QueueIInv, Dequeue PROVE Abstract!Leave
<1>1. QueueIInv'
  BY DequeueInv
<1>2. /\ head # NoNode /\ size # 0 /\ size' = size - 1
      /\ head' = next[head] /\ element' = val[next[head]]
      /\ val' = val /\ chain' = Tail(chain)
  BY DEF Dequeue, Ready
<1>3. /\ Contents \in Seq(Element \cup {NoElement}) /\ Len(Contents) = size
      /\ size \in Nat /\ Len(chain) = size + 1 /\ size >= 1
      /\ \A i \in 1 .. size : Contents[i] = val[chain[i + 1]]
      /\ next[head] = chain[2] /\ chain[2] \in Addresses
  BY <1>2, ContentsOf, ChainOf
<1>4. head' # NoNode
  BY <1>2, <1>3, AddressType
<1>5. /\ Contents' \in Seq(Element \cup {NoElement}) /\ Len(Contents') = size'
      /\ \A i \in 1 .. size' : Contents'[i] = val'[chain'[i + 1]]
  <2>1. size' >= 0 /\ Len(chain') = size' + 1
    BY <1>1, <1>4 DEF QueueIInv, Linked
  <2>2. /\ size' \in Nat /\ chain' \in Seq(Addresses)
        /\ val' \in [Addresses -> Element \cup {NoElement}]
    BY <1>1, <2>1 DEF QueueIInv, QueueTypeOK
  <2> QED
    BY <2>1, <2>2, ContentsNext
<1>6. \A i \in 1 .. Len(chain) - 1 : chain'[i] = chain[i + 1]
  BY <1>2, <1>3, HeadTailProperties DEF QueueIInv, QueueTypeOK
<1>7. Contents # <<>>
  BY <1>3
<1>8. /\ Tail(Contents) \in Seq(Element \cup {NoElement}) /\ Len(Tail(Contents)) = size - 1
      /\ \A i \in 1 .. size - 1 : Tail(Contents)[i] = Contents[i + 1]
      /\ Head(Contents) = Contents[1]
  BY <1>3, <1>7, HeadTailProperties
<1>9. ASSUME NEW i \in 1 .. size - 1 PROVE Contents'[i] = Tail(Contents)[i]
  <2>1. i \in 1 .. size' /\ i + 1 \in 1 .. Len(chain) - 1 /\ i + 1 \in 1 .. size
    BY <1>2, <1>3
  <2>2. Contents'[i] = val[chain[(i + 1) + 1]]
    BY <1>2, <1>5, <1>6, <2>1
  <2>3. Tail(Contents)[i] = val[chain[(i + 1) + 1]]
    BY <1>3, <1>8, <2>1
  <2> QED
    BY <2>2, <2>3
<1>10. Contents' = Tail(Contents)
  BY <1>2, <1>5, <1>8, <1>9, SeqEqual
<1>11. element' = Head(Contents)
  BY <1>2, <1>3, <1>8
<1> QED
  BY <1>7, <1>10, <1>11 DEF Abstract!Leave

LEMMA RemoveStep == ASSUME QueueIInv, NEW t \in Element, Remove(t) PROVE Abstract!TakeOut(t)
<1>1. PICK i \in 1 .. Len(chain) - 1 :
        /\ FoundAt(t, i)
        /\ Len(chain') = Len(chain) - 1 /\ Len(chain) = size + 1 /\ size >= 1
        /\ \A k \in 1 .. i : chain'[k] = chain[k]
        /\ \A k \in i + 1 .. Len(chain) - 1 : chain'[k] = chain[k + 1]
        /\ head # NoNode /\ val' = val
  BY RemoveAt
<1>2. element' = element
  BY DEF Remove
<1>3. /\ size \in Nat /\ Len(Contents) = size
      /\ \A k \in 1 .. size : Contents[k] = val[chain[k + 1]]
  BY <1>1, ContentsOf
<1>4. i \in 1 .. size
  BY <1>1, <1>3
<1>5. Contents[i] = t /\ \A j \in 1 .. i - 1 : Contents[j] # t
  BY <1>1, <1>3, <1>4 DEF FoundAt
<1>6. Contents' = [k \in 1 .. size - 1 |-> val[chain'[k + 1]]]
  BY <1>1, <1>3 DEF Contents
<1>7. ASSUME NEW k \in 1 .. size - 1
      PROVE  val[chain'[k + 1]] = IF k < i THEN Contents[k] ELSE Contents[k + 1]
  <2>1. CASE k < i
    BY <1>1, <1>3, <1>4, <2>1
  <2>2. CASE ~(k < i)
    <3>1. k + 1 \in i + 1 .. Len(chain) - 1 /\ k + 1 \in 1 .. size
      BY <1>1, <1>3, <1>4, <2>2
    <3> QED
      BY <1>1, <1>3, <2>2, <3>1
  <2> QED
    BY <2>1, <2>2
<1>8. Contents' = [k \in 1 .. Len(Contents) - 1 |->
                     IF k < i THEN Contents[k] ELSE Contents[k + 1]]
  BY <1>3, <1>6, <1>7
<1>9. Contents' = Abstract!Without(i)
  BY <1>8 DEF Abstract!Without
<1> QED
  BY <1>2, <1>3, <1>4, <1>5, <1>9 DEF Abstract!TakeOut

LEMMA QueueStepRefines == ASSUME QueueIInv, [QueueNext]_nodeVars PROVE [Abstract!Next]_(Abstract!vars)
<1>1. CASE \E n \in ObjectSizes : NewObject(n)
  BY <1>1 DEF NewObject, Abstract!vars, Contents
<1>2. CASE Construct
  BY <1>2, ConstructStep
<1>3. CASE \E t \in Element : EnqueueNode(t)
  BY <1>3, EnqueueStep DEF Abstract!Next
<1>4. CASE \E t \in Element : Remove(t)
  BY <1>4, RemoveStep DEF Abstract!Next
<1>5. CASE Dequeue
  BY <1>5, DequeueStep DEF Abstract!Next
<1>6. CASE DequeueNothing \/ UNCHANGED nodeVars
  BY <1>6 DEF DequeueNothing, nodeVars, Abstract!vars, Contents
<1> QED
  BY <1>1, <1>2, <1>3, <1>4, <1>5, <1>6 DEF QueueNext

LEMMA QueueInitRefines == QueueInit => Abstract!Init
<1> SUFFICES ASSUME QueueInit PROVE Abstract!Init
  OBVIOUS
<1>1. chain = <<>> /\ element = NoElement
  BY DEF QueueInit
<1>2. 1 .. Len(chain) - 1 = 1 .. 0
  BY <1>1
<1>3. Contents \in [1 .. 0 -> {NoElement}]
  BY <1>2 DEF Contents
<1>4. Contents \in Seq({NoElement}) /\ <<>> \in Seq({NoElement}) /\ Len(<<>>) = 0
  BY <1>3, SeqDef, EmptySeq
<1>5. Contents = <<>>
  BY <1>3, <1>4, LenProperties, SeqEqual
<1> QED
  BY <1>1, <1>5 DEF Abstract!Init

\* The linked list, with remove and on memory that is never given back, is the
\* first-in first-out queue of ThreadQueue (queue.H).
THEOREM QueueRefinement == QueueSpec => ImplementsQueue
BY QueueInitInv, QueueNextInv, QueueInitRefines, QueueStepRefines, PTL DEF QueueSpec, ImplementsQueue, Abstract!Spec
=============================================================================
