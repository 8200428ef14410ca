------------------------------- MODULE Console -------------------------------
(***************************************************************************)
(* The console: putch on the memory of the screen, the same in all five    *)
(* kernels, while the timer's handler, which prints messages of its own,   *)
(* may interrupt it between any two statements.                            *)
(*                                                                         *)
(* The handler runs with interrupts off, so that its message is one step.  *)
(* The thread's statements are cut wherever the compiled code reads or     *)
(* writes a member: csr_x-- is a test, a read and a write.  memcpy is cut  *)
(* at the rows, memsetw is one step.  A character is its code; colours and *)
(* the registers of the hardware cursor are left out.                      *)
(*                                                                         *)
(* Auxiliary variables: start, the console when the current character was  *)
(* begun, or after the last message since; torn, whether a message ever    *)
(* came in the middle of one; slipped, whether one ever left the cursor at *)
(* the margin between the two halves of a backspace.  con.outside has the  *)
(* cells written to that are not on the screen.  Locals are 0 after their  *)
(* last use.                                                               *)
(***************************************************************************)
EXTENDS Integers, Sequences

CONSTANTS
    Width, Height,  \* of the screen, 80 and 25
    Tab,            \* 8
    Base,           \* of numbers, 10
    DigitCount,     \* digits that int2str works out, 10
    Largest,        \* the largest number, 2^32 - 1
    Letters,        \* the printable characters used
    Messages,       \* what the timer's handler prints
    MaxSlip         \* bound: how far left of the margin a backspace begins

BS == 8   HT == 9   LF == 10   CR == 13   Blank == 32   Zero == 48
Controls == {BS, HT, LF, CR}

ASSUME ConsoleAssumption ==
    /\ Width \in Nat \ {0} /\ Height \in Nat \ {0, 1} /\ Tab \in Nat \ {0}
    /\ Base \in Nat \ {0, 1} /\ DigitCount \in Nat \ {0}
    /\ Tab <= Width
    /\ Letters \cap Controls = {}
    /\ Messages \subseteq Seq(Letters \cup Controls)
    /\ MaxSlip \in Nat

\* The screen and the memory behind it, which is not shown.
Cell == 0 .. (Height + 2) * Width - 1

Shown == 0 .. Height * Width - 1

VARIABLES
    con,        \* [text, x, y, outside]: textmemptr, csr_x, csr_y
    statement,  \* the statement of putch that is next
    char,       \* its argument
    reg,        \* worked out and not yet stored: where, or a new csr_x or csr_y
    temp, row,  \* of scroll: by how much, the next row to move
    start, torn, slipped

locals == <<reg, temp, row>>
consoleVars == <<con, statement, char, locals, start, torn, slipped>>

\* Both halves of init: the cursor, and cls.
ConsoleInit ==
    /\ con = [text |-> [k \in Cell |-> Blank], x |-> 0, y |-> 0, outside |-> {}]
    /\ statement = "idle" /\ char = LF
    /\ reg = 0 /\ temp = 0 /\ row = 0
    /\ start = con /\ torn = FALSE /\ slipped = FALSE

-----------------------------------------------------------------------------
\* The statements of putch and scroll, as functions of the console.

\* After stores to these cells.
Written(c, cells) == [c EXCEPT !.outside = @ \cup (cells \ Shown)]

RowCells(r) == r * Width .. r * Width + Width - 1

CursorCell(c) == c.y * Width + c.x

Stored(c, k, ch) ==
    Written([c EXCEPT !.text = IF k \in Cell THEN [@ EXCEPT ![k] = ch] ELSE @], {k})

Back(c) == [c EXCEPT !.x = @ - 1]

AtColumn(c, x) == [c EXCEPT !.x = x]

AtLine(c, y) == [c EXCEPT !.y = y]

ToMargin(c) == AtColumn(c, 0)

Tabbed(c) == [c EXCEPT !.x = ((@ + Tab) \div Tab) * Tab]

Advanced(c) == [c EXCEPT !.x = @ + 1]

Down(c) == [c EXCEPT !.y = @ + 1]

AtEdge(c) == c.x >= Width

\* Mutant of OffScreen: the screen is moved when the cursor is two lines below it.
OffScreenLate(c) == c.y > Height

OffScreen(c) == c.y >= Height

\* How far the screen must move.
Excess(c) == c.y - Height + 1

\* Line r is replaced by the one t below it.
RowMoved(c, r, t) ==
    Written([c EXCEPT !.text = [k \in Cell |-> IF k \div Width = r THEN c.text[k + t * Width]
                                                                  ELSE c.text[k]]],
            RowCells(r))

\* Mutant of Cleared: the line behind the last one is blanked.
ClearedNext(c, t) ==
    Written([c EXCEPT !.text = [k \in Cell |-> IF k \div Width = Height - t + 1 THEN Blank
                                                                           ELSE c.text[k]]],
            RowCells(Height - t + 1))

\* The line behind the ones that have moved is blanked, that one only.
Cleared(c, t) ==
    Written([c EXCEPT !.text = [k \in Cell |-> IF k \div Width = Height - t THEN Blank
                                                                       ELSE c.text[k]]],
            RowCells(Height - t))

AtBottom(c) == AtLine(c, Height - 1)

\* memcpy to a lower address, first to last: every line moves up by t.
Moved(c, t) ==
    Written([c EXCEPT !.text = [k \in Cell |-> IF k \div Width < Height - t
                                              THEN c.text[k + t * Width] ELSE c.text[k]]],
            0 .. (Height - t) * Width - 1)

Scrolled(c) ==
    IF OffScreen(c) THEN AtBottom(Cleared(Moved(c, Excess(c)), Excess(c))) ELSE c

\* All of putch and of puts, as the handler runs them.
Begun(c, ch) ==
    CASE ch = BS -> IF c.x # 0 THEN Back(c) ELSE c
      [] ch = HT -> Tabbed(c)
      [] ch = CR -> ToMargin(c)
      [] ch = LF -> Down(ToMargin(c))
      [] OTHER -> Advanced(Stored(c, CursorCell(c), ch))

Wrapped(c) == IF AtEdge(c) THEN Down(ToMargin(c)) ELSE c

Put(c, ch) == Scrolled(Wrapped(Begun(c, ch)))

Puts(c, s) ==
    LET after[i \in 0 .. Len(s)] == IF i = 0 THEN c ELSE Put(after[i - 1], s[i])
    IN  after[Len(s)]

-----------------------------------------------------------------------------
GoOn(p) == statement' = p /\ UNCHANGED <<char, start, torn, slipped>>

(* The thread prints a character: the first statement of putch.            *)

Start(ch) ==
    /\ statement = "idle"
    /\ start' = con /\ char' = ch
    /\ UNCHANGED <<temp, row, torn, slipped>>

\* The test of a backspace.
PutBackspace ==
    /\ Start(BS)
    /\ con.x >= -MaxSlip
    /\ statement' = IF con.x # 0 THEN "back" ELSE "edge"
    /\ UNCHANGED <<con, reg>>

PutTab ==
    /\ Start(HT)
    /\ reg' = Tabbed(con).x
    /\ statement' = "column" /\ UNCHANGED con

PutReturn(ch) ==
    /\ ch \in {CR, LF} /\ Start(ch)
    /\ con' = ToMargin(con)
    /\ statement' = IF ch = LF THEN "feed" ELSE "edge"
    /\ UNCHANGED reg

\* csr_y is read first.
PutPrintable(ch) ==
    /\ ch \in Letters /\ Start(ch)
    /\ reg' = con.y * Width
    /\ statement' = "address" /\ UNCHANGED con

Putch(ch) ==
    \/ ch = BS /\ PutBackspace
    \/ ch = HT /\ PutTab
    \/ PutReturn(ch)
    \/ PutPrintable(ch)

(* The statements that follow.                                             *)

\* A new value of csr_x or csr_y is worked out, or the address of a cell.
WorkOut(p, value, next) ==
    /\ statement = p
    /\ reg' = value
    /\ GoOn(next)
    /\ UNCHANGED <<con, temp, row>>

\* It is stored.
PutBack(p, c, next) ==
    /\ statement = p
    /\ con' = c /\ reg' = 0
    /\ GoOn(next)
    /\ UNCHANGED <<temp, row>>

\* csr_x is read again.
StepBack == WorkOut("back", Back(con).x, "column")

Feed == WorkOut("feed", Down(con).y, "fed")

FeedLine == PutBack("fed", AtLine(con, reg), "edge")

Address == WorkOut("address", reg + con.x, "store")

Store == PutBack("store", Stored(con, reg, char), "advance")

Advance == WorkOut("advance", Advanced(con).x, "column")

SetColumn == PutBack("column", AtColumn(con, reg), "edge")

\* The test at the end of a line.
Edge ==
    /\ statement = "edge"
    /\ GoOn(IF AtEdge(con) THEN "wrap" ELSE "scroll")
    /\ UNCHANGED <<con, locals>>

Wrap ==
    /\ statement = "wrap"
    /\ con' = ToMargin(con)
    /\ GoOn("down")
    /\ UNCHANGED locals

NextLine == WorkOut("down", Down(con).y, "wrapped")

WrapLine == PutBack("wrapped", AtLine(con, reg), "scroll")

\* The test for the last line.
Scroll ==
    /\ statement = "scroll"
    /\ GoOn(IF OffScreen(con) THEN "temp" ELSE "idle")
    /\ UNCHANGED <<con, locals>>

\* csr_y is read again.
SetTemp ==
    /\ statement = "temp"
    /\ temp' = Excess(con) /\ row' = 0
    /\ GoOn("move")
    /\ UNCHANGED <<con, reg>>

\* memcpy, row by row.
MoveRow ==
    /\ statement = "move"
    /\ IF row < Height - temp
       THEN con' = RowMoved(con, row, temp) /\ row' = row + 1 /\ GoOn("move")
       ELSE UNCHANGED <<con, row>> /\ GoOn("clear")
    /\ UNCHANGED <<reg, temp>>

Clear ==
    /\ statement = "clear"
    /\ con' = Cleared(con, temp)
    /\ GoOn("bottom")
    /\ UNCHANGED locals

Bottom ==
    /\ statement = "bottom"
    /\ con' = AtBottom(con)
    /\ temp' = 0 /\ row' = 0
    /\ GoOn("idle")
    /\ UNCHANGED reg

\* A tick of the timer: its handler prints.
Interrupt(m) ==
    /\ con' = Puts(con, m)
    /\ torn' = (torn \/ statement # "idle")
    /\ slipped' = (slipped \/ (statement = "back" /\ con'.x = 0))
    /\ start' = con'
    /\ UNCHANGED <<statement, char, locals>>

Statement ==
    \/ StepBack \/ Feed \/ FeedLine \/ Address \/ Store \/ Advance \/ SetColumn
    \/ Edge \/ Wrap \/ NextLine \/ WrapLine \/ Scroll \/ SetTemp \/ MoveRow \/ Clear \/ Bottom

ConsoleNext ==
    \/ \E ch \in Letters \cup Controls : Putch(ch)
    \/ Statement
    \/ \E m \in Messages : Interrupt(m)

ConsoleSpec == ConsoleInit /\ [][ConsoleNext]_consoleVars

-----------------------------------------------------------------------------
\* What is left of n after each of the divisions of int2str.
Rest(n) ==
    LET rest[k \in 0 .. DigitCount] == IF k = 0 THEN n ELSE rest[k - 1] \div Base
    IN  rest

\* A number has no more digits than int2str works out.
ASSUME NumbersAssumption == Largest \in Nat /\ Rest(Largest)[DigitCount] = 0

\* temp of int2str: the digits of n, the last one first.
Digits(n) == [k \in 1 .. DigitCount |-> Rest(n)[k - 1] % Base]

\* Where the search for the first digit of n ends.
Top(n) == CHOOSE k \in 0 .. DigitCount :
             /\ k > 0 => Digits(n)[k] # 0
             /\ \A j \in k + 1 .. DigitCount : Digits(n)[j] = 0

\* Mutant of Numeral: 0 has no digit.
NumeralNoZero(n) == [k \in 1 .. Top(n) |-> Zero + Digits(n)[Top(n) + 1 - k]]

\* The string that uint2str makes of n, and int2str of an n that is not negative.
Numeral(n) ==
    LET first == IF Top(n) = 0 THEN 1 ELSE Top(n)
    IN  [k \in 1 .. first |-> Zero + Digits(n)[first + 1 - k]]

\* The number that a string of digits stands for.
ReadBack(s) ==
    LET value[k \in 0 .. Len(s)] == IF k = 0 THEN 0 ELSE value[k - 1] * Base + (s[k] - Zero)
    IN  value[Len(s)]

\* A number is printed with at least one digit and no zero in front, and read
\* back it is the number (utils.C, int2str and uint2str).
NumbersRead ==
    statement = "idle" =>
    \A n \in 0 .. Largest :
        LET s == Numeral(n)
        IN  /\ s # <<>>
            /\ n > 0 => s[1] # Zero
            /\ ReadBack(s) = n

-----------------------------------------------------------------------------
\* Wherever the handler comes in, no store is behind the first line behind the
\* screen, and between characters the cursor is not below the screen nor behind
\* its line.  Nor is anything before the screen, unless a message left the cursor
\* at the margin after the test of a backspace (putch, scroll, memcpy, memsetw).
WithinReach ==
    /\ statement = "idle" => con.x < Width /\ con.y \in 0 .. Height - 1
    /\ \A k \in con.outside : k < (Height + 1) * Width
    /\ ~slipped => /\ statement = "idle" => con.x >= 0
                   /\ \A k \in con.outside : k >= 0

\* The console between characters, or before the current one.
Settled == IF statement = "idle" THEN con ELSE start

Abstract == INSTANCE Terminal WITH
    Printable <- Letters,
    rows <- [r \in 1 .. Settled.y + 1 |->
               [x \in 0 .. Width - 1 |-> Settled.text[(r - 1) * Width + x]]],
    column <- Settled.x

\* As long as no message comes in the middle of a character, the screen shows
\* the last lines of the text (putch, scroll, memcpy, memsetw).
ShowsText ==
    /\ Abstract!Init
    /\ [][\/ torn'
          \/ Abstract!Show(<<char>>) /\ statement' = "idle"
          \/ \E m \in Messages : Abstract!Show(m) /\ statement = "idle"
          \/ UNCHANGED <<Settled.text, Settled.x, Settled.y>>]_consoleVars
=============================================================================
