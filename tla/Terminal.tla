------------------------------- MODULE Terminal -------------------------------
(***************************************************************************)
(* What a console shows: the last Height lines of the text, the last one   *)
(* up to a column where the next character goes.                           *)
(***************************************************************************)
EXTENDS Integers, Sequences

CONSTANTS Width, Height, Tab, Blank, BS, HT, LF, CR, Printable

VARIABLES rows, column      \* the last row is the one with the cursor

BlankRow == [x \in 0 .. Width - 1 |-> Blank]

NewLine(t) ==
    [rows |-> Append(IF Len(t.rows) < Height THEN t.rows ELSE Tail(t.rows), BlankRow),
     column |-> 0]

\* The cursor at column x of the same line, or at the start of the next.
MoveTo(t, x) == IF x < Width THEN [t EXCEPT !.column = x] ELSE NewLine(t)

Shown(t, c) ==
    CASE c \in Printable ->
            MoveTo([t EXCEPT !.rows[Len(t.rows)][t.column] = c], t.column + 1)
      [] c = BS /\ t.column > 0 -> MoveTo(t, t.column - 1)
      [] c = HT -> MoveTo(t, CHOOSE x \in t.column + 1 .. t.column + Tab : x % Tab = 0)
      [] c = CR -> MoveTo(t, 0)
      [] c = LF -> NewLine(t)
      [] OTHER -> t

Init == rows = <<BlankRow>> /\ column = 0

\* A string appears at once.
Show(s) ==
    LET after[i \in 0 .. Len(s)] ==
            IF i = 0 THEN [rows |-> rows, column |-> column] ELSE Shown(after[i - 1], s[i])
    IN  rows' = after[Len(s)].rows /\ column' = after[Len(s)].column
=============================================================================
