------------------------------- MODULE AtaDisk -------------------------------
(***************************************************************************)
(* The disk as the ports of simple_disk.C show it: registers for the block *)
(* number, a command register that starts an operation, a status bit that  *)
(* says the data can be moved, and a data port for the words of the block. *)
(* The device itself is outside the source.                                *)
(***************************************************************************)
EXTENDS Integers

CONSTANTS
    Block,      \* the block numbers
    NoBlock,    \* what the registers hold before the first operation
    Words       \* words in a block, 256 in the source

ASSUME WordsAssumption == Words \in Nat \ {0} /\ NoBlock \notin Block

Operation == {"READ", "WRITE"}

Disk == [register : Block \cup {NoBlock},     \* ports 0x1F3 to 0x1F6
         op       : Operation,                \* the operation in progress
         block    : Block \cup {NoBlock},     \* and the block it is for
         status   : {"idle", "busy", "ready"},
         left     : 0 .. Words]               \* the words still to be moved

IdleDisk == [register |-> NoBlock, op |-> "READ", block |-> NoBlock,
             status |-> "idle", left |-> 0]

SetBlock(d, b) == [d EXCEPT !.register = b]

\* The device takes over the block number with the command, and drops whatever
\* operation it was at.
Command(d, op) == [d EXCEPT !.op = op, !.block = d.register,
                            !.status = "busy", !.left = Words]

IsReady(d) == d.status = "ready"

BecomeReady(d) == [d EXCEPT !.status = "ready"]

MoveWord(d) == [d EXCEPT !.left = IF @ = 0 THEN 0 ELSE @ - 1,
                         !.status = IF d.left <= 1 THEN "idle" ELSE @]
=============================================================================
