------------------------------ MODULE MCHalloc ------------------------------
(* Instances of Halloc: headers of 2 bytes, pages of 21 or 14.               *)
EXTENDS Halloc

\* Sizes that leave, in one block, chunks of many sizes, three of which can be
\* free at once without being neighbours, and remainders too small for a header.
OneBlock == [sizes |-> {1, 2, 5}, blocks |-> 1, splitsInside |-> TRUE]

\* Two blocks, the last size takes one of two pages.
TwoBlocks == [sizes |-> {3, 5, 18}, blocks |-> 2, splitsInside |-> FALSE]

MCWorkloads == {OneBlock, TwoBlocks}

\* On pages of 14 bytes, for the run that follows stale pointers.
MCSplitting == {[sizes |-> {1, 3, 12}, blocks |-> 2, splitsInside |-> TRUE]}
=============================================================================
