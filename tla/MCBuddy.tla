------------------------------ MODULE MCBuddy ------------------------------
(* Instances of Buddy for TLC. *)
EXTENDS Buddy

\* The metadata's memory before buddy_create: all zeros, or all ones.
MCGarbage == {{}, 0 .. 39}

\* Requests of a part of a block, of a whole one and of several blocks of the
\* highest order.
MCCounts == {1, 2, 3, 6}

\* For the run on 17 pages.
TailCounts  == {1, 4}
=============================================================================
