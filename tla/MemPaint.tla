------------------------------ MODULE MemPaint ------------------------------
(***************************************************************************)
(* What a map of the physical memory promises: every address has the type  *)
(* of the last region asked for over it, or none.  MemMap, the kernel's    *)
(* sorted table of entries, implements this specification.                 *)
(*                                                                         *)
(* A step either asks for another region than the last one, and then the   *)
(* paint changes as Define says, or it leaves the paint as it is: merging  *)
(* asks for none, and asking for the same region again changes nothing.    *)
(***************************************************************************)
EXTENDS Integers

CONSTANTS Top,    \* the addresses are 0 .. Top-1
          Types,  \* the types of regions
          None    \* the type of an address no region was defined over

VARIABLES paint,  \* the type of every address
          asked   \* <<r>> for the region r asked for last, <<>> before

Addresses == 0 .. Top - 1

Asks == {r \in [base : Addresses, size : 1 .. Top, type : Types] :
            r.base + r.size <= Top}

MPInit == paint = [a \in Addresses |-> None] /\ asked = <<>>

\* The region takes over its addresses and leaves all others alone.
Define(r) ==
    /\ asked' = <<r>>
    /\ paint' = [a \in Addresses |->
                    IF r.base <= a /\ a < r.base + r.size THEN r.type ELSE paint[a]]

MPNext == \E r \in Asks : asked # <<r>> /\ Define(r)

MPSpec == MPInit /\ [][MPNext]_<<paint, asked>>
=============================================================================
