--------------------------- MODULE PageAllocator ---------------------------
(***************************************************************************)
(* What a physical page allocator promises its callers, whatever it keeps  *)
(* to do so.  A region of BlockCount pages; an allocation is a run of      *)
(* consecutive pages that overlaps no outstanding one; a release gives     *)
(* back exactly what was handed out.  Buddy implements this specification. *)
(***************************************************************************)
EXTENDS Integers

CONSTANTS BlockCount,   \* the pages of the region are 0 .. BlockCount-1
          Counts        \* the numbers of pages that callers ask for

VARIABLE live           \* the outstanding allocations

Allocations == [first : 0 .. BlockCount - 1, count : Counts]

Pages(a) == a.first .. a.first + a.count - 1

PAInit == live = {}

Grant(a) ==
    /\ Pages(a) \subseteq 0 .. BlockCount - 1
    /\ \A b \in live : Pages(a) \cap Pages(b) = {}
    /\ live' = live \cup {a}

Release(a) ==
    /\ a \in live
    /\ live' = live \ {a}

PANext == \E a \in Allocations : Grant(a) \/ Release(a)

PASpec == PAInit /\ [][PANext]_live
=============================================================================
