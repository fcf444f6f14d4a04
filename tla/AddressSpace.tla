---------------------------- MODULE AddressSpace ----------------------------
(* What paging promises: an address space, where a page is mapped to one page *)
(* of physical memory or to none, and mapping or unmapping one page leaves    *)
(* all others alone.                                                          *)

CONSTANTS Virts,     \* the pages of the address space
          Phys,      \* the pages of physical memory
          Unmapped   \* the absence of a mapping, none of Phys

VARIABLE mapping     \* where each page is mapped to

ASInit == mapping = [v \in Virts |-> Unmapped]

MapPage(v, p) == mapping' = [mapping EXCEPT ![v] = p]
UnmapPage(v)  == mapping' = [mapping EXCEPT ![v] = Unmapped]

ASNext == \E v \in Virts : UnmapPage(v) \/ \E p \in Phys : MapPage(v, p)

ASSpec == ASInit /\ [][ASNext]_mapping
=============================================================================
