------------------------------- MODULE Paging -------------------------------
(***************************************************************************)
(* The page tables of the kernel, kernel/src/memory/paging.c: four levels  *)
(* of tables in frames that come from the page allocator.  An entry that   *)
(* points to a table counts the entries in use there (`subcount', kept in  *)
(* bits the processor ignores), and a table goes back to the allocator     *)
(* when its count reaches zero.                                            *)
(*                                                                         *)
(* An address is the sequence of its four indices, the one into the PML4   *)
(* first.  Before paging is enabled a table is reached at its physical     *)
(* address; afterwards (pml4 = NULL, `fractal mode') through the last      *)
(* entry of the PML4, which points to the PML4 itself.  The entries read   *)
(* are the same, but the address that paging_unmap hands to palloc_free is *)
(* the one the table was reached at.  No caller lets paging_map map the    *)
(* tables it makes (map_tables is false everywhere).                       *)
(***************************************************************************)
EXTENDS Integers, Sequences, FiniteSetsExt

CONSTANTS Idx,        \* the indices into a table, but for the last of the PML4
          Virts,      \* the pages that are mapped and unmapped
          Phys,       \* the pages they are mapped to
          Frames      \* a bound: the frames that the allocator has for tables

k_pml4   == 0
Unmapped == -1

ASSUME PagingAssumption ==
    /\ Virts \subseteq Idx \X Idx \X Idx \X Idx
    /\ Frames \subseteq Nat \ {k_pml4} /\ Phys \subseteq Nat
    /\ IsFiniteSet(Frames) /\ IsFiniteSet(Idx)

VARIABLES mem,      \* [table: the tables in memory, free: the frames palloc has]
          fractal   \* paging is enabled: tables are reached through the PML4

vars == <<mem, fractal>>
-----------------------------------------------------------------------------
(* Entries and tables *)

Absent   == [present |-> FALSE, to |-> 0, sub |-> 0]
Entry(to) == [present |-> TRUE, to |-> to, sub |-> 0]
Cleared  == [i \in Idx |-> Absent]

\* What a frame holds that was something else before, as an example.
Dirty == [i \in Idx |-> Entry(k_pml4)]

paging_increment_subcount(m, t, i) == [m EXCEPT !.table[t][i].sub = @ + 1]

paging_decrement_subcount(m, t, i) == [m EXCEPT !.table[t][i].sub = @ - 1]

\* The table that entry i of table t points to.
below(m, t, i) == m.table[t][i].to

\* Mutant: the new table is not cleared.
install_dirty(m, t, i) ==
    LET new == Min(m.free)
    IN  [m EXCEPT !.table[t][i] = Entry(new), !.free = @ \ {new}]

\* palloc_alloc for a table, the entry that points to it, and memset.
install(m, t, i) ==
    LET new == Min(m.free)
    IN  [m EXCEPT !.table[t][i] = Entry(new), !.table[new] = Cleared, !.free = @ \ {new}]

\* The table under entry i of table t is there; if it is new, entry j of table
\* s, which points to t, counts it.
ensure(m, s, j, t, i) ==
    IF m.table[t][i].present THEN m
    ELSE paging_increment_subcount(install(m, t, i), s, j)

ensure_pdp(m, i) == IF m.table[k_pml4][i].present THEN m ELSE install(m, k_pml4, i)
-----------------------------------------------------------------------------
(* paging_map and paging_unmap *)

\* The tables on the way to page v: its PDP, its PD and its PT.
PdpOf(m, v) == below(m, k_pml4, v[1])
PdOf(m, v)  == below(m, PdpOf(m, v), v[2])
PtOf(m, v)  == below(m, PdOf(m, v), v[3])

HasPdp(m, v) == m.table[k_pml4][v[1]].present
HasPd(m, v)  == HasPdp(m, v) /\ m.table[PdpOf(m, v)][v[2]].present
HasPt(m, v)  == HasPd(m, v) /\ m.table[PdOf(m, v)][v[3]].present
HasPage(m, v) == HasPt(m, v) /\ m.table[PtOf(m, v)][v[4]].present

\* How many tables paging_map has to allocate.
Needed(m, v) ==
    IF HasPt(m, v) THEN 0 ELSE IF HasPd(m, v) THEN 1 ELSE IF HasPdp(m, v) THEN 2 ELSE 3

with_tables(m, v) ==
    LET m1 == ensure_pdp(m, v[1])
        m2 == ensure(m1, k_pml4, v[1], PdpOf(m1, v), v[2])
    IN  ensure(m2, PdpOf(m2, v), v[2], PdOf(m2, v), v[3])

\* Mutant: a page that is mapped again is counted again.
paging_map_recount(m, v, p) ==
    LET m3 == with_tables(m, v)
        m4 == paging_increment_subcount(m3, PdOf(m3, v), v[3])
    IN  [m4 EXCEPT !.table[PtOf(m4, v)][v[4]] = Entry(p)]

paging_map(m, v, p) ==
    LET m3 == with_tables(m, v)
        m4 == IF HasPage(m3, v) THEN m3
              ELSE paging_increment_subcount(m3, PdOf(m3, v), v[3])
    IN  [m4 EXCEPT !.table[PtOf(m4, v)][v[4]] = Entry(p)]

\* Mutant: the entry that pointed to the table stays.
drop_keep(m, t, i) ==
    LET less == paging_decrement_subcount(m, t, i)
    IN  IF less.table[t][i].sub # 0 THEN less
        ELSE [less EXCEPT !.free = @ \cup {below(m, t, i)}]

\* Mutant: the table is not given back.
drop_leak(m, t, i) ==
    LET less == paging_decrement_subcount(m, t, i)
    IN  IF less.table[t][i].sub # 0 THEN less ELSE [less EXCEPT !.table[t][i] = Absent]

\* One entry less in the table under entry i of table t.  When that was the last
\* one the table goes: palloc_free knows it by its physical address only.
drop(m, t, i) ==
    LET less == paging_decrement_subcount(m, t, i)
        back == IF fractal THEN {} ELSE {below(m, t, i)}
    IN  IF less.table[t][i].sub # 0 THEN less
        ELSE [less EXCEPT !.table[t][i] = Absent, !.free = @ \cup back]

paging_unmap(m, v) ==
    LET pdp == PdpOf(m, v)
        pd  == PdOf(m, v)
        m1  == [m EXCEPT !.table[PtOf(m, v)][v[4]] = Absent]
        m2  == drop(m1, pd, v[3])
        m3  == drop(m2, pdp, v[2])
    IN  IF m2.table[pd][v[3]].present THEN m2
        ELSE IF m3.table[pdp][v[2]].present THEN m3
        ELSE drop(m3, k_pml4, v[1])
-----------------------------------------------------------------------------
\* paging_init
Init ==
    /\ mem = [table |-> [t \in Frames \cup {k_pml4} |-> IF t = k_pml4 THEN Cleared ELSE Dirty],
              free  |-> Frames]
    /\ fractal = FALSE

Map(v, p) ==
    /\ Needed(mem, v) <= Cardinality(mem.free)
    /\ mem' = paging_map(mem, v, p)
    /\ UNCHANGED fractal

Unmap(v) ==
    /\ HasPage(mem, v)
    /\ mem' = paging_unmap(mem, v)
    /\ UNCHANGED fractal

\* paging_enable
Enable ==
    /\ ~fractal
    /\ fractal' = TRUE
    /\ UNCHANGED mem

Next ==
    \/ Enable
    \/ \E v \in Virts : Unmap(v) \/ \E p \in Phys : Map(v, p)

Spec == Init /\ [][Next]_vars
-----------------------------------------------------------------------------
(* Properties *)

\* What the processor finds for page v.
Walk(v) == IF HasPage(mem, v) THEN below(mem, PtOf(mem, v), v[4]) ELSE Unmapped

Present(t) == {i \in Idx : mem.table[t][i].present}
Below(ts) == UNION {{below(mem, t, i) : i \in Present(t)} : t \in ts}
Pdps == Below({k_pml4})
Pds  == Below(Pdps)
Pts  == Below(Pds)

\* The entries that point to tables.
TableEntries == {e \in ({k_pml4} \cup Pdps \cup Pds) \X Idx : mem.table[e[1]][e[2]].present}

\* The count of an entry is the number of entries in use in the table it points
\* to, and no table that is in use is empty (the subcount of paging_map and
\* paging_unmap, paging.c:132, 163, 174, 249-271).
SubcountExact ==
    \A e \in TableEntries :
        LET entry == mem.table[e[1]][e[2]]
        IN  entry.sub = Cardinality(Present(entry.to)) /\ entry.sub > 0

\* A frame is a table for one entry of one table, and the allocator does not have
\* it: no two pages share a table that one of them does not own.
TablesOwned ==
    /\ \A e, o \in TableEntries : below(mem, e[1], e[2]) = below(mem, o[1], o[2]) => e = o
    /\ (Pdps \cup Pds \cup Pts) \cap (mem.free \cup {k_pml4}) = {}

\* Until paging is enabled a frame that is no table is back with the allocator
\* ("remove table if empty", paging.c:248, 259, 270).  Afterwards it is not.
TablesReturned == ~fractal => Frames \subseteq mem.free \cup Pdps \cup Pds \cup Pts

AS == INSTANCE AddressSpace WITH mapping <- [v \in Virts |-> Walk(v)]

\* Mapping or unmapping a page changes where that page is and no other, through
\* whatever tables are made, shared and removed on the way.
ImplementsAddressSpace == AS!ASSpec
=============================================================================
