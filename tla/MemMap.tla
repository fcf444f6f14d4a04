------------------------------- MODULE MemMap -------------------------------
(***************************************************************************)
(* The map of the physical memory, kernel/src/memory/memmap.c: a table of  *)
(* entries sorted by address.  kmain defines the firmware's regions, the   *)
(* BIOS's and the loaded software's on top of each other, in no order of   *)
(* addresses, and then merges the neighbours of one type.                  *)
(*                                                                         *)
(* memmap_define tells its cases apart by the entries that hold the first  *)
(* and the last address of the new region; there is one action for each.   *)
(* Entries are numbered from 1 here, from 0 in the code; 0 stands for the  *)
(* absence of an INFO flag.                                                *)
(***************************************************************************)
EXTENDS Integers, Sequences, FiniteSetsExt, SequencesExt

CONSTANTS Top,        \* regions lie in the addresses 0 .. Top-1
          Types,      \* memmap_region_type_t
          None,       \* the type of an address outside of all entries
          Swallowing  \* may a region begin inside an entry, hold a later one
                      \* completely and end outside of all entries?

ASSUME TopAssumption        == Top \in Nat \ {0}
ASSUME TypesAssumption      == None \notin Types
ASSUME SwallowingAssumption == Swallowing \in BOOLEAN

VARIABLES map,  \* k_mem_map: the entries
          pc,   \* "define" until kmain calls memmap_agregate, then "done"
          i,    \* memmap_agregate's loop index
          asked \* history: <<r>> for the region r memmap_define was last given

vars == <<map, pc, i, asked>>
-----------------------------------------------------------------------------
(* Entries and the table *)

Region == {r \in [base : 0 .. Top - 1, size : 1 .. Top, type : Types] :
              r.base + r.size <= Top}

End(e) == e.base + e.size
Holds(e, a) == e.base <= a /\ a < End(e)

memmap_insert(m, id, e) == InsertAt(m, id, e)

memmap_remove(m, f, l) == SubSeq(m, 1, f - 1) \o SubSeq(m, l + 1, Len(m))

memmap_merge(m, f, l) ==
    memmap_insert(memmap_remove(m, f, l), f,
                  [base |-> m[f].base, size |-> End(m[l]) - m[f].base,
                   type |-> m[f].type])

memmap_cut_bottom(m, id, count) ==
    IF m[id].size = count
    THEN memmap_remove(m, id, id)
    ELSE [m EXCEPT ![id] = [base |-> @.base + count, size |-> @.size - count, type |-> @.type]]

memmap_cut_top(m, id, count) ==
    IF m[id].size = count
    THEN memmap_remove(m, id, id)
    ELSE [m EXCEPT ![id] = [base |-> @.base, size |-> @.size - count, type |-> @.type]]

\* The part of memmap_split that memmap_define reaches: a hole of `size' bytes
\* at `offset' inside the entry, with a rest on both sides.
memmap_split(m, id, offset, size) ==
    memmap_insert([m EXCEPT ![id] = [base |-> @.base, size |-> offset, type |-> @.type]],
                  id + 1,
                  [base |-> m[id].base + offset + size,
                   size |-> m[id].size - offset - size,
                   type |-> m[id].type])

\* memmap_get_address_info: the first entry that holds the address, the last
\* one that ends below it, the first one that begins above it.
FirstOf(S) == IF S = {} THEN 0 ELSE Min(S)
LastOf(S)  == IF S = {} THEN 0 ELSE Max(S)
InInfo(a)     == FirstOf({k \in DOMAIN map : Holds(map[k], a)})
BeforeInfo(a) == LastOf({k \in DOMAIN map : map[k].base < a /\ End(map[k]) <= a})
AfterInfo(a)  == FirstOf({k \in DOMAIN map : a < map[k].base})

LastByte(r) == End(r) - 1

bin(r) == InInfo(r.base)
tin(r) == InInfo(LastByte(r))
bbefore(r) == BeforeInfo(r.base)
tbefore(r) == BeforeInfo(LastByte(r))
bafter(r)  == AfterInfo(r.base)
-----------------------------------------------------------------------------
(* memmap_define *)

\* The first region of all.
DefineFirst(r) ==
    /\ map = <<>>
    /\ map' = memmap_insert(map, 1, r)

\* Both ends outside of all entries: the entries in between go.
DefineOver(r) ==
    /\ map # <<>>
    /\ bin(r) = 0 /\ tin(r) = 0
    /\ bafter(r) # 0 /\ tbefore(r) # 0 /\ tbefore(r) >= bafter(r)
    /\ map' = memmap_insert(memmap_remove(map, bafter(r), tbefore(r)), bafter(r), r)

\* Both ends in the same gap.
DefineInGap(r) ==
    /\ map # <<>>
    /\ bin(r) = 0 /\ tin(r) = 0
    /\ bafter(r) = 0 \/ tbefore(r) = 0 \/ tbefore(r) < bafter(r)
    /\ map' = memmap_insert(map, IF bafter(r) # 0 THEN bafter(r) ELSE bbefore(r) + 1, r)

\* Both ends in one entry: it is retyped, clipped at an end or split.
DefineWithin(r) ==
    LET id == bin(r)
        e  == map[id]
    IN
    /\ map # <<>>
    /\ id # 0 /\ tin(r) = id
    /\ \/ /\ e.base = r.base /\ e.size = r.size
          /\ map' = [map EXCEPT ![id] = [base |-> @.base, size |-> @.size, type |-> r.type]]
       \/ /\ e.base # r.base /\ End(e) = End(r)
          /\ map' = memmap_insert(memmap_cut_top(map, id, r.size), id + 1, r)
       \/ /\ e.base = r.base /\ End(e) # End(r)
          /\ map' = memmap_insert(memmap_cut_bottom(map, id, r.size), id, r)
       \/ /\ e.base # r.base /\ End(e) # End(r)
          /\ map' = memmap_insert(memmap_split(map, id, r.base - e.base, r.size),
                                  id + 1, r)

\* The ends in two entries: both are clipped, or go when nothing is left, and
\* those in between go.
DefineAcross(r) ==
    LET b == bin(r)
        t == tin(r)
        clipped == memmap_cut_bottom(map, t, End(r) - map[t].base)
        cut(m)  == memmap_cut_top(m, b, map[b].size - (r.base - map[b].base))
    IN
    /\ map # <<>>
    /\ b # 0 /\ t # 0 /\ b # t
    /\ \/ /\ map[b].base = r.base /\ End(map[t]) = End(r)
          /\ map' = memmap_insert(memmap_remove(map, b, t), b, r)
       \/ /\ map[b].base = r.base /\ End(map[t]) # End(r)
          /\ map' = memmap_insert(memmap_remove(clipped, b, t - 1), b, r)
       \/ /\ map[b].base # r.base /\ End(map[t]) = End(r)
          /\ map' = memmap_insert(memmap_remove(cut(map), b + 1, t), b + 1, r)
       \/ /\ map[b].base # r.base /\ End(map[t]) # End(r)
          /\ map' = memmap_insert(IF b + 1 < t
                                  THEN memmap_remove(cut(clipped), b + 1, t - 1)
                                  ELSE cut(clipped), b + 1, r)

\* The region begins in an entry, holds a later one and ends outside of all.
Swallows(r) == bin(r) # 0 /\ tin(r) = 0 /\ tbefore(r) # bin(r)

\* The lower end in an entry, the upper one outside of all.
Between(r) == IF tbefore(r) # bin(r)
              THEN memmap_remove(map, bafter(r) + 1, tbefore(r))
              ELSE map

DefineFromWithin(r) ==
    LET b == bin(r)
        m == Between(r)
    IN
    /\ map # <<>>
    /\ b # 0 /\ tin(r) = 0
    /\ Swallowing \/ ~Swallows(r)
    /\ \/ /\ map[b].base = r.base
          /\ map' = [m EXCEPT ![b] = [base |-> @.base, size |-> r.size, type |-> r.type]]
       \/ /\ map[b].base # r.base
          /\ map' = memmap_insert(memmap_cut_top(m, b, map[b].size - (r.base - map[b].base)),
                                  b + 1, r)

\* Mutant: the entries in between stay.
DefineIntoWithinKeeping(r) ==
    LET t  == tin(r)
        ba == bafter(r)
    IN
    /\ map # <<>>
    /\ bin(r) = 0 /\ t # 0
    /\ \/ /\ End(map[t]) = End(r)
          /\ map' = [map EXCEPT ![ba] = r]
       \/ /\ End(map[t]) # End(r)
          /\ map' = memmap_insert(memmap_cut_bottom(map, t, End(r) - map[t].base), ba, r)

\* The upper end in an entry, the lower one outside of all.
DefineIntoWithin(r) ==
    LET t  == tin(r)
        ba == bafter(r)
        m  == IF ba # t THEN memmap_remove(map, ba, t - 1) ELSE map
    IN
    /\ map # <<>>
    /\ bin(r) = 0 /\ t # 0
    /\ \/ /\ End(map[t]) = End(r)
          /\ map' = [m EXCEPT ![ba] = r]
       \/ /\ End(map[t]) # End(r)
          /\ map' = memmap_insert(memmap_cut_bottom(m, ba, End(r) - map[t].base), ba, r)

memmap_define(r) ==
    /\ pc = "define"
    /\ \/ DefineFirst(r) \/ DefineOver(r) \/ DefineInGap(r) \/ DefineWithin(r)
       \/ DefineAcross(r) \/ DefineFromWithin(r) \/ DefineIntoWithin(r)
    /\ UNCHANGED <<pc, i>>
-----------------------------------------------------------------------------
(* memmap_agregate *)

\* Mutant: the types are not compared.
JoinsAnyType(k) == End(map[k]) = map[k + 1].base

\* The entries k and k+1 are of one type and leave no gap.
Joins(k) == map[k].type = map[k + 1].type /\ End(map[k]) = map[k + 1].base

\* The last entry of the run of joining entries that begins at k.
RunEnd(k) == Max({l \in k .. Len(map) : \A j \in k .. l - 1 : Joins(j)})

AgregateStart ==
    /\ pc = "define"
    /\ pc' = "agregate" /\ i' = 1
    /\ UNCHANGED map

\* Mutant: at most two entries are merged.
AgregatePair ==
    /\ pc = "agregate" /\ i <= Len(map)
    /\ map' = IF RunEnd(i) > i THEN memmap_merge(map, i, i + 1) ELSE map
    /\ i' = i + 1
    /\ UNCHANGED pc

\* Mutant: the loop goes on only after a merge.
AgregateRunStuck ==
    /\ pc = "agregate" /\ i <= Len(map)
    /\ map' = IF RunEnd(i) > i THEN memmap_merge(map, i, RunEnd(i)) ELSE map
    /\ i' = IF RunEnd(i) > i THEN i + 1 ELSE i
    /\ UNCHANGED pc

\* One iteration: the run that begins at i becomes one entry.
AgregateRun ==
    /\ pc = "agregate" /\ i <= Len(map)
    /\ map' = IF RunEnd(i) > i THEN memmap_merge(map, i, RunEnd(i)) ELSE map
    /\ i' = i + 1
    /\ UNCHANGED pc

AgregateDone ==
    /\ pc = "agregate" /\ i > Len(map)
    /\ pc' = "done" /\ i' = 0
    /\ UNCHANGED map
-----------------------------------------------------------------------------
\* memmap_init
Init == map = <<>> /\ pc = "define" /\ i = 0 /\ asked = <<>>

memmap_agregate == (AgregateRun \/ AgregateDone) /\ UNCHANGED asked

Next ==
    \/ \E r \in Region : memmap_define(r) /\ asked' = <<r>>
    \/ AgregateStart /\ UNCHANGED asked
    \/ memmap_agregate

Spec == Init /\ [][Next]_vars /\ WF_vars(memmap_agregate)
-----------------------------------------------------------------------------
(* Properties *)

TypeOK ==
    /\ map \in Seq(Region)
    /\ pc \in {"define", "agregate", "done"}
    /\ i \in 0 .. Len(map) + 1

\* The table holds regions of the address space, in the order of their addresses
\* and without overlap, whatever regions are defined over each other: the
\* searches of memmap_get_address_info and the buddies palloc_init places in the
\* entries rely on it.
SortedDisjoint ==
    TypeOK /\ \A k, l \in DOMAIN map : k < l => End(map[k]) <= map[l].base

\* The table and what was defined agree at every address: memmap_define(r) gives
\* the addresses of r, the region it was asked for, its type and leaves the
\* others alone, and the steps of memmap_agregate, which asks for no region,
\* change the type of no address.
TypeAt(a) == IF InInfo(a) = 0 THEN None ELSE map[InInfo(a)].type
MP == INSTANCE MemPaint WITH paint <- [a \in 0 .. Top - 1 |-> TypeAt(a)]
ImplementsMemPaint == MP!MPSpec

\* After memmap_agregate no two neighbours could be one entry, so that a free
\* area is one buddy and not several that cannot serve a large request.
Agregated == pc = "done" => \A k \in 1 .. Len(map) - 1 : ~Joins(k)

\* memmap_agregate comes to its end although the table shrinks under its loop.
AgregateEnds == pc = "agregate" ~> pc = "done"
=============================================================================
