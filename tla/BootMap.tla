------------------------------ MODULE BootMap ------------------------------
(***************************************************************************)
(* The start of the kernel, kmain in kernel/src/main.c, up to the first    *)
(* use of the file system: the firmware's map and the loader's pieces      *)
(* become the memory map (module MemMap), free memory gets its allocators  *)
(* (module Palloc), everything in use is mapped and paging is enabled.     *)
(*                                                                         *)
(* The page tables are modelled by which of them exist: a table of level l *)
(* covers Fan^l pages, and mapping a page allocates those of its tables    *)
(* that are missing.  Module Paging has the tables themselves.             *)
(*                                                                         *)
(* Swallowing is TRUE: memmap_define is all of it.  A definition's argument *)
(* is bound by \E over a set of one, so that TLC computes it once.         *)
(***************************************************************************)
EXTENDS Palloc
LOCAL INSTANCE FiniteSetsExt

CONSTANTS Machines,    \* firmware maps with the sizes of what is loaded
          Top,         \* no machine has memory at or behind this address
          Fan,         \* PAGING_ENTRY_COUNT, 512
          LoaderBase, LoaderSize,  \* the second stage
          KernelBase,  \* the lowest address of the kernel's segments
          BiosEnd,     \* the BIOS's data area is 0 .. BiosEnd-1
          Ebda,        \* and [base, size] of the upper one
          Screen,      \* [base, size] of the text screen
          ScreenPages  \* the pages kmain maps from there on: 80 * 25 * 2

VARIABLES machine,     \* the machine that starts
          stage,       \* how far kmain has come
          loop, j,     \* its loops over types and entries
          mpc, mi,     \* memmap_agregate's place and index
          mapped,      \* the pages (address div PageBytes) that are mapped
          tables       \* the page tables below the PML4, as <<level, number>>

MM == INSTANCE MemMap
        WITH map <- k_mem_map, pc <- mpc, i <- mi, asked <- <<>>, Swallowing <- TRUE, None <- "none",
             Types <- {Free, Allocatable, "reserved", "acpi", "dead", "bios", "software"}

mapVars   == <<k_mem_map, mpc, mi>>
tableVars == <<mapped, tables>>
restOfPalloc == <<buddy, live, frames, pass, i>>
bootVars  == <<pallocVars, machine, stage, loop, j, mpc, mi, mapped, tables>>
-----------------------------------------------------------------------------
(* What kmain finds *)

\* k_binfo, on machine m.
InfoOf(m) == Placed(KernelBase, KernelBase + m.kernel_size, m.initrd_size, m.cmdlen,
                    Len(m.firmware))
binfo == InfoOf(machine)

loader == piece(LoaderBase, LoaderSize)
Loaded == {loader, binfo.kernel, binfo.initrd, binfo.cmdline, binfo.mmap, binfo.binfo}

\* The firmware's types in the order of kmain's loops, and what they become.
LoopsUsableLast == <<"rsvd", "acpi_rec", "nvs", "bad_mem", "other", "usable">>
Loops == <<"usable", "rsvd", "acpi_rec", "nvs", "bad_mem", "other">>
Becomes == [usable |-> Free, rsvd |-> "reserved", acpi_rec |-> "acpi", nvs |-> "acpi",
            bad_mem |-> "dead", other |-> "dead"]

region(p, t) == [base |-> p.base, size |-> p.size, type |-> t]

\* Mutant: the command line and the map are given their own sizes.
PiecesExact == << region(piece(0, BiosEnd), "bios"), region(Ebda, "bios"),
                  region(loader, "software"), region(binfo.kernel, "software"),
                  region(binfo.initrd, "software"), region(binfo.cmdline, "software"),
                  region(binfo.mmap, "software") >>

\* The definitions behind the loops.  The command line has the kernel's size and
\* an entry of the map that of the boot info.
PiecesOf(m) ==
    << region(piece(0, BiosEnd), "bios"), region(Ebda, "bios"),
       region(loader, "software"), region(InfoOf(m).kernel, "software"),
       region(InfoOf(m).initrd, "software"),
       region(piece(InfoOf(m).cmdline.base, InfoOf(m).kernel.size), "software"),
       region(piece(InfoOf(m).mmap.base, Len(m.firmware) * InfoBytes), "software") >>
Pieces == PiecesOf(machine)

ASSUME BootMapAssumption ==
    /\ {Top, Fan, BiosEnd, LoaderSize} \subseteq Nat \ {0}
    /\ {LoaderBase, KernelBase, ScreenPages} \subseteq Nat
    /\ {Ebda, Screen} \subseteq [base : Nat, size : Nat \ {0}]
    /\ \A m \in Machines :
          /\ {m.kernel_size, m.initrd_size} \subseteq Nat \ {0}
          /\ m.cmdlen \in Nat
          /\ m.firmware \in Seq([base : Nat, size : Nat, type : DOMAIN Becomes]) \ {<<>>}
          /\ \A k \in DOMAIN m.firmware : EndOf(m.firmware[k]) <= Top
          /\ \A k \in DOMAIN PiecesOf(m) : EndOf(PiecesOf(m)[k]) <= Top
-----------------------------------------------------------------------------
(* Pages and their tables *)

\* The pages of paging_area_size, from the first on.
area(base, size) == base \div PageBytes .. (base + size - 1) \div PageBytes

TableOf(page, level) == <<level, page \div (Fan * (IF level > 1 THEN Fan ELSE 1)
                                              * (IF level > 2 THEN Fan ELSE 1))>>
TablesFor(pages) == {TableOf(p, l) : p \in pages, l \in 1 .. 3}
Missing(pages) == Cardinality(TablesFor(pages) \ tables)

\* paging_map_multiple, for any pages: the tables it makes and the entries.
paging_map(pages) ==
    /\ mapped' = mapped \cup pages
    /\ tables' = tables \cup TablesFor(pages)

MapNow(pages) ==
    /\ paging_map(pages)
    /\ \E n \in {Missing(pages)} : TakeTables(n, {})
    /\ UNCHANGED <<k_mem_map, pass, i, machine, mpc, mi>>

\* Mutant: only the page of the descriptor.
BitmapPagesFirst(e) == {first_page(e) \div PageBytes}

BitmapPages(e) == area(first_page(e), bud_page_count(e) * PageBytes)
-----------------------------------------------------------------------------
(* kmain *)

Init ==
    /\ machine \in Machines
    /\ k_mem_map = <<>> /\ mpc = "define" /\ mi = 0
    /\ PallocInit
    /\ stage = "firmware" /\ loop = 1 /\ j = 1
    /\ mapped = {} /\ tables = {}

\* One iteration of one of the six loops.
define_firmware ==
    /\ stage = "firmware" /\ j <= Len(machine.firmware)
    /\ \E e \in {machine.firmware[j]} :
       IF e.type = Loops[loop] /\ e.size # 0
       THEN \E r \in {region(e, Becomes[e.type])} : MM!memmap_define(r)
       ELSE UNCHANGED mapVars
    /\ j' = j + 1
    /\ UNCHANGED <<restOfPalloc, machine, stage, loop, tableVars>>

next_loop ==
    /\ stage = "firmware" /\ j > Len(machine.firmware)
    /\ IF loop < Len(Loops) THEN loop' = loop + 1 /\ stage' = stage
                            ELSE loop' = loop /\ stage' = "pieces"
    /\ j' = 1
    /\ UNCHANGED <<pallocVars, machine, mpc, mi, tableVars>>

define_piece ==
    /\ stage = "pieces" /\ j <= Len(Pieces)
    /\ \E r \in {Pieces[j]} : MM!memmap_define(r)
    /\ j' = j + 1
    /\ UNCHANGED <<restOfPalloc, machine, stage, loop, tableVars>>

agregate ==
    /\ \/ stage = "pieces" /\ j > Len(Pieces) /\ MM!AgregateStart /\ stage' = "agregate"
       \/ stage = "agregate" /\ (MM!AgregateRun \/ MM!AgregateDone)
          /\ stage' = IF mpc' = "done" THEN "low" ELSE stage
    /\ UNCHANGED <<restOfPalloc, machine, loop, j, tableVars>>

\* Both calls of palloc_init begin.
call_palloc_init ==
    /\ \/ stage = "low" /\ pass = 0
       \/ stage = "high" /\ pass = 1
    /\ palloc_init
    /\ UNCHANGED <<machine, stage, loop, j, mpc, mi, tableVars>>

\* The second call maps the bitmaps before it writes them.
init_entry ==
    /\ InCall
    /\ \E pages \in {IF stage = "high" THEN BitmapPages(k_mem_map[i]) ELSE {}} :
       \E n \in {Missing(pages)} : InitEntry(n) /\ paging_map(pages)
    /\ UNCHANGED <<machine, stage, loop, j, mpc, mi>>

skip_entry == SkipEntry /\ UNCHANGED <<machine, stage, loop, j, mpc, mi, tableVars>>

\* Mutant: paging is set up before there is an allocator.
paging_init_early ==
    /\ stage = "low" /\ pass = 0
    /\ stage' = "map" /\ j' = 1
    /\ UNCHANGED <<pallocVars, machine, loop, mpc, mi, tableVars>>

paging_init ==
    /\ stage = "low" /\ pass = 1 /\ ~InCall
    /\ stage' = "map" /\ j' = 1
    /\ UNCHANGED <<pallocVars, machine, loop, mpc, mi, tableVars>>

\* One iteration of the loop that maps software and BIOS areas.
map_entry ==
    /\ stage = "map" /\ j <= Len(k_mem_map)
    /\ \E e \in {k_mem_map[j]} :
       \E pages \in {IF e.type \in {"software", "bios"} THEN area(e.base, e.size) ELSE {}} :
          MapNow(pages)
    /\ j' = j + 1
    /\ UNCHANGED <<stage, loop>>

map_screen ==
    /\ stage = "map" /\ j > Len(k_mem_map)
    /\ \E pages \in {area(Screen.base, ScreenPages * PageBytes)} : MapNow(pages)
    /\ stage' = "bitmaps"
    /\ UNCHANGED <<loop, j>>

\* palloc_map_buddies, and paging_enable.
palloc_map_buddies ==
    /\ stage = "bitmaps"
    /\ \E pages \in {UNION {BitmapPages(k_mem_map[k]) : k \in Active}} : MapNow(pages)
    /\ stage' = "high"
    /\ UNCHANGED <<loop, j>>

\* The second palloc_init is over; what follows allocates and frees as it likes.
kernel_runs ==
    /\ stage = "high" /\ pass = 2 /\ ~InCall
    /\ stage' = "run"
    /\ UNCHANGED <<pallocVars, machine, loop, j, mpc, mi, tableVars>>

kmain == \/ define_firmware \/ next_loop \/ define_piece \/ agregate
         \/ call_palloc_init \/ init_entry \/ skip_entry
         \/ paging_init \/ map_entry \/ map_screen \/ palloc_map_buddies \/ kernel_runs

Later == /\ stage = "run"
         /\ (\E n \in Counts : Alloc(n)) \/ (\E a \in Lent : FreePages(a))
         /\ UNCHANGED <<machine, stage, loop, j, mpc, mi, tableVars>>

Next == kmain \/ Later

Spec == Init /\ [][Next]_bootVars /\ WF_bootVars(kmain)
-----------------------------------------------------------------------------
(* Properties *)

AllocatorPages == {piece(a.addr, a.count * PageBytes) : a \in live}
Bitmaps == {piece(first_page(k_mem_map[k]), bud_page_count(k_mem_map[k]) * PageBytes) : k \in Active}

Unusable == {e \in {machine.firmware[k] : k \in DOMAIN machine.firmware} :
                e.type # "usable" /\ e.size > 0}

\* No page that the allocator hands out and none of its bitmaps lies over the
\* kernel, the loader, the initrd, the command line, the firmware's map or the
\* boot info, which kmain reads to the end, nor over the BIOS's memory, nor over
\* memory that the firmware calls anything but usable, however its entries
\* overlap: kmain defines no region for the boot info.
LoadedKept ==
    \A p \in AllocatorPages \cup Bitmaps :
        \A q \in Loaded \cup Unusable \cup {piece(0, BiosEnd), Ebda} : ~Overlap(p, q)

\* Once paging is enabled everything the kernel still touches is mapped: its own
\* image, the boot info and what that points to, the screen, and the bitmaps of
\* every allocator.  Before, all it touches lies in what the loader has mapped:
\* the bitmaps and the page tables it writes.
UsedIsMapped ==
    IF stage \in {"high", "run"}
    THEN \A p \in (Loaded \ {loader}) \cup Bitmaps \cup {Screen} :
            area(p.base, p.size) \subseteq mapped
    ELSE \A p \in Bitmaps \cup {piece(a, PageBytes) : a \in frames} :
            EndOf(p) - 1 <= FirstMax

\* The type of an address comes from the strictest of the firmware's entries that
\* hold it, in whatever order they stand and overlap: usable memory that nothing
\* else claims is free or allocatable, and no other is.
ClaimedAt(a) == {e.type : e \in {f \in {machine.firmware[k] : k \in DOMAIN machine.firmware} :
                                    MM!Holds(f, a)}}
InPieces(a) == \E k \in DOMAIN Pieces : MM!Holds(Pieces[k], a)
StricterWins ==
    stage = "low" /\ pass = 0 =>
        \A a \in 0 .. Top - 1 :
            MM!TypeAt(a) = Free <=> ClaimedAt(a) = {"usable"} /\ ~InPieces(a)

Soft == {"bios", "software"}

\* No definition that kmain makes begins in an entry, holds a later one completely
\* and ends outside of all: memmap_define leaves one of those entries in the map.
SwallowsNone ==
    /\ stage = "firmware" /\ j <= Len(machine.firmware) =>
          LET e == machine.firmware[j] IN
          e.type = Loops[loop] /\ e.size # 0 => ~MM!Swallows(region(e, Becomes[e.type]))
    /\ stage = "pieces" /\ j <= Len(Pieces) => ~MM!Swallows(Pieces[j])

\* The areas that kmain defines for the command line and the firmware's map reach
\* over the command line and, together with that for the map, the boot info.
InfoCovered(m) ==
    /\ InfoOf(m).cmdline.size <= InfoOf(m).kernel.size
    /\ EndOf(InfoOf(m).binfo) <= InfoOf(m).mmap.base + Len(m.firmware) * InfoBytes

\* The pages that the mapping of this stage is about.
ToMap ==
    IF stage = "bitmaps" THEN UNION {BitmapPages(k_mem_map[k]) : k \in Active}
    ELSE IF j > Len(k_mem_map) THEN area(Screen.base, ScreenPages * PageBytes)
    ELSE IF k_mem_map[j].type \in Soft THEN area(k_mem_map[j].base, k_mem_map[j].size)
    ELSE {}

\* As long as paging is off, there are enough free pages that the loader has mapped
\* for the page tables: palloc_alloc does not look at where a page is.
LowRoom ==
    stage \in {"map", "bitmaps"} =>
        Missing(ToMap) <= Cardinality({a \in FreeAddresses : a + PageBytes - 1 <= FirstMax})

\* What the five properties above rest on and the code does not look at: that the
\* firmware's map and the pieces lie so, that the allocators are exact, and that
\* there is room enough.
Orderly == /\ SwallowsNone /\ TailsFit /\ LowRoom /\ InfoCovered(machine)
           /\ Screen.size <= ScreenPages * PageBytes

\* kmain gets to the file system: no stage waits for what a later one provides,
\* such as page tables before there is an allocator.
Boots == <>(stage = "run")
=============================================================================
