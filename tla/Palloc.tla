------------------------------- MODULE Palloc -------------------------------
(***************************************************************************)
(* The physical page allocator, kernel/src/memory/palloc.c: one buddy      *)
(* allocator in each free region of the memory map, with its bitmaps in    *)
(* the first pages of the region.                                          *)
(*                                                                         *)
(* kmain calls palloc_init twice: before paging is on, for the regions     *)
(* that begin in low memory, and afterwards for the others.  The second    *)
(* call maps the bitmaps it writes, which takes pages for page tables from *)
(* the regions that are there already.  The actions are combined with the  *)
(* rest of kmain in module BootMap.                                        *)
(*                                                                         *)
(* A buddy allocator is what module Buddy shows it to be while TailFits of *)
(* its page count: it knows the pages in use and finds the lowest free     *)
(* place.  Of another count it is not (buddy_alloc.c:114; module Buddy's   *)
(* run of 17 pages hands out a page twice), and what Places, Mark and      *)
(* FreePages say of it is not what the code does: TailsFit says that there *)
(* is none, and the properties of the allocations suppose it.              *)
(***************************************************************************)
EXTENDS BootInfo, Sequences, FiniteSets
LOCAL INSTANCE FiniteSetsExt

CONSTANTS PageBytes,    \* 4096
          MaxOrder,     \* PALLOC_MAX_BUDDY_ORDER
          HeaderBytes,  \* sizeof(buddy_t)
          DescBytes,    \* sizeof(buddy_desc_t)
          FirstMax,     \* max_addr of the first call of palloc_init
          Counts,       \* the page counts that callers ask for
          MaxLive       \* a bound: the allocations callers have at one time

Free == "free"
Allocatable == "allocatable"

ASSUME PallocAssumption ==
    /\ {PageBytes, HeaderBytes, DescBytes} \subseteq Nat \ {0}
    /\ MaxOrder \in 0 .. 15 /\ MaxLive \in Nat /\ FirstMax \in Nat
    /\ Counts \subseteq Nat \ {0}

VARIABLES k_mem_map,  \* the memory map: a sequence of [base, size, type]
          buddy,      \* for each entry, what its buddy allocator knows
          live,       \* what palloc_alloc returned and was not given back
          frames,     \* those of them that are page tables
          pass, i     \* the calls of palloc_init, and the entry this one is at

pallocVars == <<k_mem_map, buddy, live, frames, pass, i>>
-----------------------------------------------------------------------------
(* The layout of a region *)

Pow2Table == <<1, 2, 4, 8, 16, 32, 64, 128, 256, 512, 1024, 2048, 4096, 8192, 16384, 32768>>
Pow2(k) == Pow2Table[k + 1]

\* The first address of a whole page.
first_page(e) ==
    IF e.base = 0 THEN 0 ELSE (((e.base - 1) \div PageBytes) + 1) * PageBytes

page_count(e) == (EndOf(e) - first_page(e)) \div PageBytes

\* buddy_get_possible_order and buddy_get_size
OrderOf(n) == CHOOSE k \in 0 .. MaxOrder :
                 (Pow2(k) <= n \/ k = 0) /\ (k = MaxOrder \/ n < Pow2(k + 1))

\* The bitmap of one order, buddy_get_size_at_order.  The loop over the orders is
\* written out, for the highest one there may be.
BitmapBytes(n, k) == IF k <= OrderOf(n) THEN ((n \div Pow2(k) - 1) \div 8) + 1 ELSE 0
AllBitmapBytes(n) ==
    BitmapBytes(n, 0) + BitmapBytes(n, 1) + BitmapBytes(n, 2) + BitmapBytes(n, 3)
    + BitmapBytes(n, 4) + BitmapBytes(n, 5) + BitmapBytes(n, 6) + BitmapBytes(n, 7)
    + BitmapBytes(n, 8) + BitmapBytes(n, 9) + BitmapBytes(n, 10) + BitmapBytes(n, 11)
    + BitmapBytes(n, 12) + BitmapBytes(n, 13) + BitmapBytes(n, 14) + BitmapBytes(n, 15)

buddy_get_size(n) == AllBitmapBytes(n) + HeaderBytes + (OrderOf(n) + 1) * DescBytes

\* Mutant: the last page of the bitmaps is not counted when it is not full.
bud_page_count_down(e) == buddy_get_size(page_count(e)) \div PageBytes

bud_page_count(e) == ((buddy_get_size(page_count(e)) - 1) \div PageBytes) + 1

\* The regions that palloc_init takes.
Takes(e, max_addr) ==
    /\ e.type = Free
    /\ e.base <= max_addr
    /\ first_page(e) < EndOf(e)
    /\ page_count(e) > 0 /\ bud_page_count(e) < page_count(e)
    /\ first_page(e) + bud_page_count(e) * PageBytes - 1 <= max_addr

\* buddy_create
NewBuddy(e) == [data  |-> first_page(e) + bud_page_count(e) * PageBytes,
                count |-> page_count(e) - bud_page_count(e),
                used  |-> {}]
NoBuddy == [data |-> 0, count |-> 0, used |-> {}]

\* Every bitmap has a bit for the partial block at the end of n pages, as in
\* module Buddy.
TailFits(n) == \A k \in 0 .. OrderOf(n) : (n - 1) \div Pow2(k) < 8 * BitmapBytes(n, k)
-----------------------------------------------------------------------------
(* buddy_find, buddy_alloc and buddy_free, on a whole allocator *)

Run(p, n) == p .. p + n - 1

\* What buddy_find looks for: a free block of the smallest order that holds n
\* pages, or as many of the highest order in a row.
Wanted(b, n) ==
    LET order == OrderOf(b.count)
        fits  == {k \in 0 .. order : n <= Pow2(k)}
    IN  IF fits # {} THEN [align |-> Pow2(Min(fits)), len |-> Pow2(Min(fits))]
        ELSE [align |-> Pow2(order), len |-> (((n - 1) \div Pow2(order)) + 1) * Pow2(order)]

Places(b, n) ==
    {p \in 0 .. b.count - 1 :
        /\ p % Wanted(b, n).align = 0 /\ p + Wanted(b, n).len <= b.count
        /\ Run(p, Wanted(b, n).len) \cap b.used = {}}

Active == {k \in DOMAIN k_mem_map : k_mem_map[k].type = Allocatable}

\* The result of palloc_alloc(n) on buddies bs: from the first region with room.
RoomFor(bs, n) == {k \in Active : Places(bs[k], n) # {}}
PlaceIn(bs, n) == [region |-> Min(RoomFor(bs, n)),
                   idx    |-> Min(Places(bs[Min(RoomFor(bs, n))], n))]
Mark(bs, at, n) == [bs EXCEPT ![at.region].used = @ \cup Run(at.idx, n)]
Address(bs, at) == bs[at.region].data + at.idx * PageBytes

\* n pages for page tables, one palloc_alloc(1) after the other: the first regions
\* of the table and in them the first pages, which is the order of addresses.
FreeAddresses ==
    UNION {{buddy[k].data + p * PageBytes : p \in Places(buddy[k], 1)} : k \in Active}
FirstFree(n) ==
    {a \in FreeAddresses : Cardinality({b \in FreeAddresses : b < a}) < n}

\* The allocators after that.
MarkTables(taken) ==
    [k \in DOMAIN buddy |->
        [buddy[k] EXCEPT !.used = @ \cup {p \in 0 .. buddy[k].count - 1 :
                                             buddy[k].data + p * PageBytes \in taken}]]
-----------------------------------------------------------------------------
(* The calls *)

PallocInit == buddy = <<>> /\ live = {} /\ frames = {} /\ pass = 0 /\ i = 1

max_addr == IF pass = 1 THEN FirstMax ELSE EndOf(k_mem_map[Len(k_mem_map)])
InCall == pass > 0 /\ i <= Len(k_mem_map)

\* kmain calls palloc_init, for the first or the second time.
palloc_init ==
    /\ pass' = pass + 1 /\ i' = 1
    /\ buddy' = IF pass = 0 THEN [k \in DOMAIN k_mem_map |-> NoBuddy] ELSE buddy
    /\ UNCHANGED <<k_mem_map, live, frames>>

\* The allocators bs, with new ones for the given regions.
WithNew(bs, regions) ==
    [k \in DOMAIN bs |-> IF k \in regions THEN NewBuddy(k_mem_map[k]) ELSE bs[k]]

\* n page tables come out of the allocators, and the regions get new ones.
TakeTables(n, regions) ==
    \E taken \in {FirstFree(n)} :
        /\ Cardinality(taken) = n
        /\ buddy' = WithNew(MarkTables(taken), regions)
        /\ frames' = frames \cup taken
        /\ live' = live \cup {[addr |-> a, count |-> 1] : a \in taken}

\* Mutant: a region that is in use is taken again.
InitEntryAgain(n) ==
    /\ InCall
    /\ Takes([k_mem_map[i] EXCEPT !.type = Free], max_addr)
    /\ TakeTables(n, {i})
    /\ k_mem_map' = [k_mem_map EXCEPT ![i].type = Allocatable]
    /\ i' = i + 1
    /\ UNCHANGED pass

\* One iteration of palloc_init that takes the region, after mapping its bitmaps
\* has taken n page tables.
InitEntry(n) ==
    /\ InCall
    /\ \E e \in {k_mem_map[i]} : Takes(e, max_addr)
    /\ TakeTables(n, {i})
    /\ k_mem_map' = [k_mem_map EXCEPT ![i].type = Allocatable]
    /\ i' = i + 1
    /\ UNCHANGED pass

SkipEntry ==
    /\ InCall
    /\ \E e \in {k_mem_map[i]} : ~Takes(e, max_addr)
    /\ i' = i + 1
    /\ UNCHANGED <<k_mem_map, buddy, live, frames, pass>>

\* What callers other than paging_map hold.
Lent == {a \in live : a.addr \notin frames}

\* palloc_alloc and palloc_free, by anyone outside of palloc_init.
Alloc(n) ==
    /\ ~InCall /\ Cardinality(Lent) < MaxLive
    /\ RoomFor(buddy, n) # {}
    /\ LET at == PlaceIn(buddy, n) IN
       /\ buddy' = Mark(buddy, at, n)
       /\ live' = live \cup {[addr |-> Address(buddy, at), count |-> n]}
    /\ UNCHANGED <<k_mem_map, frames, pass, i>>

\* The regions whose entry contains the address.
Containing(addr) ==
    {k \in Active : k_mem_map[k].base <= addr /\ addr < EndOf(k_mem_map[k])}

FreePages(a) ==
    /\ ~InCall
    /\ buddy' = [k \in DOMAIN buddy |->
                    IF k \notin Containing(a.addr) THEN buddy[k]
                    ELSE [buddy[k] EXCEPT !.used = @ \
                             Run((a.addr - buddy[k].data) \div PageBytes, a.count)]]
    /\ live' = live \ {a}
    /\ UNCHANGED <<k_mem_map, frames, pass, i>>
-----------------------------------------------------------------------------
(* Properties *)

LastByte(a) == a.addr + a.count * PageBytes - 1

\* The bitmaps of a region end before the pages it hands out begin, and begin in
\* the region: the size was computed for more pages than the allocator gets.
BitmapsFit ==
    \A k \in Active :
        /\ k_mem_map[k].base <= first_page(k_mem_map[k])
        /\ first_page(k_mem_map[k]) + buddy_get_size(buddy[k].count) <= buddy[k].data
        /\ buddy[k].data + buddy[k].count * PageBytes <= EndOf(k_mem_map[k])

\* No region has an allocator whose partial last block shares its bit with a block
\* of the next order.
TailsFit == \A k \in Active : TailFits(buddy[k].count)

\* While TailsFit, every allocation is whole pages of one region, behind the pages of that
\* region's bitmaps and before its end (palloc_init's rounding), no two overlap,
\* over all regions, those for page tables that palloc_init itself causes
\* included, and a second palloc_init forgets none.
AllocationsDisjoint ==
    /\ \A a \in live :
          /\ a.addr % PageBytes = 0
          /\ \E k \in Active : buddy[k].data <= a.addr /\ LastByte(a) < EndOf(k_mem_map[k])
    /\ \A a, b \in live : a = b \/ LastByte(a) < b.addr \/ LastByte(b) < a.addr
    /\ \A k \in Active : \A p \in 0 .. buddy[k].count - 1 :
          p \in buddy[k].used <=>
            \E a \in live : LET at == buddy[k].data + p * PageBytes
                            IN  a.addr <= at /\ at <= LastByte(a)
=============================================================================
