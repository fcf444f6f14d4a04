------------------------------- MODULE Buddy -------------------------------
(***************************************************************************)
(* The buddy allocator of kernel/src/memory/buddy_alloc.c, for one region, *)
(* driven by palloc_alloc and palloc_free.                                 *)
(*                                                                         *)
(* buddy_create lays one bitmap per order behind the descriptor, each      *)
(* rounded up to whole bytes; bit i of order o says that some page of      *)
(* i*2^o .. (i+1)*2^o - 1 is in use.  The code indexes a bitmap without    *)
(* looking at its length, so the memory is modelled as the code sees it:   *)
(* `bits' is the set of the addresses of the bits that are 1, counted from *)
(* the first bitmap, and an index that runs off the end of one bitmap is   *)
(* an address inside the next one.                                         *)
(*                                                                         *)
(* buddy_find and buddy_alloc are one atomic step (the kernel is one       *)
(* thread with interrupts masked); buddy_create and buddy_free are         *)
(* modelled one loop iteration per step.                                   *)
(***************************************************************************)
EXTENDS Integers

CONSTANTS BlockCount,   \* pages of the region behind the metadata
          MaxOrder,     \* PALLOC_MAX_BUDDY_ORDER, or any smaller limit
          Counts,       \* the page counts that callers ask for
          Garbage       \* what the metadata's memory may hold before use

ASSUME BlockCountAssumption == BlockCount \in Nat \ {0}
ASSUME MaxOrderAssumption   == MaxOrder \in 0 .. 15
ASSUME CountsAssumption     == Counts \subseteq 1 .. BlockCount
ASSUME GarbageAssumption    == Garbage \subseteq SUBSET Nat

VARIABLES
    ptr,        \* buddies[o].ptr, a byte offset from the first bitmap
    bits,       \* the addresses of the bits that are 1
    live,       \* what palloc_alloc handed out and was not given back
    pc,         \* "create", "idle" or "free"
    buddy_ptr,  \* where buddy_create puts the next bitmap
    arg,        \* buddy_free's parameters: the first page, the page count
    o, i,       \* the loop indices of buddy_create and buddy_free
    first, last \* buddy_free's range of blocks at order o

vars == <<ptr, bits, live, pc, buddy_ptr, arg, o, i, first, last>>
-----------------------------------------------------------------------------
(* Geometry *)

\* 1 << k, for every order the kernel uses (PALLOC_MAX_BUDDY_ORDER is 15).
Pow2Table == <<1, 2, 4, 8, 16, 32, 64, 128, 256, 512, 1024, 2048, 4096, 8192,
               16384, 32768>>
Pow2(k) == Pow2Table[k + 1]

\* buddy_get_possible_order: floor(log2(BlockCount)), MaxOrder at most.
Order == CHOOSE k \in 0 .. MaxOrder :
             /\ Pow2(k) <= BlockCount
             /\ k = MaxOrder \/ BlockCount < Pow2(k + 1)

Orders == 0 .. Order

\* buddy_get_count_at_order: the whole blocks of order k.
CountAt(k) == BlockCount \div Pow2(k)

\* Mutant: the size is not rounded up to whole bytes.
SizeAtRoundedDown(k) == CountAt(k) \div 8

\* buddy_get_size_at_order: the bytes of the bitmap of order k.
SizeAt(k) == ((CountAt(k) - 1) \div 8) + 1

\* The page p belongs to block j of order k.
Covers(k, j, p) == j * Pow2(k) <= p /\ p < (j + 1) * Pow2(k)

AllPages == 0 .. BlockCount - 1
Pages(a) == a.first .. a.first + a.count - 1

\* The address of bit j of the bitmap of order k: ptr[j/8], bit j%8.
Bit(k, j) == 8 * ptr[k] + j
IsSet(k, j) == Bit(k, j) \in bits
-----------------------------------------------------------------------------
(* buddy_find *)

\* req_order, as a set: the smallest order whose blocks hold n pages; empty when
\* the region has no such order.
Fitting(n) == {k \in Orders : n <= Pow2(k) /\ \A l \in 0 .. k - 1 : Pow2(l) < n}

\* The whole blocks of order k from j on, len of them, are free.
FreeRun(k, j, len) == /\ j + len <= CountAt(k)
                      /\ \A l \in j .. j + len - 1 : ~IsSet(k, l)

\* Mutant: a started block is not counted.
ConseqRoundedDown(n) == n \div Pow2(Order)

\* nconseq: how many blocks of the highest order n pages take.
Conseq(n) == ((n - 1) \div Pow2(Order)) + 1

\* The first pages of the places buddy_find accepts for n pages: the free
\* blocks of the smallest order that fits or, when none does, the runs of free
\* blocks of the highest order.
Candidates(n) ==
    IF Fitting(n) # {}
    THEN {p \in AllPages : \E k \in Fitting(n), j \in AllPages :
                               p = j * Pow2(k) /\ FreeRun(k, j, 1)}
    ELSE {p \in AllPages : \E j \in AllPages :
                               p = j * Pow2(Order) /\ FreeRun(Order, j, Conseq(n))}

\* buddy_find scans upwards: it returns the lowest place.
Found(n, p) == p \in Candidates(n) /\ \A q \in Candidates(n) : p <= q

\* The bits buddy_alloc sets: at every order, those of the blocks that hold a
\* page of the allocation.
Marks(a) == {Bit(b[1], b[2]) :
                b \in {b \in Orders \X AllPages :
                          \E p \in Pages(a) : Covers(b[1], b[2], p)}}
-----------------------------------------------------------------------------
Idle == [first |-> 0, count |-> 0]

Init ==
    /\ ptr = [k \in Orders |-> 0]
    /\ bits \in Garbage
    /\ live = {}
    /\ pc = "create"
    /\ buddy_ptr = 0
    /\ arg = Idle
    /\ o = 0 /\ i = 0 /\ first = 0 /\ last = 0

\* Mutant: the bitmap is placed and not cleared.
CreateOrderNoMemset ==
    /\ pc = "create" /\ o <= Order
    /\ ptr' = [ptr EXCEPT ![o] = buddy_ptr]
    /\ buddy_ptr' = buddy_ptr + SizeAt(o)
    /\ o' = o + 1
    /\ UNCHANGED <<bits, live, pc, arg, i, first, last>>

\* One iteration of buddy_create's loop: place the bitmap and clear it.
CreateOrder ==
    /\ pc = "create" /\ o <= Order
    /\ ptr' = [ptr EXCEPT ![o] = buddy_ptr]
    /\ bits' = bits \ (8 * buddy_ptr .. 8 * (buddy_ptr + SizeAt(o)) - 1)
    /\ buddy_ptr' = buddy_ptr + SizeAt(o)
    /\ o' = o + 1
    /\ UNCHANGED <<live, pc, arg, i, first, last>>

CreateDone ==
    /\ pc = "create" /\ o > Order
    /\ pc' = "idle" /\ o' = 0
    /\ UNCHANGED <<ptr, bits, live, buddy_ptr, arg, i, first, last>>

\* palloc_alloc(n) in this region: buddy_find succeeds, buddy_alloc marks.
Alloc(n) ==
    /\ pc = "idle"
    /\ \E p \in Candidates(n) :
        LET a == [first |-> p, count |-> n] IN
        /\ Found(n, p)
        /\ bits' = bits \cup Marks(a)
        /\ live' = live \cup {a}
    /\ UNCHANGED <<ptr, pc, buddy_ptr, arg, o, i, first, last>>

\* BUDDY_ALLOC_FAILED: nothing changes.
AllocFailed(n) ==
    /\ pc = "idle"
    /\ Candidates(n) = {}
    /\ UNCHANGED vars

\* palloc_free(page, count) by a caller that returns what it was given.
Free(a) ==
    /\ pc = "idle" /\ a \in live
    /\ live' = live \ {a}
    /\ pc' = "free" /\ arg' = a
    /\ o' = 0
    /\ first' = a.first /\ i' = a.first
    /\ last' = a.first + a.count - 1
    /\ UNCHANGED <<ptr, bits, buddy_ptr>>

\* Mutant: `continue' skips the increment.
FreeBlockStuck ==
    /\ pc = "free" /\ i <= last
    /\ LET used == o > 0 /\ (IsSet(o - 1, 2 * i) \/ IsSet(o - 1, 2 * i + 1)) IN
       /\ bits' = IF used THEN bits ELSE bits \ {Bit(o, i)}
       /\ i' = IF used THEN i ELSE i + 1
    /\ UNCHANGED <<ptr, live, pc, buddy_ptr, arg, o, first, last>>

\* One iteration of buddy_free's inner loops: the bit of a page is cleared,
\* that of a larger block only when both its halves are free.
FreeBlock ==
    /\ pc = "free" /\ i <= last
    /\ bits' = IF o > 0 /\ (IsSet(o - 1, 2 * i) \/ IsSet(o - 1, 2 * i + 1))
               THEN bits
               ELSE bits \ {Bit(o, i)}
    /\ i' = i + 1
    /\ UNCHANGED <<ptr, live, pc, buddy_ptr, arg, o, first, last>>

\* Mutant: the end of the range is not halved.
FreeNextOrderLastKept ==
    /\ pc = "free" /\ i > last /\ o < Order
    /\ o' = o + 1
    /\ first' = first \div 2 /\ i' = first \div 2
    /\ UNCHANGED <<ptr, bits, live, pc, buddy_ptr, arg, last>>

\* first /= 2, last /= 2 and the next order.
FreeNextOrder ==
    /\ pc = "free" /\ i > last /\ o < Order
    /\ o' = o + 1
    /\ first' = first \div 2 /\ i' = first \div 2
    /\ last' = last \div 2
    /\ UNCHANGED <<ptr, bits, live, pc, buddy_ptr, arg>>

FreeDone ==
    /\ pc = "free" /\ i > last /\ o = Order
    /\ pc' = "idle" /\ arg' = Idle
    /\ o' = 0 /\ i' = 0 /\ first' = 0 /\ last' = 0
    /\ UNCHANGED <<ptr, bits, live, buddy_ptr>>

Next ==
    \/ CreateOrder
    \/ CreateDone
    \/ \E n \in Counts : Alloc(n) \/ AllocFailed(n)
    \/ \E a \in live : Free(a)
    \/ FreeBlock
    \/ FreeNextOrder
    \/ FreeDone

\* The loops of buddy_create and buddy_free run to their ends; whether a caller
\* ever asks or gives back is its own business.
Fairness == WF_vars(CreateOrder \/ CreateDone \/ FreeBlock \/ FreeNextOrder
                        \/ FreeDone)

Spec == Init /\ [][Next]_vars /\ Fairness
-----------------------------------------------------------------------------
(* Properties *)

\* Every bitmap has a bit for the partial block at the end of the region.  It
\* has none when the whole blocks of an order fill its bytes and pages are left
\* over, as for 17 pages: 8 blocks of order 1, one byte, and page 16.
TailFits == \A k \in Orders : (BlockCount - 1) \div Pow2(k) < 8 * SizeAt(k)

LivePages == UNION {Pages(a) : a \in live}

\* The variables have the types the code gives them; a free in progress is over
\* pages of the region and its loop indices are in range.
TypeOK ==
    /\ ptr \in [Orders -> Nat]
    /\ bits \subseteq Nat
    /\ live \subseteq [first : AllPages, count : Counts]
    /\ pc \in {"create", "idle", "free"}
    /\ buddy_ptr \in Nat
    /\ arg \in [first : AllPages, count : Counts] \cup {Idle}
    /\ o \in IF pc = "create" THEN 0 .. Order + 1 ELSE Orders
    /\ i \in Nat /\ first \in Nat /\ last \in Nat

(* The inductive invariant *)

\* The orders whose bitmap buddy_create has placed and cleared.
Created == IF pc = "create" THEN 0 .. o - 1 ELSE Orders

BitsAt(k) == 0 .. 8 * SizeAt(k) - 1

\* The bitmaps follow each other and none overlaps another.
Layout ==
    /\ \A k \in Created : ptr[k] + SizeAt(k) <= buddy_ptr
    /\ \A k, l \in Created : k < l => ptr[k] + SizeAt(k) <= ptr[l]

\* A bitmap that was placed is clear until the first allocation.
Cleared ==
    pc = "create" =>
        live = {} /\ \A k \in Created : \A j \in BitsAt(k) : ~IsSet(k, j)

\* Outstanding allocations are in the region and do not overlap.
LiveDisjoint ==
    /\ \A a \in live : Pages(a) \subseteq AllPages
    /\ \A a, b \in live : a # b => Pages(a) \cap Pages(b) = {}

\* A free in progress: its range at order o encloses the pages it gives back,
\* which belong to nobody else.
Freeing ==
    pc = "free" =>
        /\ arg.count >= 1 /\ Pages(arg) \subseteq AllPages
        /\ Pages(arg) \cap LivePages = {}
        /\ o \in Orders
        /\ Covers(o, first, arg.first)
        /\ Covers(o, last, arg.first + arg.count - 1)
        /\ first <= i /\ i <= last + 1

\* The lowest bitmap is the set of the pages in use and of those that a free
\* still has to clear.
PagesMarked ==
    pc # "create" =>
        \A p \in AllPages : IsSet(0, p) <=>
            \/ p \in LivePages
            \/ pc = "free" /\ o = 0 /\ p \in Pages(arg) /\ i <= p

\* A block that holds a marked page is marked, in the middle of a free too.
MarksReachUp ==
    pc # "create" =>
        \A k \in Orders : \A j \in BitsAt(k) : \A p \in AllPages :
            Covers(k, j, p) /\ IsSet(0, p) => IsSet(k, j)

\* A block the free in progress has still to look at.
Pending(k, j) ==
    /\ pc = "free"
    /\ o < k \/ (o = k /\ i <= j)
    /\ \E p \in Pages(arg) : Covers(k, j, p)

\* A marked block holds a marked page, unless the free in progress has still to
\* look at it.
MarksReachDown ==
    pc # "create" =>
        \A k \in Orders : \A j \in BitsAt(k) : IsSet(k, j) =>
            \/ \E p \in AllPages : Covers(k, j, p) /\ IsSet(0, p)
            \/ Pending(k, j)

\* What every step preserves: the bitmaps do not overlap and, wherever a free
\* has got to, describe exactly the pages in use and the ones still to clear.
Inv == /\ TypeOK /\ Layout /\ Cleared /\ LiveDisjoint /\ Freeing
       /\ PagesMarked /\ MarksReachUp /\ MarksReachDown
-----------------------------------------------------------------------------
(* What the invariant is for *)

\* What palloc_alloc would hand out next, whatever is asked, lies in the region
\* and holds no page of an outstanding allocation (buddy_find, buddy_alloc and
\* buddy_free together: no bit of a block is clear while one of its pages is in
\* use).
NoDoubleAllocation ==
    pc = "idle" =>
        \A n \in Counts : \A p \in Candidates(n) : Found(n, p) =>
            /\ p .. p + n - 1 \subseteq AllPages
            /\ \A a \in live : Pages(a) \cap (p .. p + n - 1) = {}

\* Between two calls a block is marked only while one of its pages is in use:
\* buddy_free brings every enclosing block back, so a region whose allocations
\* are all returned, in whatever order, is as good as new.
NothingLost ==
    pc = "idle" =>
        \A k \in Orders, j \in AllPages :
            (j * Pow2(k) < BlockCount /\ IsSet(k, j)) =>
                \E p \in LivePages : Covers(k, j, p)

\* Once created, the allocator changes no bit outside the bitmaps whose size
\* buddy_get_size told palloc_init to set aside; the page behind them is the
\* first one handed out.
WritesStayInBitmaps ==
    [][pc # "create" =>
          \A b \in (bits \ bits') \cup (bits' \ bits) : b < 8 * buddy_ptr]_vars

\* The callers see a page allocator: outstanding allocations never overlap and
\* stay in the region.
PA == INSTANCE PageAllocator
ImplementsPageAllocator == PA!PASpec

\* buddy_free always gets to its end, whatever range it was given.
FreeCompletes == pc = "free" ~> pc = "idle"
=============================================================================
