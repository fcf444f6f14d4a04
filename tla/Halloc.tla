------------------------------- MODULE Halloc -------------------------------
(***************************************************************************)
(* The kernel heap, kernel/src/memory/halloc.c: malloc, realloc and free.  *)
(*                                                                         *)
(* The heap is a list of blocks of whole pages.  A block is tiled by       *)
(* chunks, each with a header that holds its size, the size of the chunk   *)
(* before it (`prev') and whether it is in use; the free chunks of a block *)
(* are on a list sorted by size, largest first.  malloc looks at the first *)
(* free chunk of every block in turn and splits it; free joins a chunk     *)
(* with its free neighbours and gives a block back when nothing of it is   *)
(* in use.                                                                 *)
(*                                                                         *)
(* The doubly linked free list is a sequence of offsets here.  A header    *)
(* that was joined into another chunk is forgotten; what the code would    *)
(* read where there is no header is NoHeader.                              *)
(***************************************************************************)
EXTENDS Integers, Sequences, FiniteSetsExt, SequencesExt

CONSTANTS BlockBytes,   \* HALLOC_BLOCK, the size of a page
          AllocHeader,  \* sizeof(alloc_header_t)
          BlockHeader,  \* sizeof(block_header_t)
          Workloads,    \* sets of calls, one of which is made: the sizes asked
                        \* for, a bound on the blocks that exist at one time, and
                        \* whether malloc splits chunks that another one follows
          FollowStale,  \* may free follow a `prev' that such a split made stale?
          DropFirst     \* may the first block of several become empty?

ASSUME HallocAssumption ==
    /\ {BlockBytes, BlockHeader} \subseteq Nat \ {0}
    /\ AllocHeader \in Nat \ {0, 1}
    /\ BlockHeader + 1 + AllocHeader < BlockBytes
    /\ \A w \in Workloads : /\ w.sizes \subseteq Nat \ {0} /\ w.blocks \in Nat \ {0}
                            /\ w.splitsInside \in BOOLEAN
    /\ {FollowStale, DropFirst} \subseteq BOOLEAN

VARIABLES heap,  \* [list: the blocks from halloc_last on, blk: their contents]
          live,  \* what malloc returned and was not freed
          load   \* the member of Workloads

vars == <<heap, live, load>>
-----------------------------------------------------------------------------
(* Blocks and chunks *)

BlockIds == 1 .. load.blocks
NoBlock  == [pages |-> 0]
NoHeader == [size |-> 0, prev |-> 0, used |-> FALSE]

header(b, c) == IF c \in DOMAIN b.chunk THEN b.chunk[c] ELSE NoHeader
Next(b, c) == c + header(b, c).size

\* The function f without x in its domain.
Without(f, x) == [y \in DOMAIN f \ {x} |-> f[y]]
With(f, x, v) == [y \in DOMAIN f \cup {x} |-> IF y = x THEN v ELSE f[y]]

\* WITHIN_BLOCK: there is a chunk behind chunk c.
within_block(b, c) == Next(b, c) <= b.pages * BlockBytes - AllocHeader

init_block(pages) ==
    [pages |-> pages, rc |-> 0, free |-> <<BlockHeader>>,
     chunk |-> [c \in {BlockHeader} |->
                   [size |-> pages * BlockBytes - BlockHeader - 1,
                    prev |-> 0, used |-> FALSE]]]

\* create_block: as many pages as the chunk and the block's header take.
BlockPages(bytes) == ((bytes + BlockHeader) \div BlockBytes) + 1

\* Mutant: the search stops at the first entry.
freelist_insert_second(b, c) ==
    [b EXCEPT !.free = IF @ # <<>> /\ b.chunk[c].size < header(b, Head(@)).size
                       THEN <<Head(@), c>> \o Tail(@) ELSE <<c>> \o @]

\* Before the first chunk that is not larger, or at the end.
freelist_insert(b, c) ==
    LET fits == {k \in DOMAIN b.free : b.chunk[c].size >= header(b, b.free[k]).size}
    IN  [b EXCEPT !.free =
            InsertAt(@, IF fits = {} THEN Len(@) + 1 ELSE Min(fits), c)]

freelist_take(b, c) == [b EXCEPT !.free = RemoveFirst(@, c)]

\* What chunk c has more than `size' becomes a free chunk of its own.
cut_off(b, c, size) ==
    LET remains == [size |-> b.chunk[c].size - size, prev |-> size, used |-> FALSE]
        inserted == freelist_insert([b EXCEPT !.chunk = With(@, c + size, remains)], c + size)
    IN  [inserted EXCEPT !.chunk[c].size = size]

\* Mutant: the block does not count a chunk that it took whole.
split_uncounted(b, c, size) ==
    IF b.chunk[c].size - size <= AllocHeader
    THEN [freelist_take(b, c) EXCEPT !.chunk[c].used = TRUE]
    ELSE [cut_off(freelist_take(b, c), c, size) EXCEPT !.chunk[c].used = TRUE, !.rc = @ + 1]

\* Mutant: a remainder that is too small for a header is lost.
split_tight(b, c, size) ==
    LET taken == freelist_take(b, c)
        cut   == IF b.chunk[c].size - size <= AllocHeader
                 THEN [taken EXCEPT !.chunk[c].size = size] ELSE cut_off(taken, c, size)
    IN  [cut EXCEPT !.chunk[c].used = TRUE, !.rc = @ + 1]

\* The chunk c is taken for `size' bytes, whole if too little would remain.
split(b, c, size) ==
    LET taken == freelist_take(b, c)
        cut   == IF b.chunk[c].size - size <= AllocHeader THEN taken ELSE cut_off(taken, c, size)
    IN  [cut EXCEPT !.chunk[c].used = TRUE, !.rc = @ + 1]

\* free, the part inside the block: join with the chunk before, with the chunk
\* behind, and put what results on the free list.  Chunk c goes into chunk p, the
\* one before it; x is the one of the two that was free.
absorb(f, p, c, size) == Without([f EXCEPT ![p].size = @ + size], c)

merged(b, p, c, x) ==
    freelist_take([b EXCEPT !.chunk = absorb(@, p, c, header(b, c).size)], x)

joinBack(b, c) ==
    LET p == c - header(b, c).prev
    IN  IF header(b, c).prev # 0 /\ ~header(b, p).used
        THEN [at |-> p, b |-> merged(b, p, c, p)] ELSE [at |-> c, b |-> b]

joinFront(b, c) ==
    LET n      == Next(b, c)
        joined == merged(b, c, n, n)
    IN  IF ~within_block(b, c) THEN b
        ELSE IF header(b, n).used THEN [b EXCEPT !.chunk[n].prev = b.chunk[c].size]
        ELSE IF within_block(b, n)
             THEN [joined EXCEPT !.chunk[Next(b, n)].prev = joined.chunk[c].size]
             ELSE joined

release(b, c) ==
    IF b.free = <<>>
    THEN [b EXCEPT !.free = <<c>>, !.chunk[c].used = FALSE, !.rc = @ - 1]
    ELSE LET back  == joinBack(b, c)
             front == joinFront(back.b, back.at)
         IN  freelist_insert([front EXCEPT !.chunk[back.at].used = FALSE, !.rc = @ - 1],
                             back.at)

-----------------------------------------------------------------------------
(* malloc and free on a heap *)

\* Mutant: split takes any free chunk.
HeadFitsAny(b, size) == b.free # <<>>

\* march looks at the head of the free list of each block.
HeadFits(b, size) == b.free # <<>> /\ b.chunk[Head(b.free)].size >= size
Fits(h, size) == {k \in DOMAIN h.list : HeadFits(h.blk[h.list[k]], size)}

Unused(h) == {id \in BlockIds : h.blk[id] = NoBlock}
Roomy(h, size) == Fits(h, size) # {} \/ Unused(h) # {}

\* The block that serves the request: the first on the list that can, or a new
\* one, which becomes the first on the list.
Serving(h, size) == IF Fits(h, size) # {} THEN h.list[Min(Fits(h, size))]
                                          ELSE Min(Unused(h))

march(h, size) ==
    LET id  == Serving(h, size)
        new == Fits(h, size) = {}
        b   == IF new THEN init_block(BlockPages(size)) ELSE h.blk[id]
    IN  [heap |-> [list |-> IF new THEN <<id>> \o h.list ELSE h.list,
                   blk  |-> [h.blk EXCEPT ![id] = split(b, Head(b.free), size)]],
         blk  |-> id,
         off  |-> Head(b.free)]

Listed(h, id) == \E k \in DOMAIN h.list : h.list[k] = id

\* When nothing of the block is in use any more it leaves the list; the first
\* block takes the whole list with it.
free(h, a) ==
    LET b == release(h.blk[a.blk], a.off)
    IN  IF ~Listed(h, a.blk) THEN h
        ELSE IF b.rc > 0 THEN [h EXCEPT !.blk[a.blk] = b]
        ELSE [list |-> IF a.blk = h.list[1] THEN <<>>
                       ELSE RemoveFirst(h.list, a.blk),
              blk  |-> [h.blk EXCEPT ![a.blk] = NoBlock]]

\* The chunk that malloc would split has one behind it.
SplitsInside(h, size) ==
    /\ Fits(h, size) # {}
    /\ LET b == h.blk[Serving(h, size)]
           c == Head(b.free)
       IN  b.chunk[c].size - size > AllocHeader /\ within_block(b, c)

\* free would empty the first block of several.
DropsFirst(h, a) ==
    Len(h.list) > 1 /\ a.blk = h.list[1] /\ h.blk[a.blk].rc = 1

\* `prev' of the chunk that is freed leads to the chunk before it.  What free
\* does when there is no header where it leads is never followed.
PrevIsRight(h, a) ==
    LET b == h.blk[a.blk]
        p == a.off - header(b, a.off).prev
    IN  header(b, a.off).prev # 0 => p \in DOMAIN b.chunk /\ (FollowStale \/ Next(b, p) = a.off)
-----------------------------------------------------------------------------
RealSize(n) == n + AllocHeader
Allocation(m, n) == [blk |-> m.blk, off |-> m.off, size |-> n]

Init ==
    /\ load \in Workloads
    /\ heap = [list |-> <<>>, blk |-> [id \in BlockIds |-> NoBlock]]
    /\ live = {}

Malloc(n) ==
    /\ Roomy(heap, RealSize(n))
    /\ load.splitsInside \/ ~SplitsInside(heap, RealSize(n))
    /\ LET m == march(heap, RealSize(n)) IN
       /\ heap' = m.heap
       /\ live' = live \cup {Allocation(m, n)}
    /\ UNCHANGED load

Free(a) ==
    /\ DropFirst \/ ~DropsFirst(heap, a)
    /\ PrevIsRight(heap, a)
    /\ heap' = free(heap, a)
    /\ live' = live \ {a}
    /\ UNCHANGED load

\* realloc leaves a chunk of the right size alone; otherwise it allocates a new
\* one, copies and frees the old one.  What realloc does to an allocation whose
\* block left the list is not followed.
ReallocInPlace(a, n) ==
    /\ Listed(heap, a.blk)
    /\ header(heap.blk[a.blk], a.off).size = RealSize(n)
    /\ live' = (live \ {a}) \cup {[a EXCEPT !.size = n]}
    /\ UNCHANGED <<heap, load>>

ReallocByCopy(a, n) ==
    /\ Listed(heap, a.blk)
    /\ header(heap.blk[a.blk], a.off).size # RealSize(n)
    /\ Roomy(heap, RealSize(n))
    /\ load.splitsInside \/ ~SplitsInside(heap, RealSize(n))
    /\ LET m == march(heap, RealSize(n)) IN
       /\ DropFirst \/ ~DropsFirst(m.heap, a)
       /\ PrevIsRight(m.heap, a)
       /\ heap' = free(m.heap, a)
       /\ live' = (live \ {a}) \cup {Allocation(m, n)}
    /\ UNCHANGED load

Realloc(a, n) == ReallocInPlace(a, n) \/ ReallocByCopy(a, n)

HallocNext ==
    \/ \E n \in load.sizes : Malloc(n)
    \/ \E a \in live : Free(a) \/ \E n \in load.sizes : Realloc(a, n)

Spec == Init /\ [][HallocNext]_vars
-----------------------------------------------------------------------------
(* Properties *)

Bytes(b) == 0 .. b.pages * BlockBytes - 1
Offsets(b) == BlockHeader .. b.pages * BlockBytes - AllocHeader - 1
HeaderType(b) == [size : Bytes(b), prev : Bytes(b), used : BOOLEAN]

TypeOK ==
    /\ heap.list \in Seq(BlockIds)
    /\ \A id \in BlockIds : Listed(heap, id) =>
          LET b == heap.blk[id] IN
          /\ b.pages \in Nat \ {0} /\ b.rc \in Nat
          /\ b.free \in Seq(Offsets(b))
          /\ DOMAIN b.chunk \subseteq Offsets(b)
          /\ b.chunk \in [DOMAIN b.chunk -> HeaderType(b)]
    /\ \A a \in live : a.blk \in BlockIds /\ a.off \in Nat /\ a.size \in load.sizes

\* An allocation with its header.
Extent(a) == a.off .. a.off + RealSize(a.size) - 1

\* What malloc returned and was not freed overlaps nothing else that is in use,
\* header included, and stays inside its block, behind the block's own header
\* (malloc, free, split and both joins).
LiveDisjoint ==
    \A a \in live :
        /\ BlockHeader <= a.off
        /\ a.off + RealSize(a.size) < heap.blk[a.blk].pages * BlockBytes
        /\ \A o \in live \ {a} : o.blk = a.blk => Extent(o) \cap Extent(a) = {}

OnList(P(_)) == \A k \in DOMAIN heap.list : P(heap.blk[heap.list[k]])

\* The chunks follow one another without a gap from the block's header to its
\* last byte.
TiledBlock(b) ==
    LET end == b.pages * BlockBytes - 1
        starts == {BlockHeader} \cup {Next(b, c) : c \in DOMAIN b.chunk}
    IN  starts = DOMAIN b.chunk \cup {end} /\ end \notin DOMAIN b.chunk

\* Two free chunks are never neighbours.
JoinedBlock(b) ==
    \A c \in DOMAIN b.chunk :
        ~b.chunk[c].used /\ Next(b, c) \in DOMAIN b.chunk => b.chunk[Next(b, c)].used

\* `prev' of every chunk is the size of the chunk before it (halloc.h:13).
PrevOf(b) ==
    /\ header(b, BlockHeader).prev = 0
    /\ \A c \in DOMAIN b.chunk :
        Next(b, c) \in DOMAIN b.chunk => header(b, Next(b, c)).prev = b.chunk[c].size

\* Neither a split nor a join loses memory, free joins on both sides, and as long
\* as malloc splits no chunk that another one follows the chunks can be walked
\* in both directions, as free does.
Tiled ==
    /\ TypeOK
    /\ OnList(TiledBlock)
    /\ OnList(JoinedBlock)
    /\ ~load.splitsInside => OnList(PrevOf)

FreeListOf(b) ==
    /\ ToSet(b.free) = {c \in DOMAIN b.chunk : ~b.chunk[c].used}
    /\ Cardinality(ToSet(b.free)) = Len(b.free)
    /\ \A k \in DOMAIN b.free : k > 1 =>
          b.chunk[b.free[k - 1]].size >= b.chunk[b.free[k]].size

\* A chunk is free exactly when the free list holds it, once, and the list is
\* sorted, so a block whose first free chunk is too small has none that fits
\* (march looks at no other).
FreeListExact == OnList(FreeListOf)

\* A block counts what is live in it, is on the list exactly as long as that is
\* not nothing, and only such blocks keep their pages (rc, halloc_last).
BlocksHeld ==
    \A id \in BlockIds :
        LET held == {a \in live : a.blk = id} IN
        /\ Listed(heap, id) <=> held # {}
        /\ heap.blk[id] # NoBlock <=> held # {}
        /\ held # {} => heap.blk[id].rc = Cardinality(held)
=============================================================================
