# HadronUnix: TLA+ models, checks and proofs

HadronUnix is a small x86-64 kernel with its own two-stage BIOS loader, written
in C and assembly (`src/kernel`, `src/boot`, `src/common`). This directory models
it from the boot sector to the terminal, checks the models with TLC and proves
with TLAPS that the loader's reads, the memory map, the page allocator, the page
tables, the heap, the virtual file system, the files in it and the screen are
correct.

* [The system](#the-system): its parts, what they keep, how they interact
* [The modules](#the-modules): which models which, and how they correspond
* [The runs](#the-runs): what each checks, with which bounds
* [What a run excludes](#what-a-run-excludes): named constants and the reasons
* [Disagreements found](#disagreements-found)
* [The proofs](#the-proofs)
* [What is only checked, and what is not
  modelled](#what-is-only-checked-and-what-is-not-modelled)
* [Plan](#plan)

Run a check with `tlc -config X.cfg MCY.tla` (the table of runs says which), the
proofs with `tlapm XProof.tla` (the section about the proofs lists them).
`PROJECT.json` lists components, runs, mutants, the map from
definitions to source lines, hazards and theorems.

## The system

There is one thread. Every interrupt line is masked and no handler is installed,
so nothing interleaves with a call inside the kernel. What is hard is therefore
not concurrency but state: data structures that are changed by long sequences of
legal calls in any order, indices that were found before a table changed,
integers at their limits, failures in the middle of a call, and components that
call each other while they are half initialized.

| component | source | state | operations | hard about it |
|---|---|---|---|---|
| first stage | `boot/stage1/src` | registers, memory behind the boot sector | load the second stage, sector by sector | a count rounded up; an error in the middle |
| drive, FAT32 | `stage2/src/drive`, `stage2/src/fat32` | a call in progress | mount, walk, read | clusters, cylinders and counts that do not line up; BIOS errors between reads |
| boot options, video modes | `stage2/src/ini`, `bootopts`, `video`, `vbe` | the file's buffer, pointers into it | parse `BOOT.INI`, parse a query, search a mode | the parser ends strings with NULs in the buffer it still reads |
| loader main, ELF loader, loader memory map | `stage2/src/main.c`, `elf`, `mmap` | memory, filled piece by piece | load kernel, RAM disk, command line, map, boot info | each piece begins where the length of the last one says; program headers come in groups |
| memory map | `memory/memmap.c` | a sorted table of regions | define a region over others, merge | index arithmetic on a table that moves; 20 cases of how two regions overlap |
| buddy allocator | `memory/buddy_alloc.c` | one bitmap per order | create, find, alloc, free | the bitmaps of all orders must agree after every history |
| page allocator | `memory/palloc.c` | a buddy per region | init (twice), alloc, free | rounding at both ends of a region; init allocates from what it is building |
| paging | `memory/paging.c` | four levels of tables with counts | map, unmap, enable | tables shared by pages, removed when empty; reached in two ways |
| kernel start | `kernel/src/main.c` | the order of it all | map, allocators, page tables, paging, mounts | what is in use must be kept and mapped before anything is handed out |
| heap | `memory/halloc.c` | blocks, chunks, a sorted free list each | malloc, realloc, free | splits and joins keep sizes, back pointers and list links in step |
| virtual file system | `vfs/vfs.c` | vnodes, links, mounts, counts | walk, unlink, mount, unmount, open, close | lifetime: who frees what, in any order |
| tmpfs, devfs | `vfs/tmpfs.c`, `vfs/devfs.c` | vnodes of a driver, contents, devices | create, destroy, bind, unbind, open, read, write, close | the driver outlives its own destruction; cursors of several files into one vnode |
| tarfs, kstdio | `vfs/tarfs.c`, `vfs/kstdio.c` | a tree, cursors of open files | build from an archive, open, read, write, seek | unsigned arithmetic that wraps, mixed with int |
| kernel console, formatting | `vga/vga.c`, `kfmt.c`, `string.c` | cells, a cursor; a number's digits | print, scroll; `kprintf` | wrapping in the last row; digits counted from bits |

How they interact. The boot sector loads the second stage and jumps there. The
second stage mounts the boot partition, reads `BOOT.INI`, and reads the kernel's
segments and the RAM disk through FAT32 and the drive; it places the kernel, the
RAM disk, the command line, the firmware's map and a `bootinfo_t` one behind the
other and calls the kernel. `kmain` defines the firmware's regions and its own in
the memory map, merges them, lets the page allocator take the regions below
1 GiB, maps what it uses and the allocator's bitmaps, enables paging, and lets
the page allocator take the rest, for which paging allocates tables from the same
allocator. The heap takes blocks of pages and maps them. The file systems
allocate from the heap and refer to each other through mounts and counted
references: the archive is the root, devices are at `/dev` and files in memory at
`/tmp`. What is written to the terminal's device, or printed with `kprintf`, goes
to the text screen.

What makes each correct: what is loaded is what the disk holds, and errors are
not taken for data; regions never overlap, and the last definition wins; a page
or a byte that is in use is never handed out again, and what is given back can be
handed out; mapping one page leaves all others alone; nothing is freed while
something refers to it, and everything is when nothing does; a read returns the
bytes of its own file; the screen shows the end of what was printed, but for what a
full row drops.

The remaining components (global descriptor table, interrupts, processor modes,
ports, the loader's console) are in `PROJECT.json` and
[below](#what-is-only-checked-and-what-is-not-modelled) with the reason why they
are not modelled.

## The modules

A name in a module is that of the source where there is one. An action is the
whole function with everything it calls, unless said otherwise.

| module | models | state and actions |
|---|---|---|
| `PageAllocator` | what a page allocator promises | `live`, the outstanding allocations; `Grant`, `Release` |
| `Buddy` | `buddy_alloc.c`, with `palloc_alloc` and `palloc_free` for one region | `ptr`, `bits`: the bitmaps at their addresses, so that an index beyond one bitmap is a bit of the next; `buddy_create` and `buddy_free` one loop iteration per step |
| `MemPaint` | what a memory map promises: the last definition wins at every address, and merging changes none | `paint`; `asked`, the region asked for last; `Define` of a region |
| `MemMap` | `memmap.c` | `map`, the table; `asked`, a history of what `memmap_define` was given; `memmap_define` with one operator per branch of the code; `memmap_agregate` one iteration per step |
| `AddressSpace` | what paging promises | `mapping` |
| `Paging` | `paging.c` | `mem`: tables and free frames; `Map`, `Unmap`, `Enable` |
| `Palloc` | `palloc.c` over a whole map | `k_mem_map`, `buddy`, `live`; one entry of `palloc_init`'s loop per step, with the allocations that mapping its bitmaps causes |
| `BootInfo` | where the loader puts its pieces | a function of the sizes, which both sides of the hand-over use |
| `BootMap` | `kmain` up to the first use of the file system, and callers of the page allocator behind it | `machine`, what the firmware says and what was loaded; `stage` and `loop`, the place in `kmain`; `mapped`, `tables` |
| `Drive` | `drive.c` | `drive`, the call in progress; `scratch`, the buffer the BIOS fills; one step per BIOS call. The cylinder is packed into ten bits, as in the code (`CylinderMod`) |
| `Fat32` | `fat32.c` | `pc` names the read that is under way; a step is one BIOS call or what follows a read that has returned |
| `Stage1` | the boot sector | registers, and the sector each paragraph begins with; one step per BIOS call |
| `BootOpts` | `ini.c`, `bootopts.c`, `gfx_query.c`, the mode search of `video.c` | `ini`, what was read of the file; `text`, the buffer with the NULs put into it; positions in it; one line or one part of a query per step |
| `Loader` | `stage2_main`, `elf_loader.c`, `mmap.c` | `main`, the place in the function; `memory`, which byte of which file each byte of memory is |
| `Halloc` | `halloc.c` | `heap`: the list of blocks, each with its chunks by offset and its free list; `Malloc`, `Free`, `Realloc` |
| `Vfs` | `vfs.c`, and of `tmpfs.c` and `devfs.c` what concerns references | `mem`: vnodes and drivers; `handle`, `file`: what callers hold |
| `Tarfs` | the tree of `tarfs.c` | `node`; building is one step per entry |
| `Console` | `vga.c` | `vga`, cells and cursor; `page`, all that was printed, without scrolling and with a margin for the character that finds its row full |
| `Kfmt` | `kfmt.c`, the number conversions of `string.c` | operators: `format` walks the format item by item |
| `Kstdio` | `kstdio.c` with the reads, writes and seeks of `tarfs.c`, `tmpfs.c`, `devfs.c`, and `dev_write` of `main.c` | `file`, vnode and cursor; `inode`, the files in `/tmp`; `kfopen` ... `kfclose`, `kprintf` |
| `BuddyProof`, `MemMapProof`, `PagingProof`, `HallocProof`, `BootMapProof`, `LoaderProof`, `VfsProof`, `KstdioProof` | | the theorems about `Buddy`, `MemMap`, `Paging`, `Halloc`, `BootMap` with its `Palloc`, `Loader` with its `Fat32` and `Drive`, `Vfs`, and `Kstdio` with its `Tarfs` and `Console` |

`Buddy` implements `PageAllocator`, `MemMap` implements `MemPaint` and `Paging`
implements `AddressSpace`; the abstract specification is a property of the run.

What is composed. `Loader` is `Stage1`, `Fat32` and `BootOpts` over one `Drive`, with
`BootInfo`. `BootMap` is `Palloc` with an instance of `MemMap` whose table is the map
that `Palloc` reads, and begins with the pieces of `BootInfo`, where `Loader` ends
(`Handover` and `LoadedKept` speak of the same pieces). `Kstdio` is `Tarfs`, `Console`
and `Kfmt` with the two other file systems. `Palloc` takes its buddy allocators as
exact sets of used pages, which is what `BuddyProof` shows of them for a number of
pages with `TailFits`; of other numbers it is false, so the properties of `Palloc`'s
allocations suppose `TailsFit`, that no allocator has one. And `BootMap` knows a page
table by whether it exists, which is what `Paging` shows of counted tables.

What is abstracted: file contents are a sector and a place in it (`Fat32`), a
byte of a named file (`Loader`) or a range (`Tarfs`); a name is a model value; a
mark, a word or a number of a text is one token (`BootOpts`, `Kfmt`); the bytes of
headers are the fields the code reads. Addresses keep the relations that matter
(rounding, alignment, overlap) at a smaller scale.

The `MC` modules give the constants values that a `.cfg` cannot express. `MCVfs`
also has `vfs_unref` and the walk over mounts as the code has them, by recursion;
`Vfs` says what they come to, and TLC compares the two on every forest of links and
every chain of mounts of four vnodes (`UnrefByRecursion`, `TopByRecursion`).

## The runs

| run | module, cfg | instance | checked |
|---|---|---|---|
| `buddy` | `MCBuddy`, `Buddy.cfg` | 10 pages, blocks of at most 4, requests of 1, 2, 3 and 6; metadata in memory that was all ones or all zeros | `Inv` (the inductive invariant, with the types and `NoDoubleAllocation`), `NothingLost`, `WritesStayInBitmaps`, `ImplementsPageAllocator`, `FreeCompletes` |
| `memmap` | `MCMemMap`, `MemMap.cfg` | 6 addresses, two types, all sequences of definitions | `SortedDisjoint`, `Agregated`, `ImplementsMemPaint`, `AgregateEnds` |
| `paging` | `MCPaging`, `Paging.cfg` | five pages that share all, three, two, one or none of the tables; six frames | `SubcountExact`, `TablesOwned`, `TablesReturned`, `ImplementsAddressSpace` |
| `boot` | `MCBootMap`, `Boot.cfg` | 252 machines: firmware maps that overlap, are unordered and end at every kind of place, with kernels and RAM disks of several sizes; pages of 8 bytes, tables of 8 entries, the limit between the two calls of `palloc_init` at 400 | `BitmapsFit`, `AllocationsDisjoint`, `LoadedKept`, `UsedIsMapped`, `StricterWins`, `Orderly` (what the proofs assume of the machine), `Boots` |
| `halloc` | `MCHalloc`, `Halloc.cfg` | two workloads: one block and splits anywhere; two blocks, also of two pages, and splits of last chunks | `LiveDisjoint`, `Tiled`, `FreeListExact`, `BlocksHeld` |
| `vfs` | `MCVfs`, `Vfs.cfg` | a tmpfs, a devfs, four vnodes, two names, two open files; symmetric in names and open files | `NoDangling`, `RefcountExact`, `NothingLost` |
| `loader` | `MCLoader`, `Loader.cfg` | sectors of 2 bytes, cylinders of two tracks of 3 sectors. Three scenes: calls of the FAT32 reader with any arguments, and two kinds of BIOS error; `BOOT.INI` files of up to three lines and every query with two values for each part; whole starts of four kernels with headers in groups of two | `ReadExact`, `AnswersExact` (`WalkExact` and `ErrorsReported`), `OnlyOwnClusters`, `TransfersLegal`, `OptionsExact`, `ModeFits`, `Handover`, `LoaderEnds` |
| `files` | `MCKstdio`, `Files.cfg` | blocks of 4 bytes, ints of 4 bits, words of 6, a screen of 2 rows of 2 cells. Scenes: files of every size around a block, read through two open files; files in `/tmp`, written and read; the terminal; formats | `TreeExact`, `ReadsInside`, `TmpfsExact`, `ScreenShowsTail`, `FormatExact` |
| `buddy_tail` | `MCBuddy`, `BuddyTail.cfg` | 17 pages | `NoDoubleAllocation`, violated |
| `memmap_swallow` | `MCMemMap`, `MemMapSwallow.cfg` | as `memmap` | `SortedDisjoint`, violated |
| `halloc_split` | `MCHalloc`, `HallocSplit.cfg` | blocks of 14 bytes, splits anywhere | `LiveDisjoint`, violated |
| `vfs_mountpoint` | `MCVfs`, `VfsMountpoint.cfg` | as `vfs` | `MountpointsKept`, violated |

Types are the first conjunct of one invariant of each run (`Inv`,
`SortedDisjoint`, `Tiled`, `NoDangling`, ...), and facts that belong together are
one invariant: `Tiled` says that chunks cover the block without a gap, that
`prev` is the size of the chunk in front and that no two neighbours are free;
`RefcountExact` is about vnodes and drivers; `AllocationsDisjoint` also says that
every page handed out lies in a region of its own type.

`ImplementsMemPaint` ties each step to what was asked for: a step of `MemPaint` is a
`Define` of the region that `asked` has become, or changes nothing. `asked` changes
only where `memmap_define` is called, so a definition that paints another region or
another type, and a merge that changes an address's type, are no steps of `MemPaint`.

`ErrorsReported` says what a call returns: the BIOS's error if the BIOS failed, the
number of bytes due for any other read, `FAT32_OK` or `FAT32_NOENTRY` for any other
walk. `fat32_read` returns bytes and errors in one int (`fat32.c:157`, `:167`), and
the run has both for the same number: a read of one byte returns what the first kind
of error returns. No caller looks at what `fat32_read` returns, so the property says
which of the two comes back and not that a caller could tell.

Why the bounds are enough. Ten pages give three orders (10, 5 and 2 blocks), an
odd count with a partial block at the end, and a request that takes a run of
blocks of the highest order. Six addresses hold three regions and gaps on both
sides, so a definition can begin or end in, at the edge of or between entries and
cover one or two completely: all branches of `memmap_define`. Two indices per
table are enough for a table with one, with both and with no entry in use. In
`boot` one entry of each firmware map lies inside usable memory, across its end or
on it; usable memory ends before, at and behind the limit between the two calls,
and begins and ends at several offsets in a page; a region may be too small for
its bitmaps; three levels of tables of 8 entries have a border inside the map. The
heap's block of 21 bytes has room for three free chunks that are not neighbours,
and sizes that leave a remainder too small for a header. Four vnodes are a root
and a directory with a file in it, plus one that comes back after it was freed.
In `loader` one volume has a cluster that lies across two cylinders, and files end
before, with and behind a cluster; chains are out of order and lie between each
other; lines of `BOOT.INI` are settings, groups, comments, empty ones, repeated
ones and ones without an end or an `=`; the second stages take 3 and 9 sectors,
the last one full or with one byte. In `files` a word is 16 blocks, so an empty
file wraps as in the code, and numbers have up to four digits around the powers at
which the code counts them.

`CHECK_DEADLOCK FALSE` is there where the system may stop: the memory map is
finished (`memmap`), all frames can be used up (`paging`), callers are done
(`boot`), the loader ends in its `panic` or in the kernel (`loader`), an archive is
refused or destroyed, or a scene's bound is reached (`files`), and in some of the
violation runs.

Fairness is weak fairness of the steps of one call: `buddy_create` and
`buddy_free` (`FreeCompletes`), `memmap_agregate` (`AgregateEnds`), `kmain`
(`Boots`), the first stage, the reads and `stage2_main` (`LoaderEnds`). The
program has one thread that is never interrupted, so a loop that has another
iteration to do does it. No fairness is assumed of callers or of the choice of
what they call. A BIOS call is taken to return.

Each property has a mutant: a definition changed the way a plausible bug would
(`\* Mutant:` in the modules), under which the run finds the property violated.

## What a run excludes

Where the code misbehaves in one case, a constant of the module says whether
runs go there, or a condition keeps them away, so that the rest can be checked. Each
constant that is a switch is `FALSE` in the passing run, except that `boot` runs with
`Swallowing`: its properties hold of the whole of `memmap_define` there.

| constant or condition | excluded case | source |
|---|---|---|
| `TailFits` (an assumption of the proofs, true of the run's region) | the partial last block has no bit | `buddy_alloc.c:114` |
| `Swallowing` (MemMap) | a region that begins in an entry, covers others and ends in a gap | `memmap.c:251` |
| `splitsInside` of a workload, `FollowStale` (Halloc) | a chunk with one behind it is split, and its stale `prev` is followed later | `halloc.c:155` |
| `TailsFit`, a condition of three theorems about `BootMap` and part of `Orderly` | the same case, in one of the allocators that `palloc_init` makes | `buddy_alloc.c:114` |
| `DropFirst` (Halloc) | the first block of several becomes empty: the code forgets the whole list | `halloc.c:260` |
| `UnlinkRefused` (Vfs) | unlinking what the driver refuses, or one of two links of a name | `vfs.c:44` |
| `LoseMounts` (Vfs) | freeing a vnode that something is mounted on | `vfs.c:41` |
| `MountOrder` (Vfs) | two roots mounted on each other: every walk would recurse for ever | `vfs.c:70` |
| `FatReadsFail` (Fat32) | a sector of the FAT cannot be read: the error is taken for a cluster | `fat32.c:46` |
| `AtOnce`, a condition of `ReadExact` (Fat32) | a cluster that takes two BIOS calls: the second part is copied from where the first one is | `drive.c:57` |
| `LoaderAssumption` | a count and an offset whose sum is beyond 32 bits: `fat32_read` does not cut the count at the end of the file | `fat32.c:142` |
| `WellMade`, `StageFits` (assumptions of Loader) | sectors behind the 1024 cylinders that ten bits can name: others are read in their place. Also a drive of 256 heads, which does not fit a byte (`DriveAssumption`) | `drive.c:46` |
| `WellMade` (an assumption of Loader on its volumes) | a root directory of more entries than the first sector of a cluster holds: `fat32_walk` reads that sector and goes on to the next cluster | `fat32.c:112` |
| `Loadable`, a condition of `HandoverIsComplete` (Loader) | segments over one another, or a header whose bytes are not all in the file: `elf_loader_load` looks at neither | `elf_loader.c:28` |
| `Loadable`, too | a cluster of `BOOT.INI`, of the kernel or of the initrd that takes two BIOS calls; without it `BOOT.INI` is parsed with sectors twice | `drive.c:57` |
| `MmapCallFails` (Loader) | the first BIOS call for the firmware's map fails: the count is an error taken for a number | `stage2/src/main.c:111` |
| `SeekEmpty` (Kstdio) | `kfseek` on an empty file: the cursor becomes 2^64 - 1 | `tarfs.c:215` |
| `Small` (an assumption of the proofs about files, true of the run's archives) | a size in the archive, or of a device, that an int cannot count: `tarfs_read` and `tarfs_seek` do their arithmetic in both | `tarfs.c:201` |
| `MCScenes` (MCKstdio) | an archive with a directory twice: the second entry's vnode hides what the first one holds | `tarfs.c:94` |
| `Writes`, a condition of `ModeIsAsked`, and `MCConfigVolumes` | a query that ends behind a `:` or an `x`; a `:` before the depth where it would carry the height's inequality on | `gfx_query.c:28` |
| reads at the beginning, a condition of `TmpfsExact` (Kstdio) | `tmpfs_read` copies from the beginning of the file whatever the position is | `tmpfs.c:157` |
| `ini = vol.ini`, a condition of `ModeFits` (Loader) | what was parsed is not what the file says, for the same reason | `drive.c:57` |
| the margin, in `ScreenShowsTail` (Console) | the character that finds its row full makes a new line and is not printed | `vga.c:44` |
| `Supported`, a condition of `FormatExact` (Kfmt) | `%u`, `%ld` and `%lu` of a number that is no int: it is narrowed to one | `kfmt.c:94`, `:101`, `string.c:119` |
| the same | a negative number with a padding, whose zeros go before its sign | `string.c:126` |
| the same | a padding so long that digits which `itoa` left at the end of its buffer show | `string.c:88`, `:124` |
| the same | `%x` of a number with more digits than its padding, which are cut, or of a padding of more digits than a word has | `kfmt.c:89`, `string.c:93` |
| the same | a number without a padding behind a padded decimal one, whose padding stays | `kfmt.c:31`, `:103` |

With `DropFirst`, `UnlinkRefused`, `FatReadsFail` or `SeekEmpty` set to `TRUE`,
or without `AtOnce`, TLC finds `BlocksHeld`, `RefcountExact`, `ErrorsReported`,
`ReadsInside` and `ReadExact` violated. No comment, document or test of the
repository says what is intended there, so they are hazards and not findings.

What `fat32_read` returns is not looked at in `stage2_main` and
`elf_loader_load`. When the BIOS fails on such a read the loader goes on with what
the buffer held; the model ends there, in a place called `"undefined"`, and
`Handover` is about starts that do not come there. When the BIOS does not fail but a
cluster takes two calls, the loader goes on with other bytes than the file's, and so
does the model: `FillOptions` parses what is in the buffer (`ConfigRead`), and
`OptionsExact` is about that text.

The character that a full row drops and the numbers that `%u` and `%ld` narrow are no
findings: no comment or test says that the screen shows every character, and
`kfmt.c:94` says itself that unsigned numbers are yet to be handled.

After paging is enabled `paging_unmap` gives `palloc_free` the address at which
it reached a table, not the frame's, and `palloc_free` ignores it: the frame of
every table that becomes empty is lost. The model does what the code does;
`TablesReturned` is about the time before.

## Disagreements found

| run | what the code does | what it says |
|---|---|---|
| `buddy_tail` | With 17 pages the last page has no bit of order 1; marking and freeing it sets and clears a bit of order 2, and blocks in use are handed out again. | `buddy_alloc.c:99`: "If it's free, return it" |
| `memmap_swallow` | Of the entries a region covers, the first stays in the table and overlaps it. | `memmap.c:249`: "If there are entries between the beginning entry and the end, remove them" |
| `halloc_split` | A split does not update `prev` of the chunk behind it; a later free joins over memory that is in use. | `halloc.h:13`: "position of contiguous prev" |
| `vfs_mountpoint` | Unlinking a mountpoint succeeds: the code looks at the mount of its parent. | `vfs.c:40`: "Cannot unlink a mountpoint..." |

## The proofs

### The buddy allocator

`BuddyProof` proves of `Buddy`, for every `BlockCount` from 1 on, every
`MaxOrder` up to 15, every set of requests and every content of the memory before
use:

| theorem | establishes | assumes |
|---|---|---|
| `TypeCorrect` | `[]TypeOK` | |
| `Invariance` | `[]Inv` | `TailFits` |
| `AllocationsDisjoint` | `[]NoDoubleAllocation` | `TailFits` |
| `MarksExactWhenIdle` | `[]NothingLost` | `TailFits` |
| `WritesInBounds` | `WritesStayInBitmaps` | `TailFits` |
| `Refinement` | `Spec` implements `PA!PASpec` | `TailFits` |

`TailFits` says that every bitmap has a bit for the partial block at the end of
the region. It cannot be dropped: `buddy_tail` is the counterexample.

The argument. That a block which `buddy_find` accepts has no page in use is not
inductive: `buddy_free` clears bits order by order, and in the middle of it the
orders above the current one still show pages that are already given back. `Inv`
says what holds at every step:

* `Layout`, `Cleared`: the bitmaps follow one another without overlap, and one
  that has been created is clear until the first allocation. Without it a bit of
  one order could be a bit of another.
* `LiveDisjoint`, `Freeing`: allocations do not overlap, and the range that is
  being freed at order `o` covers exactly the pages given back.
* `PagesMarked`: a bit of order 0 is set exactly for a page in use, or one that
  the free in progress has not come to.
* `MarksReachUp`: a block with a marked page is marked. This is what
  `NoDoubleAllocation` needs: a clear bit means free pages.
* `MarksReachDown`: a marked block has a marked page, or the free in progress has
  still to look at it. This is what `NothingLost` needs.

The step that matters is `FreeBlock` above order 0 (`FreeLargerInv`): a block is
cleared when both its halves are clear, the halves were looked at before
(`Pending` of order `o - 1` is empty), so they speak the truth about their pages,
and `CoversHalves` carries it to the block. The lemmas before it are arithmetic of
powers of two (`Pow2Div`, `Pow2Cancel`), of blocks (`CoversHalves`,
`CoversOrdered`, `CoversBetween`) and of the bitmaps (`InBitmap`, `Distinct`).
`Invariance` combines one lemma per action. TLC checks `Inv` in the run `buddy`.

### The memory map

`MemMapProof` proves of `MemMap`, for every number of addresses, every set of
types and every sequence of definitions before the merge:

| theorem | establishes | assumes |
|---|---|---|
| `TableSorted` | `[]SortedDisjoint` | `~Swallowing` |
| `TableAgregated` | `[]Agregated` | `~Swallowing` |
| `Refinement` | `Spec` implements `MP!MPSpec`: a definition gives its own addresses its own type and no other address another one, and merging changes none | `~Swallowing` |
| `SplicedFacts` | what a table looks like behind a definition, from its shape | |

`~Swallowing` excludes the case of `memmap.c:251`. It cannot be dropped:
`memmap_swallow` is the counterexample.

The argument. `memmap_define` has some twenty ways through, and each changes the
table by a few of `memmap_insert`, `memmap_remove` and assignments to `base` and
`size`. All of them leave one shape, `Spliced`: the old entries up to `p`, the new
region, the old entries from `q` on, where the two next to the region are cut at
its ends and may be two parts of one entry. `SplicedFacts` shows of that shape,
once, that it is sorted and disjoint when the old table was, that the region's
addresses have its type and that every other address has its old one. Then there is
one lemma per way through the code that says which `p` and `q` it comes to: what
the three searches `memmap_get_address_info`, `tbefore` and `bafter` found is
related by the order of the table.

`Agregated` is not inductive by itself. The invariant `IInv` adds
`BelowAgregated`: while `memmap_agregate` runs at index `i`, no two neighbours below
`i` could be one entry. A merge at `i` is the shape again, with the merged entry in
place of the region, so the lemmas serve a second time (`MergeFacts`); and it takes the
whole run that begins at `i`, up to the first pair that does not join (`RunFacts`),
so that moving on to `i + 1` leaves nothing behind.

### The page tables

`PagingProof` proves of `Paging`, for every size of a table, every set of pages
and of pages they are mapped to and any number of frames, without an assumption
beyond that tables and frames are finitely many (`PagingAssumption`):

| theorem | establishes |
|---|---|
| `CountsExact` | `[]SubcountExact` |
| `TablesNotShared` | `[]TablesOwned` |
| `FramesReturned` | `[]TablesReturned` |
| `Refinement` | `Spec` implements `AS!ASSpec` |

The argument. What is inductive is the shape of the tables, not the counts: the
invariant `IInv` says that there is a level for each table such that the tables are a
`Tree`: an entry in use points one level down, no two point to the same table,
every table but the PML4 is pointed to, and none is free. A frame that holds
something else has level 0, so what it holds does not matter. In that tree the
counts are exact (`Counted`) and no table is empty (`Filled`).

In the middle of `paging_map` and `paging_unmap` neither is so: a table just
installed is empty and not counted, one that lost an entry is counted with one too
many. `Counted(m, L, x, k)` and `Filled(m, L, x)` therefore name one table `x` as an
exception, `k` being what it is off by, and the lemmas follow the exception:
`CountInv` moves `k` by the increment or decrement of an entry, `InstallInv` leaves an
empty table below and one too few counted above, `RemoveInv` takes an empty table
away and leaves one too many counted above, `SetPage` moves `k` by the page entry that comes
or goes. `MapInv` and `UnmapInv` chain them through the levels, and at the PML4, to
which no entry counts, the exception is gone (`RootUncounted`).

What a page is mapped to is `Page`. Two things keep it: a table without entries maps
nothing, whether it is there or not (`EmptyTablePages`), and two pages that differ
reach different entries, because the tables are a tree (`OnePath`).

### The kernel heap

`HallocProof` proves of `Halloc`, for every size of a block and of both headers that
leaves room for a chunk, and every set of workloads:

| theorem | establishes | assumes |
|---|---|---|
| `Invariant` | `[]IInv` | `Careful` |
| `AllocationsAreDisjoint` | `[]LiveDisjoint` | `Careful` |
| `BlocksAreTiled` | `[]Tiled` | `Careful` |
| `FreeListIsExact` | `[]FreeListExact` | `Careful` |
| `BlocksAreHeld` | `[]BlocksHeld` | `Careful` |
| `PrevIsFollowed` | every `prev` that `free` reads leads to the chunk before, where no split makes one stale | `Careful`, no workload `splitsInside` |

`Careful` excludes what the code does wrong: that the first block of several becomes
empty (`DropFirst`), and that `free` follows a `prev` which a split made stale
(`FollowStale` together with `splitsInside`). Neither can be dropped: `halloc_split` is
the counterexample for one, and with `DropFirst` TLC finds `BlocksHeld` violated. The
instance of the run `halloc` is `Careful`. `PrevIsFollowed` shows that the guard by which
the model refuses to follow a stale `prev` refuses nothing where none is made, so there
the theorems are about the code as it is.

The argument. `IInv` says of every block on the list (`Kept`) that its chunks are a
`Line`: each begins where another one ends, from the block's header to its last byte;
that `Backs`, no `prev` is zero but the first chunk's; that the free list is a `Listing`,
each free chunk once and the largest first; that no two free chunks are neighbours
(`Apart`); where no split happens inside, that each `prev` is the size of the chunk
before (`PrevsOf`); and that the block counts its allocations. Of the allocations it
says that each has a used chunk of its own that is large enough (`InUse`). From the line
the two hard properties follow: chunks of a line do not overlap, so allocations do not,
and no byte is between them.

In the middle of `free` none of that holds: a chunk joined into the one before it is
neither used nor on the list, and may have a free neighbour behind it. `Held(b, c)`
describes such a block with one chunk in hand, `Half(b, c)` one whose chunk in hand was
already joined to the front. `joinBack` comes from a whole block to `Half`, `joinFront`
from there to a chunk between used neighbours, and the insertion in the list back to a
whole block; `split` goes the other way, from a chunk taken off the list through the cut
(`CutFacts`) to a whole block. Each has a lemma for what it does to a line and to a
listing; `OneBlock` carries the result from the block to the heap.

### The start of the kernel and the page allocator

`BootMapProof` proves of `BootMap`, for every set of machines (any firmware map that
has an entry, any sizes of what was loaded), every size of pages, tables, entries and
bitmap headers, every order up to 15, every limit between the two calls of
`palloc_init`, and whatever is allocated and freed behind them:

| theorem | establishes | assumes |
|---|---|---|
| `PagesDisjoint` | `[]AllocationsDisjoint` | `[]SwallowsNone`, `[]TailsFit` |
| `BitmapsBeforePages` | `[]BitmapsFit` | `[]SwallowsNone` |
| `StrictestDecides` | `[]StricterWins` | `[]SwallowsNone` |
| `LoadedNeverTaken` | `[]LoadedKept` | `[]SwallowsNone`, `[]TailsFit`, `InfoCovered` of each machine |
| `UsedMapped` | `[]UsedIsMapped` | as `LoadedNeverTaken`, `[]LowRoom`, and the screen not larger than the pages that `kmain` maps for it |

The assumptions are what the code relies on without looking at it, and the run `boot`
checks all of them, as the invariant `Orderly`, in every state of its 252 machines.
`SwallowsNone`: no region that `kmain` defines begins in an entry, holds a later one
completely and ends outside of all; `memmap_define` would leave that entry in the table
(`memmap_swallow` is the counterexample). `TailsFit`: each allocator's number of pages is
one for which a buddy allocator is exact (`buddy_tail` is the counterexample); the model's
allocators are exact sets whatever the number, so without it the theorems would speak of
machines on which the code does something else. `InfoCovered`: `kmain` defines no region for
the boot info, and it is kept only because the region for the firmware's map is sized
with `sizeof(bootinfo_t)`; with the real sizes, 24 and 63 bytes, that is long enough from
two entries on. `LowRoom`: while paging is off, the free pages that the loader has mapped
are enough for the page tables. `palloc_alloc` takes the lowest page that is free and does
not look at where it is, so without that room `paging_map` would write where nothing is
mapped.

The argument has three layers, one on the other.

* The map. `Painted` says of every address whether the table has it as free or
  allocatable: exactly if the firmware's entries that were defined so far claim it as
  usable and as nothing else, and no piece defined so far holds it. It holds between all
  of `kmain`'s definitions, because usable memory is defined first and nothing that comes
  later gives memory back (`PaintFirmware`, `PaintPiece`). What one definition does to a
  table comes from `MemMapProof`: `BootMapProof` instantiates it for `kmain`'s table
  (`MMP`), and the lemmas `SameDefine` to `SameAgregate` show that the operators of both
  instances are the same. Merging changes no address's type, and `palloc_init` changes it
  only from free to allocatable.
* The allocators. `AllocInv` says that the table is sorted, that every allocatable entry
  has an allocator of its own (`Serves`), whose first page and count are those the entry
  gives, and that what was granted (`Granted`) are runs of pages of these allocators,
  each marked used and no two with a page in common. `BuddyFacts` is the arithmetic of
  `palloc_init`: bitmaps sized for the pages before they are taken away for the bitmaps
  are long enough for those that remain (`SizeFacts`: the size is monotonic). The
  delicate step is `InitEntry`: an entry becomes allocatable after its bitmaps were
  mapped, and that mapping has taken page tables from the allocators there are already.
  `TakeTables` grants several pages at once, so its lemma goes from a set of addresses
  to runs of one page each.
* What is mapped. `MappedInv` says which areas are in the page tables at each stage, and
  that before paging is on every bitmap and every table lies below what the loader
  mapped. The latter needs that the lowest free pages are chosen: if there are as many
  below the limit as are wanted, none above it is taken (`MappedByMapping`).

`BootInv`, the first two layers, is inductive in the model under `SwallowsNone`
(`BootInvariance`), and `MappedInv` relative to it under `LowRoom`
(`MappedInvariance`). The five properties then follow: a bitmap or a page lies in an
allocatable entry, so all of its addresses are claimed as usable only and by no piece,
while each address of what was loaded is in a piece (`KeptOfInv`); and each of these
pieces lies in entries that the loop over the map has mapped (`UsedOfInv`).

### The loader's reads

`LoaderProof` proves of `Loader`, which is the first stage, `stage2_main`, the FAT32
reader and the drive in one, for every set of well made volumes, every geometry, size of
a sector, of a cluster and of the scratch buffer, every call and every kernel:

| theorem | establishes | assumes |
|---|---|---|
| `Invariant` | `[]IInv` | `FatReadable` |
| `AnswersAreExact` | `[]AnswersExact` | `FatReadable` |
| `ReadsAreExact` | `[]ReadExact` | `FatReadable` |
| `ClustersAreOwn` | `[]OnlyOwnClusters` | `FatReadable` |
| `TransfersAreLegal` | `TransfersLegal` | `FatReadable` |
| `OptionsAreExact` | `[]OptionsExact` | `FatReadable` |
| `HandoverIsComplete` | `[]Handover` | `FatReadable`, `MmapCallFails = FALSE`, `Loadable` of every boot partition |
| `ModeIsAsked` | `[]ModeFits` | `WellFormed` and `Writes` of every partition that wants a mode |

`FatReadable` says that the BIOS can read the sectors of the FAT; reads of directories
and files may fail at any call. `OptionsAreExact` needs it only to know that what was read
of `BOOT.INI` is bytes. Without it the error is taken for a cluster
(`fat32.c:46`) and `ErrorsReported` is false. What the loader relies on in a volume is
`WellMade`, in `LoaderAssumption`: the chains of the root directory and of the files have
as many clusters as their sizes need, none of them is 0, 1 or the mark the code compares
with, and the root directory ends in the first sector of a cluster, the first cluster if
clusters have several sectors; each cluster lies below the 1024 cylinders (`BiosSectors`).
The chains may end in any mark and may share clusters. `StageFits` is the same for the
second stage, with the 16 bits in which its place is counted.

The argument. `IInv` has a part for each thing that is under way.

* `DriveOK`: the sectors of the call lie below `BiosSectors`, where packing the
  cylinder loses nothing (`SectorAt(lba) = lba`); and the drive has returned with an
  error, or its buffer holds as many sectors as were read; if one BIOS call is enough
  (`OneTransfer`), none or all of them, in order. Of a read that takes more calls
  nothing is said about the contents, for the place in the buffer moves on
  (`drive.c:57`); `AtOnce` is the same condition on a file.
* `Phase`: which read belongs to which step of which call, and how many sectors it asks
  for; an answer in the buffer is the FAT's sector for the current cluster or the
  cluster itself. `Failures`: an error in the drive is the one in `job.failed`.
* `Walking`: the current cluster is the k-th of the directory, and in the first sectors of
  those before it there was neither the name nor the end (`Passed`). The end lies ahead, so
  k is less than the number of clusters (`EndAhead`), although the mark is never seen.
* `Reading`: the bytes delivered and those still to come are what is due (`Sound`), the
  delivered ones are the file's (`Faithful`), and the place in the file determines the
  cluster: q clusters behind it and `head` bytes into it (`Skipping`, `Copying`). As bytes
  remain, the file's size needs a cluster q (`NeededCovers`), so the chain has it. The
  delicate step is `ReadClusterOK`: what is copied from the buffer, from `head` to the
  cluster's end or to the last byte due, is appended, and the next place is a cluster's
  beginning.
* `MainInv`: `stage2_main` and `elf_loader_load` read only files they have found, and the
  program headers they follow are the kernel's.

Chains are a recursive function of the number of clusters; `ChainExists` and `NthUnfolds`
show that it is defined for every chain, by the existence of a chain of each length, and
`QuotientIs` to `QuotientMonotonic` are the divisions that clusters, sectors and cylinders
need.

`OptionsAreExact` has an invariant of its own, `ConfInv`, about `ini`, what was read
of `BOOT.INI`. The file is any sequence of tokens without a NUL (`LoaderAssumption`),
so what was read of it is one too, whichever sectors were delivered (`ConfigIsText`,
`TextInv`), and the options are the four of `bootopts.c:14-18` (`BootOptsAssumption`,
which also gives the modes their type). Between two calls of `ini_iter` the parser is
at the beginning or at the end of a line, and what lies ahead of it is still as it was
read (`ParsingOf`). What lies behind it is cut up, and all that is said of it is what
the options need (`Told`): an option is 0 if none of the lines behind assigns it
(`Given`); else it is the place behind the `=` of the last one, the value there is
unchanged, and a NUL stands where its line ended (`Kept`). `AssignmentOK` is the step
that matters: its two NULs, at the `=` and at the line's end, are in no value told
before, because those lie before the line begins. `SectionOK` and `CommentOK` are the
other two kinds of line, and `AllSaid` reads the result off when the parser is at the
end. The last value may have no end of line; the NUL behind the text ends it.

`HandoverIsComplete` follows a whole start, for any boot partition, kernel, initrd, command
line, second stage and number of map entries. `Loadable` says which starts can succeed, and
TLC evaluates it for the partitions of the run `loader` (`Starts` in `MCLoader`):

* `BOOT.INI` has only the lines that the parser is for, and the headers have at least one
  segment to load;
* `BOOT.INI`, and a file of a name that it gives the kernel or the initrd, takes one BIOS
  call for each cluster that is read (`InReach`): otherwise its bytes are not the file's
  (`drive.c:57`);
* the bytes that a header names are in the kernel's file, and no more of them than the
  segment has in memory; the segments' bytes are apart from one another, and behind each
  segment there is memory enough for the pieces that follow the kernel.

None of these is a condition on what the loader does; that it is called with the pieces
where the boot info says is what is proved. Errors of the BIOS, a missing file and a header
of an unknown type remain possible: then the kernel is not called.

That the file's bytes are the text of `BOOT.INI` is how `ini` is tied to the volume
(`HoldsIni`, in `LoaderAssumption`); that what is parsed is then the file's text,
`ini = vol.ini`, is not assumed but proved (`IniInv`, with `TextIsRead` for the step that
fills the options).

The invariant `OnTheWay` says for each place in `stage2_main` what has been done.
`FirstStage`: the sectors up to `eax` are at their paragraphs. `FilesKnown`: the file
that was found has the name that `BOOT.INI` says; this is where `ConfInv` and `IniInv`
are used. `CallsKnown`: which bytes are being read; the reader's own steps do not
change that (`CallKept`). `KernelPlaced`: behind n of the headers, over all groups,
`lowest` and `highest` enclose the segments of these n (`BoundsTo`; while there was
none they are -1 and 0, and -1 is no address) and their bytes are in memory
(`SegmentsTo`). `RestPlaced`: the initrd, the command line and the map entries so far
are in memory behind `highest` (`PlacedIn`). `ReadGives` turns `ReadExact` into what a
completed read has left: the bytes of the file. Two lemmas carry the rest: what is
copied is there afterwards (`StoredHolds`), and what is apart from it stays
(`StoredApart`). `SegmentsStay`, `PiecesStay` and `EntryAdded` apply the second to
each later piece, with `RoomIs`, that behind `highest` there is memory for all of
them.

`ModeIsAsked` is about any list of modes and any query that is written as the parser wants
it. `Writes` says how that is: the conditions in order, each behind a `:` or an `x`, of
which only the `x` ends the inequality of the condition before, and nothing behind the last
number. TLC evaluates it for the partitions of the run `loader` (`Queries` in `MCLoader`).
The parser cuts up the option that it reads, and the list of modes is compared with what is
left, so `QueryInv` says for each place what that is:

* before `gfx_query_parse` there is no query, and `ConfInv` says that the option is the text
  of the file;
* in its loop there is a number j of conditions that are done: the separators up to there
  are NULs, those ahead are as they were written, and every number still stands (`CutText`);
  the j parts point at their numbers and have their inequalities (`CutQuery`); the next
  iteration is at a separator, or at the token in front of it (`Reached`). Three lemmas are
  the iterations: a token that is passed (`TokenStep`), a separator with what it steps over
  (`SeparatorStep`), the NUL behind the option (`EndStep`);
* when modes are tried all conditions are done. Each number is a token with a NUL behind it,
  so `Fits`, which reads the buffer, is `Asked`, which reads what was wanted
  (`FitsIsAsked`), and none of the modes before this one is asked for.

### The virtual file system

`VfsProof` proves of `Vfs`, for any number of vnodes, open files and names, and any
tmpfs and devfs that are mounted in an order that does not go round:

| theorem | establishes | assumes |
|---|---|---|
| `VfsInvariant` | `[]IInv` | `Careful` |
| `VfsNoDangling` | `[]NoDangling` | `Careful` |
| `VfsRefcountExact` | `[]RefcountExact` | `Careful` |
| `VfsNothingLost` | `[]NothingLost` | `Careful` |

`Careful` excludes what the code leaves to its callers: to unlink only what the driver
lets go of (`UnlinkRefused`) and nothing that something is mounted on (`LoseMounts`).
Neither can be dropped: `vfs_mountpoint` shows a mount lost, and with `UnlinkRefused`
TLC finds `RefcountExact` violated. The instance of the run `vfs` is `Careful`.

The argument. Exact counts are not inductive: `vfs_unref` follows links and frees what
it comes to, and on links that go round, or that two directories share, it would free
what is referred to or nothing at all. `IInv` therefore holds the shape of the graph
and the counts together.

* `Graph`: `LinksOK` and `OneLink`, links lead to vnodes in memory of the same file
  system and no vnode is linked twice; `NoRing`, every set of vnodes has one that is
  linked from none of the set; `MountsOK`, what is mounted is a root, and mounts follow
  `MountOrder`.
* `Counted(m, ext)`: a vnode's count is the number of its links, of its mounts and of
  `ext`, the references held outside: by open files and by the callers of
  `<fs>_create`. `Driven(m, own)` is the same for drivers and their vnodes.
* `Roots`: what a caller of `<fs>_create` holds is linked from nowhere.

`ext` makes the middle of a call sayable: each helper of `vfs.c` has a lemma that takes
a graph which is `Good` for some references held outside to one that is `Good` for one
more or one less, and an action is a chain of them. The longest is `UnrefOK`.
`vfs_unref` is stated as the least set of vnodes that lose their last reference
(`Freed`), and each of them gives back the references of its links and one of its
driver's. That the set is least matters: nothing in it is held from outside it, and by
`NoRing` nothing else in memory is without a reference. The walk over mounts is stated in
the same way, as the vnode at the end of the least set closed under mount, and ends
because of `MountsEnd`.

`NoDangling` and `RefcountExact` are then read off. `NothingLost` needs one more thought:
of all that cannot be reached, `NoRing` and `MountOrder` name a vnode to which nothing in
that set refers, by link or by mount; its count is not zero, so what refers to it is an
open file or a caller, and it is reached after all.

### Files and the screen

`KstdioProof` proves of `Kstdio`, for every set of scenes, that is any archives, devices,
lengths, positions and data, and any number of open files:

| theorem | establishes | assumes |
|---|---|---|
| `FilesInvariant` | `[]IInv` | `Small` |
| `FilesReadInside` | `[]ReadsInside` | `Small` |
| `FilesTmpfsExact` | `[]TmpfsExact` | `Small` |
| `ScreenTail` | `[]ScreenShowsTail` | `LastRow = Height - 1` |

`Small` says that the sizes of the archive's entries and of the devices, and `MaxBytes`,
the bound on what is written into one file of `/tmp`, are ints, and that nothing seeks in
an empty file (`SeekEmpty`; with it TLC finds `ReadsInside` violated).
`LastRow = Height - 1` is what `vga.c` has, 24 and 25. That what the kernel prints are
strings, which end, is `StringsAssumption`, and TLC evaluates it in the run `files`: the
formatting is a recursion over the format, of which nothing can be proved for all inputs.

The argument for files. `IInv` has four parts: `Tree`, the vnodes that `tarfs_create` has
linked are in memory and their sizes can be counted; `Memory`, each file of `/tmp` has the
contents and the size of what was written; `Cursors`, each open file is on a vnode of the
archive, of a device or of `/tmp`, and its cursor, on one of its bytes or at the end, is
where the answers of the calls say it is; `Transfer`, of the last read. Three things are
delicate.

* Numbers. `tarfs_read` puts an unsigned difference into an int, and `tarfs_seek`
  compares an int with an unsigned size, so that a negative position counts as one behind
  the end. `Wrap` and `Exact` say when a word and an int are the same number; `Seeks` that
  for sizes that are ints every position comes out between 0 and the last byte.
* Walks. A path is followed by a recursive function over its length; `AlongExists`
  shows that it is defined for every path and `FoundLegal` that it ends on a vnode that
  may be opened, or nowhere.
* Two writers. A file of `/tmp` grows while others have it open: `Grows` and `LegalStays`
  keep their cursors inside, and `OverSeq` says what a write at any cursor does to the
  contents: they stay a sequence of bytes, without a hole, of the length that the file
  then has.

The argument for the screen. The page has everything that was printed: a character
that finds its row full is written into the row's margin, behind the last column,
while the screen drops it. `Alike(vga, page)` says that both have the same cursor and
that the screen has the columns of the page's last rows; `ScreenShowsTail` adds that a
margin has one character at most, and the cursor's row none. Every character keeps it:
a new line with and without a scroll (`NewLineAlike`), a cell and the wrap behind it
(`CellAlike`), a backspace (`BackspaceAlike`), a tab as its blanks (`BlanksAlike`).
`CellPlace` says that each place has a cell of its own, and `PrintAlike` goes through
the string.

## What is only checked, and what is not modelled

Liveness (`FreeCompletes`, `AgregateEnds`, `Boots`, `LoaderEnds`) is out of the
prover's reach and is checked on instances only. The same holds for what a recursion
computes for every input: the tree of an archive compared with its paths (`TreeExact`),
formatted text (`FormatExact`). `Orderly` is no result
but what `BootMapProof` assumes, and TLC checks that the machines of `boot` have it.

Not in the models:

* the failure of `palloc_alloc`, which returns an address that no caller tells
  from others, so there is no failure path to follow;
* that the heap maps only the first page of a block (`Halloc` and `Paging` are not
  composed), and the limit of 170 entries of the memory map, which the code does
  not look at;
* the TLB and the arithmetic of the addresses at which tables are reached after
  paging is enabled; file contents beyond where they come from; `readdir`, whose
  list is always empty, and `vfs_append_link_list`, which would not end on a list
  that is not; calls of driver functions that are null;
* the demonstration at the end of `kmain` and the fields of the frame buffer;
* `gdt.c`, `idt.c`, `pic.c` and their assembly: written once by constant calls, all
  lines masked, no handler, so there is one behaviour and its result is a layout of
  bits for the processor;
* the switches between real, protected and long mode, single port instructions and
  `panic`: a model would be one of the processor;
* the loader's own console and its copies of string functions: output that no
  other component depends on;
* `host_tests`: a program around copies of the file systems' sources, read as
  documentation of how they are used; and what no build contains (`.old`).

## Plan

What the repository's core does is modelled: the way from the boot sector to the
kernel, the start of the kernel, all of its memory management and its file systems
down to the screen. What is left, in this order:

1. `HeapMap`: `Halloc` on `Palloc` and `Paging`, for the pages of a block that are
   not mapped.
2. One specification of the whole start, `Loader` followed by `BootMap` in one
   behaviour: `HandoverIsComplete` ends where `BootMapProof` begins, and today the two
   share the pieces and nothing else.
