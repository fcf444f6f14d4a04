------------------------------ MODULE BootInfo ------------------------------
(***************************************************************************)
(* Where the loader puts what it leaves for the kernel                     *)
(* (boot/stage2/src/main.c): one piece behind the other, from the first    *)
(* address behind the kernel on, without alignment.  Module Loader loads   *)
(* them and module BootMap is the kernel that finds them.                  *)
(***************************************************************************)
EXTENDS Integers

CONSTANTS EntryBytes, \* sizeof(mmap_entry_t), 24
          InfoBytes   \* sizeof(bootinfo_t), 63

ASSUME BootInfoAssumption == {EntryBytes, InfoBytes} \subseteq Nat \ {0}

piece(b, s) == [base |-> b, size |-> s]
EndOf(e) == e.base + e.size

\* Mutant: room for one entry too many.
PlacedOneMore(min, max, initrd_size, cmdlen, mmap_entry_count) ==
    LET initrd  == piece(max, initrd_size)
        cmdline == piece(EndOf(initrd), cmdlen + 1)
        mmap    == piece(EndOf(cmdline), (mmap_entry_count + 1) * EntryBytes)
    IN  [kernel |-> piece(min, max - min), initrd |-> initrd, cmdline |-> cmdline,
         mmap |-> mmap, binfo |-> piece(EndOf(mmap), InfoBytes)]

\* The pieces for a kernel at min .. max-1, with the sizes of the initrd, the
\* command line without its terminator and the firmware's map.
Placed(min, max, initrd_size, cmdlen, mmap_entry_count) ==
    LET initrd  == piece(max, initrd_size)
        cmdline == piece(EndOf(initrd), cmdlen + 1)
        mmap    == piece(EndOf(cmdline), mmap_entry_count * EntryBytes)
    IN  [kernel |-> piece(min, max - min), initrd |-> initrd, cmdline |-> cmdline,
         mmap |-> mmap, binfo |-> piece(EndOf(mmap), InfoBytes)]

Overlap(p, q) == p.base < EndOf(q) /\ q.base < EndOf(p)
=============================================================================
