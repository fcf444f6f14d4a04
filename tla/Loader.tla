------------------------------- MODULE Loader -------------------------------
(***************************************************************************)
(* The boot loader: the first stage, then stage2_main                      *)
(* (boot/stage2/src/main.c) with elf_loader_load and mmap_get, on top of   *)
(* the modules Fat32 and BootOpts.  It ends with the jump into the kernel, *)
(* where module BootMap goes on.                                           *)
(*                                                                         *)
(* Three scenes: "boot" is the loader; "config" is only what it does with  *)
(* BOOT.INI, for many files; "calls" is calls of fat32_walk and fat32_read *)
(* with any arguments.                                                     *)
(*                                                                         *)
(* A byte of memory is the byte of a file that was copied there.  What     *)
(* fat32_read returns is never looked at: when the BIOS fails on such a    *)
(* read, the loader goes on with what the buffer held before, and the      *)
(* model ends (at "undefined").                                            *)
(***************************************************************************)
EXTENDS Fat32, Stage1, BootOpts, BootInfo
LOCAL INSTANCE FiniteSetsExt

CONSTANTS Memory,        \* the addresses the loader loads to
          Consec,        \* ELF_LOADER_CONSEC_PHDRS
          EhdrBytes, PhdrBytes, \* sizeof(Elf64_Ehdr_t), sizeof(Elf64_Phdr_t)
          MapCounts,     \* how many entries the firmware's map has
          MmapCallFails, \* may the BIOS fail on the first call of mmap_get?
          Volumes,       \* the boot partitions of the scene "calls",
          Names, Counts, Offsets, \* the arguments of its calls,
          BootVolumes,   \* the partitions of "boot"
          ConfigVolumes, \* and of "config"
          Stages         \* the second stages on the disk

\* The files of a name, and byte k of one, from 0.
FilesNamed(v, name) ==
    {[cluster |-> e.cluster, size |-> e.size] : e \in {e \in FilesOf(v) : e.name = name}}
ByteIn(v, f, k) ==
    LET s == k \div BytesPerSector
    IN  <<Begin(v, NthOf(v, f.cluster, s \div v.spc)) + (s % v.spc), k % BytesPerSector>>

\* What a file's bytes hold is the text of BOOT.INI.
HoldsIni(v, f) ==
    /\ f.size = Len(v.ini)
    /\ \A k, l \in DOMAIN v.ini : ByteIn(v, f, k - 1) = ByteIn(v, f, l - 1) => v.ini[k] = v.ini[l]

\* No sum of a count and an offset goes beyond 32 bits, where fat32_read's test for
\* the end of the file (fat32.c:142) would wrap.
ASSUME LoaderAssumption ==
    /\ {Consec, EhdrBytes, PhdrBytes} \subseteq Nat \ {0} /\ MmapCallFails \in BOOLEAN
    /\ Counts \cup Offsets \subseteq Nat /\ EhdrBytes < UintMod
    /\ \A count \in Counts, offset \in Offsets : count + offset < UintMod
    /\ MapCounts \subseteq Nat /\ \E m \in MapCounts : \A n \in MapCounts : n <= m
    /\ \A s \in Stages : StageFits(s)
    /\ \A v \in Volumes \cup BootVolumes \cup ConfigVolumes : WellMade(v)
    /\ \A v \in BootVolumes \cup ConfigVolumes : v.ini \in Seq(STRING \ {NUL})
    /\ \A v \in BootVolumes :
          /\ v.elf.phoff \in Nat
          /\ v.elf.phdrs \in Seq([type : STRING, vaddr : Int, fsize : Nat, msize : Nat, offset : Nat])
          /\ v.elf.phoff + (Len(v.elf.phdrs) + Consec) * PhdrBytes < UintMod
          /\ \A k \in DOMAIN v.elf.phdrs : v.elf.phdrs[k].fsize + v.elf.phdrs[k].offset < UintMod
          /\ \A f \in FilesNamed(v, "BOOT.INI") : HoldsIni(v, f)

VARIABLES scene, main, memory

loaderVars == <<vars, stage1Vars, optVars, scene, main, memory>>

others == <<stage1Vars, optVars, scene>>
-----------------------------------------------------------------------------
Before  == [old |-> 0]
Nowhere == [cluster |-> 0, size |-> 0]

LoaderInit ==
    /\ scene \in {"boot", "config", "calls"}
    /\ vol \in CASE scene = "boot"   -> BootVolumes
                 [] scene = "config" -> ConfigVolumes
                 [] scene = "calls"  -> Volumes
    /\ FatInit /\ OptsOff /\ Stage1Init
    /\ stage2 \in IF scene = "boot" THEN Stages ELSE {[valid |-> TRUE, bytes |-> 1]}
    /\ main = [at |-> "stage1", kernel |-> Nowhere, lowest |-> -1, highest |-> 0, read |-> 0, i |-> 0,
               initrd |-> Nowhere, cmdlen |-> 0, count |-> 0]
    /\ memory = [a \in Memory |-> Before]

Go(place) == main' = [main EXCEPT !.at = place]

\* stage2_main waits for no call.
At(place) == scene = "boot" /\ main.at = place /\ pc = "idle"
UNCHANGEDButCall == UNCHANGED <<others, memory>>

Panic == Go("panic") /\ UNCHANGED <<vars, others, memory>>
Undefined == Go("undefined") /\ UNCHANGED <<vars, others, memory>>

\* What a byte of memory holds.
FileByte(b) == [file |-> b]
Char(c)     == [char |-> c]
MapByte(n, k) == [mmap |-> <<n, k>>]
InfoByte(k) == [info |-> k]

Bytes(seq, Kind(_)) == [k \in DOMAIN seq |-> Kind(seq[k])]

\* Bytes are copied to consecutive addresses.
Stored(mem, base, bytes) ==
    [a \in Memory |-> IF a \in base .. base + Len(bytes) - 1 THEN bytes[a - base + 1] ELSE mem[a]]
-----------------------------------------------------------------------------
(* Up to the options *)

RunStage1 ==
    /\ scene = "boot" /\ main.at = "stage1"
    /\ \/ (DecodeHeader \/ LoadSector \/ Stage1Fails) /\ UNCHANGED main
       \/ st1.at = "jump" /\ Go("mount") /\ UNCHANGED stage1Vars
    /\ UNCHANGED <<vars, optVars, scene, memory>>

OpenConfig ==
    /\ At("mount")
    /\ Walk("BOOT.INI") /\ Go("bootini")
    /\ UNCHANGEDButCall

ReadConfig ==
    /\ At("bootini")
    /\ IF job.ret # OK THEN Panic
       ELSE Read(job.file, job.file.size, 0) /\ Go("bootconf") /\ UNCHANGEDButCall

\* The buffer's text, from the bytes that are in it.  All are of the file: a cluster
\* that takes several BIOS calls delivers some of its sectors twice, and others
\* not at all.
Token(b) ==
    LET places == {k \in DOMAIN vol.ini : ByteAt(job.file, k - 1) = b}
    IN  IF places = {} THEN "other" ELSE vol.ini[CHOOSE k \in places : TRUE]
ConfigRead == [k \in DOMAIN job.out |-> Token(job.out[k])]

FillOptions ==
    /\ At("bootconf")
    /\ IF job.failed THEN Undefined
       ELSE /\ bootopts_fill(ConfigRead) /\ Go("options")
            /\ UNCHANGED <<vars, stage1Vars, scene, memory>>

\* In the scene "config" it is filled at once.
ConfigGiven ==
    /\ scene = "config"
    /\ bootopts_fill(vol.ini)
    /\ UNCHANGED <<vars, stage1Vars, scene, main, memory>>

Options ==
    /\ scene = "config" \/ main.at = "video" \/ (main.at = "options" /\ conf = "ini")
    /\ ini_iter \/ Video
    /\ UNCHANGED <<vars, stage1Vars, scene, main, memory>>

\* A name is one token.
NameOf(s) == IF Len(s) = 1 THEN s[1] ELSE "no file"

OpenKernel ==
    /\ At("options") /\ conf = "options"
    /\ Walk(NameOf(Option("kernel"))) /\ Go("kernel")
    /\ UNCHANGEDButCall
-----------------------------------------------------------------------------
(* elf_loader_load *)

phdr_count == Len(vol.elf.phdrs)
batch == IF phdr_count - main.read < Consec THEN phdr_count - main.read ELSE Consec
phdr == vol.elf.phdrs[main.read + main.i + 1]

ReadEhdr ==
    /\ At("kernel")
    /\ IF job.ret # OK THEN Panic
       ELSE /\ Read(job.file, EhdrBytes, 0)
            /\ main' = [main EXCEPT !.at = "ehdr", !.kernel = job.file]
            /\ UNCHANGEDButCall

\* The next group of headers, if there are more: always Consec of them are asked
\* for.
ReadPhdrs ==
    /\ At("ehdr") \/ (At("segments") /\ main.i = batch)
    /\ IF At("ehdr") /\ (job.failed \/ Len(job.out) < EhdrBytes) THEN Undefined
       ELSE LET done == IF main.at = "ehdr" THEN 0 ELSE main.read + batch IN
            IF done = phdr_count THEN Go("elf") /\ UNCHANGED <<vars, others, memory>>
            ELSE /\ Read(main.kernel, PhdrBytes * Consec, vol.elf.phoff + done * PhdrBytes)
                 /\ main' = [main EXCEPT !.at = "phdrs", !.read = done, !.i = 0]
                 /\ UNCHANGEDButCall

PhdrsRead ==
    /\ At("phdrs")
    /\ IF job.failed \/ Len(job.out) < batch * PhdrBytes THEN Undefined
       ELSE Go("segments") /\ UNCHANGED <<vars, others, memory>>

\* Mutant: the end of what is in the file, not of what is in memory.
BoundsOfFile ==
    [main EXCEPT !.lowest  = IF @ = -1 \/ phdr.vaddr < @ THEN phdr.vaddr ELSE @,
                 !.highest = Max({@, phdr.vaddr + phdr.fsize}), !.i = @ + 1, !.at = "segments"]

Bounds ==
    [main EXCEPT !.lowest  = IF @ = -1 \/ phdr.vaddr < @ THEN phdr.vaddr ELSE @,
                 !.highest = Max({@, phdr.vaddr + phdr.msize}), !.i = @ + 1, !.at = "segments"]

\* One iteration over a group, up to the read of the segment.
Segment ==
    /\ At("segments") /\ main.i < batch
    /\ \/ /\ phdr.type \in {"null", "note"}
          /\ main' = [main EXCEPT !.i = @ + 1]
          /\ UNCHANGED <<vars, others, memory>>
       \/ /\ phdr.type = "load" /\ phdr.fsize = 0
          /\ main' = Bounds
          /\ UNCHANGED <<vars, others, memory>>
       \/ /\ phdr.type = "load" /\ phdr.fsize > 0
          /\ Read(main.kernel, phdr.fsize, phdr.offset) /\ Go("segment")
          /\ UNCHANGEDButCall
       \/ /\ phdr.type \notin {"null", "note", "load"}
          /\ Panic

SegmentRead ==
    /\ At("segment")
    /\ IF job.failed THEN Undefined
       ELSE /\ memory' = Stored(memory, phdr.vaddr, Bytes(job.out, FileByte))
            /\ main' = Bounds
            /\ UNCHANGED <<vars, others>>
-----------------------------------------------------------------------------
(* Behind the kernel *)

OpenInitrd ==
    /\ At("elf")
    /\ Walk(NameOf(Option("initrd"))) /\ Go("initrd")
    /\ UNCHANGEDButCall

ReadInitrd ==
    /\ At("initrd")
    /\ IF job.ret # OK THEN Panic
       ELSE /\ Read(job.file, job.file.size, 0)
            /\ main' = [main EXCEPT !.at = "cmdline", !.initrd = job.file]
            /\ UNCHANGEDButCall

Pieces == Placed(main.lowest, main.highest, main.initrd.size, main.cmdlen, main.count)

StoreInitrdAndCmdline ==
    /\ At("cmdline")
    /\ IF job.failed THEN Undefined
       ELSE LET cmdline == Option("cmd")
                to == Placed(main.lowest, main.highest, main.initrd.size, Len(cmdline), 0)
            IN  /\ memory' = Stored(Stored(memory, to.initrd.base, Bytes(job.out, FileByte)),
                                    to.cmdline.base, Bytes(Append(cmdline, NUL), Char))
                /\ main' = [main EXCEPT !.cmdlen = Len(cmdline), !.at = "mmap"]
                /\ UNCHANGED <<vars, others>>

\* One call of mmap_get's BIOS service.  The list ends with the last entry, or
\* with an error behind the first; the first call's error is returned as -1, which
\* stage2_main does not look for.
MapEntry ==
    /\ At("mmap") /\ main.count < Max(MapCounts)
    /\ memory' = Stored(memory, Pieces.mmap.base + main.count * EntryBytes,
                        [k \in 1 .. EntryBytes |-> MapByte(main.count, k)])
    /\ \E last \in (IF main.count + 1 \in MapCounts THEN BOOLEAN ELSE {FALSE}) :
          main' = [main EXCEPT !.count = @ + 1, !.at = IF last THEN "video" ELSE "mmap"]
    /\ UNCHANGED <<vars, others>>

MapEnds ==
    /\ At("mmap")
    /\ IF main.count = 0 THEN MmapCallFails /\ main' = [main EXCEPT !.count = -1, !.at = "video"]
                         ELSE Go("video")
    /\ UNCHANGED <<vars, others, memory>>

\* The boot info is written, and the kernel called.
CallKernel ==
    /\ At("video")
    /\ \/ conf = "panic" /\ Panic
       \/ /\ conf \in {"text", "graphic"}
          /\ memory' = Stored(memory, Pieces.binfo.base, [k \in 1 .. InfoBytes |-> InfoByte(k)])
          /\ Go("kmain")
          /\ UNCHANGED <<vars, others>>
-----------------------------------------------------------------------------
FatMay == scene = "calls" \/ (scene = "boot" /\ (pc # "off" \/ main.at = "mount"))

FatOnwards == FatMay /\ Onwards /\ UNCHANGED <<others, main, memory>>

stage2_main ==
    \/ RunStage1
    \/ OpenConfig \/ ReadConfig \/ FillOptions \/ ConfigGiven \/ Options
    \/ OpenKernel \/ ReadEhdr \/ ReadPhdrs \/ PhdrsRead \/ Segment \/ SegmentRead
    \/ OpenInitrd \/ ReadInitrd \/ StoreInitrdAndCmdline \/ MapEntry \/ MapEnds \/ CallKernel

AnyCall ==
    /\ scene = "calls"
    /\ \/ \E name \in Names : Walk(name)
       \/ \E s \in Found, count \in Counts, offset \in Offsets :
             Read([cluster |-> s.cluster, size |-> s.size], count, offset)
    /\ UNCHANGED <<others, main, memory>>

LoaderNext ==
    \/ FatOnwards \/ stage2_main \/ AnyCall
    \/ FatMay /\ (\E e \in Errors : BiosFails(e)) /\ UNCHANGED <<others, main, memory>>

\* The BIOS answers, and the loader does nothing but go on.
LoaderSpec == LoaderInit /\ [][LoaderNext]_loaderVars
                         /\ WF_loaderVars(FatOnwards) /\ WF_loaderVars(stage2_main)
-----------------------------------------------------------------------------
(* Properties *)

\* A start that can succeed: BOOT.INI has the lines the parser is for; it and the
\* files that may be the kernel and the initrd take one BIOS call for each cluster;
\* the kernel's file has the bytes that its headers name, their places are apart,
\* and behind each there is memory for the pieces that follow the kernel.
Candidates(v, key) == FilesNamed(v, NameOf(Said(v.ini, key)))
InReach(v, file) ==
    \A k \in 0 .. Needed(v, file.size) - 1 : OneTransfer(Begin(v, NthOf(v, file.cluster, k)), v.spc)
LoadsOf(v) == {k \in DOMAIN v.elf.phdrs : v.elf.phdrs[k].type = "load"}

Loadable(v) ==
    LET phdrs == v.elf.phdrs
        Filled(k) == phdrs[k].vaddr .. phdrs[k].vaddr + phdrs[k].fsize - 1
        Behind(size) == size + (Len(Said(v.ini, "cmd")) + 1) + Max(MapCounts) * EntryBytes + InfoBytes
    IN  /\ WellFormed(v.ini) /\ LoadsOf(v) # {}
        /\ \A f \in FilesNamed(v, "BOOT.INI") \cup Candidates(v, "kernel")
                       \cup Candidates(v, "initrd") : InReach(v, f)
        /\ \A k \in LoadsOf(v) :
              /\ phdrs[k].vaddr \in Nat /\ phdrs[k].fsize <= phdrs[k].msize
              /\ phdrs[k].vaddr .. phdrs[k].vaddr + phdrs[k].msize - 1 \subseteq Memory
              /\ \A f \in Candidates(v, "kernel") : phdrs[k].offset + phdrs[k].fsize <= f.size
              /\ \A f \in Candidates(v, "initrd") :
                    \A n \in 0 .. Behind(f.size) - 1 : phdrs[k].vaddr + phdrs[k].msize + n \in Memory
        /\ \A k, l \in LoadsOf(v) : k # l => Filled(k) \cap Filled(l) = {}

Holds(p, bytes) == \A k \in 1 .. Len(bytes) : memory[p.base + k - 1] = bytes[k]
BytesOf(file, from, n) == [k \in 1 .. n |-> FileByte(ByteAt(file, from + k - 1))]

\* When the kernel is called, all of the second stage was loaded; each segment of
\* the kernel, read four headers at a time, is where it was linked to, and the
\* region that the boot info gives the kernel has room for it, its zeroed part
\* included; the initrd, the command line with its terminator and the firmware's
\* map are complete where the boot info says, none overwritten by a later piece
\* and none over the kernel.
Handover ==
    main.at = "kmain" =>
        /\ Stage2Complete
        /\ \A s \in {t \in {vol.elf.phdrs[k] : k \in 1 .. phdr_count} : t.type = "load"} :
              /\ Holds([base |-> s.vaddr], BytesOf(main.kernel, s.offset, s.fsize))
              /\ Pieces.kernel.base <= s.vaddr /\ s.vaddr + s.msize <= EndOf(Pieces.kernel)
        /\ Holds(Pieces.initrd, BytesOf(main.initrd, 0, main.initrd.size))
        /\ Holds(Pieces.cmdline, Bytes(Append(Said(vol.ini, "cmd"), NUL), Char))
        /\ \A n \in 0 .. main.count - 1 :
              Holds([base |-> Pieces.mmap.base + n * EntryBytes],
                    [k \in 1 .. EntryBytes |-> MapByte(n, k)])

\* Of a text whose lines are each blank, a comment, a section or an assignment,
\* every option gets the value of its last line, or its default: the NULs that
\* the parser writes into the buffer end each string where the line says and cut
\* no other one.
OptionsExact ==
    conf = "options" /\ WellFormed(ini) =>
        \A k \in DOMAIN Defaults : Option(k) = Said(ini, k)

\* A query written as the parser wants it: its conditions in order, each behind a ':'
\* or an 'x'; only an 'x' ends the inequality of the condition before.
Numerals == DOMAIN NumberOf \ {NUL, COLON, "x", LESS, MORE, EQUALS}
Conditions(w) == IF w.type = "mode" THEN <<[op |-> EQUALS, n |-> w.mode]>> ELSE w.parts
Width(c) == IF c.op = EQUALS THEN 1 ELSE 3
Separators(w) ==
    LET Next(s, k) == s + 1 + Width(Conditions(w)[k]) IN
    IF w.type = "mode" THEN <<2, Next(2, 1)>>
    ELSE <<2, Next(2, 1), Next(Next(2, 1), 2), Next(Next(Next(2, 1), 2), 3)>>

Writes(t, w) ==
    LET c == Conditions(w)
        s == Separators(w)
        Numeral(k) == t[s[k] + Width(c[k])]
    IN  /\ w.type \in {"mode", "find"} /\ t[1] = w.type
        /\ Len(c) = Len(s) - 1 /\ Len(t) = s[Len(s)] - 1
        /\ \A k \in 1 .. Len(c) :
              /\ t[s[k]] \in {COLON, "x"}
              /\ \/ c[k].op = EQUALS /\ (t[s[k]] = "x" \/ k = 1 \/ c[k - 1].op = EQUALS)
                 \/ c[k].op \in {LESS, MORE} /\ t[s[k] + 1] = c[k].op /\ t[s[k] + 2] = EQUALS
              /\ Numeral(k) \in Numerals /\ NumberOf[Numeral(k)] = c[k].n

\* Where BOOT.INI was read as it is, and its query written so, the mode that is set
\* is the first of the BIOS's list that the query asks for, with each of its three
\* conditions; only when there is none the loader panics.
Asked(m) == IF vol.wants.type = "mode" THEN m.mode = vol.wants.mode
            ELSE \A k \in 1 .. 3 :
                    LET n == <<m.width, m.height, m.depth>>[k]
                        w == vol.wants.parts[k]
                    IN  (w.op = EQUALS /\ n = w.n) \/ (w.op = MORE /\ n >= w.n) \/ (w.op = LESS /\ n <= w.n)
ModeFits ==
    vol.wants.type # "none" /\ ini = vol.ini =>
        /\ conf = "graphic" => \E k \in DOMAIN Modes :
                                  /\ Modes[k].mode = query.mode /\ Asked(Modes[k])
                                  /\ \A l \in 1 .. k - 1 : ~Asked(Modes[l])
        /\ conf = "panic" => \A k \in DOMAIN Modes : ~Asked(Modes[k])

\* Every call returns, and the loader ends in the kernel or in a panic.
LoaderEnds ==
    /\ [](pc # "off" => <>(pc \in {"idle", "panic"}))
    /\ scene = "boot" => <>(\/ st1.at = "halt" \/ pc = "panic"
                            \/ main.at \in {"kmain", "panic", "undefined"})
    /\ scene = "config" => <>(conf \in {"text", "graphic", "panic"})
=============================================================================
