------------------------------- MODULE Stage1 -------------------------------
(***************************************************************************)
(* The boot sector, boot/stage1/src: it loads the second stage, which      *)
(* follows it on the disk, behind itself, one sector per BIOS call, and    *)
(* jumps there.  The numbers are those of main.asm; a place in memory is a *)
(* paragraph (16 bytes).                                                   *)
(***************************************************************************)
EXTENDS Drive

VARIABLES stage2,  \* the second stage on the disk: [valid, bytes]
          st1,     \* the registers: [at, eax, cx, size]
          paras    \* the sector that each paragraph is the beginning of

stage1Vars == <<stage2, st1, paras>>

SectorBytes == 512

Stage1Init ==
    /\ st1 = [at |-> "header", eax |-> 1, cx |-> 0, size |-> 0]
    /\ paras = <<>>

PutSector(para, lba) == paras' = [p \in DOMAIN paras \cup {para} |-> IF p = para THEN SectorAt(lba) ELSE paras[p]]

\* The first sector, its signature and the size in it.
DecodeHeader ==
    /\ st1.at = "header"
    /\ PutSector(2016, 1)
    /\ st1' = IF stage2.valid
              THEN [at |-> "load", eax |-> 1, cx |-> 2016,
                    size |-> ((stage2.bytes - 1) \div SectorBytes) + 1]
              ELSE [st1 EXCEPT !.at = "halt"]
    /\ UNCHANGED stage2

\* One iteration of load_loop.
LoadSector ==
    /\ st1.at = "load"
    /\ PutSector(st1.cx + 32, st1.eax + 1)
    /\ st1' = [st1 EXCEPT !.eax = @ + 1, !.cx = @ + 32,
                          !.at = IF st1.eax + 1 < st1.size THEN "load" ELSE "jump"]
    /\ UNCHANGED stage2

\* The sectors that are loaded have numbers the BIOS can be told, and places that
\* the 16 bits of cx reach.
StageFits(s) ==
    LET size == ((s.bytes - 1) \div SectorBytes) + 1
    IN  s.bytes \in Nat \ {0} /\ size < BiosSectors /\ 2016 + 32 * size < 65536

\* Every error of the BIOS ends in dump_drive_error.
Stage1Fails ==
    /\ st1.at \in {"header", "load"}
    /\ st1' = [st1 EXCEPT !.at = "halt"]
    /\ UNCHANGED <<stage2, paras>>

\* Every byte of the second stage is where it is linked to, at 0x7E00.
Stage2Complete ==
    \A k \in 0 .. (stage2.bytes - 1) \div SectorBytes :
        2016 + 32 * k \in DOMAIN paras /\ paras[2016 + 32 * k] = 1 + k
=============================================================================
