-------------------------------- MODULE Drive --------------------------------
(***************************************************************************)
(* The boot drive, boot/stage2/src/drive: drive_read_sectors reads through *)
(* the BIOS, which knows sectors by cylinder, head and sector, reads no    *)
(* further than the end of a cylinder, and only into low memory: a scratch *)
(* buffer from which the code copies.                                      *)
(*                                                                         *)
(* A sector is represented by its number; one step is one BIOS call.       *)
(* There is one reader, the loader, so one call at a time.                 *)
(***************************************************************************)
EXTENDS Integers, Sequences
LOCAL INSTANCE FiniteSetsExt

CONSTANTS HeadCount, SectorPerTrack,  \* the geometry, from drive_get_info
          CylinderMod,                \* 2^10: what the BIOS call has room for
          MaxSectors,                 \* DRIVE_BIOS_MAX_SECTORS
          Errors                      \* the BIOS's error codes

\* The BIOS's numbers of heads and of sectors come in 8 and in 6 bits; 256 heads,
\* which drive.asm would count as 0, are left out.
ASSUME DriveAssumption ==
    /\ HeadCount \in 1 .. 255 /\ SectorPerTrack \in 1 .. 63
    /\ CylinderMod \in Nat /\ CylinderMod > 2 /\ MaxSectors \in Nat \ {0}
    /\ Errors \subseteq Nat \ {0}

VARIABLES drive,   \* the call of drive_read_sectors: parameters and locals
          scratch  \* drive_scratch_buffer, and as much memory behind it

Scratch == 0 .. 2 * MaxSectors - 1
Junk == -1

\* The sectors that can be named.
BiosSectors == CylinderMod * HeadCount * SectorPerTrack

\* drive_lba_to_chs; the cylinder's own 16 bits are more than are passed on.
cylinder(lba) == (lba \div SectorPerTrack) \div HeadCount
head(lba)     == (lba \div SectorPerTrack) % HeadCount
sector(lba)   == (lba % SectorPerTrack) + 1

\* The sector that the BIOS knows by a cylinder, a head and a number; and the one
\* it delivers for an LBA, of whose cylinder it is told the low bits.
Named(c, h, s) == (c * HeadCount + h) * SectorPerTrack + s - 1
SectorAt(lba) == Named(cylinder(lba) % CylinderMod, head(lba), sector(lba))

\* The sectors left in the cylinder.
max_cyl_read(lba) == (cylinder(lba) + 1) * HeadCount * SectorPerTrack - lba

\* Mutant: the end of the cylinder is not looked at.
to_read_on(lba, count) == Min({MaxSectors, count})

to_read(lba, count) == Min({MaxSectors, max_cyl_read(lba), count})

Call(lba, count) == [lba |-> lba, count |-> count, read |-> 0, es |-> 0, buf |-> <<>>, ret |-> 0]

DriveInit ==
    /\ drive = Call(0, 0)
    /\ scratch = [k \in Scratch |-> Junk]

drive_read_sectors(lba, count) == drive' = Call(lba, count)

Returned == drive.count = 0

\* One iteration.  The segment the BIOS reads into moves on by one sector, while
\* the code always copies from the beginning of the scratch buffer.
Transfer ==
    LET at == drive.lba + drive.read
        n  == to_read(at, drive.count)
        filled == [k \in Scratch |-> IF k \in drive.es .. drive.es + n - 1
                                     THEN SectorAt(at) + k - drive.es ELSE scratch[k]]
    IN
    /\ ~Returned
    /\ scratch' = filled
    /\ drive' = [drive EXCEPT !.read = @ + n, !.count = @ - n, !.es = @ + 1,
                              !.buf = @ \o [k \in 1 .. n |-> filled[k - 1]]]

\* The BIOS call fails, and drive_read_sectors returns its code.
TransferFails(e) ==
    /\ ~Returned
    /\ drive' = [drive EXCEPT !.count = 0, !.ret = e]
    /\ UNCHANGED scratch

\* One BIOS call is enough for these sectors.
OneTransfer(lba, count) == to_read(lba, count) = count
-----------------------------------------------------------------------------
(* Properties *)

\* Every BIOS call asks for sectors of one cylinder, for no more than the scratch
\* buffer holds, and delivers the ones that are next (drive.c:33-46).  From the second
\* call of a read on they lie further back than the buffer's beginning (drive.c:57);
\* where they lie is not what this property is about.
TransfersLegal ==
    [][drive'.read > drive.read =>
          LET at   == drive.lba + drive.read
              last == drive.lba + drive'.read - 1
          IN  /\ (at .. last) \subseteq {scratch'[k] : k \in Scratch}
              /\ cylinder(at) = cylinder(last)
              /\ last - at < MaxSectors]_<<drive, scratch>>
=============================================================================
