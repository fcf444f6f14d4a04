-------------------------------- MODULE Fat32 --------------------------------
(***************************************************************************)
(* The file system the loader reads from, boot/stage2/src/fat32, on the    *)
(* drive of module Drive: fat32_init, fat32_walk and fat32_read.           *)
(*                                                                         *)
(* A byte of a file is represented by its sector and its place there.      *)
(* What a sector holds (the volume ID, a piece of the FAT, entries of a    *)
(* directory) is looked up in `vol', the volume as mkfs.vfat and mcopy     *)
(* made it; names are compared as a whole.                                 *)
(*                                                                         *)
(* One step is one BIOS call, or what the code does with a read that has   *)
(* returned up to the next read.  Module Loader makes the calls.           *)
(***************************************************************************)
EXTENDS Drive
LOCAL INSTANCE FiniteSetsExt

CONSTANTS BytesPerSector,  \* FAT32_BYTES_PER_SECTOR
          PerFatSector,    \* entries in a sector of the FAT
          PerDirSector,    \* entries in a sector of a directory
          LastCluster,     \* FAT32_FAT_LAST_CLUSTER
          UintMod,         \* 2^32
          FatReadsFail     \* may reading the FAT fail?

FATs == 2    \* FAT32_FATS
OK == 0      \* FAT32_OK
NOENTRY == 4 \* FAT32_NOENTRY, in no way distinguished from the BIOS's errors,
             \* nor these from a number of bytes
Unused   == [name |-> "unused", cluster |-> 0, size |-> 0]  \* an entry that was removed
EndOfDir == [name |-> "eod", cluster |-> 0, size |-> 0]     \* the end of a directory

ASSUME Fat32Assumption ==
    /\ {BytesPerSector, PerFatSector, PerDirSector} \subseteq Nat \ {0}
    /\ LastCluster \in Nat /\ UintMod \in Nat \ {0}
    /\ FatReadsFail \in BOOLEAN

VARIABLES vol,      \* the volume on the disk
          fat,      \* fat32_t
          pc,       \* the read that is under way, "idle" or "panic"
          job,      \* the call of fat32_walk or fat32_read: parameters, locals, result
          cluster   \* the local variable of both

vars == <<vol, fat, pc, job, cluster, drive, scratch>>
-----------------------------------------------------------------------------
(* The volume *)

\* Entry k, from 0, of a sector of the FAT, as the code numbers sectors.
FatAt(lba, k) == vol.next[(lba - vol.part - vol.reserved) * PerFatSector + k]

DataBegin == vol.part + vol.reserved + FATs * vol.spf

\* The entries in a sector of a directory.
DirAt(lba) == vol.dir[<<((lba - DataBegin) \div vol.spc) + 2, (lba - DataBegin) % vol.spc>>]

fat32_cluster_to_lba(c) == fat.clusters_lba_begin + (c - 2) * fat.spc
-----------------------------------------------------------------------------
(* Reading *)

Job(op) == [op |-> op, name |-> "none", file |-> [cluster |-> 0, size |-> 0], count |-> 0,
            asked |-> 0, offset |-> 0, wanted |-> 0, head |-> 0, out |-> <<>>, ret |-> OK, failed |-> FALSE]

Reads(lba, n, next) == drive_read_sectors(lba, n) /\ pc' = next

\* The call returns: ret is OK, NOENTRY or the code of the BIOS's error, and of a
\* read that had none the number of bytes copied.
Return(j, ret) == job' = [j EXCEPT !.ret = ret] /\ pc' = "idle" /\ UNCHANGED drive

\* fat32_next_cluster in two halves: the read of the FAT's sector, and its entry
\* or, when the read failed, the error code.
ReadFat(c, next) == Reads(fat.fat_lba_begin + c \div PerFatSector, 1, next)
next_cluster == IF drive.ret # 0 THEN drive.ret ELSE FatAt(drive.buf[1], cluster % PerFatSector)

FatInit ==
    /\ DriveInit
    /\ fat = [part |-> vol.part, spc |-> 0, fat_lba_begin |-> 0, clusters_lba_begin |-> 0, root |-> 0]
    /\ pc = "off" /\ job = Job("none") /\ cluster = 0

\* fat32_init
Mount ==
    /\ pc = "off"
    /\ Reads(fat.part, 1, "mount")
    /\ UNCHANGED <<vol, fat, job, cluster, scratch>>

MountFails ==
    /\ pc = "mount" /\ Returned
    /\ drive.ret # 0 \/ vol.id # [signature |-> TRUE, bps |-> BytesPerSector, fats |-> FATs]
    /\ pc' = "panic"
    /\ UNCHANGED <<vol, fat, job, cluster, drive, scratch>>

Mounted ==
    /\ pc = "mount" /\ Returned
    /\ drive.ret = 0
    /\ vol.id = [signature |-> TRUE, bps |-> BytesPerSector, fats |-> FATs]
    /\ LET begin == fat.part + vol.reserved IN
       fat' = [fat EXCEPT !.spc = vol.spc, !.root = vol.root, !.fat_lba_begin = begin,
                          !.clusters_lba_begin = begin + vol.spf * FATs]
    /\ pc' = "idle"
    /\ UNCHANGED <<vol, job, cluster, drive, scratch>>
-----------------------------------------------------------------------------
(* fat32_walk *)

\* The loader only looks in the root directory.
Walk(name) ==
    /\ pc = "idle"
    /\ job' = [Job("walk") EXCEPT !.name = name]
    /\ cluster' = fat.root
    /\ Reads(fat32_cluster_to_lba(fat.root), 1, "walk")
    /\ UNCHANGED <<vol, fat, scratch>>

\* The places in a sector where the search comes to its end.
Stops(slots, name) ==
    {k \in DOMAIN slots : \/ slots[k] = EndOfDir
                          \/ slots[k] # Unused /\ slots[k].name = name}

WalkSector ==
    LET slots == DirAt(drive.buf[1])
        stop  == Stops(slots, job.name)
    IN
    /\ pc = "walk" /\ Returned
    /\ UNCHANGED <<vol, fat, cluster, scratch>>
    /\ \/ /\ drive.ret # 0
          /\ Return(job, drive.ret)
       \/ /\ drive.ret = 0 /\ stop # {}
          /\ IF slots[Min(stop)] = EndOfDir THEN Return(job, NOENTRY)
             ELSE Return([job EXCEPT !.file = [cluster |-> slots[Min(stop)].cluster,
                                               size    |-> slots[Min(stop)].size]], OK)
       \/ /\ drive.ret = 0 /\ stop = {}
          /\ ReadFat(cluster, "walknext")
          /\ UNCHANGED job

\* Mutant: the walk stays in the first cluster.
WalkNextNowhere ==
    /\ pc = "walknext" /\ Returned
    /\ cluster' = LastCluster
    /\ Return(job, NOENTRY)
    /\ UNCHANGED <<vol, fat, scratch>>

WalkNext ==
    /\ pc = "walknext" /\ Returned
    /\ cluster' = next_cluster
    /\ IF next_cluster = LastCluster THEN Return(job, NOENTRY)
       ELSE Reads(fat32_cluster_to_lba(next_cluster), 1, "walk") /\ UNCHANGED job
    /\ UNCHANGED <<vol, fat, scratch>>
-----------------------------------------------------------------------------
(* fat32_read *)

ClusterBytes == BytesPerSector * fat.spc

\* The two loops from their heads on: skip a cluster, read one, or return.
Onward(j, c) ==
    \/ /\ j.wanted > 0 /\ c # LastCluster
       /\ ReadFat(c, "skip") /\ job' = [j EXCEPT !.wanted = @ - 1]
    \/ /\ j.wanted = 0 /\ c # LastCluster /\ j.count > 0
       /\ Reads(fat32_cluster_to_lba(c), fat.spc, "read") /\ job' = j
    \/ /\ c = LastCluster \/ (j.wanted = 0 /\ j.count = 0)
       /\ Return(j, Len(j.out))

\* Mutant: what the file has is not compared with what is asked for.
ClampAway(file, count, offset) == count

\* What is left of the count at the end of the file.
Clamp(file, count, offset) ==
    IF (count + offset) % UintMod > file.size THEN file.size - offset ELSE count

Read(file, count, offset) ==
    LET j == [Job("read") EXCEPT !.file = file, !.asked = count, !.offset = offset] IN
    /\ pc = "idle"
    /\ cluster' = file.cluster
    /\ \/ /\ offset > file.size
          /\ Return(j, 0)
       \/ /\ offset <= file.size
          /\ Onward([j EXCEPT !.count  = Clamp(file, count, offset),
                              !.wanted = offset \div ClusterBytes,
                              !.head   = offset % ClusterBytes], file.cluster)
    /\ UNCHANGED <<vol, fat, scratch>>

Skip ==
    /\ pc = "skip" /\ Returned
    /\ cluster' = next_cluster
    /\ Onward(job, next_cluster)
    /\ UNCHANGED <<vol, fat, scratch>>

\* Byte i of the buffer ws.
ws(i) == <<drive.buf[(i \div BytesPerSector) + 1], i % BytesPerSector>>

\* Mutant: the offset into the first cluster is used for every cluster.
CopyFromHead(j) ==
    LET n == Min({ClusterBytes - j.head, j.count})
    IN  [j EXCEPT !.out = @ \o [k \in 1 .. n |-> ws(j.head + k - 1)], !.count = @ - n]

\* The inner loop.
Copy(j) ==
    LET n == Min({ClusterBytes - j.head, j.count})
    IN  [j EXCEPT !.out = @ \o [k \in 1 .. n |-> ws(j.head + k - 1)],
                  !.count = @ - n, !.head = 0]

\* Mutant: a cluster that cannot be read ends the file.
ReadClusterShort ==
    /\ pc = "read" /\ Returned
    /\ \/ drive.ret # 0 /\ Return(job, Len(job.out))
       \/ drive.ret = 0 /\ job' = Copy(job) /\ ReadFat(cluster, "readnext")
    /\ UNCHANGED <<vol, fat, cluster, scratch>>

ReadCluster ==
    /\ pc = "read" /\ Returned
    /\ \/ drive.ret # 0 /\ Return(job, drive.ret)
       \/ drive.ret = 0 /\ job' = Copy(job) /\ ReadFat(cluster, "readnext")
    /\ UNCHANGED <<vol, fat, cluster, scratch>>

\* Mutant: the loop waits for the code's own mark, on the same piece of the FAT.
ReadNextForever ==
    /\ pc = "readnext" /\ Returned
    /\ IF next_cluster = LastCluster THEN Return(job, Len(job.out))
       ELSE ReadFat(cluster, "readnext") /\ UNCHANGED job
    /\ UNCHANGED <<vol, fat, scratch, cluster>>

ReadNext ==
    /\ pc = "readnext" /\ Returned
    /\ cluster' = next_cluster
    /\ Onward(job, next_cluster)
    /\ UNCHANGED <<vol, fat, scratch>>
-----------------------------------------------------------------------------
BiosReads ==
    /\ Transfer
    /\ UNCHANGED <<vol, fat, pc, job, cluster>>

BiosFails(e) ==
    /\ FatReadsFail \/ pc \notin {"walknext", "skip", "readnext"}
    /\ TransferFails(e)
    /\ job' = [job EXCEPT !.failed = TRUE]
    /\ UNCHANGED <<vol, fat, pc, cluster>>

\* The entries the loader reads: those it has found.
FilesOf(v) ==
    (UNION {{v.dir[d][k] : k \in DOMAIN v.dir[d]} : d \in DOMAIN v.dir}) \ {Unused, EndOfDir}
Found == FilesOf(vol)

Onwards ==
    \/ Mount \/ Mounted \/ MountFails
    \/ WalkSector \/ WalkNext
    \/ Skip \/ ReadCluster \/ ReadNext
    \/ BiosReads

-----------------------------------------------------------------------------
(* Properties *)

\* The k-th cluster of what begins with cluster c, from 0, and the sectors it has.
NthOf(v, c, k) ==
    LET follow[n \in Nat] == IF n = 0 THEN c ELSE v.next[follow[n - 1]]
    IN  follow[k]
Nth(c, k) == NthOf(vol, c, k)
Sector(c, s) == DataBegin + (c - 2) * vol.spc + s

\* Byte k of a file, counted from 0.
ByteAt(file, k) ==
    LET s == k \div BytesPerSector
    IN  <<Sector(Nth(file.cluster, s \div vol.spc), s % vol.spc), k % BytesPerSector>>

\* The clusters a size needs, and the clusters of a file.
Needed(v, size) == (size + (BytesPerSector * v.spc - 1)) \div (BytesPerSector * v.spc)
Clusters(file) == {Nth(file.cluster, k) : k \in 0 .. Needed(vol, file.size) - 1}
RootClusters == {Nth(vol.root, k) : k \in 0 .. vol.rootClusters - 1}

\* Where a cluster begins.
Begin(v, c) == (v.part + v.reserved + FATs * v.spf) + (c - 2) * v.spc

\* n clusters from c on, none of which is reserved or the mark the code looks for:
\* each has its entry in the FAT, and its sectors are among those of the BIOS.
Follow(v, c, n) ==
    \A k \in 0 .. n - 1 :
        LET d == NthOf(v, c, k)
        IN  /\ d \in Nat \ {0, 1, LastCluster}
            /\ d \div PerFatSector < v.spf /\ Begin(v, d) + v.spc <= BiosSectors

\* A volume as mkfs.vfat and mcopy make it: the FAT has the clusters of the root
\* directory and of every file, and the directory ends where fat32_walk looks,
\* which is the first sector of each of its clusters.
WellMade(v) ==
    /\ {v.part, v.reserved, v.spf, v.root} \subseteq Nat
    /\ v.spc \in 1 .. 2 * MaxSectors /\ v.rootClusters \in Nat \ {0}
    /\ Follow(v, v.root, v.rootClusters)
    /\ \A s \in FilesOf(v) : s.size \in 0 .. UintMod - 1 /\ Follow(v, s.cluster, Needed(v, s.size))
    /\ \A d \in DOMAIN v.dir : DOMAIN v.dir[d] = 1 .. PerDirSector
    /\ \A k \in 0 .. v.rootClusters - 1 : <<NthOf(v, v.root, k), 0>> \in DOMAIN v.dir
    /\ \E k \in 0 .. v.rootClusters - 1, n \in 1 .. PerDirSector :
          v.dir[<<NthOf(v, v.root, k), 0>>][n] = EndOfDir /\ (v.spc = 1 \/ k = 0)

AtOnce(file) == \A c \in Clusters(file) : OneTransfer(Sector(c, 0), vol.spc)

\* How many bytes a read has to deliver: as many as are asked for or the file has.
Available(j) == Max({0, Min({j.asked, j.file.size - j.offset})})

\* fat32_read returns the bytes of the file from the offset on, as many as were
\* asked for or the file has, wherever its clusters lie and whether or not it
\* ends with a cluster; provided that each cluster takes one BIOS call.
ReadExact ==
    pc = "idle" /\ job.op = "read" /\ ~job.failed /\ AtOnce(job.file) =>
        job.out = [k \in 1 .. Available(job) |-> ByteAt(job.file, job.offset + k - 1)]

\* The entries of the root directory up to its end.
Slot(k) ==
    LET c == Nth(vol.root, k \div (PerDirSector * vol.spc))
    IN  vol.dir[<<c, (k \div PerDirSector) % vol.spc>>][(k % PerDirSector) + 1]
Slots == 0 .. PerDirSector * vol.spc * vol.rootClusters - 1
Entries == {Slot(k) : k \in {k \in Slots : \A l \in 0 .. k : Slot(l) # EndOfDir}} \ {Unused}

\* fat32_walk finds a file exactly when the directory has it, past entries that
\* were removed and into its later clusters.
WalkExact ==
    pc = "idle" /\ job.op = "walk" /\ ~job.failed =>
        \/ /\ job.ret = OK
           /\ \E e \in Entries : /\ e.name = job.name
                                 /\ job.file = [cluster |-> e.cluster, size |-> e.size]
        \/ job.ret = NOENTRY /\ \A e \in Entries : e.name # job.name

\* Only clusters of the file or the directory are read: the mark behind the last
\* one, which is not the one the code compares with, is never followed.
OnlyOwnClusters ==
    /\ pc = "walk" => cluster \in RootClusters /\ drive.lba = Sector(cluster, 0)
    /\ pc = "read" => /\ cluster \in Clusters(job.file)
                      /\ drive.lba = Sector(cluster, 0)

\* A call during which the BIOS failed returns the BIOS's error, as long as it is
\* not the FAT that cannot be read; any other read returns the number of bytes it
\* had to deliver, and any other walk FAT32_OK or FAT32_NOENTRY.  That a number of
\* bytes may be the number of an error (fat32.c:157, :167) stays: a caller cannot
\* tell them apart.
ErrorsReported ==
    pc = "idle" =>
        IF job.failed THEN job.ret \in Errors
        ELSE IF job.op = "read" THEN job.ret = Available(job)
        ELSE job.ret \in {OK, NOENTRY}

\* What a call answers is right: WalkExact and ErrorsReported.
AnswersExact == WalkExact /\ ErrorsReported
=============================================================================
