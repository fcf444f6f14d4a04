------------------------------ MODULE MCLoader ------------------------------
(* Volumes with sectors of 2 bytes, 3 entries of the FAT or 2 of a directory. *)
(* A cylinder is two tracks of 3 sectors.  A token is a byte.                 *)
EXTENDS Loader, TLC

\* What mkfs.vfat writes behind the last cluster (0x0FFFFFF8), and what the code
\* looks for (0xFFFFFFFF).
EndMark == 90
MCLastCluster == 99

NoIni == <<>>
NoElf == [phoff |-> 0, phdrs |-> <<>>]
NoWants == [type |-> "none", mode |-> 0, parts |-> <<>>]
MCId == [signature |-> TRUE, bps |-> 2, fats |-> 2]

MCDefaults == [kernel |-> <<"KERNEL">>, initrd |-> <<"INITRD">>, cmd |-> <<>>, gfx |-> <<"text">>]
MCNumberOf == [n \in {"1", "2", "9"} |-> CASE n = "1" -> 1 [] n = "2" -> 2 [] n = "9" -> 9]
MCModes == << [mode |-> 2, width |-> 1, height |-> 1, depth |-> 3],
              [mode |-> 3, width |-> 2, height |-> 1, depth |-> 2],
              [mode |-> 1, width |-> 1, height |-> 2, depth |-> 1],
              [mode |-> 4, width |-> 3, height |-> 3, depth |-> 2] >>
-----------------------------------------------------------------------------
(* The scene of calls *)

\* The clusters of KERNEL, as far as its size needs them, those of the root
\* directory, and one for INITRD.
KernelClusters == <<3, 6, 4>>
Needs(size, spc) == (size + 2 * spc - 1) \div (2 * spc)
MCNext(size, spc) ==
    [c \in 0 .. 8 |->
        IF c = 2 /\ spc = 1 THEN 5
        ELSE IF \E k \in 1 .. Needs(size, spc) - 1 : KernelClusters[k] = c
             THEN KernelClusters[(CHOOSE k \in 1 .. 3 : KernelClusters[k] = c) + 1]
             ELSE EndMark]

Kernel(size) == [name |-> "KERNEL", cluster |-> IF size = 0 THEN 0 ELSE 3, size |-> size]
Initrd == [name |-> "INITRD", cluster |-> 7, size |-> 2]

\* The root directory has two clusters when they are of one sector.  Its end is
\* in the first sector of its last cluster.
MCDir(size, spc) ==
    IF spc = 1
    THEN (<<2, 0>> :> <<Unused, Kernel(size)>>) @@ (<<5, 0>> :> <<Initrd, EndOfDir>>)
    ELSE (<<2, 0>> :> <<Kernel(size), EndOfDir>>) @@ (<<2, 1>> :> <<EndOfDir, EndOfDir>>)

\* With reserved = 2 and two sectors in a cluster, cluster 4 spans two cylinders.
Volume(size, spc, reserved, id) ==
    [id |-> id, part |-> 1, reserved |-> reserved, spf |-> 3, spc |-> spc, root |-> 2,
     rootClusters |-> 3 - spc, next |-> MCNext(size, spc), dir |-> MCDir(size, spc),
     ini |-> NoIni, elf |-> NoElf, wants |-> NoWants]

MCVolumes ==
    {Volume(size, 1, 1, MCId) : size \in {0, 1, 4, 5}}
      \cup {Volume(size, 2, r, MCId) : size \in {7, 8, 11}, r \in {1, 2}}
      \cup {Volume(5, 1, 1, [MCId EXCEPT !.fats = 1])}
-----------------------------------------------------------------------------
(* The scene of the options *)

Lines == { <<>>, <<";", "kernel", "=", "A">>, <<"[", "b", "]">>, <<"kernel", "=", "A">>,
           <<" ", "kernel", "=", "B", "=", "]">>, <<"cmd", "=">>, <<"initrd", "=", "C">>,
           <<"gfx", "=", "text">>, <<"kernel">>, <<"[", "b">> }
Break == <<NEWLINE>>

IniFiles ==
    LET one   == Lines
        two   == {l \o Break \o m : l \in Lines, m \in Lines}
        three == {l \o Break \o m \o Break \o n : l \in Lines, m \in Lines, n \in Lines}
    IN  one \cup two \cup three \cup {t \o Break : t \in two}

\* Queries and how they are written.  The colon before the depth does not end the
\* inequality of the height, so it is used where that makes no difference.
Condition == [op : {"=", "<", ">"}, n : {1, 2}]
Finds == {[type |-> "find", mode |-> 0, parts |-> <<w, h, d>>] :
              w \in Condition, h \in Condition, d \in Condition}
Digit(n) == CASE n = 1 -> "1" [] n = 2 -> "2" [] n = 9 -> "9"
Number(c) == IF c.op = "=" THEN <<Digit(c.n)>> ELSE <<c.op, "=", Digit(c.n)>>
Rendered(q, mark) ==
    IF q.type = "mode" THEN <<"mode", ":", Digit(q.mode)>>
    ELSE <<"find", ":">> \o Number(q.parts[1]) \o <<"x">> \o Number(q.parts[2])
           \o <<mark>> \o Number(q.parts[3])
Marks(q) == IF q.type = "find" /\ (q.parts[2].op = "=" \/ q.parts[3].op # "=") THEN {"x", ":"} ELSE {"x"}

Plain == Volume(1, 1, 1, MCId)
MCConfigVolumes ==
    {[Plain EXCEPT !.ini = f] : f \in IniFiles}
      \cup UNION {{[Plain EXCEPT !.ini = <<"gfx", "=">> \o Rendered(q, m) \o end, !.wants = q] :
                      m \in Marks(q), end \in {<<>>, <<NEWLINE, "cmd", "=", "v">>}} :
                  q \in Finds \cup {[type |-> "mode", mode |-> n, parts |-> <<>>] : n \in {1, 2, 9}}}
      \cup {[Plain EXCEPT !.ini = <<"gfx", "=">> \o t] :
               t \in {<<"find", ":", "1", "x", "2">>, <<"seek", ":", "1">>, <<"mode">>, <<>>}}
-----------------------------------------------------------------------------
(* The scene of the loader *)

\* Files with their clusters of one sector, in pieces between each other.
Chains(ksize, isize, bsize) ==
    << <<2, 5, 9>>, [k \in 1 .. Needs(ksize, 1) |-> 2 * k + 10], [k \in 1 .. Needs(isize, 1) |-> 9 - k],
       [k \in 1 .. Needs(bsize, 1) |-> 2 * k + 9] >>
Chained(chains) ==
    [c \in 0 .. 32 |->
        IF \E f \in DOMAIN chains : \E k \in 1 .. Len(chains[f]) - 1 : chains[f][k] = c
        THEN LET f == CHOOSE f \in DOMAIN chains : \E k \in 1 .. Len(chains[f]) - 1 : chains[f][k] = c
                 k == CHOOSE k \in 1 .. Len(chains[f]) - 1 : chains[f][k] = c
             IN  chains[f][k + 1]
        ELSE EndMark]
Named2(n, chain, size) == [name |-> n, cluster |-> chain[1], size |-> size]

BootVolume(config, elf, isize) ==
    LET chains == Chains(elf.size, isize, Len(config))
        k == Named2("KERNEL", chains[2], elf.size)
        i == Named2("INITRD", chains[3], isize)
    IN  [id |-> MCId, part |-> 1, reserved |-> 1, spf |-> 11, spc |-> 1, root |-> 2, rootClusters |-> 3,
         next |-> Chained(chains),
         dir |-> (<<2, 0>> :> <<k, Unused>>) @@ (<<5, 0>> :> <<i, [k EXCEPT !.name = "K2"]>>)
                   @@ (<<9, 0>> :> <<Named2("BOOT.INI", chains[4], Len(config)), EndOfDir>>),
         ini |-> config, elf |-> elf, wants |-> NoWants]

load(v, f, m, o) == [type |-> "load", vaddr |-> v, fsize |-> f, msize |-> m, offset |-> o]
other(t) == [type |-> t, vaddr |-> 0, fsize |-> 1, msize |-> 9, offset |-> 0]

\* The headers in front, or at the end of the file, where a group is cut.
Elfs == { [size |-> 10, phoff |-> 2, phdrs |-> <<load(4, 3, 4, 5), other("null"), load(9, 2, 5, 8)>>],
          [size |-> 9, phoff |-> 2,
           phdrs |-> <<load(9, 2, 2, 7), load(12, 0, 3, 0), other("note"), load(5, 3, 4, 4)>>],
          [size |-> 8, phoff |-> 7, phdrs |-> <<load(4, 5, 6, 2)>>],
          [size |-> 8, phoff |-> 2, phdrs |-> <<load(4, 2, 2, 3), other("dynamic")>>] }

Inis == { <<"kernel", "=", "K2", NEWLINE, "cmd", "=", "v", "r">>,
          <<"[", "b", "]", NEWLINE, "kernel", "=", "none">>,
          <<"gfx", "=", "mode", ":", "1">> }

MCBootVolumes == {BootVolume(f, elf, n) : f \in Inis, elf \in Elfs, n \in {1, 3}}

ASSUME Starts == \A v \in MCBootVolumes : Loadable(v)
ASSUME Queries == \A v \in MCBootVolumes \cup MCConfigVolumes :
                      v.wants.type # "none" => WellFormed(v.ini) /\ Writes(Said(v.ini, "gfx"), v.wants)

MCStages == {[valid |-> TRUE, bytes |-> 1536], [valid |-> TRUE, bytes |-> 4097], [valid |-> FALSE, bytes |-> 1]}
=============================================================================
