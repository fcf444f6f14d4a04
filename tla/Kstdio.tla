------------------------------- MODULE Kstdio -------------------------------
(***************************************************************************)
(* Files, as the kernel uses them: kstdio.c and the calls of vfs.c that    *)
(* pass them on, over the three file systems that kmain mounts: the        *)
(* archive at the root (module Tarfs), devices at /dev and files in memory *)
(* at /tmp (tmpfs.c), and what main.c prints, through kfmt.c or to the     *)
(* device of the terminal, onto the screen (modules Kfmt and Console).     *)
(* The life of vnodes is in module Vfs; here they stay.                    *)
(*                                                                         *)
(* A vnode is [fs, id]: in the archive its entry, in /tmp and /dev its     *)
(* number, 0 for the root.  Devices are bound before files are opened.     *)
(***************************************************************************)
EXTENDS Tarfs, Console, Kfmt

CONSTANTS Files,     \* a bound: the files that can be open
          Devices,   \* a sequence of [name, type, size]
          Scenes,    \* [archive, open, create, lengths, data, steps, print]: an archive,
                     \* and what is opened, created, read, written, sought and printed
          MaxInodes, \* a bound: the vnodes in /tmp
          MaxBytes,  \* a bound: the size of a file in /tmp
          MaxRows,   \* a bound: the rows that are printed
          Paths,     \* the paths that are looked up
          SeekEmpty  \* is kfseek called on a file or device of no bytes?

ASSUME KstdioAssumption ==
    /\ {MaxInodes, MaxBytes, MaxRows} \subseteq Nat /\ SeekEmpty \in BOOLEAN
    /\ Devices \in Seq([name : STRING, type : {"block", "char"}, size : 0 .. Word - 1])
    /\ \A s \in Scenes :
          /\ s.archive \in Archives /\ s.data \subseteq Seq(STRING \ {"hole", "junk"})
          /\ s.lengths \subseteq 0 .. IntMax /\ s.steps \subseteq -(IntMax + 1) .. IntMax
          /\ s.open \subseteq Seq(STRING) /\ s.create \subseteq Seq(STRING) \ {<<>>}

\* What the kernel prints: a format with its arguments, or the bytes of a write to
\* the terminal one by one.
Printed(items) == format(Fmt(items), ArgsOf(items))
Echo(bytes) == FlattenSeq([k \in DOMAIN bytes |-> format(<<"%", "c">>, <<bytes[k]>>)])

\* They are strings, which end.
IsString(str) == str \in Seq(Range(str))
ASSUME StringsAssumption ==
    \A s \in Scenes : /\ \A items \in s.print : IsString(Printed(items))
                      /\ \A bytes \in s.data : IsString(Echo(bytes))

VARIABLES scene, inode,
          file,     \* the open files: a vnode and a cursor
          moved,    \* the last transfer: [vnode, from, len] and where it should begin
          text,     \* what each file of /tmp should contain
          said      \* what was printed last, and what it should look like

ioVars == <<inode, file, moved, text>>
fileVars == <<tarVars, consoleVars, scene, ioVars, said>>

tar(id) == [fs |-> "tar", id |-> id]
tmp(id) == [fs |-> "tmp", id |-> id]
dev(id) == [fs |-> "dev", id |-> id]
NoFile == tar(None)
Still == [vnode |-> NoFile, from |-> 0, len |-> 0, at |-> 0]
-----------------------------------------------------------------------------
(* Paths *)

\* What is mounted on a vnode, or the vnode.
top(v) == CASE v = tar(Walk(<<"dev">>)) -> dev(0)
            [] v = tar(Walk(<<"tmp">>)) -> tmp(0)
            [] OTHER -> v

\* The first link of that name: the last that was made.
TmpLinks(parent, name) == {k \in DOMAIN inode : inode[k].parent = parent /\ inode[k].name = name}
DevLinks(parent, name) == {k \in DOMAIN Devices : parent = 0 /\ Devices[k].name = name}

vfs_walk(v, name) ==
    LET dir == top(v) IN
    IF v = NoFile THEN NoFile ELSE
    CASE dir.fs = "tar" -> tar(Child(dir.id, name))
      [] dir.fs = "tmp" -> IF TmpLinks(dir.id, name) = {} THEN NoFile ELSE tmp(Max(TmpLinks(dir.id, name)))
      [] dir.fs = "dev" -> IF DevLinks(dir.id, name) = {} THEN NoFile ELSE dev(Max(DevLinks(dir.id, name)))

Found(path) ==
    LET at[k \in 0 .. Len(path)] == IF k = 0 THEN tar(0) ELSE vfs_walk(at[k - 1], path[k])
    IN  at[Len(path)]
-----------------------------------------------------------------------------
KstdioInit ==
    /\ scene \in Scenes
    /\ archive = scene.archive
    /\ TarfsInit /\ ConsoleInit
    /\ inode = <<>> /\ text = <<>>
    /\ file = [f \in Files |-> [vnode |-> NoFile, cur |-> 0, at |-> 0]]
    /\ moved = Still
    /\ said = <<>>

\* The mounts need the archive's directories dev and tmp, which kmain does not
\* look for.
Up == pc = "ready"
IsOpen(f) == Up /\ file[f].vnode # NoFile
OpenIn(f, fs) == IsOpen(f) /\ file[f].vnode.fs = fs

\* The roots of /tmp and /dev have no context, which read and write would use.
kfopen(f, path) ==
    /\ Up /\ ~IsOpen(f)
    /\ Found(path) # NoFile /\ top(Found(path)) \notin {tmp(0), dev(0)}
    /\ file' = [file EXCEPT ![f] = [vnode |-> top(Found(path)), cur |-> 0, at |-> 0]]
    /\ moved' = Still
    /\ UNCHANGED <<inode, text>>

kfclose(f) ==
    /\ IsOpen(f)
    /\ file' = [file EXCEPT ![f] = [vnode |-> NoFile, cur |-> 0, at |-> 0]]
    /\ moved' = Still
    /\ UNCHANGED <<inode, text>>

Size(v) == CASE v.fs = "tar" -> node[v.id].size
             [] v.fs = "dev" -> Devices[v.id].size
             [] v.fs = "tmp" -> inode[v.id].size
type(f) == Devices[file[f].vnode.id].type

\* n bytes are moved from the cursor on; file[f].at follows what the calls answer.
Moves(f, n) ==
    /\ moved' = [vnode |-> file[f].vnode, from |-> file[f].cur, len |-> n, at |-> file[f].at]
    /\ file' = [file EXCEPT ![f].cur = ToUint64(@ + n), ![f].at = @ + n]
    /\ UNCHANGED <<inode, text>>

\* tarfs_read
tarfs_read(f, len) ==
    /\ OpenIn(f, "tar")
    /\ Moves(f, to_read(Size(file[f].vnode), file[f].cur, len))

\* devfs_read and devfs_write of a block device, whose own function moves less
\* than it is asked for, or fails.
devfs_transfer(f, len) ==
    /\ OpenIn(f, "dev") /\ type(f) = "block"
    /\ \E n \in 0 .. to_read(Size(file[f].vnode), file[f].cur, len) : Moves(f, n)
-----------------------------------------------------------------------------
(* tmpfs.c *)

\* tmpfs_createi, through vfs_create.
vfs_create(v, name) ==
    /\ Up /\ top(v).fs = "tmp" /\ Len(inode) < MaxInodes
    /\ inode' = Append(inode, [parent |-> top(v).id, name |-> name, size |-> 0,
                               null |-> TRUE, contents |-> <<>>])
    /\ text' = Append(text, <<>>)
    /\ moved' = Still
    /\ UNCHANGED file

\* It reads from the beginning, whatever the position is.
tmpfs_read(f, len) ==
    LET id == file[f].vnode.id
        c  == Max({0, Min({len, inode[id].size - file[f].cur})})
    IN  /\ OpenIn(f, "tmp") /\ ~inode[id].null
        /\ file' = [file EXCEPT ![f].cur = @ + c, ![f].at = @ + c]
        /\ moved' = [vnode |-> file[f].vnode, from |-> 0, len |-> c, at |-> file[f].at,
                     bytes |-> SubSeq(inode[id].contents, 1, c),
                     due |-> SubSeq(text[id], file[f].at + 1, file[f].at + c)]
        /\ UNCHANGED <<inode, text>>

\* Bytes over those of a sequence, from the place behind at on, and what it holds
\* where nothing was written.
Over(s, at, bytes, junk) ==
    [k \in 1 .. Max({Len(s), at + Len(bytes)}) |->
        CASE k \in at + 1 .. at + Len(bytes) -> bytes[k - at]
          [] k \in DOMAIN s /\ ~(k \in at + 1 .. at + Len(bytes)) -> s[k]
          [] OTHER -> junk]

\* Mutant: the position is not counted.
grown_short(n, pos, len) ==
    IF n.null \/ pos + len > n.size THEN [n EXCEPT !.null = FALSE, !.size = len] ELSE n

\* The contents grow to what is written.
grown(n, pos, len) ==
    IF n.null \/ pos + len > n.size THEN [n EXCEPT !.null = FALSE, !.size = pos + len] ELSE n

tmpfs_write(f, bytes) ==
    LET id == file[f].vnode.id
        at == file[f].cur
    IN  /\ OpenIn(f, "tmp") /\ at + Len(bytes) <= MaxBytes
        /\ inode' = [inode EXCEPT ![id] = [grown(inode[id], at, Len(bytes)) EXCEPT
                                              !.contents = Over(@, at, bytes, "junk")]]
        /\ text' = [text EXCEPT ![id] = Over(@, file[f].at, bytes, "hole")]
        /\ file' = [file EXCEPT ![f].cur = @ + Len(bytes), ![f].at = @ + Len(bytes)]
        /\ moved' = Still
-----------------------------------------------------------------------------
(* kfseek *)

\* kfseek with SEEK_SET, SEEK_CUR and SEEK_END.  Both file systems answer the
\* new position.
Targets(f) ==
    scene.steps \cup {ToInt(file[f].cur) + s : s \in scene.steps}
                \cup {ToInt(ToUint64(Size(file[f].vnode) - 1))}

kfseek(f, offset) ==
    LET to == seek_to(Size(file[f].vnode), offset) IN
    /\ OpenIn(f, "tar") \/ (OpenIn(f, "dev") /\ type(f) = "block")
    /\ SeekEmpty \/ Size(file[f].vnode) > 0
    /\ file' = [file EXCEPT ![f].cur = ToUint64(to), ![f].at = to]
    /\ moved' = Still
    /\ UNCHANGED <<inode, text>>
-----------------------------------------------------------------------------
(* Printing *)

RoomFor(n) == Len(page.row) + n <= MaxRows

\* dev_write of the terminal.
dev_write(f, bytes) ==
    /\ OpenIn(f, "dev") /\ type(f) = "char" /\ RoomFor(1)
    /\ Shown(Echo(bytes))
    /\ UNCHANGED <<ioVars, said>>

\* Bound: once in a behaviour.
kprintf(items) ==
    /\ Up /\ said = <<>>
    /\ said' = [items |-> items, out |-> Printed(items)]
    /\ Shown(said'.out)
    /\ UNCHANGED ioVars
-----------------------------------------------------------------------------
FileCall ==
    \/ \E f \in Files :
          \/ \E path \in scene.open : kfopen(f, path)
          \/ kfclose(f)
          \/ \E len \in scene.lengths : tarfs_read(f, len) \/ devfs_transfer(f, len) \/ tmpfs_read(f, len)
          \/ \E bytes \in scene.data : tmpfs_write(f, bytes)
          \/ IsOpen(f) /\ file[f].vnode.fs # "tmp" /\ \E offset \in Targets(f) : kfseek(f, offset)
    \/ \E path \in scene.create : vfs_create(Found(Front(path)), Last(path))

KstdioNext ==
    \/ (CreateEntry \/ CreateFails \/ CreateDone) /\ UNCHANGED <<consoleVars, scene, ioVars, said>>
    \/ tarfs_destroy /\ (\A f \in Files : ~IsOpen(f)) /\ UNCHANGED <<consoleVars, scene, ioVars, said>>
    \/ FileCall /\ UNCHANGED <<tarVars, consoleVars, scene, said>>
    \/ /\ \/ \E f \in Files, bytes \in scene.data : dev_write(f, bytes)
          \/ \E items \in scene.print : kprintf(items)
       /\ UNCHANGED <<tarVars, scene>>

KstdioSpec == KstdioInit /\ [][KstdioNext]_fileVars
-----------------------------------------------------------------------------
(* Properties *)

\* The tree is that of the archive (TreeOf), and the other file systems are where
\* they are mounted: a path into /dev leads to the device of that name and a path
\* into /tmp to what was made there last, and never to what the archive has
\* there.
TreeExact ==
    /\ TreeOf(Paths)
    /\ Up => \A path \in Paths :
          LET v == Found(path) IN
          /\ path[1] \notin {"dev", "tmp"} => v = tar(LastOf(path))
          /\ path[1] = "dev" /\ Len(path) > 1 /\ v # NoFile =>
                v.fs = "dev" /\ path = <<"dev", Devices[v.id].name>>
          /\ path[1] = "tmp" /\ Len(path) > 1 /\ v # NoFile =>
                /\ v.fs = "tmp" /\ Last(path) = inode[v.id].name
                /\ \A k \in v.id + 1 .. Len(inode) :
                      inode[k].parent # inode[v.id].parent \/ inode[k].name # inode[v.id].name

\* Whatever was sought, read and written before through this or another file, a
\* transfer lies within its own file and begins where the answers of the last
\* calls say (tarfs.c:201-205, 215, devfs.c:174-180).  As long as the cursor is
\* before the end a read of one byte delivers it, and no sequence of kfseek leaves
\* the cursor behind the end.
ReadsInside ==
    /\ moved.len > 0 /\ moved.vnode.fs # "tmp" /\ Up =>
          moved.from + moved.len <= Size(moved.vnode) /\ moved.from = moved.at
    /\ \A f \in Files : IsOpen(f) /\ Size(file[f].vnode) > 0 =>
          LET size == Size(file[f].vnode) IN
          /\ file[f].cur <= size
          /\ file[f].cur < size <=> to_read(size, file[f].cur, 1) = 1

\* A file of /tmp holds what was written, each byte where the file that wrote it
\* was, with no holes and nothing of another file; a read at the beginning
\* delivers it, and no read delivers more bytes than there are.
TmpfsExact ==
    /\ \A id \in DOMAIN inode : inode[id].contents = text[id] /\ inode[id].size = Len(text[id])
                                /\ "hole" \notin Range(text[id])
    /\ moved.vnode.fs = "tmp" => /\ Len(moved.due) = moved.len
                                 /\ moved.at = 0 => moved.bytes = moved.due

\* What kprintf prints is what its format says: every text, string and
\* character, and every number with its digits and at least as many as asked for,
\* as long as the format asks for nothing that format does not do (Supported names
\* the cases: above all, %u and %ld of a number that is no int).
FormatExact ==
    said # <<>> /\ Supported(said.items) =>
        said.out = FlattenSeq([k \in DOMAIN said.items |-> Meant(said.items[k])])
=============================================================================
