-------------------------------- MODULE Tarfs --------------------------------
(***************************************************************************)
(* The initial RAM disk, kernel/src/vfs/tarfs.c: tarfs_create builds a     *)
(* tree of vnodes from a tar archive in memory.  How its files are opened, *)
(* read and positioned is in module Kstdio, with the other file systems.   *)
(*                                                                         *)
(* An entry of the archive is its path, split into names, and its size;    *)
(* the header's other fields, and its octal digits, are not modelled.  A   *)
(* vnode has the number of its entry, the root is 0.  The arithmetic is    *)
(* the code's: sizes and cursors are uint64_t, positions and lengths int.  *)
(*                                                                         *)
(* Building the tree is one step per entry.                                *)
(***************************************************************************)
EXTENDS Integers, SequencesExt

CONSTANTS Block,       \* 512
          IntMax,      \* the greatest int
          Word,        \* 2^64: what uint64_t wraps at
          Archives     \* the archives the loader may have read

None == -1

ASSUME TarfsAssumption ==
    /\ {Block, IntMax, Word} \subseteq Nat \ {0} /\ Word % Block = 0 /\ 2 * (IntMax + 1) <= Word
    /\ Archives \subseteq Seq([path : Seq(STRING) \ {<<>>}, size : 0 .. Word - 1])

VARIABLES archive,  \* the entries, in the order they have in memory
          pc,       \* "create", "ready", "failed" or "destroyed"
          i,        \* tarfs_create's offset into the archive
          node      \* the vnodes in memory

tarVars == <<archive, pc, i, node>>
-----------------------------------------------------------------------------
(* Numbers *)

ToInt(n) == ((n + IntMax + 1) % (2 * (IntMax + 1))) - (IntMax + 1)

ToUint64(n) == n % Word

\* The bytes a file's data takes.  For an empty file size - 1 wraps, and so does
\* the result.
data_size(size) == ToUint64((ToUint64(size - 1) \div Block + 1) * Block)
-----------------------------------------------------------------------------
(* The archive and the tree *)

\* Where tar puts the header of entry k, and the block of zeros behind the last.
Offset(k) ==
    LET at[n \in Nat] ==
            IF n <= 1 THEN 0 ELSE at[n - 1] + Block * (1 + (archive[n - 1].size + Block - 1) \div Block)
    IN  at[k]
Headers == {k \in DOMAIN archive : Offset(k) = i}

Vnodes == 0 .. Len(archive)
Vnode(size, data) == [size |-> size, data |-> data, child |-> <<>>]
NoVnode == Vnode(None, None)

\* vfs_get_child_by_name: the first link with that name.
Child(v, name) ==
    LET at == {k \in DOMAIN node[v].child : node[v].child[k].name = name}
    IN  IF v = None \/ at = {} THEN None ELSE node[v].child[Min(at)].vnode

\* From the root along the names.
Walk(path) == FoldLeft(Child, 0, path)

\* tarfs_free_link: the vnode and everything under it.
Below(v) == {node[v].child[k].vnode : k \in DOMAIN node[v].child}
Under(v) ==
    LET down[n \in Nat] == IF n = 0 THEN {v} ELSE down[n - 1] \cup UNION {Below(u) : u \in down[n - 1]}
    IN  down[Len(archive)]
-----------------------------------------------------------------------------
TarfsInit ==
    /\ archive \in Archives
    /\ pc = "create" /\ i = 0
    /\ node = [v \in Vnodes |-> IF v = 0 THEN Vnode(0, None) ELSE NoVnode]

\* Mutant: the link is made in the root.
CreateEntryFlat ==
    \E k \in Headers :
        LET parent == Walk(Front(archive[k].path)) IN
        /\ pc = "create" /\ parent # None
        /\ node' = [[node EXCEPT ![k] = Vnode(archive[k].size, i + Block)]
                        EXCEPT ![0].child = <<[name |-> Last(archive[k].path), vnode |-> k]>> \o @]
        /\ i' = ToUint64(i + Block + data_size(archive[k].size))
        /\ UNCHANGED <<archive, pc>>

\* One iteration of tarfs_create: the new link becomes the first of its parent.
CreateEntry ==
    \E k \in Headers :
        LET parent == Walk(Front(archive[k].path)) IN
        /\ pc = "create" /\ parent # None
        /\ node' = [[node EXCEPT ![k] = Vnode(archive[k].size, i + Block)]
                        EXCEPT ![parent].child = <<[name |-> Last(archive[k].path), vnode |-> k]>> \o @]
        /\ i' = ToUint64(i + Block + data_size(archive[k].size))
        /\ UNCHANGED <<archive, pc>>

\* "Could not find parent": tarfs_create returns NULL.
CreateFails ==
    /\ pc = "create"
    /\ \E k \in Headers : Walk(Front(archive[k].path)) = None
    /\ pc' = "failed"
    /\ UNCHANGED <<archive, i, node>>

CreateDone ==
    /\ pc = "create" /\ Headers = {}
    /\ pc' = "ready"
    /\ UNCHANGED <<archive, i, node>>

\* tarfs_destroy.
tarfs_destroy ==
    /\ pc = "ready"
    /\ pc' = "destroyed"
    /\ node' = [v \in Vnodes |-> IF v \in Under(0) THEN NoVnode ELSE node[v]]
    /\ UNCHANGED <<archive, i>>

\* Mutant: what is left is not looked at.
to_read_all(size, cur, len) == IF size <= 0 THEN 0 ELSE len

\* What a read of len bytes copies: what is left of the file is an int.  The same
\* expression is in devfs.c.
to_read(size, cur, len) ==
    LET readable == ToInt(ToUint64(size - cur))
    IN  IF readable <= 0 THEN 0 ELSE Min({len, readable})

\* Where seek puts the cursor, in tarfs.c and for block devices in devfs.c: a
\* position at the end or behind it, or before the beginning, becomes that of the
\* last byte.
seek_to(size, pos) == IF ToUint64(pos) >= size THEN ToInt(ToUint64(size - 1)) ELSE pos
-----------------------------------------------------------------------------
(* Properties *)

\* The last entry of a path.
LastOf(path) ==
    LET at == {k \in DOMAIN archive : archive[k].path = path}
    IN  IF at = {} THEN None ELSE Max(at)

Orphan(k) == /\ Len(archive[k].path) > 1
             /\ \A l \in 1 .. k - 1 : archive[l].path # Front(archive[k].path)

\* The tree is that of the archive: a path leads to the last entry that has it,
\* with its size and the place of its data, and no other path leads anywhere.
\* An archive with an entry whose directory does not come before it is refused,
\* and no other is.  Every offset the loop comes to is that of a header or of the
\* end, empty files included, for which the arithmetic wraps (tarfs.c:97).
TreeOf(paths) ==
    /\ pc \in {"create", "ready"} => i \in {Offset(k) : k \in 1 .. Len(archive) + 1}
    /\ pc = "ready" => \A path \in paths :
          /\ Walk(path) = LastOf(path)
          /\ LastOf(path) # None =>
                /\ node[LastOf(path)].size = archive[LastOf(path)].size
                /\ node[LastOf(path)].data = Offset(LastOf(path)) + Block
    /\ pc = "failed" => \E k \in DOMAIN archive : Orphan(k)
    /\ pc = "ready" => \A k \in DOMAIN archive : ~Orphan(k)
=============================================================================
