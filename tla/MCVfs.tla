------------------------------- MODULE MCVfs -------------------------------
(* One tmpfs and one devfs.  As in kmain and the host test, either is mounted *)
(* on vfs_root, and the devfs on a vnode of the tmpfs.                        *)
EXTENDS Vfs, TLC

CONSTANTS tmp, dev, a, b, f1, f2

MCMountOrder == {<<NoFs, tmp>>, <<NoFs, dev>>, <<tmp, dev>>}

Symmetry == Permutations(Files) \cup Permutations(Names)
-----------------------------------------------------------------------------
(* vfs_unref and the walk over the mounts as the code has them, by recursion. *)
(* Vfs says what they come to, as least sets, which can be reasoned about.     *)

RECURSIVE unref_links(_, _)
unref_links(m, v) ==
    LET less == [m EXCEPT !.node[v].refcount = @ - 1]
        n    == less.node[v]
        bare == FoldLeft(LAMBDA rest, ln : unref_links(rest, ln.vnode), less, n.child)
    IN  IF n.refcount > 0 THEN less
        ELSE vfs_driver_unref([bare EXCEPT !.node[v] = None], n.fs)

RECURSIVE walk_mounts(_, _)
walk_mounts(m, v) == IF m.node[v].mount = None THEN v ELSE walk_mounts(m, m.node[v].mount)

\* Every graph of links from lower to higher vnodes, with and without a reference
\* from elsewhere, and every way to mount higher ones on lower ones.
Higher == {p \in (1 .. 4) \X (1 .. 4) : p[1] < p[2]}
Links(L, u) == LET at == SetToSeq({p \in L : p[1] = u})
               IN  [k \in DOMAIN at |-> [name |-> a, vnode |-> at[k][2]]]
Counts(L, held) == [u \in 1 .. 4 |-> Cardinality({p \in L : p[2] = u}) + (IF u \in held THEN 1 ELSE 0)]
Memory(L, held, over) ==
    [node |-> [u \in Vnodes |-> IF u = vfs_root THEN Vnode(NoFs)
                                ELSE [fs |-> tmp, refcount |-> Counts(L, held)[u],
                                      child |-> Links(L, u), mount |-> over[u]]],
     drv  |-> [f \in Fs |-> IF f = tmp THEN [refcount |-> 5] ELSE None]]
Bare == [u \in 1 .. 4 |-> None]

ASSUME UnrefByRecursion ==
    \A L \in SUBSET Higher, held \in SUBSET (1 .. 4) :
        LET m == Memory(L, held, Bare) IN
        (\A u \in 1 .. 4 : m.node[u].refcount > 0) =>
            \A v \in held : vfs_unref(m, v) = unref_links(m, v)

ASSUME TopByRecursion ==
    \A over \in [1 .. 4 -> (2 .. 4) \cup {None}] :
        (\A u \in 1 .. 4 : over[u] # None => u < over[u]) =>
            LET m == Memory({}, {}, over) IN \A v \in 1 .. 4 : top(m, v) = walk_mounts(m, v)
=============================================================================
