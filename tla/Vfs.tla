-------------------------------- MODULE Vfs --------------------------------
(***************************************************************************)
(* The virtual file system of the kernel, kernel/src/vfs: the vnodes and   *)
(* links of vfs.c with the two file systems that use its reference counts, *)
(* tmpfs.c and devfs.c.  The model is about the lifetime of vnodes and     *)
(* drivers: who holds a reference, and what is freed when the last one     *)
(* goes.  The bytes of files are not modelled.                             *)
(*                                                                         *)
(* Every driver's walk and readdir answer NULL, so a link is found in      *)
(* memory or not at all and walking changes nothing.  A vnode that was     *)
(* freed may come back as another one, as from malloc.                     *)
(***************************************************************************)
EXTENDS Integers, FiniteSetsExt, SequencesExt

CONSTANTS NumVnodes,      \* a bound: the vnodes that exist at one time
          Files,          \* a bound: the files that can be open
          Names,          \* the names of links
          Tmp, Dev,       \* the sets of tmpfs and of devfs
          MountOrder,     \* <<f, g>>: g may be mounted on a vnode of f
          UnlinkRefused,  \* is vfs_unlink called where it does too much?
          LoseMounts      \* may a vnode be freed that something is mounted on?

Fs == Tmp \cup Dev

CONSTANTS NoFs,           \* the driver of vfs_root: NULL
          None            \* no vnode, no driver

vfs_root == 0
Vnodes == 0 .. NumVnodes

\* vfs_vnode_t and vfs_driver_t.
VnodeType ==
    [fs : Fs \cup {NoFs}, refcount : Nat, mount : Vnodes \cup {None},
     child : Seq([name : Names, vnode : Vnodes])]
DriverType == [refcount : Nat]

\* Nothing is mounted on itself, not even over other mounts.
MountsEnd ==
    \E rank \in [Fs \cup {NoFs} -> 0 .. Cardinality(Fs)] :
        \A p \in MountOrder : rank[p[2]] < rank[p[1]]

ASSUME VfsAssumption ==
    /\ NumVnodes \in Nat \ {0}
    /\ IsFiniteSet(Fs) /\ IsFiniteSet(Files)
    /\ Tmp \cap Dev = {} /\ NoFs \notin Fs
    /\ MountOrder \subseteq (Fs \cup {NoFs}) \X Fs /\ MountsEnd
    /\ {UnlinkRefused, LoseMounts} \subseteq BOOLEAN
    /\ None \notin Vnodes /\ None \notin VnodeType /\ None \notin DriverType

VARIABLES mem,     \* [node: the vnodes, drv: the drivers] in memory
          handle,  \* the root vnode that <fs>_create returned, until <fs>_destroy
          file     \* the vnode of each open file

vars == <<mem, handle, file>>
-----------------------------------------------------------------------------
(* vfs.c: links and references, as functions on the memory *)

Allocated(m) == {v \in Vnodes : m.node[v] # None}
Unused(m) == Vnodes \ Allocated(m)

\* vfs_get_child_by_name: the positions of the links with that name; the code
\* takes the first.
LinksNamed(m, dir, name) ==
    {k \in DOMAIN m.node[dir].child : m.node[dir].child[k].name = name}

remove_link(m, dir, k) == [m EXCEPT !.node[dir].child = RemoveAt(@, k)]

vfs_append_link(m, dir, name, v) ==
    [m EXCEPT !.node[dir].child = <<[name |-> name, vnode |-> v]>> \o @]

vfs_driver_ref(m, f) == [m EXCEPT !.drv[f].refcount = @ + 1]

\* With its last reference a driver is freed, and the file system around it
\* (driver_cleanup).
Fewer(driver, n) == IF driver.refcount > n THEN [driver EXCEPT !.refcount = @ - n] ELSE None
vfs_driver_unref(m, f) == [m EXCEPT !.drv[f] = Fewer(@, 1)]

\* The first reference to a vnode is one to its driver too.
vfs_ref(m, v) ==
    LET n == m.node[v]
        d == IF n.refcount <= 0 /\ n.fs # NoFs THEN vfs_driver_ref(m, n.fs) ELSE m
    IN  [d EXCEPT !.node[v].refcount = @ + 1]

\* The references to u that are in links of the vnodes of S.
LinksAt(m, w, u) == {k \in DOMAIN m.node[w].child : m.node[w].child[k].vnode = u}
LinksFrom(m, S, u) == UNION {{w} \X LinksAt(m, w, u) : w \in S}

\* The references to u that are given back when v is given back once and the vnodes
\* of S are freed with their links.
Returned(m, v, S, u) == Cardinality(LinksFrom(m, S, u)) + (IF u = v THEN 1 ELSE 0)

\* What vfs_unref(v) frees: the least set that holds every vnode of which the last
\* reference is given back.
Frees(m, v, S) ==
    \A u \in Allocated(m) \ S : LET n == Returned(m, v, S, u) IN n = 0 \/ m.node[u].refcount > n
Freed(m, v) ==
    LET enough == {S \in SUBSET Allocated(m) : Frees(m, v, S)}
    IN  IF m.node[v].refcount > 1 THEN {} ELSE {u \in Allocated(m) : \A S \in enough : u \in S}

vfs_unref(m, v) ==
    LET freed == Freed(m, v)
        of(f) == {u \in freed : m.node[u].fs = f}
    IN  [node |-> [u \in Vnodes |->
                      IF u \in freed \/ m.node[u] = None THEN None
                      ELSE [m.node[u] EXCEPT !.refcount = @ - Returned(m, v, freed, u)]],
         drv  |-> [f \in Fs |-> IF of(f) = {} THEN m.drv[f] ELSE Fewer(m.drv[f], Cardinality(of(f)))]]

\* v, what is mounted on it, what is mounted on that, and so on, and the last of them.
Mounted(m) == {m.node[u].mount : u \in Allocated(m)} \ {None}
mounts(m, v) ==
    LET all == {S \in SUBSET (Mounted(m) \cup {v}) :
                   v \in S /\ \A w \in S : m.node[w].mount # None => m.node[w].mount \in S}
    IN  {u \in Mounted(m) \cup {v} : \A S \in all : u \in S}

top(m, v) == CHOOSE u \in mounts(m, v) : m.node[u].mount = None
-----------------------------------------------------------------------------
(* The operations of the drivers *)

Vnode(f) == [fs |-> f, refcount |-> 0, child |-> <<>>, mount |-> None]

\* tmpfs_create and devfs_create: one reference to the driver and one to the
\* root for the caller.
fs_create(m, f, v) ==
    vfs_ref(vfs_driver_ref([m EXCEPT !.node[v] = Vnode(f), !.drv[f] = [refcount |-> 0]], f), v)

\* Mutant: destroy gives back the driver, but not the root.
fs_destroy_rootless(m, f, root) == vfs_driver_unref(m, f)

\* tmpfs_destroy and devfs_destroy
fs_destroy(m, f, root) == vfs_driver_unref(vfs_unref(m, root), f)

\* tmpfs_createi and devfs_bind_dev: a new vnode v, referred to by its link.
linked(m, dir, name, v) ==
    vfs_append_link(vfs_ref([m EXCEPT !.node[v] = Vnode(m.node[dir].fs)], v), dir, name, v)

\* tmpfs refuses a link that is not there or whose vnode has links; devfs
\* refuses everything.
UnlinkFails(m, dir, name) ==
    \/ m.node[dir].fs \in Dev
    \/ LET at == LinksNamed(m, dir, name)
       IN  at = {} \/ m.node[m.node[dir].child[Min(at)].vnode].child # <<>>

driver_unlink(m, dir, name) ==
    LET k == Min(LinksNamed(m, dir, name))
    IN  IF UnlinkFails(m, dir, name) THEN m
        ELSE vfs_unref(remove_link(m, dir, k), m.node[dir].child[k].vnode)

\* vfs_unlink goes on whatever the driver answered: if there still is a link of
\* that name it takes it away, and frees the vnode without its driver's help
\* when no reference is left.
vfs_unlink(m, dir, name) ==
    LET d  == driver_unlink(m, dir, name)
        at == LinksNamed(d, dir, name)
        v  == d.node[dir].child[Min(at)].vnode
        w  == remove_link(d, dir, Min(at))
    IN  IF at = {} THEN d
        ELSE IF w.node[v].refcount > 1 THEN [w EXCEPT !.node[v].refcount = @ - 1]
                                       ELSE [w EXCEPT !.node[v] = None]

\* Mutant: the mount is not counted.
vfs_mount_uncounted(m, v, root) == [m EXCEPT !.node[top(m, v)].mount = root]

vfs_mount(m, v, root) == [vfs_ref(m, root) EXCEPT !.node[top(m, v)].mount = root]

\* Only what is mounted last goes.
vfs_unmount(m, v) ==
    LET under == CHOOSE u \in mounts(m, v) : m.node[u].mount = top(m, v)
    IN  [vfs_unref(m, top(m, v)) EXCEPT !.node[under].mount = None]
-----------------------------------------------------------------------------
(* The operations of the kernel.  A caller has a vnode from walking, from an  *)
(* open file or from what <fs>_create returned, so any that exists.           *)

\* Nothing is mounted on what is freed: neither the code nor a caller of it
\* gives such a mount back.
KeepsMounts(m) ==
    LoseMounts \/ \A v \in Allocated(mem) : m.node[v] = None => mem.node[v].mount = None

Init ==
    /\ mem = [node |-> [v \in Vnodes |-> IF v = vfs_root THEN Vnode(NoFs) ELSE None],
              drv  |-> [f \in Fs |-> None]]
    /\ handle = [f \in Fs |-> None]
    /\ file = [d \in Files |-> None]

FsCreate(f) ==
    /\ mem.drv[f] = None /\ Unused(mem) # {}
    /\ mem' = fs_create(mem, f, Min(Unused(mem)))
    /\ handle' = [handle EXCEPT ![f] = Min(Unused(mem))]
    /\ UNCHANGED file

FsDestroy(f) ==
    /\ handle[f] # None
    /\ mem' = fs_destroy(mem, f, handle[f])
    /\ KeepsMounts(mem')
    /\ handle' = [handle EXCEPT ![f] = None]
    /\ UNCHANGED file

\* Only tmpfs has a create.
Create(v, name) ==
    LET dir == top(mem, v) IN
    /\ mem.node[dir].fs \in Tmp /\ Unused(mem) # {}
    /\ mem' = linked(mem, dir, name, Min(Unused(mem)))
    /\ UNCHANGED <<handle, file>>

\* devfs_bind_dev
Bind(f, name) ==
    /\ handle[f] # None /\ Unused(mem) # {}
    /\ LinksNamed(mem, handle[f], name) = {}
    /\ mem' = linked(mem, handle[f], name, Min(Unused(mem)))
    /\ UNCHANGED <<handle, file>>

\* devfs_unbind_dev
Unbind(f, name) ==
    /\ handle[f] # None
    /\ LET at == LinksNamed(mem, handle[f], name)
           v  == mem.node[handle[f]].child[Min(at)].vnode
       IN  /\ at # {}
           /\ mem' = remove_link(vfs_unref(mem, v), handle[f], Min(at))
    /\ KeepsMounts(mem')
    /\ UNCHANGED <<handle, file>>

Unlink(dir, name) ==
    /\ mem.node[dir].mount = None /\ mem.node[dir].fs # NoFs
    /\ \/ UnlinkRefused
       \/ ~UnlinkFails(mem, dir, name) /\ Cardinality(LinksNamed(mem, dir, name)) = 1
    /\ mem' = vfs_unlink(mem, dir, name)
    /\ KeepsMounts(mem')
    /\ UNCHANGED <<handle, file>>

Mount(v, f) ==
    /\ handle[f] # None
    /\ handle[f] \notin mounts(mem, v)
    /\ <<mem.node[top(mem, v)].fs, f>> \in MountOrder
    /\ mem' = vfs_mount(mem, v, handle[f])
    /\ UNCHANGED <<handle, file>>

Unmount(v) ==
    /\ mem.node[v].mount # None
    /\ mem' = vfs_unmount(mem, v)
    /\ KeepsMounts(mem')
    /\ UNCHANGED <<handle, file>>

\* Mutant: the file does not hold its vnode.
OpenUncounted(d, v) ==
    /\ file[d] = None /\ mem.node[top(mem, v)].fs # NoFs
    /\ file' = [file EXCEPT ![d] = top(mem, v)]
    /\ UNCHANGED <<mem, handle>>

\* tmpfs_open and devfs_open
Open(d, v) ==
    /\ file[d] = None /\ mem.node[top(mem, v)].fs # NoFs
    /\ mem' = vfs_ref(mem, top(mem, v))
    /\ file' = [file EXCEPT ![d] = top(mem, v)]
    /\ UNCHANGED handle

Close(d) ==
    /\ file[d] # None
    /\ mem' = vfs_unref(mem, file[d])
    /\ KeepsMounts(mem')
    /\ file' = [file EXCEPT ![d] = None]
    /\ UNCHANGED handle

Next ==
    \/ \E f \in Fs : FsCreate(f) \/ FsDestroy(f)
    \/ \E f \in Dev, name \in Names : Bind(f, name) \/ Unbind(f, name)
    \/ \E d \in Files : Close(d) \/ \E v \in Allocated(mem) : Open(d, v)
    \/ \E v \in Allocated(mem) :
          \/ Unmount(v)
          \/ \E f \in Fs : Mount(v, f)
          \/ \E name \in Names : Create(v, name) \/ Unlink(v, name)

Spec == Init /\ [][Next]_vars
-----------------------------------------------------------------------------
(* Properties *)

TypeOK ==
    /\ \A v \in Allocated(mem) :
          mem.node[v] \in VnodeType /\ (mem.node[v].refcount > 0 \/ v = vfs_root)
    /\ \A f \in Fs : mem.drv[f] # None => mem.drv[f].refcount \in Nat \ {0}
    /\ handle \in [Fs -> Vnodes \cup {None}] /\ file \in [Files -> Vnodes \cup {None}]

\* Every vnode that something refers to: links, mounts, open files, callers.
Pointers ==
    (UNION { {ln.vnode : ln \in ToSet(mem.node[v].child)} : v \in Allocated(mem) })
      \cup {mem.node[v].mount : v \in Allocated(mem)} \cup Range(handle) \cup Range(file)

\* A vnode other than vfs_root has a reference as long as it is in memory, and
\* nothing refers to a vnode or a driver that was freed, whatever the order in
\* which files are closed, links and mounts taken away and file systems
\* destroyed (vfs_unref, vfs_driver_unref).
NoDangling ==
    /\ TypeOK
    /\ Pointers \ {None} \subseteq Allocated(mem)
    /\ \A v \in Allocated(mem) \ {vfs_root} : mem.drv[mem.node[v].fs] # None

LinksTo(v) == LinksFrom(mem, Allocated(mem), v)
References(v) ==
    Cardinality(LinksTo(v)) + Cardinality({u \in Allocated(mem) : mem.node[u].mount = v})
      + Cardinality({d \in Files : file[d] = v}) + Cardinality({f \in Fs : handle[f] = v})

\* The count of a vnode is the number of links, mounts, open files and callers
\* of <fs>_create that refer to it, the count of a driver that of its vnodes and
\* one for that caller (vfs_ref, vfs_unref, vfs_driver_ref, vfs_driver_unref).
RefcountExact ==
    /\ \A v \in Allocated(mem) \ {vfs_root} : mem.node[v].refcount = References(v)
    /\ \A f \in Fs : mem.drv[f] # None =>
          mem.drv[f].refcount = Cardinality({v \in Allocated(mem) : mem.node[v].fs = f})
                                  + (IF handle[f] = None THEN 0 ELSE 1)

\* Every vnode in memory can be reached from vfs_root, an open file or what a
\* caller of <fs>_create has: whoever goes along links and mounts from there gets
\* to all.  So none is lost, and all of a file system is freed when it is
\* destroyed, unmounted and its files are closed.
Held == ({vfs_root} \cup Range(handle) \cup Range(file)) \ {None}
Onwards(S) ==
    \A u \in S : /\ mem.node[u].mount # None => mem.node[u].mount \in S
                 /\ \A k \in DOMAIN mem.node[u].child : mem.node[u].child[k].vnode \in S
NothingLost == \A S \in SUBSET Allocated(mem) : Held \subseteq S /\ Onwards(S) => S = Allocated(mem)

Mountpoints == {v \in Allocated(mem) : mem.node[v].mount # None}

\* vfs_unlink does not unlink what something is mounted on (vfs.c:40).
MountpointsKept ==
    [][\A v \in Allocated(mem), name \in Names : Unlink(v, name) =>
          \A u \in Mountpoints : LinksTo(u) # {} => LinksTo(u)' # {}]_vars
=============================================================================
