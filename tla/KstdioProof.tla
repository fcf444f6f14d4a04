---------------------------- MODULE KstdioProof ----------------------------
(***************************************************************************)
(* Proofs about files (kernel/src/vfs/kstdio.c over tarfs.c, devfs.c and   *)
(* tmpfs.c) and about the screen (kernel/src/vga/vga.c).                   *)
(***************************************************************************)
EXTENDS Kstdio, SequenceTheorems, WellFoundedInduction, TLAPS

-----------------------------------------------------------------------------
(* Paths *)

\* A set of numbers that is not empty has a smallest one.
LEMMA Smallest ==
    ASSUME NEW S, S \subseteq Nat, S # {}
    PROVE  \E x \in S : \A y \in S : x <= y
<1>1. PICK x \in S : \A y \in S : ~(<<y, x>> \in OpToRel(<, Nat))
  BY NatLessThanWellFounded, WFMin
<1>2. \A y \in S : ~(y < x)
  BY <1>1 DEF OpToRel
<1> QED
  BY <1>2

\* g goes along the first n names of a path.
Along(path, n, g) == g = [k \in 0 .. n |-> IF k = 0 THEN tar(0) ELSE vfs_walk(g[k - 1], path[k])]

LEMMA AlongExists ==
    ASSUME NEW path, NEW n \in Nat
    PROVE  \E g : Along(path, n, g)
<1> DEFINE S == {m \in Nat : ~ \E g : Along(path, m, g)}
<1>1. SUFFICES ASSUME S # {} PROVE FALSE
  OBVIOUS
<1>2. PICK m \in S : \A y \in S : m <= y
  BY <1>1, Smallest
<1>3. m # 0
  <2>1. Along(path, 0, [k \in 0 .. 0 |-> tar(0)])
    BY DEF Along
  <2> QED
    BY <1>2, <2>1
<1>4. m - 1 \in Nat /\ m - 1 \notin S
  BY <1>2, <1>3
<1>5. PICK g : Along(path, m - 1, g)
  BY <1>4
<1> DEFINE h == [k \in 0 .. m |-> IF k = m THEN vfs_walk(g[m - 1], path[m]) ELSE g[k]]
<1>6. \A k \in 0 .. m - 1 : g[k] = IF k = 0 THEN tar(0) ELSE vfs_walk(g[k - 1], path[k])
  BY <1>5 DEF Along
<1>7. ASSUME NEW k \in 0 .. m PROVE h[k] = IF k = 0 THEN tar(0) ELSE vfs_walk(h[k - 1], path[k])
  <2>1. CASE k = m
    <3>1. h[m - 1] = g[m - 1]
      BY <1>2, <1>3
    <3> QED
      BY <1>3, <2>1, <3>1
  <2>2. CASE k # m
    <3>1. k \in 0 .. m - 1
      BY <2>2
    <3>2. k # 0 => h[k - 1] = g[k - 1]
      BY <3>1
    <3> QED
      BY <1>6, <2>2, <3>1, <3>2
  <2> QED
    BY <2>1, <2>2
<1>8. Along(path, m, h)
  <2>1. h = [k \in 0 .. m |-> h[k]]
    OBVIOUS
  <2> HIDE DEF h
  <2>2. [k \in 0 .. m |-> h[k]] = [k \in 0 .. m |-> IF k = 0 THEN tar(0) ELSE vfs_walk(h[k - 1], path[k])]
    BY <1>7
  <2> QED
    BY <2>1, <2>2 DEF Along
<1> QED
  BY <1>2, <1>8

\* Found is the end of such a walk.
LEMMA FoundIs ==
    ASSUME NEW path, Len(path) \in Nat
    PROVE  \E g : Along(path, Len(path), g) /\ Found(path) = g[Len(path)]
<1> DEFINE n == Len(path)
           at == CHOOSE g : g = [k \in 0 .. n |-> IF k = 0 THEN tar(0) ELSE vfs_walk(g[k - 1], path[k])]
<1>1. \E g : g = [k \in 0 .. n |-> IF k = 0 THEN tar(0) ELSE vfs_walk(g[k - 1], path[k])]
  BY AlongExists DEF Along
<1>2. Along(path, n, at)
  BY <1>1 DEF Along
<1>3. Found(path) = at[n]
  BY DEF Found
<1> QED
  BY <1>2, <1>3

-----------------------------------------------------------------------------
(* The invariant *)

\* The sizes that an int can count, and no seek in what is empty.
Small ==
    /\ SeekEmpty = FALSE /\ MaxBytes <= IntMax
    /\ \A a \in Archives : \A k \in DOMAIN a : a[k].size <= IntMax
    /\ \A k \in DOMAIN Devices : Devices[k].size <= IntMax

Node == [size : Int, data : Int, child : Seq([name : STRING, vnode : Vnodes])]
Present(v) == node[v].size \in 0 .. IntMax
Tree ==
    /\ scene \in Scenes /\ archive = scene.archive
    /\ pc \in {"create", "ready", "failed", "destroyed"} /\ i \in Nat
    /\ node \in [Vnodes -> Node]
    /\ pc # "destroyed" =>
          /\ Present(0)
          /\ \A v \in Vnodes : \A k \in DOMAIN node[v].child : Present(node[v].child[k].vnode)

Bytes == STRING \ {"hole", "junk"}
Inode == [parent : Nat, name : STRING, size : Nat, null : BOOLEAN, contents : Seq(Bytes)]
Memory ==
    /\ inode \in Seq(Inode) /\ text \in Seq(Seq(Bytes)) /\ Len(inode) = Len(text)
    /\ \A id \in DOMAIN inode : /\ inode[id].contents = text[id]
                                /\ inode[id].size = Len(text[id]) /\ inode[id].size <= MaxBytes
                                /\ inode[id].null => inode[id].size = 0

\* The vnodes of files, and those of the archive and of devices.
Lasting(v) ==
    \/ \E id \in Vnodes : v = tar(id) /\ Present(id)
    \/ \E id \in DOMAIN Devices : v = dev(id)
Legal(v) == Lasting(v) \/ \E id \in DOMAIN inode : v = tmp(id)

Cursors ==
    /\ DOMAIN file = Files
    /\ \A f \in Files :
          /\ file[f] = [vnode |-> file[f].vnode, cur |-> file[f].cur, at |-> file[f].cur]
          /\ file[f].vnode # NoFile =>
                Up /\ Legal(file[f].vnode) /\ file[f].cur \in 0 .. Size(file[f].vnode)

Transfer ==
    /\ moved.vnode.fs # "tmp" /\ moved.len > 0 =>
          /\ pc \in {"ready", "destroyed"} /\ moved.from = moved.at
          /\ Up => Lasting(moved.vnode) /\ moved.from + moved.len <= Size(moved.vnode)
    /\ moved.vnode.fs = "tmp" => /\ Len(moved.due) = moved.len
                                 /\ moved.at = 0 => moved.bytes = moved.due

IInv == Tree /\ Memory /\ Cursors /\ Transfer

-----------------------------------------------------------------------------
(* Numbers *)

LEMMA ModSmall ==
    ASSUME NEW n \in Nat, NEW m \in Nat, n < m
    PROVE  n % m = n
  OBVIOUS

LEMMA Wrap ==
    ASSUME NEW n \in Int, NEW m \in Nat \ {0}, -m <= n, n < 0
    PROVE  n % m = n + m
<1> DEFINE q == n \div m
           r == n % m
<1>1. q \in Int /\ r \in 0 .. m - 1 /\ n = m * q + r
  OBVIOUS
<1> HIDE DEF q, r
<1>2. q < 0
  <2>1. CASE q >= 0
    <3>1. m * q >= 0
      BY <1>1, <2>1
    <3> QED
      BY <1>1, <3>1
  <2> QED
    BY <1>1, <2>1
<1>3. q > -2
  <2>1. CASE q <= -2
    <3>1. m * q <= m * (-2)
      BY <1>1, <2>1
    <3> QED
      BY <1>1, <3>1
  <2> QED
    BY <1>1, <2>1
<1>4. q = -1
  BY <1>1, <1>2, <1>3
<1>5. m * q = -m
  BY <1>4
<1>6. r = n + m
  BY <1>1, <1>5
<1> QED
  BY <1>6 DEF r

\* Within a file of which an int can count the bytes, the conversions lose nothing.
LEMMA Exact ==
    ASSUME NEW n \in 0 .. IntMax
    PROVE  ToUint64(n) = n /\ ToInt(n) = n
<1>1. IntMax \in Nat /\ Word \in Nat /\ 2 * (IntMax + 1) <= Word
  BY TarfsAssumption
<1>2. n \in Nat /\ n < Word /\ n + IntMax + 1 \in Nat /\ n + IntMax + 1 < 2 * (IntMax + 1)
  BY <1>1
<1>3. (n + IntMax + 1) % (2 * (IntMax + 1)) = n + IntMax + 1
  BY <1>1, <1>2, ModSmall
<1>4. n % Word = n
  BY <1>1, <1>2, ModSmall
<1>5. ToUint64(n) = n
  BY <1>4 DEF ToUint64
<1>6. ToInt(n) = (n + IntMax + 1) - (IntMax + 1)
  BY <1>3 DEF ToInt
<1> QED
  BY <1>1, <1>2, <1>5, <1>6

LEMMA MinOf ==
    ASSUME NEW a \in Int, NEW b \in Int
    PROVE  Min({a, b}) = IF a <= b THEN a ELSE b
  BY DEF Min
LEMMA MaxOf ==
    ASSUME NEW a \in Int, NEW b \in Int
    PROVE  Max({a, b}) = IF a >= b THEN a ELSE b
  BY DEF Max

\* A read delivers what there is, and something if there is anything.
LEMMA ToRead ==
    ASSUME NEW size \in 0 .. IntMax, NEW cur \in 0 .. size, NEW len \in Nat
    PROVE  /\ to_read(size, cur, len) \in 0 .. size - cur
           /\ len > 0 /\ cur < size => to_read(size, cur, len) > 0
           /\ to_read(size, cur, len) <= len
<1>1. IntMax \in Nat
  BY TarfsAssumption
<1>2. size - cur \in 0 .. IntMax
  BY <1>1
<1>3. ToInt(ToUint64(size - cur)) = size - cur
  BY <1>2, Exact
<1>4. to_read(size, cur, len) = IF size - cur <= 0 THEN 0 ELSE Min({len, size - cur})
  BY <1>3 DEF to_read
<1>5. Min({len, size - cur}) = IF len <= size - cur THEN len ELSE size - cur
  BY <1>2, MinOf
<1> QED
  BY <1>1, <1>2, <1>4, <1>5

\* Wherever it is asked to go, a seek ends on a byte of the file.
LEMMA Seeks ==
    ASSUME NEW size \in 1 .. IntMax, NEW pos \in Int, -(IntMax + 1) <= pos, pos <= 2 * IntMax
    PROVE  seek_to(size, pos) \in 0 .. size - 1 /\ ToUint64(seek_to(size, pos)) = seek_to(size, pos)
<1>1. IntMax \in Nat /\ Word \in Nat \ {0} /\ 2 * (IntMax + 1) <= Word
  BY TarfsAssumption
<1>2. size - 1 \in 0 .. IntMax
  BY <1>1
<1>3. ToInt(ToUint64(size - 1)) = size - 1
  BY <1>2, Exact
<1>4. seek_to(size, pos) = IF ToUint64(pos) >= size THEN size - 1 ELSE pos
  BY <1>3 DEF seek_to
<1>5. CASE pos < 0
  <2>1. ToUint64(pos) = pos + Word
    BY <1>1, <1>5, Wrap DEF ToUint64
  <2>2. pos + Word >= size
    BY <1>1
  <2> QED
    BY <1>2, <1>4, <2>1, <2>2, Exact
<1>6. CASE pos >= 0
  <2>1. pos \in Nat /\ pos < Word
    BY <1>1, <1>6
  <2>2. ToUint64(pos) = pos
    BY <1>1, <2>1, ModSmall DEF ToUint64
  <2>3. seek_to(size, pos) \in 0 .. size - 1
    BY <1>1, <1>4, <2>1, <2>2
  <2>4. 0 .. size - 1 \subseteq 0 .. IntMax
    BY <1>1
  <2> QED
    BY <2>3, <2>4, Exact
<1> QED
  BY <1>5, <1>6

-----------------------------------------------------------------------------
(* What a path leads to *)

LEMMA MaxIn ==
    ASSUME NEW S, NEW n \in Nat, S \subseteq 1 .. n, S # {}
    PROVE  Max(S) \in S
<1> DEFINE R == {n - x : x \in S}
<1>1. R \subseteq Nat /\ R # {}
  <2>1. \A x \in S : n - x \in Nat
    OBVIOUS
  <2>2. PICK x : x \in S
    OBVIOUS
  <2>3. n - x \in R
    BY <2>2
  <2> QED
    BY <2>1, <2>3
<1> HIDE DEF R
<1>2. PICK y \in R : \A z \in R : y <= z
  BY <1>1, Smallest
<1>3. PICK x \in S : y = n - x
  BY <1>2 DEF R
<1>4. \A z \in S : z <= x
  <2> SUFFICES ASSUME NEW z \in S PROVE z <= x
    OBVIOUS
  <2>1. n - x <= n - z
    BY <1>2, <1>3 DEF R
  <2> QED
    BY <2>1
<1> QED
  BY <1>4 DEF Max

LEMMA MinIn ==
    ASSUME NEW S, S \subseteq Nat, S # {}
    PROVE  Min(S) \in S
<1>1. PICK x \in S : \A y \in S : x <= y
  BY Smallest
<1> QED
  BY <1>1 DEF Min

LEMMA ChildPresent ==
    ASSUME Tree, pc # "destroyed", NEW v \in Vnodes, NEW name
    PROVE  Child(v, name) = None \/ (Child(v, name) \in Vnodes /\ Present(Child(v, name)))
<1> DEFINE at == {k \in DOMAIN node[v].child : node[v].child[k].name = name}
<1>1. Child(v, name) = IF v = None \/ at = {} THEN None ELSE node[v].child[Min(at)].vnode
  BY DEF Child
<1>2. node[v].child \in Seq([name : STRING, vnode : Vnodes])
  BY DEF Tree, Node
<1>3. at \subseteq Nat
  BY <1>2
<1>4. at # {} => Min(at) \in DOMAIN node[v].child
  BY <1>3, MinIn
<1> HIDE DEF at
<1>5. at # {} => node[v].child[Min(at)].vnode \in Vnodes
  <2> SUFFICES ASSUME at # {} PROVE node[v].child[Min(at)].vnode \in Vnodes
    OBVIOUS
  <2> DEFINE s == node[v].child
             L == [name : STRING, vnode : Vnodes]
  <2>1. s \in Seq(L) /\ Min(at) \in DOMAIN s
    BY <1>2, <1>4
  <2>2. s[Min(at)] \in L
    <3> HIDE DEF s, L
    <3> QED
      BY <2>1
  <2> HIDE DEF s
  <2>3. s[Min(at)].vnode \in Vnodes
    BY <2>2
  <2> QED
    BY <2>3 DEF s
<1> QED
  BY <1>1, <1>4, <1>5 DEF Tree

\* What was mounted where the kernel mounts it, or the vnode itself.
LEMMA TopIs ==
    ASSUME NEW v
    PROVE  top(v) \in {dev(0), tmp(0), v}
  BY DEF top

LEMMA WalkLegal ==
    ASSUME Tree, Memory, pc # "destroyed", NEW v, v = NoFile \/ Legal(v), NEW name
    PROVE  vfs_walk(v, name) = NoFile \/ Legal(vfs_walk(v, name))
<1> DEFINE dir == top(v)
<1>1. CASE v = NoFile
  BY <1>1 DEF vfs_walk
<1>2. CASE v # NoFile
  <2>1. PICK id : \/ dir = tar(id) /\ id \in Vnodes
                  \/ dir = dev(id) \/ dir = tmp(id)
    BY <1>2, TopIs DEF Legal, Lasting
  <2> HIDE DEF dir
  <2>2. CASE dir = tar(id) /\ id \in Vnodes
    <3>1. vfs_walk(v, name) = tar(Child(id, name))
      BY <1>2, <2>2 DEF vfs_walk, tar, dir
    <3>2. CASE Child(id, name) = None
      BY <3>1, <3>2 DEF NoFile
    <3>3. CASE Child(id, name) \in Vnodes /\ Present(Child(id, name))
      BY <3>1, <3>3 DEF Legal, Lasting
    <3> QED
      BY <2>2, <3>2, <3>3, ChildPresent
  <2>3. CASE dir = tmp(id)
    <3>1. vfs_walk(v, name) = IF TmpLinks(id, name) = {} THEN NoFile ELSE tmp(Max(TmpLinks(id, name)))
      BY <1>2, <2>3 DEF vfs_walk, tmp, dir
    <3>2. TmpLinks(id, name) \subseteq 1 .. Len(inode) /\ Len(inode) \in Nat /\ DOMAIN inode = 1 .. Len(inode)
      BY DEF TmpLinks, Memory
    <3>3. TmpLinks(id, name) # {} => Max(TmpLinks(id, name)) \in DOMAIN inode
      BY <3>2, MaxIn
    <3> QED
      BY <3>1, <3>3 DEF Legal
  <2>4. CASE dir = dev(id)
    <3>1. vfs_walk(v, name) = IF DevLinks(id, name) = {} THEN NoFile ELSE dev(Max(DevLinks(id, name)))
      BY <1>2, <2>4 DEF vfs_walk, dev, dir
    <3>2. DevLinks(id, name) \subseteq 1 .. Len(Devices) /\ Len(Devices) \in Nat /\ DOMAIN Devices = 1 .. Len(Devices)
      BY KstdioAssumption DEF DevLinks
    <3>3. DevLinks(id, name) # {} => Max(DevLinks(id, name)) \in DOMAIN Devices
      BY <3>2, MaxIn
    <3> QED
      BY <3>1, <3>3 DEF Legal, Lasting
  <2> QED
    BY <2>1, <2>2, <2>3, <2>4
<1> QED
  BY <1>1, <1>2

\* A path leads to a file, a directory or a device, or nowhere.
LEMMA FoundLegal ==
    ASSUME Tree, Memory, pc # "destroyed", NEW path, Len(path) \in Nat
    PROVE  Found(path) = NoFile \/ Legal(Found(path))
<1>1. PICK g : Along(path, Len(path), g) /\ Found(path) = g[Len(path)]
  BY FoundIs
<1>2. \A k \in 0 .. Len(path) : g[k] = IF k = 0 THEN tar(0) ELSE vfs_walk(g[k - 1], path[k])
  BY <1>1 DEF Along
<1> DEFINE n == Len(path)
           OK(k) == g[k] = NoFile \/ Legal(g[k])
           S == {k \in 0 .. n : ~OK(k)}
<1>3. SUFFICES ASSUME S # {} PROVE FALSE
  BY <1>1
<1>4. PICK m \in S : \A y \in S : m <= y
  <2>1. S \subseteq Nat
    OBVIOUS
  <2> HIDE DEF S
  <2> QED
    BY <1>3, <2>1, Smallest
<1>5. m # 0
  <2>1. 0 \in Vnodes /\ Present(0)
    BY TarfsAssumption, KstdioAssumption DEF Vnodes, Tree
  <2>2. Legal(tar(0))
    BY <2>1 DEF Legal, Lasting
  <2> QED
    BY <1>2, <1>4, <2>2
<1>6. OK(m - 1)
  BY <1>4, <1>5
<1>7. g[m] = vfs_walk(g[m - 1], path[m])
  BY <1>2, <1>4, <1>5
<1>8. OK(m)
  BY <1>6, <1>7, WalkLegal
<1> QED
  BY <1>4, <1>8

-----------------------------------------------------------------------------
(* Sizes *)

LEMMA Sizes ==
    ASSUME NEW id
    PROVE  /\ Size(tar(id)) = node[id].size /\ Size(tar(id))' = node'[id].size
           /\ Size(dev(id)) = Devices[id].size /\ Size(dev(id))' = Devices[id].size
           /\ Size(tmp(id)) = inode[id].size /\ Size(tmp(id))' = inode'[id].size
  BY DEF Size, tar, dev, tmp

\* An int can count the bytes of what is not in /tmp.
LEMMA LastingSize ==
    ASSUME Small, Tree, NEW v, Lasting(v)
    PROVE  Size(v) \in 0 .. IntMax /\ v.fs # "tmp"
<1>1. CASE \E id \in Vnodes : v = tar(id) /\ Present(id)
  BY <1>1, Sizes DEF Present, tar
<1>2. CASE \E id \in DOMAIN Devices : v = dev(id)
  <2>1. PICK id \in DOMAIN Devices : v = dev(id)
    BY <1>2
  <2>2. Devices[id].size \in 0 .. Word - 1 /\ Devices[id].size <= IntMax
    <3> DEFINE D == [name : STRING, type : {"block", "char"}, size : 0 .. Word - 1]
    <3>1. Devices \in Seq(D)
      BY KstdioAssumption
    <3> HIDE DEF D
    <3>2. Devices[id] \in D
      BY <3>1
    <3> QED
      BY <3>2 DEF Small, D
  <2>3. IntMax \in Nat /\ Word \in Nat
    BY TarfsAssumption
  <2>4. v.fs = "dev"
    BY <2>1 DEF dev
  <2> QED
    BY <2>1, <2>2, <2>3, <2>4, Sizes
<1> QED
  BY <1>1, <1>2 DEF Lasting

LEMMA TmpSize ==
    ASSUME Small, Memory, NEW id \in DOMAIN inode
    PROVE  /\ inode[id].size \in Nat /\ inode[id].size <= IntMax /\ Size(tmp(id)) = inode[id].size
           /\ id \in DOMAIN text /\ text[id] \in Seq(Bytes) /\ Len(text[id]) = inode[id].size
           /\ inode[id].contents = text[id] /\ inode[id] \in Inode
<1>1. inode[id] \in Inode /\ id \in DOMAIN text /\ text[id] \in Seq(Bytes)
  BY DEF Memory
<1>2. MaxBytes \in Nat /\ IntMax \in Nat /\ MaxBytes <= IntMax
  BY TarfsAssumption, KstdioAssumption DEF Small
<1> QED
  BY <1>1, <1>2, Sizes DEF Memory, Inode

\* While files are used the archive's tree stays.
LEMMA Stay ==
    ASSUME Tree, UNCHANGED <<tarVars, scene>>
    PROVE  Tree' /\ (Up' <=> Up) /\ pc' = pc /\ \A v : Lasting(v)' <=> Lasting(v)
<1>1. archive' = archive /\ pc' = pc /\ i' = i /\ node' = node /\ scene' = scene
  BY DEF tarVars
<1>2. \A id : Present(id)' <=> Present(id)
  BY <1>1 DEF Present
<1>3. Vnodes' = Vnodes
  BY <1>1 DEF Vnodes
<1>4. Tree'
  BY <1>1, <1>2, <1>3 DEF Tree, Node
<1>5. \A v : Lasting(v)' <=> Lasting(v)
  BY <1>2, <1>3 DEF Lasting
<1> QED
  BY <1>1, <1>4, <1>5 DEF Up

LEMMA LegalSize ==
    ASSUME Small, Tree, Memory, NEW v, Legal(v)
    PROVE  Size(v) \in 0 .. IntMax
<1>1. CASE Lasting(v)
  BY <1>1, LastingSize
<1>2. CASE \E id \in DOMAIN inode : v = tmp(id)
  <2>1. IntMax \in Nat
    BY TarfsAssumption
  <2> QED
    BY <1>2, <2>1, TmpSize
<1> QED
  BY <1>1, <1>2 DEF Legal

\* The file f is put on v at cur, and files of /tmp do not shrink.
Put(f, v, cur) ==
    /\ DOMAIN file' = Files /\ file'[f] = [vnode |-> v, cur |-> cur, at |-> cur]
    /\ \A g \in Files : g # f => file'[g] = file[g]
Grows == \A id \in DOMAIN inode : id \in DOMAIN inode' /\ inode'[id].size \in Nat
                                  /\ inode[id].size <= inode'[id].size

LEMMA LegalStays ==
    ASSUME Small, Tree, Memory, UNCHANGED <<tarVars, scene>>, Grows, NEW v, Legal(v)
    PROVE  Legal(v)' /\ Size(v)' \in Int /\ Size(v) <= Size(v)'
<1>1. CASE Lasting(v)
  <2>1. Lasting(v)'
    BY <1>1, Stay
  <2>2. node' = node
    BY DEF tarVars
  <2>3. Size(v)' = Size(v)
    BY <1>1, <2>2, Sizes DEF Lasting
  <2>4. Size(v) \in 0 .. IntMax
    BY <1>1, LastingSize
  <2> QED
    BY <2>1, <2>3, <2>4 DEF Legal
<1>2. CASE \E id \in DOMAIN inode : v = tmp(id)
  BY <1>2, Sizes, TmpSize DEF Legal, Grows
<1> QED
  BY <1>1, <1>2 DEF Legal

LEMMA CursorsKept ==
    ASSUME Small, Tree, Memory, Cursors, UNCHANGED <<tarVars, scene>>, Grows,
           NEW f \in Files, NEW v, NEW cur, Put(f, v, cur),
           v # NoFile => Up /\ Legal(v)' /\ cur \in 0 .. Size(v)'
    PROVE  Cursors'
<1>1. Up' <=> Up
  BY Stay
<1>2. ASSUME NEW g \in Files
      PROVE  \E w, c : /\ file'[g] = [vnode |-> w, cur |-> c, at |-> c]
                       /\ w # NoFile => Up' /\ Legal(w)' /\ c \in 0 .. Size(w)'
  <2>1. CASE g = f
    BY <1>1, <2>1 DEF Put
  <2>2. CASE g # f
    <3>1. file'[g] = file[g]
      BY <2>2 DEF Put
    <3>2. PICK w, c : w = file[g].vnode /\ c = file[g].cur
      OBVIOUS
    <3>3. CASE w = NoFile
      BY <3>1, <3>2, <3>3 DEF Cursors
    <3>4. CASE w # NoFile
      <4>1. Up /\ Legal(w) /\ c \in 0 .. Size(w)
        BY <3>2, <3>4 DEF Cursors
      <4>2. Legal(w)' /\ Size(w)' \in Int /\ Size(w) <= Size(w)'
        BY <4>1, LegalStays
      <4>3. Size(w) \in Int
        BY <4>1, LegalSize, TarfsAssumption
      <4> QED
        BY <1>1, <3>1, <3>2, <4>1, <4>2, <4>3 DEF Cursors
    <3> QED
      BY <3>3, <3>4
  <2> QED
    BY <2>1, <2>2
<1> QED
  BY <1>2 DEF Cursors, Put

-----------------------------------------------------------------------------
(* Every step keeps the invariant *)

\* The kernel prints: files stay.
LEMMA PrintStep ==
    ASSUME IInv, UNCHANGED <<tarVars, scene, ioVars>>
    PROVE  IInv'
<1>1. inode' = inode /\ file' = file /\ moved' = moved /\ text' = text /\ node' = node
  BY DEF ioVars, tarVars
<1>2. Tree' /\ (Up' <=> Up) /\ pc' = pc /\ \A v : Lasting(v)' <=> Lasting(v)
  BY Stay DEF IInv
<1>3. \A v : (Legal(v)' <=> Legal(v)) /\ Size(v)' = Size(v)
  BY <1>1, <1>2 DEF Legal, Size
<1>4. Memory'
  BY <1>1 DEF IInv, Memory
<1>5. Cursors'
  BY <1>1, <1>2, <1>3 DEF IInv, Cursors
<1>6. Transfer'
  BY <1>1, <1>2, <1>3 DEF IInv, Transfer
<1> QED
  BY <1>2, <1>4, <1>5, <1>6 DEF IInv

\* While the archive is read nothing is open.
LEMMA Unopened ==
    ASSUME IInv, pc \in {"create", "failed"}
    PROVE  /\ \A f \in Files : file[f].vnode = NoFile
           /\ ~(moved.vnode.fs # "tmp" /\ moved.len > 0)
  BY DEF IInv, Cursors, Transfer, Up

LEMMA Unmoved ==
    ASSUME IInv, UNCHANGED ioVars, Tree',
           \A f \in Files : file[f].vnode = NoFile,
           ~Up', moved.vnode.fs # "tmp" /\ moved.len > 0 => pc' = "destroyed"
    PROVE  IInv'
<1>1. inode' = inode /\ file' = file /\ moved' = moved /\ text' = text
  BY DEF ioVars
<1>2. Memory'
  BY <1>1 DEF IInv, Memory
<1>3. Cursors'
  BY <1>1 DEF IInv, Cursors
<1>4. Transfer'
  BY <1>1 DEF IInv, Transfer
<1> QED
  BY <1>2, <1>3, <1>4 DEF IInv

\* One more vnode, and a link to it.
LEMMA CreateEntryStep ==
    ASSUME IInv, Small, CreateEntry, UNCHANGED <<scene, ioVars>>
    PROVE  IInv'
<1>1. PICK k \in Headers : LET parent == Walk(Front(archive[k].path)) IN
        /\ pc = "create" /\ parent # None
        /\ node' = [[node EXCEPT ![k] = Vnode(archive[k].size, i + Block)]
                        EXCEPT ![parent].child = <<[name |-> Last(archive[k].path), vnode |-> k]>> \o @]
        /\ i' = ToUint64(i + Block + data_size(archive[k].size))
        /\ UNCHANGED <<archive, pc>>
  BY DEF CreateEntry
<1> DEFINE parent == Walk(Front(archive[k].path))
           ln == [name |-> Last(archive[k].path), vnode |-> k]
           fresh == Vnode(archive[k].size, i + Block)
           n == [node EXCEPT ![k] = fresh]
           L == [name : STRING, vnode : Vnodes]
<1>2. archive' = archive /\ pc' = "create" /\ pc = "create" /\ scene' = scene /\ Vnodes' = Vnodes
  BY <1>1 DEF Vnodes
<1>3. k \in DOMAIN archive /\ archive \in Seq([path : Seq(STRING) \ {<<>>}, size : 0 .. Word - 1])
  <2>1. archive \in Archives
    BY KstdioAssumption DEF IInv, Tree
  <2> QED
    BY <2>1, TarfsAssumption DEF Headers
<1>4. k \in Vnodes /\ k \in 1 .. Len(archive) /\ archive[k].path \in Seq(STRING) \ {<<>>}
      /\ archive[k].size \in 0 .. IntMax
  <2> DEFINE E == [path : Seq(STRING) \ {<<>>}, size : 0 .. Word - 1]
  <2>1. archive[k] \in E /\ k \in 1 .. Len(archive) /\ Len(archive) \in Nat
    <3>1. archive \in Seq(E) /\ k \in DOMAIN archive
      BY <1>3
    <3> HIDE DEF E
    <3> QED
      BY <3>1
  <2>2. archive[k].size <= IntMax
    BY <1>3, KstdioAssumption DEF Small, IInv, Tree
  <2> QED
    BY <2>1, <2>2, TarfsAssumption DEF Vnodes
<1>5. ln \in L
  <2>1. Last(archive[k].path) \in STRING
    BY <1>4 DEF Last
  <2> QED
    BY <1>4, <2>1
<1>6. fresh \in Node /\ fresh.size = archive[k].size /\ fresh.child = <<>>
  <2>1. i + Block \in Int
    BY TarfsAssumption DEF IInv, Tree
  <2>2. archive[k].size \in Int
    BY <1>4, TarfsAssumption
  <2>3. <<>> \in Seq(L)
    OBVIOUS
  <2> HIDE DEF L
  <2> QED
    BY <2>1, <2>2, <2>3 DEF Vnode, Node, L
<1>7. node' = [n EXCEPT ![parent].child = <<ln>> \o @]
  BY <1>1
<1>8. node \in [Vnodes -> Node] /\ n \in [Vnodes -> Node]
  BY <1>6 DEF IInv, Tree
<1> HIDE DEF parent, ln, fresh
<1>9. \A v \in Vnodes : /\ n[v].size = IF v = k THEN archive[k].size ELSE node[v].size
                        /\ n[v].child = IF v = k THEN <<>> ELSE node[v].child
  BY <1>4, <1>6, <1>8
<1> HIDE DEF n
<1>10. ASSUME NEW v \in Vnodes
       PROVE  /\ node'[v] \in Node /\ node'[v].size = n[v].size
              /\ node'[v].child = IF v = parent THEN <<ln>> \o n[v].child ELSE n[v].child
  <2>1. n[v] \in Node
    BY <1>8
  <2>2. CASE v # parent
    <3>1. node'[v] = n[v]
      BY <1>7, <1>8, <2>2
    <3> QED
      BY <2>1, <2>2, <3>1
  <2>3. CASE v = parent
    <3>1. node'[v] = [n[v] EXCEPT !.child = <<ln>> \o n[v].child]
      BY <1>7, <1>8, <2>3
    <3>2. <<ln>> \o n[v].child \in Seq(L)
      <4>1. n[v].child \in Seq(L)
        BY <2>1 DEF Node
      <4> HIDE DEF L
      <4> QED
        BY <1>5, <4>1
    <3> DEFINE c == <<ln>> \o n[v].child
    <3> HIDE DEF c
    <3>3. node'[v] = [n[v] EXCEPT !.child = c] /\ c \in Seq([name : STRING, vnode : Vnodes])
      BY <3>1, <3>2 DEF c
    <3>4. node'[v] \in Node /\ node'[v].size = n[v].size /\ node'[v].child = c
      BY <2>1, <3>3 DEF Node
    <3> QED
      BY <2>3, <3>4 DEF c
  <2> QED
    BY <2>2, <2>3
<1>11. node' \in [Vnodes -> Node]
  <2>1. DOMAIN node' = Vnodes /\ node' = [v \in Vnodes |-> node'[v]]
    BY <1>7, <1>8
  <2> QED
    BY <1>10, <2>1
<1>12. ASSUME NEW v \in Vnodes, Present(v) PROVE Present(v)'
  BY <1>4, <1>9, <1>10, <1>12 DEF Present
<1>13. Present(k)'
  BY <1>4, <1>9, <1>10 DEF Present
<1>14. Present(0)'
  <2>1. 0 \in Vnodes
    BY <1>4 DEF Vnodes
  <2> QED
    BY <1>2, <1>12, <2>1 DEF IInv, Tree
<1>15. ASSUME NEW v \in Vnodes, NEW x \in DOMAIN node'[v].child
       PROVE  Present(node[v].child[x].vnode)'
  <2>1. ASSUME NEW y \in DOMAIN node[v].child
        PROVE  node[v].child[y].vnode \in Vnodes /\ Present(node[v].child[y].vnode)
    <3>1. node[v].child \in Seq(L)
      BY <1>8 DEF Node
    <3>2. node[v].child[y] \in L
      <4> HIDE DEF L
      <4> QED
        BY <3>1
    <3> QED
      BY <1>2, <3>2 DEF IInv, Tree
  <2>2. node'[v].child[x].vnode = k \/ \E y \in DOMAIN node[v].child : node'[v].child[x].vnode = node[v].child[y].vnode
    <3> DEFINE s == n[v].child
    <3>1. s \in Seq(L)
      <4>1. n[v] \in Node
        BY <1>8
      <4> QED
        BY <4>1 DEF Node
    <3>2. s = <<>> \/ s = node[v].child
      BY <1>9
    <3>3. node'[v].child = s \/ node'[v].child = <<ln>> \o s
      BY <1>10
    <3> HIDE DEF s, L
    <3>4. CASE node'[v].child = s
      BY <3>2, <3>4
    <3>5. CASE node'[v].child = <<ln>> \o s
      <4>1. x \in 1 .. Len(s) + 1 /\ (<<ln>> \o s)[x] = IF x = 1 THEN ln ELSE s[x - 1]
        BY <3>1, <3>5
      <4>2. x # 1 => x - 1 \in DOMAIN s
        BY <3>1, <4>1
      <4> QED
        BY <3>2, <3>5, <4>1, <4>2 DEF ln
    <3> QED
      BY <3>3, <3>4, <3>5
  <2>3. PICK u : u = node'[v].child[x].vnode
    OBVIOUS
  <2>4. u \in Vnodes /\ (u = k \/ Present(u))
    BY <1>4, <2>1, <2>2, <2>3
  <2>5. Present(u)'
    BY <1>12, <1>13, <2>4
  <2> QED
    BY <2>3, <2>5 DEF Present
<1>16. i' \in Nat
  <2>1. ToUint64(archive[k].size - 1) \in Int
    BY <1>4, TarfsAssumption DEF ToUint64
  <2>2. data_size(archive[k].size) \in Int
    BY <2>1, TarfsAssumption DEF data_size, ToUint64
  <2>3. i + Block + data_size(archive[k].size) \in Int
    BY <2>2, TarfsAssumption DEF IInv, Tree
  <2>4. ToUint64(i + Block + data_size(archive[k].size)) \in Nat
    BY <2>3, TarfsAssumption DEF ToUint64
  <2> QED
    BY <1>1, <2>4
<1>17. Node' = Node
  BY <1>2 DEF Node
<1>18. Tree'
  BY <1>2, <1>11, <1>14, <1>15, <1>16, <1>17 DEF IInv, Tree
<1> QED
  BY <1>2, <1>18, Unopened, Unmoved DEF Up

\* All entries are read, or one has no parent.
LEMMA CreateEnds ==
    ASSUME IInv, CreateFails \/ CreateDone, UNCHANGED <<scene, ioVars>>
    PROVE  IInv'
<1>1. /\ pc = "create" /\ pc' \in {"failed", "ready"}
      /\ archive' = archive /\ i' = i /\ node' = node /\ scene' = scene
  BY DEF CreateFails, CreateDone
<1>2. inode' = inode /\ file' = file /\ moved' = moved /\ text' = text
  BY DEF ioVars
<1>3. \A id : Present(id)' <=> Present(id)
  BY <1>1 DEF Present
<1>4. Vnodes' = Vnodes
  BY <1>1 DEF Vnodes
<1>5. Tree'
  BY <1>1, <1>3, <1>4 DEF IInv, Tree, Node
<1>6. Memory'
  BY <1>2 DEF IInv, Memory
<1>7. /\ \A f \in Files : file[f].vnode = NoFile
      /\ ~(moved.vnode.fs # "tmp" /\ moved.len > 0)
  BY <1>1, Unopened
<1>8. Cursors'
  BY <1>2, <1>7 DEF IInv, Cursors
<1>9. Transfer'
  BY <1>2, <1>7 DEF IInv, Transfer
<1> QED
  BY <1>5, <1>6, <1>8, <1>9 DEF IInv

\* The archive's tree is freed when nothing is open.
LEMMA DestroyStep ==
    ASSUME IInv, tarfs_destroy, \A f \in Files : ~IsOpen(f), UNCHANGED <<scene, ioVars>>
    PROVE  IInv'
<1>1. /\ pc = "ready" /\ pc' = "destroyed" /\ archive' = archive /\ i' = i /\ scene' = scene
      /\ node' = [v \in Vnodes |-> IF v \in Under(0) THEN NoVnode ELSE node[v]]
  BY DEF tarfs_destroy
<1>2. NoVnode \in Node
  BY DEF NoVnode, Vnode, Node, None
<1>3. Vnodes' = Vnodes
  BY <1>1 DEF Vnodes
<1>4. Node' = Node
  BY <1>3 DEF Node
<1>5. node' \in [Vnodes -> Node]
  BY <1>1, <1>2 DEF IInv, Tree
<1>6. Tree'
  BY <1>1, <1>3, <1>4, <1>5 DEF IInv, Tree
<1>7. \A f \in Files : file[f].vnode = NoFile
  BY <1>1 DEF IsOpen, Up
<1>8. ~Up'
  BY <1>1 DEF Up
<1> QED
  BY <1>1, <1>6, <1>7, <1>8, Unmoved

\* What a call leaves when files and cursors are right.
LEMMA CallStep ==
    ASSUME IInv, UNCHANGED <<tarVars, scene>>, Memory', Cursors', Transfer'
    PROVE  IInv'
  BY Stay DEF IInv

LEMMA SameGrows ==
    ASSUME Memory, inode' = inode, text' = text
    PROVE  Grows /\ Memory'
<1>1. \A id \in DOMAIN inode : inode[id].size \in Nat
  BY DEF Memory, Inode
<1> QED
  BY <1>1 DEF Grows, Memory

LEMMA NotMoved ==
    ASSUME moved' = Still
    PROVE  Transfer'
<1>1. moved'.vnode.fs = "tar" /\ moved'.len = 0
  BY DEF Still, NoFile, tar
<1> QED
  BY <1>1 DEF Transfer

\* A file is put on a vnode, and nothing is moved.
LEMMA PutStep ==
    ASSUME IInv, Small, UNCHANGED <<tarVars, scene, inode, text>>, moved' = Still,
           NEW f \in Files, NEW v, NEW cur, Put(f, v, cur),
           v # NoFile => Up /\ Legal(v) /\ cur \in 0 .. Size(v)
    PROVE  IInv'
<1>1. Tree /\ Memory /\ Cursors
  BY DEF IInv
<1>2. Grows /\ Memory'
  BY <1>1, SameGrows
<1>3. v # NoFile => Up /\ Legal(v)' /\ cur \in 0 .. Size(v)'
  <2> SUFFICES ASSUME v # NoFile PROVE Up /\ Legal(v)' /\ cur \in 0 .. Size(v)'
    OBVIOUS
  <2>1. Legal(v)' /\ Size(v)' \in Int /\ Size(v) <= Size(v)'
    BY <1>1, <1>2, LegalStays
  <2>2. Size(v) \in Int
    BY <1>1, LegalSize, TarfsAssumption
  <2> QED
    BY <2>1, <2>2
<1>4. Cursors'
  BY <1>1, <1>2, <1>3, CursorsKept
<1>5. Transfer'
  BY NotMoved
<1> QED
  BY <1>2, <1>4, <1>5, CallStep

LEMMA OpenStep ==
    ASSUME IInv, Small, UNCHANGED <<tarVars, scene>>, NEW f \in Files, NEW path \in scene.open,
           kfopen(f, path)
    PROVE  IInv'
<1>1. Len(path) \in Nat
  <2>1. path \in Seq(STRING)
    BY KstdioAssumption DEF IInv, Tree
  <2> QED
    BY <2>1
<1>2. Found(path) = NoFile \/ Legal(Found(path))
  BY <1>1, FoundLegal DEF kfopen, IInv, Up
<1>3. PICK v : v = top(Found(path))
  OBVIOUS
<1>4. v = Found(path)
  BY <1>3, TopIs DEF kfopen
<1>5. Up /\ Legal(v) /\ file' = [file EXCEPT ![f] = [vnode |-> v, cur |-> 0, at |-> 0]]
  BY <1>2, <1>3, <1>4 DEF kfopen
<1>6. Put(f, v, 0)
  BY <1>5 DEF Put, IInv, Cursors
<1>7. 0 \in 0 .. Size(v)
  BY <1>5, LegalSize, TarfsAssumption DEF IInv
<1> QED
  BY <1>5, <1>6, <1>7, PutStep DEF kfopen

LEMMA CloseStep ==
    ASSUME IInv, Small, UNCHANGED <<tarVars, scene>>, NEW f \in Files, kfclose(f)
    PROVE  IInv'
<1>1. Put(f, NoFile, 0)
  BY DEF kfclose, Put, IInv, Cursors
<1> QED
  BY <1>1, PutStep DEF kfclose

\* Where an open file is.
LEMMA OpenFile ==
    ASSUME IInv, Small, NEW f \in Files, IsOpen(f)
    PROVE  \E v, c : /\ v = file[f].vnode /\ c = file[f].cur /\ c = file[f].at
                     /\ file[f] = [vnode |-> v, cur |-> c, at |-> c]
                     /\ v # NoFile /\ Legal(v) /\ Size(v) \in 0 .. IntMax /\ c \in 0 .. Size(v)
                     /\ v.fs # "tmp" => Lasting(v)
<1>1. PICK v, c : v = file[f].vnode /\ c = file[f].cur
  OBVIOUS
<1>2. file[f] = [vnode |-> v, cur |-> c, at |-> c]
  BY <1>1 DEF IInv, Cursors
<1>3. v # NoFile /\ Legal(v) /\ c \in 0 .. Size(v)
  BY <1>1 DEF IInv, Cursors, IsOpen
<1>4. Size(v) \in 0 .. IntMax
  BY <1>3, LegalSize DEF IInv
<1>5. v.fs # "tmp" => Lasting(v)
  BY <1>3 DEF Legal, tmp
<1>6. c = file[f].at
  BY <1>2
<1> QED
  BY <1>1, <1>2, <1>3, <1>4, <1>5, <1>6

LEMMA SeekStep ==
    ASSUME IInv, Small, UNCHANGED <<tarVars, scene>>, NEW f \in Files, IsOpen(f),
           NEW offset \in Targets(f), kfseek(f, offset)
    PROVE  IInv'
<1>1. PICK v, c : /\ v = file[f].vnode /\ c = file[f].cur /\ Legal(v) /\ v # NoFile
                  /\ file[f] = [vnode |-> v, cur |-> c, at |-> c]
                  /\ Size(v) \in 0 .. IntMax /\ c \in 0 .. Size(v)
  BY OpenFile
<1>2. PICK size : size = Size(v)
  OBVIOUS
<1>3. IntMax \in Nat
  BY TarfsAssumption
<1>4. size \in 1 .. IntMax
  BY <1>1, <1>2, <1>3 DEF kfseek, Small
<1>5. scene.steps \subseteq -(IntMax + 1) .. IntMax
  BY KstdioAssumption DEF IInv, Tree
<1>6. ToInt(c) = c /\ ToInt(ToUint64(size - 1)) = size - 1
  <2>1. c \in 0 .. IntMax /\ size - 1 \in 0 .. IntMax
    BY <1>1, <1>2, <1>3, <1>4
  <2> QED
    BY <2>1, Exact
<1>7. offset \in Int /\ -(IntMax + 1) <= offset /\ offset <= 2 * IntMax
  <2>1. offset \in scene.steps \/ (\E s \in scene.steps : offset = c + s) \/ offset = size - 1
    BY <1>1, <1>2, <1>6 DEF Targets
  <2>2. c \in Int /\ c >= 0 /\ c <= IntMax
    BY <1>1, <1>2, <1>3, <1>4
  <2> HIDE DEF Targets
  <2>3. \A s \in scene.steps : s \in Int /\ -(IntMax + 1) <= s /\ s <= IntMax
    BY <1>3, <1>5
  <2> QED
    BY <1>3, <1>4, <2>1, <2>2, <2>3
<1>8. PICK to : to = seek_to(size, offset)
  OBVIOUS
<1>9. to \in 0 .. size - 1 /\ ToUint64(to) = to
  BY <1>4, <1>7, <1>8, Seeks
<1>10. /\ file' = [file EXCEPT ![f].cur = to, ![f].at = to] /\ moved' = Still /\ Up
       /\ UNCHANGED <<inode, text>>
  BY <1>1, <1>2, <1>8, <1>9 DEF kfseek, IsOpen
<1>11. Put(f, v, to)
  BY <1>1, <1>10 DEF Put, IInv, Cursors
<1>12. to \in 0 .. Size(v)
  BY <1>2, <1>4, <1>9
<1> QED
  BY <1>1, <1>10, <1>11, <1>12, PutStep

\* Bytes are moved from or to a file of the archive or a device.
LEMMA MovesStep ==
    ASSUME IInv, Small, UNCHANGED <<tarVars, scene>>, NEW f \in Files, IsOpen(f),
           file[f].vnode.fs # "tmp",
           NEW n \in Nat, n <= Size(file[f].vnode) - file[f].cur, Moves(f, n)
    PROVE  IInv'
<1>1. PICK v, c : /\ v = file[f].vnode /\ c = file[f].cur /\ c = file[f].at /\ Legal(v) /\ v # NoFile
                  /\ file[f] = [vnode |-> v, cur |-> c, at |-> c]
                  /\ Size(v) \in 0 .. IntMax /\ c \in 0 .. Size(v) /\ Lasting(v)
  BY OpenFile
<1>2. PICK size : size = Size(v)
  OBVIOUS
<1>3. IntMax \in Nat /\ size \in 0 .. IntMax /\ c \in 0 .. size /\ c + n \in 0 .. size
  BY <1>1, <1>2, TarfsAssumption
<1>4. ToUint64(c + n) = c + n
  <2>1. c + n \in 0 .. IntMax
    BY <1>3
  <2> QED
    BY <2>1, Exact
<1>5. /\ moved' = [vnode |-> v, from |-> c, len |-> n, at |-> c]
      /\ file' = [file EXCEPT ![f].cur = ToUint64(c + n), ![f].at = c + n]
      /\ inode' = inode /\ text' = text /\ Up
  BY <1>1 DEF Moves, IsOpen
<1>6. Tree /\ Memory /\ Cursors
  BY DEF IInv
<1>7. Grows /\ Memory'
  BY <1>5, <1>6, SameGrows
<1>8. Put(f, v, c + n)
  BY <1>1, <1>4, <1>5 DEF Put, IInv, Cursors
<1>9. Legal(v)' /\ Size(v)' \in Int /\ size <= Size(v)'
  BY <1>1, <1>2, <1>6, <1>7, LegalStays
<1>10. c + n \in 0 .. Size(v)'
  BY <1>3, <1>9
<1>11. Cursors'
  <2> DEFINE d == c + n
  <2>1. Put(f, v, d) /\ d \in 0 .. Size(v)'
    BY <1>8, <1>10
  <2> HIDE DEF d
  <2> QED
    BY <1>5, <1>6, <1>7, <1>9, <2>1, CursorsKept
<1>12. Lasting(v)' /\ pc' = "ready"
  BY <1>1, <1>5, <1>6, Stay DEF Up
<1>13. Transfer'
  <2>1. moved'.vnode = v /\ moved'.from = c /\ moved'.len = n /\ moved'.at = c /\ v.fs # "tmp"
    BY <1>1, <1>5
  <2>2. c + n <= Size(v)'
    BY <1>3, <1>9
  <2> QED
    BY <1>12, <2>1, <2>2 DEF Transfer
<1> QED
  BY <1>7, <1>11, <1>13, CallStep

LEMMA ReadStep ==
    ASSUME IInv, Small, UNCHANGED <<tarVars, scene>>, NEW f \in Files, NEW len \in scene.lengths,
           tarfs_read(f, len) \/ devfs_transfer(f, len)
    PROVE  IInv'
<1>1. IsOpen(f) /\ file[f].vnode.fs # "tmp"
  BY DEF tarfs_read, devfs_transfer, OpenIn
<1>2. PICK v, c : v = file[f].vnode /\ c = file[f].cur /\ Size(v) \in 0 .. IntMax /\ c \in 0 .. Size(v)
  BY <1>1, OpenFile
<1>3. PICK size : size = Size(v)
  OBVIOUS
<1>4. len \in Nat
  BY KstdioAssumption, TarfsAssumption DEF IInv, Tree
<1>5. to_read(size, c, len) \in 0 .. size - c
  BY <1>2, <1>3, <1>4, ToRead
<1>6. PICK n \in 0 .. to_read(size, c, len) : Moves(f, n)
  <2>1. CASE tarfs_read(f, len)
    <3>1. to_read(size, c, len) \in 0 .. to_read(size, c, len)
      BY <1>2, <1>3, <1>5, TarfsAssumption
    <3> QED
      BY <1>2, <1>3, <2>1, <3>1 DEF tarfs_read
  <2>2. CASE devfs_transfer(f, len)
    BY <1>2, <1>3, <2>2 DEF devfs_transfer
  <2> QED
    BY <2>1, <2>2
<1>7. n \in Nat /\ n <= Size(file[f].vnode) - file[f].cur
  BY <1>2, <1>3, <1>5, <1>6, TarfsAssumption
<1> QED
  BY <1>1, <1>6, <1>7, MovesStep

\* A new file in /tmp.
LEMMA VfsCreateStep ==
    ASSUME IInv, Small, UNCHANGED <<tarVars, scene>>, NEW path \in scene.create,
           vfs_create(Found(Front(path)), Last(path))
    PROVE  IInv'
<1>1. path \in Seq(STRING) \ {<<>>}
  BY KstdioAssumption DEF IInv, Tree
<1>2. Front(path) \in Seq(STRING) /\ Last(path) \in STRING
  BY <1>1 DEF Front, Last
<1>3. Tree /\ Memory /\ Cursors
  BY DEF IInv
<1>4. Found(Front(path)) = NoFile \/ Legal(Found(Front(path)))
  BY <1>2, <1>3, FoundLegal DEF vfs_create, Up
<1>5. PICK v : v = top(Found(Front(path)))
  OBVIOUS
<1>6. v.fs = "tmp" => v.id \in Nat
  <2>1. CASE v = dev(0) \/ v = tmp(0) \/ v = NoFile
    BY <2>1 DEF dev, tmp, NoFile, tar
  <2>2. CASE Legal(v)
    <3>1. DOMAIN inode \subseteq Nat
      BY <1>3 DEF Memory
    <3> QED
      BY <2>2, <3>1 DEF Legal, Lasting, tar, tmp, dev
  <2> QED
    BY <1>4, <1>5, <2>1, <2>2, TopIs
<1> DEFINE r == [parent |-> v.id, name |-> Last(path), size |-> 0, null |-> TRUE, contents |-> <<>>]
<1>7. /\ inode' = Append(inode, r) /\ text' = Append(text, <<>>) /\ moved' = Still
      /\ file' = file /\ v.fs = "tmp"
  BY <1>5 DEF vfs_create
<1>8. r \in Inode /\ r.contents = <<>> /\ r.size = 0
  <2>1. <<>> \in Seq(Bytes)
    OBVIOUS
  <2> HIDE DEF Bytes
  <2> QED
    BY <1>2, <1>6, <1>7, <2>1 DEF Inode
<1> HIDE DEF r
<1>9. inode \in Seq(Inode) /\ text \in Seq(Seq(Bytes)) /\ Len(inode) = Len(text)
  BY <1>3 DEF Memory
<1>10. inode' \in Seq(Inode) /\ text' \in Seq(Seq(Bytes)) /\ Len(inode') = Len(text')
       /\ Len(inode') = Len(inode) + 1
  <2>1. <<>> \in Seq(Bytes)
    OBVIOUS
  <2> QED
    BY <1>7, <1>8, <1>9, <2>1
<1>11. ASSUME NEW id \in DOMAIN inode'
       PROVE  \/ id \in DOMAIN inode /\ inode'[id] = inode[id] /\ text'[id] = text[id]
              \/ inode'[id] = r /\ text'[id] = <<>>
  <2>1. id \in 1 .. Len(inode) + 1
    BY <1>10
  <2>2. CASE id = Len(inode) + 1
    BY <1>7, <1>9, <2>2
  <2>3. CASE id # Len(inode) + 1
    BY <1>7, <1>9, <2>1, <2>3
  <2> QED
    BY <2>2, <2>3
<1>12. MaxBytes \in Nat
  BY KstdioAssumption
<1>13. Memory'
  <2>1. ASSUME NEW id \in DOMAIN inode'
        PROVE  /\ inode'[id].contents = text'[id]
               /\ inode'[id].size = Len(text'[id]) /\ inode'[id].size <= MaxBytes
               /\ inode'[id].null => inode'[id].size = 0
    <3>1. CASE inode'[id] = r /\ text'[id] = <<>>
      BY <1>8, <1>12, <3>1
    <3>2. CASE id \in DOMAIN inode /\ inode'[id] = inode[id] /\ text'[id] = text[id]
      BY <1>3, <3>2 DEF Memory
    <3> QED
      BY <1>11, <3>1, <3>2
  <2> QED
    BY <1>10, <2>1 DEF Memory
<1>14. Grows
  <2> SUFFICES ASSUME NEW id \in DOMAIN inode
               PROVE  id \in DOMAIN inode' /\ inode'[id].size \in Nat /\ inode[id].size <= inode'[id].size
    BY DEF Grows
  <2>1. id \in 1 .. Len(inode) /\ inode[id] \in Inode
    BY <1>9
  <2>2. id \in DOMAIN inode' /\ inode'[id] = inode[id]
    BY <1>7, <1>9, <1>10, <2>1
  <2> QED
    BY <2>1, <2>2 DEF Inode
<1>15. Up' /\ Up
  BY <1>3, Stay DEF vfs_create
<1>16. ASSUME NEW f \in Files, file[f].vnode # NoFile
       PROVE  Legal(file[f].vnode)' /\ file[f].cur \in 0 .. Size(file[f].vnode)'
  <2>1. PICK w, c : w = file[f].vnode /\ c = file[f].cur
    OBVIOUS
  <2>2. Legal(w) /\ c \in 0 .. Size(w)
    BY <1>3, <1>16, <2>1 DEF Cursors
  <2>3. Legal(w)' /\ Size(w)' \in Int /\ Size(w) <= Size(w)'
    BY <1>3, <1>14, <2>2, LegalStays
  <2>4. Size(w) \in Int
    BY <1>3, <2>2, LegalSize, TarfsAssumption
  <2>5. c \in 0 .. Size(w)'
    BY <2>2, <2>3, <2>4
  <2>6. w = file[f].vnode' /\ c = file[f].cur'
    BY <1>7, <2>1
  <2> QED
    BY <1>7, <2>3, <2>5, <2>6 DEF Legal, Lasting, Present, Size
<1>17. Cursors'
  BY <1>3, <1>7, <1>15, <1>16 DEF Cursors
<1>18. Transfer'
  BY <1>7, NotMoved
<1> QED
  BY <1>13, <1>17, <1>18, CallStep

LEMMA TmpFile ==
    ASSUME IInv, Small, NEW f \in Files, IsOpen(f), file[f].vnode.fs = "tmp"
    PROVE  \E id \in DOMAIN inode, c \in Nat :
             /\ file[f] = [vnode |-> tmp(id), cur |-> c, at |-> c]
             /\ c <= inode[id].size
<1>1. PICK v, c : /\ v = file[f].vnode /\ file[f] = [vnode |-> v, cur |-> c, at |-> c] /\ Legal(v)
                  /\ Size(v) \in 0 .. IntMax /\ c \in 0 .. Size(v)
  BY OpenFile
<1>2. ~Lasting(v)
  BY <1>1, LastingSize DEF IInv
<1>3. PICK id \in DOMAIN inode : v = tmp(id)
  BY <1>1, <1>2 DEF Legal
<1>4. c \in Nat /\ c <= inode[id].size
  BY <1>1, <1>3, TmpSize DEF IInv
<1> QED
  BY <1>1, <1>3, <1>4

\* A read takes from the beginning, but no more than there is behind the cursor.
LEMMA TmpReadStep ==
    ASSUME IInv, Small, UNCHANGED <<tarVars, scene>>, NEW f \in Files, NEW len \in scene.lengths,
           tmpfs_read(f, len)
    PROVE  IInv'
<1>1. PICK id \in DOMAIN inode, c \in Nat :
             file[f] = [vnode |-> tmp(id), cur |-> c, at |-> c] /\ c <= inode[id].size
  BY TmpFile DEF tmpfs_read, OpenIn
<1>2. Tree /\ Memory /\ Cursors
  BY DEF IInv
<1>3. PICK size, s : /\ size = inode[id].size /\ s = text[id] /\ size \in Nat /\ s \in Seq(Bytes)
                     /\ Len(s) = size /\ inode[id].contents = s /\ Size(tmp(id)) = size
  BY <1>2, TmpSize
<1>4. len \in Nat
  BY <1>2, KstdioAssumption, TarfsAssumption DEF Tree
<1> DEFINE m == Min({len, size - c})
           n == Max({0, m})
<1>5. n \in Nat /\ c + n <= size
  <2>1. m = IF len <= size - c THEN len ELSE size - c
    BY <1>3, <1>4, MinOf
  <2> HIDE DEF m
  <2>2. m \in Int /\ m <= size - c
    BY <1>3, <1>4, <2>1
  <2>3. n = IF 0 >= m THEN 0 ELSE m
    BY <2>2, MaxOf
  <2> QED
    BY <1>1, <1>3, <2>2, <2>3
<1>6. /\ file' = [file EXCEPT ![f].cur = @ + n, ![f].at = @ + n]
      /\ moved' = [vnode |-> tmp(id), from |-> 0, len |-> n, at |-> c,
                   bytes |-> SubSeq(s, 1, n), due |-> SubSeq(s, c + 1, c + n)]
      /\ inode' = inode /\ text' = text /\ Up
  <2>1. /\ file[f].vnode = tmp(id) /\ file[f].vnode.id = id
        /\ file[f].cur = c /\ file[f].at = c
    BY <1>1 DEF tmp
  <2>2. n = Max({0, Min({len, inode[file[f].vnode.id].size - file[f].cur})})
    BY <1>3, <2>1
  <2> HIDE DEF n
  <2> QED
    BY <1>3, <2>1, <2>2 DEF tmpfs_read, OpenIn, IsOpen
<1> HIDE DEF n
<1>7. Grows /\ Memory'
  BY <1>2, <1>6, SameGrows
<1>8. PICK v, d : v = tmp(id) /\ d = c + n
  OBVIOUS
<1>9. Put(f, v, d)
  <2>1. DOMAIN file = Files
    BY <1>2 DEF Cursors
  <2>2. DOMAIN file' = Files /\ \A g \in Files : g # f => file'[g] = file[g]
    BY <1>6, <2>1
  <2>3. file'[f] = [[file[f] EXCEPT !.cur = @ + n] EXCEPT !.at = @ + n]
    BY <1>6, <2>1
  <2>4. [[[vnode |-> v, cur |-> c, at |-> c] EXCEPT !.cur = @ + n] EXCEPT !.at = @ + n]
         = [vnode |-> v, cur |-> c + n, at |-> c + n]
    <3>1. [[vnode |-> v, cur |-> c, at |-> c] EXCEPT !.cur = @ + n] = [vnode |-> v, cur |-> c + n, at |-> c]
      OBVIOUS
    <3>2. [[vnode |-> v, cur |-> c + n, at |-> c] EXCEPT !.at = @ + n]
           = [vnode |-> v, cur |-> c + n, at |-> c + n]
      OBVIOUS
    <3> QED
      BY <3>1, <3>2
  <2>5. file'[f] = [vnode |-> v, cur |-> d, at |-> d]
    BY <1>1, <1>8, <2>3, <2>4
  <2> QED
    BY <2>2, <2>5 DEF Put
<1>10. Legal(v)
  BY <1>8 DEF Legal
<1>11. Legal(v)' /\ Size(v)' \in Int /\ size <= Size(v)'
  BY <1>2, <1>3, <1>7, <1>8, <1>10, LegalStays
<1>12. d \in 0 .. Size(v)'
  BY <1>3, <1>5, <1>8, <1>11
<1>13. Cursors'
  BY <1>2, <1>6, <1>7, <1>9, <1>11, <1>12, CursorsKept
<1>14. Transfer'
  <2>1. Len(SubSeq(s, c + 1, c + n)) = n
    <3>1. n > 0 => c + 1 \in 1 .. Len(s) /\ c + n \in 1 .. Len(s)
      BY <1>3, <1>5
    <3> QED
      BY <1>3, <1>5, <3>1
  <2>2. c = 0 => SubSeq(s, 1, n) = SubSeq(s, c + 1, c + n)
    BY <1>5
  <2>3. moved'.vnode.fs = "tmp"
    BY <1>6 DEF tmp
  <2> QED
    BY <1>6, <2>1, <2>2, <2>3 DEF Transfer
<1> QED
  BY <1>7, <1>13, <1>14, CallStep

\* Over what is there, or behind it, but not beyond: every byte is one of either.
LEMMA OverIs ==
    ASSUME NEW s \in Seq(Bytes), NEW at \in 0 .. Len(s), NEW bytes \in Seq(Bytes), NEW junk
    PROVE  LET n == IF at + Len(bytes) <= Len(s) THEN Len(s) ELSE at + Len(bytes) IN
           Over(s, at, bytes, junk) = [k \in 1 .. n |-> IF k \in at + 1 .. at + Len(bytes)
                                                        THEN bytes[k - at] ELSE s[k]]
<1> DEFINE b == at + Len(bytes)
           n == IF b <= Len(s) THEN Len(s) ELSE b
<1>1. b \in Nat /\ Len(s) \in Nat /\ DOMAIN s = 1 .. Len(s)
  OBVIOUS
<1>2. Max({Len(s), b}) = IF Len(s) >= b THEN Len(s) ELSE b
  BY <1>1, MaxOf
<1>3. Max({Len(s), b}) = n
  BY <1>1, <1>2
<1>4. ASSUME NEW k \in 1 .. n, k \notin at + 1 .. b PROVE k \in DOMAIN s
  BY <1>1, <1>4
<1> QED
  BY <1>3, <1>4 DEF Over

LEMMA OverSeq ==
    ASSUME NEW s \in Seq(Bytes), NEW at \in 0 .. Len(s), NEW bytes \in Seq(Bytes), NEW junk
    PROVE  /\ Over(s, at, bytes, junk) \in Seq(Bytes)
           /\ Len(Over(s, at, bytes, junk)) = IF at + Len(bytes) <= Len(s) THEN Len(s) ELSE at + Len(bytes)
<1> DEFINE b == at + Len(bytes)
           n == IF b <= Len(s) THEN Len(s) ELSE b
           o == [k \in 1 .. n |-> IF k \in at + 1 .. b THEN bytes[k - at] ELSE s[k]]
<1>1. n \in Nat /\ b \in Nat
  OBVIOUS
<1>2. Over(s, at, bytes, junk) = o
  BY OverIs
<1>3. \A k \in 1 .. n : o[k] \in Bytes
  <2> SUFFICES ASSUME NEW k \in 1 .. n PROVE o[k] \in Bytes
    OBVIOUS
  <2>1. CASE k \in at + 1 .. b
    <3>1. k - at \in 1 .. Len(bytes)
      BY <2>1
    <3> QED
      BY <2>1, <3>1
  <2>2. CASE k \notin at + 1 .. b
    <3>1. k \in 1 .. Len(s)
      BY <2>2
    <3> QED
      BY <2>2, <3>1
  <2> QED
    BY <2>1, <2>2
<1>4. o \in Seq(Bytes) /\ Len(o) = n
  BY <1>1, <1>3
<1> QED
  BY <1>2, <1>4

\* A write puts the bytes behind the cursor, and the size grows to what is written.
LEMMA TmpWriteStep ==
    ASSUME IInv, Small, UNCHANGED <<tarVars, scene>>, NEW f \in Files, NEW bytes \in scene.data,
           tmpfs_write(f, bytes)
    PROVE  IInv'
<1>1. PICK id \in DOMAIN inode, c \in Nat :
             file[f] = [vnode |-> tmp(id), cur |-> c, at |-> c] /\ c <= inode[id].size
  BY TmpFile DEF tmpfs_write, OpenIn
<1>2. Tree /\ Memory /\ Cursors
  BY DEF IInv
<1>3. bytes \in Seq(Bytes)
  BY <1>2, KstdioAssumption DEF Tree, Bytes
<1>4. PICK e, s : /\ e = inode[id] /\ s = text[id] /\ e \in Inode /\ e.size \in Nat /\ s \in Seq(Bytes)
                  /\ Len(s) = e.size /\ e.contents = s /\ id \in DOMAIN text
  BY <1>2, TmpSize
<1>5. e.size <= MaxBytes /\ (e.null => e.size = 0) /\ MaxBytes \in Nat
  BY <1>2, <1>4, KstdioAssumption DEF Memory
<1> DEFINE b == c + Len(bytes)
           g == grown(e, c, Len(bytes))
           o == Over(s, c, bytes, "junk")
           t == [g EXCEPT !.contents = Over(@, c, bytes, "junk")]
<1>6. /\ inode' = [inode EXCEPT ![id] = t] /\ text' = [text EXCEPT ![id] = Over(s, c, bytes, "hole")]
      /\ file' = [file EXCEPT ![f].cur = @ + Len(bytes), ![f].at = @ + Len(bytes)]
      /\ moved' = Still /\ Up /\ b <= MaxBytes
  <2>1. /\ file[f].vnode = tmp(id) /\ file[f].vnode.id = id
        /\ file[f].cur = c /\ file[f].at = c
    BY <1>1 DEF tmp
  <2>2. inode' = [inode EXCEPT ![file[f].vnode.id] =
                     [grown(inode[file[f].vnode.id], file[f].cur, Len(bytes)) EXCEPT
                         !.contents = Over(@, file[f].cur, bytes, "junk")]]
    BY DEF tmpfs_write
  <2>3. inode' = [inode EXCEPT ![id] = t]
    BY <1>4, <2>1, <2>2
  <2>4. text' = [text EXCEPT ![id] = Over(s, c, bytes, "hole")]
    BY <1>4, <2>1 DEF tmpfs_write
  <2>5. /\ file' = [file EXCEPT ![f].cur = @ + Len(bytes), ![f].at = @ + Len(bytes)]
        /\ moved' = Still /\ Up
    BY DEF tmpfs_write, OpenIn, IsOpen
  <2>6. b <= MaxBytes
    BY <2>1 DEF tmpfs_write
  <2> HIDE DEF t, b
  <2> QED
    BY <2>3, <2>4, <2>5, <2>6
<1>7. c \in 0 .. Len(s) /\ b \in Nat
  BY <1>1, <1>3, <1>4
<1>8. Over(s, c, bytes, "hole") = o
  <2>1. Over(s, c, bytes, "hole") = LET n == IF b <= Len(s) THEN Len(s) ELSE b IN
                                    [k \in 1 .. n |-> IF k \in c + 1 .. b THEN bytes[k - c] ELSE s[k]]
    BY <1>3, <1>4, <1>7, OverIs
  <2>2. o = LET n == IF b <= Len(s) THEN Len(s) ELSE b IN
            [k \in 1 .. n |-> IF k \in c + 1 .. b THEN bytes[k - c] ELSE s[k]]
    BY <1>3, <1>4, <1>7, OverIs
  <2> HIDE DEF o
  <2> QED
    BY <2>1, <2>2
<1>9. o \in Seq(Bytes) /\ Len(o) = IF b <= Len(s) THEN Len(s) ELSE b
  BY <1>3, <1>4, <1>7, OverSeq
<1> HIDE DEF o
<1>10. /\ g \in Inode /\ g.size = (IF b <= Len(s) THEN Len(s) ELSE b) /\ g.contents = s
       /\ g.null => g.size = 0
  <2>1. CASE e.null \/ b > e.size
    <3>1. g = [[e EXCEPT !.null = FALSE] EXCEPT !.size = b]
      BY <2>1 DEF grown
    <3>2. [e EXCEPT !.null = FALSE] \in Inode
      BY <1>4 DEF Inode
    <3> DEFINE d == [e EXCEPT !.null = FALSE]
    <3>3. d.contents = s /\ d.null = FALSE
      BY <1>4 DEF Inode
    <3> HIDE DEF b, d
    <3>4. [d EXCEPT !.size = b] \in Inode /\ [d EXCEPT !.size = b].size = b
          /\ [d EXCEPT !.size = b].contents = d.contents /\ [d EXCEPT !.size = b].null = d.null
      BY <1>7, <3>2 DEF Inode, d
    <3>5. g = [d EXCEPT !.size = b]
      BY <3>1 DEF d
    <3> HIDE DEF g
    <3>6. b <= Len(s) => b = Len(s)
      BY <1>4, <1>5, <1>7, <2>1 DEF b
    <3> QED
      BY <3>3, <3>4, <3>5, <3>6
  <2>2. CASE ~(e.null \/ b > e.size)
    <3>1. g = e
      BY <2>2 DEF grown
    <3>2. b <= Len(s)
      BY <1>4, <1>7, <2>2
    <3> QED
      BY <1>4, <1>5, <3>1, <3>2
  <2> QED
    BY <2>1, <2>2
<1> HIDE DEF g
<1>11. t \in Inode /\ t.size = Len(o) /\ t.contents = o /\ (t.null => t.size = 0)
  <2>1. t = [g EXCEPT !.contents = o]
    BY <1>10 DEF o
  <2> HIDE DEF t
  <2>2. [g EXCEPT !.contents = o] \in Inode
    BY <1>9, <1>10 DEF Inode
  <2>3. t.size = g.size /\ t.null = g.null /\ t.contents = o
    BY <1>10, <2>1 DEF Inode
  <2> QED
    BY <1>9, <1>10, <2>1, <2>2, <2>3
<1> HIDE DEF t
<1>12. Len(o) <= MaxBytes /\ e.size <= Len(o) /\ b <= Len(o) /\ Len(o) \in Nat
  BY <1>4, <1>5, <1>6, <1>7, <1>9
<1>13. inode \in Seq(Inode) /\ text \in Seq(Seq(Bytes)) /\ Len(inode) = Len(text)
  BY <1>2 DEF Memory
<1>14. inode' \in Seq(Inode) /\ text' \in Seq(Seq(Bytes)) /\ Len(inode') = Len(inode) /\ Len(text') = Len(text)
  <2> DEFINE O == Seq(Bytes)
  <2>1. o \in O /\ text \in Seq(O)
    BY <1>9, <1>13
  <2> HIDE DEF O
  <2>2. [text EXCEPT ![id] = o] \in Seq(O) /\ Len([text EXCEPT ![id] = o]) = Len(text)
    BY <1>4, <2>1
  <2>3. [inode EXCEPT ![id] = t] \in Seq(Inode) /\ Len([inode EXCEPT ![id] = t]) = Len(inode)
    BY <1>11, <1>13
  <2> QED
    BY <1>6, <1>8, <2>2, <2>3 DEF O
<1>15. ASSUME NEW k \in DOMAIN inode
       PROVE  /\ inode'[k] = IF k = id THEN t ELSE inode[k]
              /\ text'[k] = IF k = id THEN o ELSE text[k]
  BY <1>4, <1>6, <1>8, <1>13
<1>16. DOMAIN inode' = DOMAIN inode
  BY <1>6
<1>17. Memory'
  <2>1. ASSUME NEW k \in DOMAIN inode'
        PROVE  /\ inode'[k].contents = text'[k]
               /\ inode'[k].size = Len(text'[k]) /\ inode'[k].size <= MaxBytes
               /\ inode'[k].null => inode'[k].size = 0
    <3>1. CASE k = id
      BY <1>11, <1>12, <1>15, <1>16, <3>1
    <3>2. CASE k # id
      BY <1>2, <1>15, <1>16, <3>2 DEF Memory
    <3> QED
      BY <3>1, <3>2
  <2> QED
    BY <1>13, <1>14, <2>1 DEF Memory
<1>18. Grows
  <2> SUFFICES ASSUME NEW k \in DOMAIN inode
               PROVE  k \in DOMAIN inode' /\ inode'[k].size \in Nat /\ inode[k].size <= inode'[k].size
    BY DEF Grows
  <2>1. CASE k = id
    BY <1>4, <1>11, <1>12, <1>15, <1>16, <2>1
  <2>2. CASE k # id
    <3>1. inode[k] \in Inode
      BY <1>13
    <3>2. inode[k].size \in Nat
      BY <3>1 DEF Inode
    <3> QED
      BY <1>15, <1>16, <2>2, <3>2
  <2> QED
    BY <2>1, <2>2
<1>19. PICK v, d : v = tmp(id) /\ d = b
  OBVIOUS
<1>20. Put(f, v, d)
  <2>1. DOMAIN file = Files
    BY <1>2 DEF Cursors
  <2>2. DOMAIN file' = Files /\ \A h \in Files : h # f => file'[h] = file[h]
    BY <1>6, <2>1
  <2> DEFINE n == Len(bytes)
  <2>3. file'[f] = [[file[f] EXCEPT !.cur = @ + n] EXCEPT !.at = @ + n]
    BY <1>6, <2>1
  <2> HIDE DEF n
  <2>4. [[[vnode |-> v, cur |-> c, at |-> c] EXCEPT !.cur = @ + n] EXCEPT !.at = @ + n]
         = [vnode |-> v, cur |-> c + n, at |-> c + n]
    <3>1. [[vnode |-> v, cur |-> c, at |-> c] EXCEPT !.cur = @ + n] = [vnode |-> v, cur |-> c + n, at |-> c]
      OBVIOUS
    <3>2. [[vnode |-> v, cur |-> c + n, at |-> c] EXCEPT !.at = @ + n]
           = [vnode |-> v, cur |-> c + n, at |-> c + n]
      OBVIOUS
    <3> QED
      BY <3>1, <3>2
  <2>5. file'[f] = [vnode |-> v, cur |-> d, at |-> d]
    BY <1>1, <1>19, <2>3, <2>4 DEF n
  <2> QED
    BY <2>2, <2>5 DEF Put
<1>21. Legal(v)' /\ d \in 0 .. Size(v)'
  <2>1. id \in DOMAIN inode'
    BY <1>16
  <2>2. Legal(v)'
    BY <1>19, <2>1 DEF Legal
  <2>3. Size(v)' = Len(o)
    BY <1>11, <1>15, <1>19, Sizes
  <2> QED
    BY <1>7, <1>12, <1>19, <2>2, <2>3
<1>22. Cursors'
  BY <1>2, <1>6, <1>18, <1>20, <1>21, CursorsKept
<1>23. Transfer'
  BY <1>6, NotMoved
<1> QED
  BY <1>17, <1>22, <1>23, CallStep

LEMMA InitIInv ==
    ASSUME KstdioInit
    PROVE  IInv
<1>1. /\ archive \in Archives /\ pc = "create" /\ i = 0 /\ scene \in Scenes /\ archive = scene.archive
      /\ node = [v \in Vnodes |-> IF v = 0 THEN Vnode(0, None) ELSE NoVnode]
      /\ inode = <<>> /\ text = <<>> /\ moved = Still
      /\ file = [f \in Files |-> [vnode |-> NoFile, cur |-> 0, at |-> 0]]
  BY DEF KstdioInit, TarfsInit
<1>2. Vnode(0, None) \in Node /\ NoVnode \in Node
  BY DEF Vnode, NoVnode, None, Node
<1>3. 0 \in Vnodes
  <2>1. Len(archive) \in Nat
    <3> DEFINE E == [path : Seq(STRING) \ {<<>>}, size : 0 .. Word - 1]
    <3>1. archive \in Seq(E)
      BY <1>1, TarfsAssumption
    <3> HIDE DEF E
    <3> QED
      BY <3>1
  <2> QED
    BY <2>1 DEF Vnodes
<1>4. node \in [Vnodes -> Node]
  <2> HIDE DEF Node
  <2> QED
    BY <1>1, <1>2
<1>5. Present(0)
  BY <1>1, <1>3, TarfsAssumption DEF Vnode, Present
<1>6. \A v \in Vnodes : node[v].child = <<>>
  BY <1>1 DEF Vnode, NoVnode
<1>7. Tree
  BY <1>1, <1>4, <1>5, <1>6 DEF Tree
<1>8. Memory
  BY <1>1 DEF Memory
<1>9. Cursors
  BY <1>1 DEF Cursors
<1>10. Transfer
  BY <1>1 DEF Transfer, Still, NoFile, tar
<1> QED
  BY <1>7, <1>8, <1>9, <1>10 DEF IInv

LEMMA NextIInv ==
    ASSUME Small, IInv, [KstdioNext]_fileVars
    PROVE  IInv'
<1>1. CASE UNCHANGED fileVars
  BY <1>1, PrintStep DEF fileVars
<1>2. CASE (CreateEntry \/ CreateFails \/ CreateDone) /\ UNCHANGED <<consoleVars, scene, ioVars, said>>
  BY <1>2, CreateEntryStep, CreateEnds
<1>3. CASE tarfs_destroy /\ (\A f \in Files : ~IsOpen(f)) /\ UNCHANGED <<consoleVars, scene, ioVars, said>>
  BY <1>3, DestroyStep
<1>4. CASE FileCall /\ UNCHANGED <<tarVars, consoleVars, scene, said>>
  <2>1. ASSUME NEW f \in Files, NEW path \in scene.open, kfopen(f, path) PROVE IInv'
    BY <1>4, <2>1, OpenStep
  <2>2. ASSUME NEW f \in Files, kfclose(f) PROVE IInv'
    BY <1>4, <2>2, CloseStep
  <2>3. ASSUME NEW f \in Files, NEW len \in scene.lengths, tarfs_read(f, len) \/ devfs_transfer(f, len)
        PROVE  IInv'
    BY <1>4, <2>3, ReadStep
  <2>4. ASSUME NEW f \in Files, NEW len \in scene.lengths, tmpfs_read(f, len) PROVE IInv'
    BY <1>4, <2>4, TmpReadStep
  <2>5. ASSUME NEW f \in Files, NEW bytes \in scene.data, tmpfs_write(f, bytes) PROVE IInv'
    BY <1>4, <2>5, TmpWriteStep
  <2>6. ASSUME NEW f \in Files, IsOpen(f), NEW offset \in Targets(f), kfseek(f, offset) PROVE IInv'
    BY <1>4, <2>6, SeekStep
  <2>7. ASSUME NEW path \in scene.create, vfs_create(Found(Front(path)), Last(path)) PROVE IInv'
    BY <1>4, <2>7, VfsCreateStep
  <2> QED
    BY <1>4, <2>1, <2>2, <2>3, <2>4, <2>5, <2>6, <2>7 DEF FileCall
<1>5. CASE /\ \/ \E f \in Files, bytes \in scene.data : dev_write(f, bytes)
              \/ \E items \in scene.print : kprintf(items)
           /\ UNCHANGED <<tarVars, scene>>
  <2>1. UNCHANGED ioVars
    BY <1>5 DEF dev_write, kprintf
  <2> QED
    BY <1>5, <2>1, PrintStep
<1> QED
  BY <1>1, <1>2, <1>3, <1>4, <1>5 DEF KstdioNext

LEMMA InvReadsInside ==
    ASSUME Small, IInv
    PROVE  ReadsInside
<1>1. ASSUME moved.len > 0, moved.vnode.fs # "tmp", Up
      PROVE  moved.from + moved.len <= Size(moved.vnode) /\ moved.from = moved.at
  BY <1>1 DEF IInv, Transfer
<1>2. ASSUME NEW f \in Files, IsOpen(f)
      PROVE  LET size == Size(file[f].vnode) IN
             /\ file[f].cur <= size
             /\ file[f].cur < size <=> to_read(size, file[f].cur, 1) = 1
  <2>1. PICK v, c : v = file[f].vnode /\ c = file[f].cur /\ Size(v) \in 0 .. IntMax /\ c \in 0 .. Size(v)
    BY <1>2, OpenFile
  <2>2. PICK size : size = Size(v)
    OBVIOUS
  <2>3. size \in 0 .. IntMax /\ c \in 0 .. size /\ IntMax \in Nat
    BY <2>1, <2>2, TarfsAssumption
  <2>4. PICK n : n = to_read(size, c, 1)
    OBVIOUS
  <2>5. n \in 0 .. size - c /\ (c < size => n > 0) /\ n <= 1
    <3>1. 1 \in Nat /\ 1 > 0
      OBVIOUS
    <3> QED
      BY <2>3, <2>4, <3>1, ToRead
  <2>6. c <= size /\ (c < size <=> n = 1)
    BY <2>3, <2>5
  <2> QED
    BY <2>1, <2>2, <2>4, <2>6
<1> QED
  BY <1>1, <1>2 DEF ReadsInside

LEMMA InvTmpfsExact ==
    ASSUME IInv
    PROVE  TmpfsExact
<1>1. ASSUME NEW id \in DOMAIN inode
      PROVE  "hole" \notin Range(text[id])
  <2>1. id \in DOMAIN text /\ text \in Seq(Seq(Bytes))
    BY DEF IInv, Memory
  <2> DEFINE O == Seq(Bytes)
  <2>2. text[id] \in O
    <3>1. text \in Seq(O)
      BY <2>1
    <3> HIDE DEF O
    <3> QED
      BY <2>1, <3>1
  <2>3. \A k \in DOMAIN text[id] : text[id][k] \in Bytes
    BY <2>2
  <2> QED
    BY <2>3 DEF Range, Bytes
<1> QED
  BY <1>1 DEF IInv, Memory, Transfer, TmpfsExact

-----------------------------------------------------------------------------
(* The screen *)

\* A row of l cells, of the paper's width or with one more in its margin.
RowOf(r, l) == r = [j \in 1 .. l |-> r[j]]
Row(r) == \E l \in {Width, Width + 1} : RowOf(r, l)
Paper(p) ==
    /\ p = [row |-> p.row, x |-> p.x] /\ p.x \in 0 .. Width
    /\ \E S : p.row \in Seq(S)
    /\ Len(p.row) >= 1 /\ \A k \in 1 .. Len(p.row) : Row(p.row[k])
    /\ RowOf(p.row[Len(p.row)], Width)
Screen(v) ==
    /\ v = [cell |-> v.cell, x |-> v.x, y |-> v.y]
    /\ v.cell = [k \in 0 .. Width * Height - 1 |-> v.cell[k]]

\* The first row of the paper that is on the screen.
Top(p) == IF Len(p.row) > Height THEN Len(p.row) - Height ELSE 0
Alike(v, p) ==
    /\ Paper(p) /\ Screen(v)
    /\ v.x = p.x /\ v.y = Len(p.row) - Top(p) - 1
    /\ \A y \in 0 .. Height - 1, x \in 0 .. Width - 1 :
          v.cell[x + Width * y] = IF y <= v.y THEN p.row[Top(p) + y + 1][x + 1] ELSE Blank

\* Every place on the screen has its own cell.
LEMMA CellPlace ==
    ASSUME NEW w \in Nat \ {0}, NEW h \in Nat \ {0},
           NEW x \in 0 .. w - 1, NEW y \in 0 .. h - 1
    PROVE  /\ x + w * y \in 0 .. w * h - 1
           /\ x + w * y < w * (h - 1) <=> y < h - 1
           /\ x + w * y + w = x + w * (y + 1)
           /\ \A a \in 0 .. w - 1, b \in 0 .. h - 1 : x + w * y = a + w * b => x = a /\ y = b
<1>1. w * y >= 0 /\ w * y <= w * (h - 1) /\ w * h = w * (h - 1) + w
  OBVIOUS
<1>2. y < h - 1 => w * (y + 1) <= w * (h - 1)
  OBVIOUS
<1>3. w * (y + 1) = w * y + w
  OBVIOUS
<1>4. w * y \in Int /\ w * h \in Int /\ w * (h - 1) \in Int
  OBVIOUS
<1>5. y = h - 1 => w * y = w * (h - 1)
  OBVIOUS
<1>6. ASSUME NEW a \in 0 .. w - 1, NEW b \in 0 .. h - 1, x + w * y = a + w * b
      PROVE  x = a /\ y = b
  <2>1. w * (y - b) = a - x
    BY <1>6
  <2>2. y - b < 1
    <3>1. CASE y - b >= 1
      <4>1. w * (y - b) >= w
        BY <3>1
      <4> QED
        BY <2>1, <4>1
    <3> QED
      BY <3>1
  <2>3. y - b > -1
    <3>1. CASE y - b <= -1
      <4>1. w * (y - b) <= -w
        BY <3>1
      <4> QED
        BY <2>1, <4>1
    <3> QED
      BY <3>1
  <2>4. y = b
    BY <2>2, <2>3
  <2> QED
    BY <1>6, <2>4
<1> QED
  BY <1>1, <1>2, <1>3, <1>4, <1>5, <1>6

\* A row that can be written to.
LEMMA LastRowOf ==
    ASSUME NEW p, NEW v, Alike(v, p), LastRow = Height - 1
    PROVE  /\ Len(p.row) \in Nat \ {0} /\ Top(p) \in Nat /\ v.y \in 0 .. Height - 1
           /\ Top(p) + v.y + 1 = Len(p.row) /\ v.x \in 0 .. Width
           /\ v.y = LastRow <=> Len(p.row) >= Height
           /\ Width \in Nat \ {0} /\ Height \in Nat \ {0} /\ Width * Height \in Nat
<1>1. Width \in Nat \ {0} /\ Height \in Nat \ {0} /\ Width * Height \in Nat
  BY ConsoleAssumption
<1>2. Len(p.row) \in Nat /\ Len(p.row) >= 1 /\ v.x \in 0 .. Width
  BY DEF Alike, Paper
<1>3. PICK n, y, t : n = Len(p.row) /\ y = v.y /\ t = Top(p)
  OBVIOUS
<1>4. t = IF n > Height THEN n - Height ELSE 0
  BY <1>3 DEF Top
<1>5. y = n - t - 1
  BY <1>3 DEF Alike
<1>6. /\ n \in Nat \ {0} /\ t \in Nat /\ y \in 0 .. Height - 1 /\ t + y + 1 = n
      /\ y = LastRow <=> n >= Height
  BY <1>1, <1>2, <1>3, <1>4, <1>5
<1> QED
  BY <1>1, <1>2, <1>3, <1>6

LEMMA ClearAlike == Alike(vga_clear, NoPage)
<1>1. Width \in Nat \ {0} /\ Height \in Nat \ {0}
  BY ConsoleAssumption
<1> DEFINE s == Spaces(Width)
<1>2. RowOf(s, Width) /\ \A x \in 0 .. Width - 1 : s[x + 1] = Blank
  <2>1. \A j \in 1 .. Width : s[j] = Blank
    BY DEF Spaces
  <2>2. \A x \in 0 .. Width - 1 : x + 1 \in 1 .. Width
    BY <1>1
  <2> QED
    BY <2>1, <2>2 DEF RowOf, Spaces
<1>3. NoPage = [row |-> <<s>>, x |-> 0]
  BY DEF NoPage
<1> HIDE DEF s
<1>4. Len(<<s>>) = 1 /\ <<s>>[1] = s /\ <<s>> \in Seq({s})
  OBVIOUS
<1>5. Paper(NoPage) /\ Top(NoPage) = 0 /\ NoPage.x = 0 /\ Len(NoPage.row) = 1 /\ NoPage.row[1] = s
  <2>1. NoPage.row = <<s>> /\ NoPage.x = 0 /\ NoPage = [row |-> NoPage.row, x |-> NoPage.x]
    BY <1>3
  <2>2. Len(NoPage.row) = 1 /\ NoPage.row[1] = s /\ NoPage.row \in Seq({s})
    BY <1>4, <2>1
  <2>3. Top(NoPage) = 0
    BY <1>1, <2>2 DEF Top
  <2>4. RowOf(NoPage.row[Len(NoPage.row)], Width)
        /\ \A k \in 1 .. Len(NoPage.row) : Row(NoPage.row[k])
    BY <1>2, <2>2 DEF Row
  <2>5. NoPage.x \in 0 .. Width /\ Len(NoPage.row) >= 1
    BY <1>1, <2>1, <2>2
  <2>6. \E S : NoPage.row \in Seq(S)
    BY <2>2
  <2>7. Paper(NoPage)
    BY <2>1, <2>4, <2>5, <2>6 DEF Paper
  <2> QED
    BY <2>1, <2>2, <2>3, <2>7
<1>6. \A y \in 0 .. Height - 1, x \in 0 .. Width - 1 :
         vga_clear.cell[x + Width * y] = IF y <= 0 THEN s[x + 1] ELSE Blank
  <2> SUFFICES ASSUME NEW y \in 0 .. Height - 1, NEW x \in 0 .. Width - 1
               PROVE  vga_clear.cell[x + Width * y] = Blank
    BY <1>2
  <2> DEFINE k == x + Width * y
             n == Width * Height - 1
  <2>1. k \in 0 .. n
    BY <1>1, CellPlace
  <2> HIDE DEF k, n
  <2>2. [j \in 0 .. n |-> Blank][k] = Blank
    BY <2>1
  <2> QED
    BY <2>2 DEF vga_clear, k, n
<1>7. Screen(vga_clear) /\ vga_clear.x = 0 /\ vga_clear.y = 0
  BY DEF Screen, vga_clear
<1>8. \A y \in 0 .. Height - 1 : y <= 0 => NoPage.row[0 + y + 1] = s
  BY <1>1, <1>5
<1> QED
  BY <1>5, <1>6, <1>7, <1>8 DEF Alike

LEMMA SpacesRow == RowOf(Spaces(Width), Width) /\ \A x \in 0 .. Width - 1 : Spaces(Width)[x + 1] = Blank
<1>1. \A j \in 1 .. Width : Spaces(Width)[j] = Blank
  BY DEF Spaces
<1>2. \A x \in 0 .. Width - 1 : x + 1 \in 1 .. Width
  BY ConsoleAssumption
<1> QED
  BY <1>1, <1>2 DEF RowOf, Spaces

\* Paper whose last row may have something in its margin.
Roll(p) ==
    /\ p = [row |-> p.row, x |-> p.x]
    /\ \E S : p.row \in Seq(S)
    /\ Len(p.row) >= 1 /\ \A k \in 1 .. Len(p.row) : Row(p.row[k])

\* The paper after a new line.
LEMMA FeedPaper ==
    ASSUME NEW p, Roll(p)
    PROVE  /\ Paper(Feed(p)) /\ Feed(p).x = 0 /\ Len(Feed(p).row) = Len(p.row) + 1
           /\ \A k \in 1 .. Len(p.row) : Feed(p).row[k] = p.row[k]
           /\ Feed(p).row[Len(p.row) + 1] = Spaces(Width)
<1> DEFINE s == Spaces(Width)
           q == Feed(p)
<1>1. PICK S : p.row \in Seq(S)
  BY DEF Roll
<1>2. RowOf(s, Width) /\ Row(s)
  BY SpacesRow DEF Row
<1>3. q.row = Append(p.row, s) /\ q.x = 0 /\ q = [row |-> q.row, x |-> q.x]
  BY DEF Feed
<1> HIDE DEF s, q
<1>4. Len(p.row) \in Nat /\ Len(p.row) >= 1 /\ \A k \in 1 .. Len(p.row) : Row(p.row[k])
  BY <1>1 DEF Roll
<1>5. q.row \in Seq(S \cup {s}) /\ Len(q.row) = Len(p.row) + 1
      /\ (\A k \in 1 .. Len(p.row) : q.row[k] = p.row[k]) /\ q.row[Len(p.row) + 1] = s
  <2>1. p.row \in Seq(S \cup {s}) /\ s \in S \cup {s}
    BY <1>1
  <2> QED
    BY <1>3, <1>4, <2>1
<1>6. \A k \in 1 .. Len(q.row) : Row(q.row[k])
  <2> SUFFICES ASSUME NEW k \in 1 .. Len(q.row) PROVE Row(q.row[k])
    OBVIOUS
  <2>1. k \in 1 .. Len(p.row) \/ k = Len(p.row) + 1
    BY <1>4, <1>5
  <2> QED
    BY <1>2, <1>4, <1>5, <2>1
<1>7. Len(q.row) >= 1 /\ 0 \in 0 .. Width
  BY <1>4, <1>5, ConsoleAssumption
<1>8. Paper(q)
  BY <1>2, <1>3, <1>4, <1>5, <1>6, <1>7 DEF Paper
<1> QED
  BY <1>3, <1>5, <1>8 DEF s, q

\* A character in the margin of the last row.
Margin(p, c) == [p EXCEPT !.row[Len(p.row)] = Append(@, c)]

LEMMA MarginRoll ==
    ASSUME NEW p, Paper(p), NEW c
    PROVE  /\ Roll(Margin(p, c)) /\ Len(Margin(p, c).row) = Len(p.row)
           /\ \A k \in 1 .. Len(p.row), j \in 1 .. Width :
                 Margin(p, c).row[k][j] = p.row[k][j]
<1> DEFINE q == Margin(p, c)
           n == Len(p.row)
           o == p.row[n]
           r == Append(o, c)
<1>1. PICK S : p.row \in Seq(S)
  BY DEF Paper
<1>2. n \in Nat \ {0} /\ (\A k \in 1 .. n : Row(p.row[k])) /\ RowOf(o, Width)
  BY <1>1 DEF Paper
<1>3. Width \in Nat
  BY ConsoleAssumption
<1>4. PICK a, b : p = [row |-> a, x |-> b]
  BY DEF Paper
<1>5. q.row = [p.row EXCEPT ![n] = r] /\ q = [row |-> q.row, x |-> q.x]
  <2> DEFINE m == [a EXCEPT ![Len(a)] = Append(@, c)]
  <2>1. q = [p EXCEPT !.row = m]
    BY <1>4 DEF Margin
  <2>2. m = [p.row EXCEPT ![n] = r]
    BY <1>4
  <2> HIDE DEF m, q
  <2>3. q = [row |-> m, x |-> b]
    BY <1>4, <2>1
  <2>4. q.row = m /\ q = [row |-> q.row, x |-> q.x]
    BY <2>3
  <2> QED
    BY <2>2, <2>4
<1>6. p.row[n] = o
  OBVIOUS
<1>7. RowOf(r, Width + 1) /\ \A j \in 1 .. Width : r[j] = o[j]
  <2> DEFINE T == {o[j] : j \in 1 .. Width}
  <2> HIDE DEF o
  <2>1. o \in [1 .. Width -> T]
    BY <1>2 DEF RowOf
  <2>2. o \in Seq(T \cup {c}) /\ Len(o) = Width
    BY <1>3, <2>1
  <2> HIDE DEF T
  <2>3. r \in Seq(T \cup {c}) /\ Len(r) = Width + 1 /\ \A j \in 1 .. Width : r[j] = o[j]
    BY <1>3, <2>2
  <2> HIDE DEF r
  <2> QED
    BY <1>3, <2>3 DEF RowOf
<1> HIDE DEF q, n, o, r
<1>8. q.row \in Seq(S \cup {r}) /\ Len(q.row) = n /\ \A k \in 1 .. n : q.row[k] = IF k = n THEN r ELSE p.row[k]
  <2>1. p.row \in Seq(S \cup {r}) /\ r \in S \cup {r} /\ n = Len(p.row)
    BY <1>1 DEF n
  <2> QED
    BY <1>2, <1>5, <2>1
<1>9. \A k \in 1 .. Len(q.row) : Row(q.row[k])
  BY <1>2, <1>7, <1>8 DEF Row
<1>10. Roll(q)
  BY <1>2, <1>5, <1>8, <1>9 DEF Roll
<1>11. ASSUME NEW k \in 1 .. n, NEW j \in 1 .. Width PROVE q.row[k][j] = p.row[k][j]
  BY <1>7, <1>8, <1>11 DEF o
<1> QED
  BY <1>8, <1>10, <1>11 DEF q, n

LEMMA ScrollIs ==
    ASSUME NEW v, Screen(v)
    PROVE  vga_scroll_up(v) =
             [cell |-> [k \in 0 .. Width * Height - 1 |->
                           IF k < Width * (Height - 1) THEN v.cell[k + Width] ELSE Blank],
              x |-> v.x, y |-> v.y]
<1> DEFINE n == Width * Height - 1
           c == [k \in 0 .. n |-> IF k < Width * (Height - 1) THEN v.cell[k + Width] ELSE Blank]
<1>1. DOMAIN v.cell = 0 .. n
  BY DEF Screen
<1>2. vga_scroll_up(v) = [v EXCEPT !.cell = c]
  BY <1>1 DEF vga_scroll_up
<1> HIDE DEF c, n
<1>3. [v EXCEPT !.cell = c] = [cell |-> c, x |-> v.x, y |-> v.y]
  BY DEF Screen
<1> QED
  BY <1>2, <1>3 DEF c, n

LEMMA VgaX ==
    ASSUME NEW v, Screen(v), NEW x
    PROVE  [v EXCEPT !.x = x] = [cell |-> v.cell, x |-> x, y |-> v.y]
<1>1. PICK c, a, b : v = [cell |-> c, x |-> a, y |-> b]
  BY DEF Screen
<1> QED
  BY <1>1

\* Paper that has the columns of p, and perhaps more in its margin.
Covers(o, p) ==
    /\ Roll(o) /\ Len(o.row) = Len(p.row)
    /\ \A k \in 1 .. Len(p.row), j \in 1 .. Width : o.row[k][j] = p.row[k][j]

\* A new line on it.
LEMMA FeedAlike ==
    ASSUME NEW p, NEW v, Alike(v, p), LastRow = Height - 1,
           NEW o, Covers(o, p)
    PROVE  Alike(vga_new_line(v), Feed(o))
<1> DEFINE s == Spaces(Width)
           n == Len(p.row)
           t == Top(p)
           q == Feed(o)
           w == vga_new_line(v)
<1>1. /\ n \in Nat \ {0} /\ t \in Nat /\ v.y \in 0 .. Height - 1 /\ t + v.y + 1 = n
      /\ v.y = LastRow <=> n >= Height
      /\ Width \in Nat \ {0} /\ Height \in Nat \ {0}
      /\ t = IF n > Height THEN n - Height ELSE 0
  BY LastRowOf DEF Top
<1>2. Paper(q) /\ q.x = 0 /\ Len(q.row) = n + 1 /\ q.row[n + 1] = s
      /\ \A k \in 1 .. n : \A j \in 1 .. Width : q.row[k][j] = p.row[k][j]
  BY FeedPaper DEF Covers
<1>3. \A x \in 0 .. Width - 1 : s[x + 1] = Blank
  BY SpacesRow
<1>4. Screen(v) /\ \A y \in 0 .. Height - 1, x \in 0 .. Width - 1 :
          v.cell[x + Width * y] = IF y <= v.y THEN p.row[t + y + 1][x + 1] ELSE Blank
  BY DEF Alike
<1> HIDE DEF s, n, t, q
<1>5. Top(q) = IF n + 1 > Height THEN n + 1 - Height ELSE 0
  BY <1>1, <1>2 DEF Top
<1>6. CASE v.y = LastRow
  <2> DEFINE c == [k \in 0 .. Width * Height - 1 |->
                      IF k < Width * (Height - 1) THEN v.cell[k + Width] ELSE Blank]
  <2>1. vga_scroll_up(v) = [cell |-> c, x |-> v.x, y |-> v.y]
    BY <1>4, ScrollIs
  <2>2. w = [vga_scroll_up(v) EXCEPT !.x = 0]
    BY <1>6 DEF vga_new_line
  <2>3. c = [k \in 0 .. Width * Height - 1 |-> c[k]]
    OBVIOUS
  <2>4. \A k \in 0 .. Width * Height - 1 :
           c[k] = IF k < Width * (Height - 1) THEN v.cell[k + Width] ELSE Blank
    OBVIOUS
  <2> HIDE DEF c, w
  <2>5. w.cell = c /\ w.x = 0 /\ w.y = v.y /\ w = [cell |-> w.cell, x |-> w.x, y |-> w.y]
    BY <2>1, <2>2
  <2>6. Screen(w)
    BY <2>3, <2>5 DEF Screen
  <2>7. Top(q) = t + (IF n >= Height THEN 1 ELSE 0) /\ n >= Height /\ v.y = Height - 1
    BY <1>1, <1>5, <1>6
  <2>8. ASSUME NEW y \in 0 .. Height - 1, NEW x \in 0 .. Width - 1
        PROVE  w.cell[x + Width * y] = IF y <= w.y THEN q.row[Top(q) + y + 1][x + 1] ELSE Blank
    <3> DEFINE k == x + Width * y
    <3>1. k \in 0 .. Width * Height - 1 /\ (k < Width * (Height - 1) <=> y < Height - 1)
          /\ k + Width = x + Width * (y + 1)
      BY <1>1, CellPlace
    <3>2. c[k] = IF y < Height - 1 THEN v.cell[x + Width * (y + 1)] ELSE Blank
      <4> HIDE DEF k
      <4> QED
        BY <2>4, <3>1
    <3> HIDE DEF k
    <3>3. CASE y < Height - 1
      <4>0. x + 1 \in 1 .. Width
        BY <1>1
      <4>1. y + 1 \in 0 .. Height - 1 /\ y + 1 <= v.y
        BY <1>1, <2>7, <3>3
      <4>2. v.cell[x + Width * (y + 1)] = p.row[t + (y + 1) + 1][x + 1]
        BY <1>4, <4>1
      <4>3. Top(q) + y + 1 = t + (y + 1) + 1 /\ t + (y + 1) + 1 \in 1 .. n
        BY <1>1, <2>7, <3>3
      <4>4. q.row[Top(q) + y + 1][x + 1] = p.row[t + (y + 1) + 1][x + 1]
        BY <1>2, <4>0, <4>3
      <4>5. c[k] = p.row[t + (y + 1) + 1][x + 1] /\ y <= w.y
        BY <1>1, <2>5, <2>7, <3>2, <3>3, <4>2
      <4> QED
        BY <2>5, <4>4, <4>5 DEF k
    <3>4. CASE ~(y < Height - 1)
      <4>1. y = Height - 1 /\ Top(q) + y + 1 = n + 1
        BY <1>1, <2>7, <3>4
      <4>2. q.row[Top(q) + y + 1][x + 1] = Blank
        BY <1>2, <1>3, <4>1
      <4>3. c[k] = Blank
        BY <3>2, <3>4
      <4> QED
        BY <2>5, <4>2, <4>3 DEF k
    <3> QED
      BY <3>3, <3>4
  <2>9. w.x = q.x /\ w.y = Len(q.row) - Top(q) - 1
    BY <1>1, <1>2, <2>5, <2>7
  <2> QED
    BY <1>2, <2>6, <2>8, <2>9 DEF Alike, q, w
<1>7. CASE v.y # LastRow
  <2>1. w = [[v EXCEPT !.x = 0] EXCEPT !.y = @ + 1]
    BY <1>7 DEF vga_new_line
  <2> DEFINE u == [v EXCEPT !.x = 0]
  <2>2. u = [cell |-> v.cell, x |-> 0, y |-> v.y]
    BY <1>4, VgaX
  <2> HIDE DEF w, u
  <2>3. w.cell = v.cell /\ w.x = 0 /\ w.y = v.y + 1 /\ w = [cell |-> w.cell, x |-> w.x, y |-> w.y]
    BY <2>1, <2>2 DEF u
  <2>4. Screen(w)
    BY <1>4, <2>3 DEF Screen
  <2>5. Top(q) = 0 /\ t = 0 /\ n < Height /\ v.y = n - 1
    BY <1>1, <1>5, <1>7
  <2>6. ASSUME NEW y \in 0 .. Height - 1, NEW x \in 0 .. Width - 1
        PROVE  w.cell[x + Width * y] = IF y <= w.y THEN q.row[Top(q) + y + 1][x + 1] ELSE Blank
    <3>1. w.cell[x + Width * y] = IF y <= v.y THEN p.row[t + y + 1][x + 1] ELSE Blank
      BY <1>4, <2>3
    <3>2. CASE y <= v.y
      <4>0. x + 1 \in 1 .. Width
        BY <1>1
      <4>1. t + y + 1 \in 1 .. n /\ Top(q) + y + 1 = t + y + 1 /\ y <= w.y
        BY <1>1, <2>3, <2>5, <3>2
      <4>2. q.row[Top(q) + y + 1][x + 1] = p.row[t + y + 1][x + 1]
        BY <1>2, <4>0, <4>1
      <4> QED
        BY <3>1, <3>2, <4>1, <4>2
    <3>3. CASE ~(y <= v.y)
      <4>1. y <= w.y => Top(q) + y + 1 = n + 1
        BY <1>1, <2>3, <2>5, <3>3
      <4>2. y <= w.y => q.row[Top(q) + y + 1][x + 1] = Blank
        BY <1>2, <1>3, <4>1
      <4> QED
        BY <3>1, <3>3, <4>2
    <3> QED
      BY <3>2, <3>3
  <2>7. w.x = q.x /\ w.y = Len(q.row) - Top(q) - 1
    BY <1>1, <1>2, <2>3, <2>5
  <2> QED
    BY <1>2, <2>4, <2>6, <2>7 DEF Alike, q, w
<1> QED
  BY <1>6, <1>7

LEMMA NewLineAlike ==
    ASSUME NEW p, NEW v, Alike(v, p), LastRow = Height - 1
    PROVE  Alike(vga_new_line(v), Feed(p))
<1>1. Covers(p, p)
  BY DEF Alike, Paper, Roll, Covers
<1> QED
  BY <1>1, FeedAlike

\* A cell of the cursor's row is written, on the screen and on the paper.
Cell(v, x, c) == [cell |-> [v.cell EXCEPT ![x + Width * v.y] = c], x |-> x + 1, y |-> v.y]
Ink(p, x, c) == [row |-> [p.row EXCEPT ![Len(p.row)] = [@ EXCEPT ![x + 1] = c]], x |-> x + 1]

LEMMA InkPaper ==
    ASSUME NEW p, Paper(p), NEW x \in 0 .. Width - 1, NEW c
    PROVE  /\ Paper(Ink(p, x, c)) /\ Ink(p, x, c).x = x + 1 /\ Len(Ink(p, x, c).row) = Len(p.row)
           /\ \A k \in 1 .. Len(p.row), j \in 1 .. Width :
                 Ink(p, x, c).row[k][j] = IF k = Len(p.row) /\ j = x + 1 THEN c ELSE p.row[k][j]
<1> DEFINE q == Ink(p, x, c)
           n == Len(p.row)
           r == [p.row[n] EXCEPT ![x + 1] = c]
<1>1. PICK S : p.row \in Seq(S)
  BY DEF Paper
<1>2. n \in Nat \ {0} /\ (\A k \in 1 .. n : Row(p.row[k])) /\ RowOf(p.row[n], Width)
  BY <1>1 DEF Paper
<1>3. q.row = [p.row EXCEPT ![n] = r] /\ q.x = x + 1 /\ q = [row |-> q.row, x |-> q.x]
  BY DEF Ink
<1>4. x + 1 \in 1 .. Width /\ x + 1 \in 0 .. Width
  BY ConsoleAssumption
<1>5. RowOf(r, Width) /\ \A j \in 1 .. Width : r[j] = IF j = x + 1 THEN c ELSE p.row[n][j]
  <2>1. RowOf(p.row[n], Width)
    BY <1>2
  <2> DEFINE o == p.row[n]
  <2>2. DOMAIN o = 1 .. Width
    BY <2>1 DEF RowOf
  <2> HIDE DEF o
  <2>3. [o EXCEPT ![x + 1] = c] = [j \in 1 .. Width |-> IF j = x + 1 THEN c ELSE o[j]]
    BY <2>2
  <2>4. r = [j \in 1 .. Width |-> IF j = x + 1 THEN c ELSE o[j]]
    BY <2>3 DEF o
  <2>5. \A j \in 1 .. Width : r[j] = IF j = x + 1 THEN c ELSE o[j]
    BY <2>4
  <2>6. r = [j \in 1 .. Width |-> r[j]]
    BY <2>4
  <2> QED
    BY <2>5, <2>6 DEF RowOf, o
<1> HIDE DEF q, n, r
<1>6. q.row \in Seq(S \cup {r}) /\ Len(q.row) = n /\ \A k \in 1 .. n : q.row[k] = IF k = n THEN r ELSE p.row[k]
  <2>1. p.row \in Seq(S \cup {r}) /\ r \in S \cup {r} /\ n = Len(p.row)
    BY <1>1 DEF n
  <2> QED
    BY <1>2, <1>3, <2>1
<1>7. \A k \in 1 .. Len(q.row) : Row(q.row[k])
  BY <1>2, <1>5, <1>6 DEF Row
<1>8. Len(q.row) >= 1 /\ q.row[Len(q.row)] = r
  BY <1>2, <1>6
<1>9. Paper(q)
  BY <1>3, <1>4, <1>5, <1>6, <1>7, <1>8 DEF Paper
<1>10. ASSUME NEW k \in 1 .. n, NEW j \in 1 .. Width
       PROVE  q.row[k][j] = IF k = n /\ j = x + 1 THEN c ELSE p.row[k][j]
  BY <1>5, <1>6
<1> QED
  BY <1>3, <1>6, <1>9, <1>10 DEF q, n

LEMMA CellAlike ==
    ASSUME NEW p, NEW v, Alike(v, p), LastRow = Height - 1, NEW x \in 0 .. Width - 1, NEW c
    PROVE  Alike(Cell(v, x, c), Ink(p, x, c))
<1> DEFINE n == Len(p.row)
           t == Top(p)
           q == Ink(p, x, c)
           w == Cell(v, x, c)
<1>1. /\ n \in Nat \ {0} /\ t \in Nat /\ v.y \in 0 .. Height - 1 /\ t + v.y + 1 = n
      /\ Width \in Nat \ {0} /\ Height \in Nat \ {0}
  BY LastRowOf
<1>2. Paper(q) /\ q.x = x + 1 /\ Len(q.row) = n
      /\ \A k \in 1 .. n, j \in 1 .. Width :
            q.row[k][j] = IF k = n /\ j = x + 1 THEN c ELSE p.row[k][j]
  BY InkPaper DEF Alike
<1>3. Screen(v) /\ \A y \in 0 .. Height - 1, a \in 0 .. Width - 1 :
          v.cell[a + Width * y] = IF y <= v.y THEN p.row[t + y + 1][a + 1] ELSE Blank
  BY DEF Alike
<1>4. Top(q) = t
  BY <1>2 DEF Top
<1> DEFINE at == x + Width * v.y
           N == Width * Height - 1
           d == [v.cell EXCEPT ![at] = c]
<1>5. w.cell = d /\ w.x = x + 1 /\ w.y = v.y /\ w = [cell |-> w.cell, x |-> w.x, y |-> w.y]
  BY DEF Cell
<1> HIDE DEF n, t, q, w
<1>6. at \in 0 .. N /\ DOMAIN v.cell = 0 .. N
  <2>1. at \in 0 .. N
    BY <1>1, CellPlace
  <2> QED
    BY <1>3, <2>1 DEF Screen
<1> HIDE DEF at, N
<1>7. d = [k \in 0 .. N |-> d[k]] /\ \A k \in 0 .. N : d[k] = IF k = at THEN c ELSE v.cell[k]
  BY <1>6
<1> HIDE DEF d
<1>8. Screen(w)
  BY <1>5, <1>7 DEF Screen, N
<1>9. ASSUME NEW y \in 0 .. Height - 1, NEW a \in 0 .. Width - 1
      PROVE  w.cell[a + Width * y] = IF y <= w.y THEN q.row[Top(q) + y + 1][a + 1] ELSE Blank
  <2> DEFINE k == a + Width * y
  <2>1. k \in 0 .. N /\ (k = at <=> (a = x /\ y = v.y))
    <3>1. k \in 0 .. N
      BY <1>1, CellPlace DEF N
    <3>2. k = at => a = x /\ y = v.y
      BY <1>1, CellPlace DEF at
    <3> QED
      BY <3>1, <3>2 DEF at
  <2>2. v.cell[k] = IF y <= v.y THEN p.row[t + y + 1][a + 1] ELSE Blank
    BY <1>3
  <2> HIDE DEF k
  <2>3. d[k] = IF a = x /\ y = v.y THEN c ELSE v.cell[k]
    BY <1>7, <2>1
  <2>4. a + 1 \in 1 .. Width /\ (a + 1 = x + 1 <=> a = x)
    BY <1>1
  <2>5. y <= v.y => t + y + 1 \in 1 .. n /\ (t + y + 1 = n <=> y = v.y)
    BY <1>1
  <2>6. y <= v.y => q.row[t + y + 1][a + 1] = IF a = x /\ y = v.y THEN c ELSE p.row[t + y + 1][a + 1]
    BY <1>2, <2>4, <2>5
  <2>7. v.y <= v.y
    BY <1>1
  <2>8. d[k] = IF y <= v.y THEN q.row[t + y + 1][a + 1] ELSE Blank
    BY <2>2, <2>3, <2>6, <2>7
  <2> QED
    BY <1>4, <1>5, <2>8 DEF k
<1>10. w.x = q.x /\ w.y = Len(q.row) - Top(q) - 1
  BY <1>1, <1>2, <1>4, <1>5
<1> QED
  BY <1>2, <1>8, <1>9, <1>10 DEF Alike, q, w

\* The cursor goes along its row.
LEMMA MoveAlike ==
    ASSUME NEW p, NEW v, Alike(v, p), NEW x \in 0 .. Width
    PROVE  /\ Alike([v EXCEPT !.x = x], [p EXCEPT !.x = x])
           /\ [p EXCEPT !.x = x] = [row |-> p.row, x |-> x]
<1> DEFINE w == [v EXCEPT !.x = x]
           q == [p EXCEPT !.x = x]
<1>1. w = [cell |-> v.cell, x |-> x, y |-> v.y]
  BY VgaX DEF Alike
<1>2. q = [row |-> p.row, x |-> x]
  <2>1. PICK r, a : p = [row |-> r, x |-> a]
    BY DEF Alike, Paper
  <2> QED
    BY <2>1
<1> HIDE DEF w, q
<1>3. q.row = p.row /\ q.x = x /\ Top(q) = Top(p) /\ Paper(q)
  BY <1>2 DEF Alike, Paper, Top
<1>4. w.cell = v.cell /\ w.x = x /\ w.y = v.y /\ Screen(w)
  BY <1>1 DEF Alike, Screen
<1>5. Alike(w, q)
  BY <1>3, <1>4 DEF Alike
<1> QED
  BY <1>2, <1>5 DEF w, q

LEMMA GlyphAlike ==
    ASSUME NEW p, NEW v, Alike(v, p), LastRow = Height - 1, NEW c
    PROVE  Alike(Glyph(v, c), Onto(p, c))
<1>1. v.x = p.x /\ v.x \in 0 .. Width /\ Width \in Nat
  BY LastRowOf DEF Alike
<1>2. CASE v.x = Width
  <2>1. Glyph(v, c) = vga_new_line(v) /\ Onto(p, c) = Feed(Margin(p, c))
    BY <1>1, <1>2 DEF Glyph, Onto, Margin
  <2>2. Covers(Margin(p, c), p)
    BY MarginRoll DEF Alike, Covers
  <2> QED
    BY <2>1, <2>2, FeedAlike
<1>3. CASE v.x # Width
  <2>1. PICK x : x = v.x
    OBVIOUS
  <2>2. x \in 0 .. Width - 1
    BY <1>1, <1>3, <2>1
  <2>3. Glyph(v, c) = Cell(v, x, c)
    <3>1. PICK l, a, b : v = [cell |-> l, x |-> a, y |-> b]
      BY DEF Alike, Screen
    <3> DEFINE m == [l EXCEPT ![a + Width * b] = c]
    <3>2. Glyph(v, c) = [[v EXCEPT !.cell = m] EXCEPT !.x = @ + 1]
      BY <1>3, <3>1 DEF Glyph
    <3>3. Cell(v, x, c) = [cell |-> m, x |-> a + 1, y |-> b]
      BY <2>1, <3>1 DEF Cell
    <3> HIDE DEF m
    <3>4. [v EXCEPT !.cell = m] = [cell |-> m, x |-> a, y |-> b]
      BY <3>1
    <3>5. [[cell |-> m, x |-> a, y |-> b] EXCEPT !.x = @ + 1] = [cell |-> m, x |-> a + 1, y |-> b]
      OBVIOUS
    <3> QED
      BY <3>2, <3>3, <3>4, <3>5
  <2>4. Onto(p, c) = Ink(p, x, c)
    <3>1. PICK r, a : p = [row |-> r, x |-> a]
      BY DEF Alike, Paper
    <3> DEFINE m == [r EXCEPT ![Len(r)] = [@ EXCEPT ![a + 1] = c]]
    <3>2. Onto(p, c) = [[p EXCEPT !.row = m] EXCEPT !.x = @ + 1]
      BY <1>1, <1>3, <3>1 DEF Onto
    <3>3. Ink(p, x, c) = [row |-> m, x |-> a + 1]
      BY <1>1, <2>1, <3>1 DEF Ink
    <3> HIDE DEF m
    <3>4. [p EXCEPT !.row = m] = [row |-> m, x |-> a]
      BY <3>1
    <3>5. [[row |-> m, x |-> a] EXCEPT !.x = @ + 1] = [row |-> m, x |-> a + 1]
      OBVIOUS
    <3> QED
      BY <3>2, <3>3, <3>4, <3>5
  <2> QED
    BY <2>2, <2>3, <2>4, CellAlike
<1> QED
  BY <1>2, <1>3

\* A space over the character before the cursor.
LEMMA BackspaceAlike ==
    ASSUME NEW p, NEW v, Alike(v, p), LastRow = Height - 1, v.x > 0
    PROVE  Alike(Glyph([v EXCEPT !.x = @ - 1], Blank), [p EXCEPT !.row[Len(p.row)][p.x] = Blank])
<1>1. v.x = p.x /\ v.x \in 0 .. Width /\ Width \in Nat \ {0}
  BY LastRowOf DEF Alike
<1>2. PICK x : x = v.x - 1
  OBVIOUS
<1>3. x \in 0 .. Width /\ x # Width /\ x + 1 = p.x
  BY <1>1, <1>2
<1> DEFINE u == [v EXCEPT !.x = x]
           q == [p EXCEPT !.x = x]
<1>4. Alike(u, q) /\ q = [row |-> p.row, x |-> x]
  BY <1>3, MoveAlike
<1>5. u = [v EXCEPT !.x = @ - 1]
  BY <1>2
<1> HIDE DEF u, q
<1>6. Alike(Glyph(u, Blank), Onto(q, Blank))
  BY <1>4, GlyphAlike
<1>7. Onto(q, Blank) = [p EXCEPT !.row[Len(p.row)][p.x] = Blank]
  <2>1. PICK r, a : p = [row |-> r, x |-> a]
    BY DEF Alike, Paper
  <2> DEFINE m == [r EXCEPT ![Len(r)] = [@ EXCEPT ![a] = Blank]]
  <2>2. q = [row |-> r, x |-> x] /\ a = x + 1
    BY <1>3, <1>4, <2>1
  <2>3. Onto(q, Blank) = [[q EXCEPT !.row = m] EXCEPT !.x = @ + 1]
    BY <1>3, <2>2 DEF Onto
  <2>4. [p EXCEPT !.row[Len(p.row)][p.x] = Blank] = [p EXCEPT !.row = m]
    BY <2>1
  <2> HIDE DEF m
  <2>5. [q EXCEPT !.row = m] = [row |-> m, x |-> x]
    BY <2>2
  <2>6. [[row |-> m, x |-> x] EXCEPT !.x = @ + 1] = [row |-> m, x |-> a]
    BY <2>2
  <2>7. [p EXCEPT !.row = m] = [row |-> m, x |-> a]
    BY <2>1
  <2> QED
    BY <2>3, <2>4, <2>5, <2>6, <2>7
<1> QED
  BY <1>5, <1>6, <1>7

\* n spaces, on the screen and on the paper.
Blanks(v, n, g) == g = [k \in 0 .. n |-> IF k = 0 THEN v ELSE Glyph(g[k - 1], Blank)]
PaperBlanks(p, n, g) == g = [k \in 0 .. n |-> IF k = 0 THEN p ELSE Onto(g[k - 1], Blank)]

LEMMA BlanksExist ==
    ASSUME NEW v, NEW p, NEW n \in Nat
    PROVE  (\E g : Blanks(v, n, g)) /\ (\E h : PaperBlanks(p, n, h))
<1> DEFINE S == {m \in Nat : ~((\E g : Blanks(v, m, g)) /\ (\E h : PaperBlanks(p, m, h)))}
<1>1. SUFFICES ASSUME S # {} PROVE FALSE
  OBVIOUS
<1>2. PICK m \in S : \A y \in S : m <= y
  BY <1>1, Smallest
<1>3. m # 0
  <2>1. Blanks(v, 0, [k \in 0 .. 0 |-> v]) /\ PaperBlanks(p, 0, [k \in 0 .. 0 |-> p])
    BY DEF Blanks, PaperBlanks
  <2> QED
    BY <1>2, <2>1
<1>4. m \in Nat /\ m - 1 \in Nat /\ m - 1 \notin S
  BY <1>2, <1>3
<1>5. PICK g, h : Blanks(v, m - 1, g) /\ PaperBlanks(p, m - 1, h)
  BY <1>4
<1> HIDE DEF S
<1> DEFINE a == [k \in 0 .. m |-> IF k = m THEN Glyph(g[m - 1], Blank) ELSE g[k]]
           b == [k \in 0 .. m |-> IF k = m THEN Onto(h[m - 1], Blank) ELSE h[k]]
<1>6. \A k \in 0 .. m - 1 : /\ g[k] = IF k = 0 THEN v ELSE Glyph(g[k - 1], Blank)
                            /\ h[k] = IF k = 0 THEN p ELSE Onto(h[k - 1], Blank)
  BY <1>5 DEF Blanks, PaperBlanks
<1>7. \A k \in 0 .. m : /\ k # m => k \in 0 .. m - 1
                        /\ k # 0 => k - 1 \in 0 .. m - 1 /\ k - 1 # m
                        /\ k - 1 \in 0 .. m \/ k = 0
  BY <1>4
<1>8. \A k \in 0 .. m : /\ a[k] = IF k = m THEN Glyph(g[m - 1], Blank) ELSE g[k]
                        /\ b[k] = IF k = m THEN Onto(h[m - 1], Blank) ELSE h[k]
  OBVIOUS
<1>9. a = [k \in 0 .. m |-> a[k]] /\ b = [k \in 0 .. m |-> b[k]]
  OBVIOUS
<1> HIDE DEF a, b
<1>10. \A k \in 0 .. m : /\ a[k] = IF k = 0 THEN v ELSE Glyph(a[k - 1], Blank)
                         /\ b[k] = IF k = 0 THEN p ELSE Onto(b[k - 1], Blank)
  BY <1>3, <1>6, <1>7, <1>8
<1>11. Blanks(v, m, a) /\ PaperBlanks(p, m, b)
  BY <1>9, <1>10 DEF Blanks, PaperBlanks
<1> QED
  BY <1>2, <1>11 DEF S

LEMMA BlanksAlike ==
    ASSUME NEW p, NEW v, Alike(v, p), LastRow = Height - 1, NEW n \in Nat
    PROVE  Alike(Glyphs(v, n), Ontos(p, n))
<1> DEFINE g == CHOOSE d : d = [k \in 0 .. n |-> IF k = 0 THEN v ELSE Glyph(d[k - 1], Blank)]
           h == CHOOSE e : e = [k \in 0 .. n |-> IF k = 0 THEN p ELSE Onto(e[k - 1], Blank)]
<1>1. Blanks(v, n, g) /\ PaperBlanks(p, n, h)
  <2>1. \E d : d = [k \in 0 .. n |-> IF k = 0 THEN v ELSE Glyph(d[k - 1], Blank)]
    BY BlanksExist DEF Blanks
  <2>2. Blanks(v, n, g)
    BY <2>1 DEF Blanks
  <2>3. \E e : e = [k \in 0 .. n |-> IF k = 0 THEN p ELSE Onto(e[k - 1], Blank)]
    BY BlanksExist DEF PaperBlanks
  <2>4. PaperBlanks(p, n, h)
    BY <2>3 DEF PaperBlanks
  <2> QED
    BY <2>2, <2>4
<1>2. Glyphs(v, n) = g[n] /\ Ontos(p, n) = h[n]
  BY DEF Glyphs, Ontos
<1> HIDE DEF g, h
<1>3. \A k \in 0 .. n : /\ g[k] = IF k = 0 THEN v ELSE Glyph(g[k - 1], Blank)
                        /\ h[k] = IF k = 0 THEN p ELSE Onto(h[k - 1], Blank)
  BY <1>1 DEF Blanks, PaperBlanks
<1> DEFINE S == {k \in 0 .. n : ~Alike(g[k], h[k])}
<1>4. SUFFICES ASSUME S # {} PROVE FALSE
  BY <1>2
<1>5. PICK m \in S : \A y \in S : m <= y
  <2>1. S \subseteq Nat
    OBVIOUS
  <2> HIDE DEF S
  <2> QED
    BY <1>4, <2>1, Smallest
<1>6. m \in 0 .. n /\ ~Alike(g[m], h[m])
  BY <1>5
<1>7. m # 0
  BY <1>3, <1>6
<1>8. m - 1 \in 0 .. n /\ m - 1 \notin S
  BY <1>5, <1>6, <1>7
<1>9. Alike(g[m - 1], h[m - 1])
  BY <1>8
<1>10. Alike(Glyph(g[m - 1], Blank), Onto(h[m - 1], Blank))
  BY <1>9, GlyphAlike
<1> QED
  BY <1>3, <1>6, <1>7, <1>10

LEMMA PrintCharAlike ==
    ASSUME NEW p, NEW v, Alike(v, p), LastRow = Height - 1, NEW c
    PROVE  Alike(PrintChar(v, c), WriteChar(p, c))
<1>1. v.x = p.x /\ v.x \in 0 .. Width /\ 0 \in 0 .. Width
  BY LastRowOf DEF Alike
<1>2. CASE c = "\n"
  <2>1. PrintChar(v, c) = vga_new_line(v) /\ WriteChar(p, c) = Feed(p)
    BY <1>2 DEF PrintChar, WriteChar, BACKSPACE
  <2> QED
    BY <2>1, NewLineAlike
<1>3. CASE c = "\r"
  <2>1. PrintChar(v, c) = [v EXCEPT !.x = 0] /\ WriteChar(p, c) = [p EXCEPT !.x = 0]
    BY <1>3 DEF PrintChar, WriteChar, BACKSPACE
  <2>2. Alike([v EXCEPT !.x = 0], [p EXCEPT !.x = 0])
    BY <1>1, MoveAlike
  <2> QED
    BY <2>1, <2>2
<1>4. CASE c = "\f"
  <2>1. PrintChar(v, c) = vga_clear /\ WriteChar(p, c) = NoPage
    BY <1>4 DEF PrintChar, WriteChar, BACKSPACE
  <2> QED
    BY <2>1, ClearAlike
<1>5. CASE c = BACKSPACE /\ v.x > 0
  <2>1. PrintChar(v, c) = Glyph([v EXCEPT !.x = @ - 1], Blank)
    BY <1>5 DEF PrintChar, BACKSPACE
  <2>2. WriteChar(p, c) = [p EXCEPT !.row[Len(p.row)][p.x] = Blank]
    BY <1>1, <1>5 DEF WriteChar, BACKSPACE
  <2>3. Alike(Glyph([v EXCEPT !.x = @ - 1], Blank), [p EXCEPT !.row[Len(p.row)][p.x] = Blank])
    BY <1>5, BackspaceAlike
  <2> QED
    BY <2>1, <2>2, <2>3
<1>6. CASE c = "\t"
  <2>1. PrintChar(v, c) = Glyphs(v, Tab) /\ WriteChar(p, c) = Ontos(p, Tab)
    BY <1>6 DEF PrintChar, WriteChar, BACKSPACE
  <2> QED
    BY <2>1, BlanksAlike, ConsoleAssumption
<1>7. CASE c \notin {"\n", "\r", "\f", "\t"} /\ ~(c = BACKSPACE /\ v.x > 0)
  <2>1. PrintChar(v, c) = Glyph(v, c)
    BY <1>7 DEF PrintChar
  <2>2. WriteChar(p, c) = Onto(p, c)
    BY <1>1, <1>7 DEF WriteChar
  <2> QED
    BY <2>1, <2>2, GlyphAlike
<1> QED
  BY <1>2, <1>3, <1>4, <1>5, <1>6, <1>7

\* The first n characters of a text, on the screen and on the paper.
Prints(v, str, n, g) == g = [k \in 0 .. n |-> IF k = 0 THEN v ELSE PrintChar(g[k - 1], str[k])]
Writes(p, str, n, g) == g = [k \in 0 .. n |-> IF k = 0 THEN p ELSE WriteChar(g[k - 1], str[k])]

LEMMA PrintsExist ==
    ASSUME NEW v, NEW p, NEW str, NEW n \in Nat
    PROVE  (\E g : Prints(v, str, n, g)) /\ (\E h : Writes(p, str, n, h))
<1> DEFINE S == {m \in Nat : ~((\E g : Prints(v, str, m, g)) /\ (\E h : Writes(p, str, m, h)))}
<1>1. SUFFICES ASSUME S # {} PROVE FALSE
  OBVIOUS
<1>2. PICK m \in S : \A y \in S : m <= y
  BY <1>1, Smallest
<1>3. m # 0
  <2>1. Prints(v, str, 0, [k \in 0 .. 0 |-> v]) /\ Writes(p, str, 0, [k \in 0 .. 0 |-> p])
    BY DEF Prints, Writes
  <2> QED
    BY <1>2, <2>1
<1>4. m \in Nat /\ m - 1 \in Nat /\ m - 1 \notin S
  BY <1>2, <1>3
<1>5. PICK g, h : Prints(v, str, m - 1, g) /\ Writes(p, str, m - 1, h)
  BY <1>4
<1> HIDE DEF S
<1> DEFINE a == [k \in 0 .. m |-> IF k = m THEN PrintChar(g[m - 1], str[m]) ELSE g[k]]
           b == [k \in 0 .. m |-> IF k = m THEN WriteChar(h[m - 1], str[m]) ELSE h[k]]
<1>6. \A k \in 0 .. m - 1 : /\ g[k] = IF k = 0 THEN v ELSE PrintChar(g[k - 1], str[k])
                            /\ h[k] = IF k = 0 THEN p ELSE WriteChar(h[k - 1], str[k])
  BY <1>5 DEF Prints, Writes
<1>7. \A k \in 0 .. m : /\ k # m => k \in 0 .. m - 1
                        /\ k # 0 => k - 1 \in 0 .. m - 1 /\ k - 1 # m
                        /\ k - 1 \in 0 .. m \/ k = 0
  BY <1>4
<1>8. \A k \in 0 .. m : /\ a[k] = IF k = m THEN PrintChar(g[m - 1], str[m]) ELSE g[k]
                        /\ b[k] = IF k = m THEN WriteChar(h[m - 1], str[m]) ELSE h[k]
  OBVIOUS
<1>9. a = [k \in 0 .. m |-> a[k]] /\ b = [k \in 0 .. m |-> b[k]]
  OBVIOUS
<1> HIDE DEF a, b
<1>10. \A k \in 0 .. m : /\ a[k] = IF k = 0 THEN v ELSE PrintChar(a[k - 1], str[k])
                         /\ b[k] = IF k = 0 THEN p ELSE WriteChar(b[k - 1], str[k])
  BY <1>3, <1>6, <1>7, <1>8
<1>11. Prints(v, str, m, a) /\ Writes(p, str, m, b)
  BY <1>9, <1>10 DEF Prints, Writes
<1> QED
  BY <1>2, <1>11 DEF S

\* Whatever is printed, the screen stays the end of the paper.
LEMMA PrintAlike ==
    ASSUME NEW p, NEW v, Alike(v, p), LastRow = Height - 1, NEW str, Len(str) \in Nat
    PROVE  Alike(vga_print(v, str), Write(p, str))
<1> DEFINE n == Len(str)
           g == CHOOSE d : d = [k \in 0 .. n |-> IF k = 0 THEN v ELSE PrintChar(d[k - 1], str[k])]
           h == CHOOSE e : e = [k \in 0 .. n |-> IF k = 0 THEN p ELSE WriteChar(e[k - 1], str[k])]
<1>1. Prints(v, str, n, g) /\ Writes(p, str, n, h)
  <2>1. PICK d, e : Prints(v, str, n, d) /\ Writes(p, str, n, e)
    BY PrintsExist
  <2>2. \E a : a = [k \in 0 .. n |-> IF k = 0 THEN v ELSE PrintChar(a[k - 1], str[k])]
    BY <2>1 DEF Prints
  <2>3. Prints(v, str, n, g)
    BY <2>2 DEF Prints
  <2>4. \E a : a = [k \in 0 .. n |-> IF k = 0 THEN p ELSE WriteChar(a[k - 1], str[k])]
    BY <2>1 DEF Writes
  <2>5. Writes(p, str, n, h)
    BY <2>4 DEF Writes
  <2> QED
    BY <2>3, <2>5
<1>2. vga_print(v, str) = g[n] /\ Write(p, str) = h[n]
  BY DEF vga_print, Write
<1> HIDE DEF g, h
<1>3. \A k \in 0 .. n : /\ g[k] = IF k = 0 THEN v ELSE PrintChar(g[k - 1], str[k])
                        /\ h[k] = IF k = 0 THEN p ELSE WriteChar(h[k - 1], str[k])
  BY <1>1 DEF Prints, Writes
<1> DEFINE S == {k \in 0 .. n : ~Alike(g[k], h[k])}
<1>4. SUFFICES ASSUME S # {} PROVE FALSE
  BY <1>2
<1>5. PICK m \in S : \A y \in S : m <= y
  <2>1. S \subseteq Nat
    OBVIOUS
  <2> HIDE DEF S
  <2> QED
    BY <1>4, <2>1, Smallest
<1>6. m \in 0 .. n /\ ~Alike(g[m], h[m])
  BY <1>5
<1>7. m # 0
  BY <1>3, <1>6
<1>8. m - 1 \in 0 .. n /\ m - 1 \notin S
  BY <1>5, <1>6, <1>7
<1>9. Alike(g[m - 1], h[m - 1])
  BY <1>8
<1>10. Alike(PrintChar(g[m - 1], str[m]), WriteChar(h[m - 1], str[m]))
  BY <1>9, PrintCharAlike
<1> QED
  BY <1>3, <1>6, <1>7, <1>10

LEMMA ShowsTail ==
    ASSUME Alike(vga, page)
    PROVE  ScreenShowsTail
<1>1. Width \in Nat
  BY ConsoleAssumption
<1>2. \A r : \A l \in Nat : RowOf(r, l) => Len(r) = l
  BY DEF RowOf
<1> DEFINE n == Len(page.row)
<1>3. n \in Nat /\ n >= 1 /\ (\A k \in 1 .. n : Row(page.row[k])) /\ RowOf(page.row[n], Width)
  BY DEF Alike, Paper
<1> HIDE DEF n
<1>4. ASSUME NEW k \in 1 .. n
      PROVE  Len(page.row[k]) <= IF k < n THEN Width + 1 ELSE Width
  <2>1. CASE k = n
    <3>1. Len(page.row[k]) = Width
      BY <1>1, <1>2, <1>3, <2>1
    <3> QED
      BY <1>1, <1>3, <2>1, <3>1
  <2>2. CASE k # n
    <3>1. PICK l \in {Width, Width + 1} : RowOf(page.row[k], l)
      BY <1>3 DEF Row
    <3>2. Len(page.row[k]) = l /\ l \in Nat
      BY <1>1, <1>2, <3>1
    <3> QED
      BY <1>1, <1>3, <2>2, <3>1, <3>2
  <2> QED
    BY <2>1, <2>2
<1> QED
  BY <1>4 DEF Alike, Top, ScreenShowsTail, n

Shows == scene \in Scenes /\ Alike(vga, page)

LEMMA ShowsStep ==
    ASSUME Shows, [KstdioNext]_fileVars, LastRow = Height - 1
    PROVE  Shows'
<1>1. scene' = scene
  BY DEF KstdioNext, fileVars
<1>2. CASE UNCHANGED consoleVars
  <2>1. vga' = vga /\ page' = page
    BY <1>2 DEF consoleVars
  <2> QED
    BY <1>1, <2>1 DEF Shows
<1>3. ASSUME NEW str, IsString(str), Shown(str)
      PROVE  Shows'
  <2>1. Len(str) \in Nat
    BY <1>3 DEF IsString
  <2>2. Alike(vga_print(vga, str), Write(page, str))
    BY <2>1, PrintAlike DEF Shows
  <2> QED
    BY <1>1, <1>3, <2>2 DEF Shown, Shows
<1>4. CASE \E f \in Files, bytes \in scene.data : dev_write(f, bytes)
  <2>1. PICK bytes \in scene.data : Shown(Echo(bytes))
    BY <1>4 DEF dev_write
  <2>2. PICK str : str = Echo(bytes)
    OBVIOUS
  <2>3. IsString(str)
    BY <2>2, StringsAssumption DEF Shows
  <2> QED
    BY <1>3, <2>1, <2>2, <2>3
<1>5. CASE \E items \in scene.print : kprintf(items)
  <2>1. PICK items \in scene.print : kprintf(items)
    BY <1>5
  <2>2. PICK str : str = Printed(items)
    OBVIOUS
  <2>3. Shown(str)
    BY <2>1, <2>2 DEF kprintf
  <2>4. IsString(str)
    BY <2>2, StringsAssumption DEF Shows
  <2> QED
    BY <1>3, <2>3, <2>4
<1> QED
  BY <1>2, <1>4, <1>5 DEF KstdioNext, fileVars

-----------------------------------------------------------------------------
(* Theorems *)

\* The invariant of the files: the tree that tarfs_create builds has only vnodes
\* that are there, with sizes an int can count; every open file is on a vnode of
\* the archive, a device or a file of /tmp, with its cursor on one of its bytes or
\* at its end; and a file of /tmp has the bytes and the size of what was written.
THEOREM FilesInvariant ==
    ASSUME Small
    PROVE  KstdioSpec => []IInv
<1>1. KstdioInit => IInv
  BY InitIInv
<1>2. IInv /\ [KstdioNext]_fileVars => IInv'
  BY NextIInv
<1> QED
  BY <1>1, <1>2, PTL DEF KstdioSpec

\* Whatever calls went before, a transfer of tarfs.c or devfs.c lies within its
\* file and begins where the answers of the calls say, and a cursor is never
\* behind the end: for every archive and device whose sizes an int can count, every
\* length, and every position sought, in what has a byte.
THEOREM FilesReadInside ==
    ASSUME Small
    PROVE  KstdioSpec => []ReadsInside
<1>1. IInv => ReadsInside
  BY InvReadsInside
<1> QED
  BY <1>1, FilesInvariant, PTL

\* A file of /tmp holds what was written to it, through whichever open files and in
\* whichever order, and a read at the beginning delivers it.
THEOREM FilesTmpfsExact ==
    ASSUME Small
    PROVE  KstdioSpec => []TmpfsExact
<1>1. IInv => TmpfsExact
  BY InvTmpfsExact
<1> QED
  BY <1>1, FilesInvariant, PTL

\* Whatever is printed, and however often it wraps and scrolls, the screen shows the
\* columns of its last rows, with the cursor in the last of them, and all that was
\* printed is in the columns but for one character at most in the margin of each
\* row above the cursor's: for a screen of any size that scrolls at its last row, as
\* the kernel's does.
THEOREM ScreenTail ==
    ASSUME LastRow = Height - 1
    PROVE  KstdioSpec => []ScreenShowsTail
<1>1. KstdioInit => Shows
  BY ClearAlike DEF KstdioInit, ConsoleInit, Shows
<1>2. Shows /\ [KstdioNext]_fileVars => Shows'
  BY ShowsStep
<1>3. Shows => ScreenShowsTail
  BY ShowsTail DEF Shows
<1> QED
  BY <1>1, <1>2, <1>3, PTL DEF KstdioSpec
=============================================================================
