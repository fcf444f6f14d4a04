------------------------------ MODULE VfsProof ------------------------------
(***************************************************************************)
(* Proofs about the virtual file system (kernel/src/vfs/vfs.c, tmpfs.c and *)
(* devfs.c).                                                               *)
(*                                                                         *)
(* The invariant, IInv, says of the memory that links and mounts make a    *)
(* forest, on which every count is exact: Good.  Each function of vfs.c    *)
(* has a lemma that says how it changes the memory and the references from *)
(* outside of it.  The longest is UnrefOK, on vfs_unref, which may free a  *)
(* whole file system and leaves a forest all the same.                     *)
(***************************************************************************)
EXTENDS Vfs, FiniteSetTheorems, SequenceTheorems, WellFoundedInduction, TLAPS

-----------------------------------------------------------------------------
(* The invariant, as parts about the memory m and how often each vnode, ext,  *)
(* and each driver, own, is referred to from outside of it.                   *)

Shape(m) ==
    /\ m = [node |-> m.node, drv |-> m.drv]
    /\ m.node \in [Vnodes -> VnodeType \cup {None}]
    /\ m.drv \in [Fs -> DriverType \cup {None}]

\* vfs_root has no driver, and nothing else.
Root(m) ==
    /\ vfs_root \in Allocated(m)
    /\ m.node[vfs_root].fs = NoFs /\ m.node[vfs_root].refcount = 0 /\ m.node[vfs_root].child = <<>>
    /\ \A u \in Allocated(m) \ {vfs_root} : m.node[u].fs \in Fs

\* A link leads to a vnode of the same file system, and no other link leads there.
LinksOK(m) ==
    \A w \in Allocated(m) : \A k \in DOMAIN m.node[w].child :
        LET u == m.node[w].child[k].vnode
        IN  u \in Allocated(m) \ {vfs_root} /\ m.node[u].fs = m.node[w].fs
OneLink(m) ==
    \A u : \A w1, w2 \in Allocated(m) : \A k1 \in LinksAt(m, w1, u), k2 \in LinksAt(m, w2, u) :
        w1 = w2 /\ k1 = k2

\* Links do not go round.
Unlinked(m, S, u) == \A w \in S : LinksAt(m, w, u) = {}
NoRing(m) == \A S \in SUBSET Allocated(m) : S # {} => \E u \in S : Unlinked(m, S, u)

\* What is mounted is the root of a file system.
MountsOK(m) ==
    \A w \in Allocated(m) : LET u == m.node[w].mount IN
        u # None => /\ u \in Allocated(m) \ {vfs_root} /\ Unlinked(m, Allocated(m), u)
                    /\ <<m.node[w].fs, m.node[u].fs>> \in MountOrder

MountsOn(m, u) == {w \in Allocated(m) : m.node[w].mount = u}
Counted(m, ext) ==
    /\ ext \in [Vnodes -> Nat]
    /\ \A u \in Vnodes : ext[u] > 0 => u \in Allocated(m) \ {vfs_root}
    /\ \A u \in Allocated(m) \ {vfs_root} :
          /\ m.node[u].refcount > 0
          /\ m.node[u].refcount = Cardinality(LinksFrom(m, Allocated(m), u))
                                    + Cardinality(MountsOn(m, u)) + ext[u]

VnodesOf(m, f) == {u \in Allocated(m) : m.node[u].fs = f}
Driven(m, own) ==
    /\ own \in [Fs -> {0, 1}]
    /\ \A f \in Fs : IF m.drv[f] = None THEN VnodesOf(m, f) = {} /\ own[f] = 0
                     ELSE /\ m.drv[f].refcount = Cardinality(VnodesOf(m, f)) + own[f]
                          /\ m.drv[f].refcount > 0

\* One reference more, or less, from outside.
More(ext, v) == [ext EXCEPT ![v] = @ + 1]
Less(ext, v) == [ext EXCEPT ![v] = @ - 1]

Graph(m) == Shape(m) /\ Root(m) /\ LinksOK(m) /\ OneLink(m) /\ NoRing(m) /\ MountsOK(m)
Good(m, ext, own) == Graph(m) /\ Counted(m, ext) /\ Driven(m, own)

-----------------------------------------------------------------------------
(* Counting *)

\* A reference that comes and goes leaves the counts what they were.
LEMMA MoreLess ==
    ASSUME NEW ext \in [Vnodes -> Nat], NEW v \in Vnodes
    PROVE  More(ext, v) \in [Vnodes -> Nat] /\ Less(More(ext, v), v) = ext
<1>1. More(ext, v) \in [Vnodes -> Nat] /\ More(ext, v)[v] = ext[v] + 1
      /\ \A u \in Vnodes : u # v => More(ext, v)[u] = ext[u]
  BY DEF More
<1> DEFINE more == More(ext, v)
<1> HIDE DEF more
<1>2. [more EXCEPT ![v] = @ - 1] = ext
  <2>1. \A u \in Vnodes : [more EXCEPT ![v] = @ - 1][u] = ext[u]
    BY <1>1 DEF more
  <2>2. DOMAIN [more EXCEPT ![v] = @ - 1] = Vnodes
    BY <1>1 DEF more
  <2>3. [more EXCEPT ![v] = @ - 1] = [u \in Vnodes |-> [more EXCEPT ![v] = @ - 1][u]]
    BY <2>2
  <2>4. ext = [u \in Vnodes |-> ext[u]]
    OBVIOUS
  <2> QED
    BY <2>1, <2>3, <2>4
<1> QED
  BY <1>1, <1>2 DEF Less, more

\* The types of what is in a vnode.
LEMMA Fields ==
    ASSUME NEW m, Shape(m), NEW u \in Allocated(m)
    PROVE  /\ u \in Vnodes /\ m.node[u] \in VnodeType /\ m.node[u] # None
           /\ m.node[u].fs \in Fs \cup {NoFs} /\ m.node[u].refcount \in Nat
           /\ m.node[u].mount \in Vnodes \cup {None}
           /\ m.node[u].child \in Seq([name : Names, vnode : Vnodes])
  BY DEF Shape, Allocated, VnodeType

\* There are finitely many vnodes.
LEMMA Finite ==
    ASSUME NEW m, NEW S, S \subseteq Allocated(m)
    PROVE  IsFiniteSet(S) /\ Cardinality(S) \in Nat
<1>1. IsFiniteSet(Vnodes)
  BY VfsAssumption, FS_Interval DEF Vnodes
<1>2. S \in SUBSET Vnodes
  BY DEF Allocated
<1> QED
  BY <1>1, <1>2, FS_Subset, FS_CardinalityType

\* As each vnode has one link at most, its links from a set are none or one.
LEMMA LinkCount ==
    ASSUME NEW m, OneLink(m), NEW S, S \subseteq Allocated(m), NEW u
    PROVE  Cardinality(LinksFrom(m, S, u)) = IF Unlinked(m, S, u) THEN 0 ELSE 1
<1>1. \A x : x \in LinksFrom(m, S, u) <=> \E w \in S : \E k \in LinksAt(m, w, u) : x = <<w, k>>
  BY DEF LinksFrom
<1>2. CASE Unlinked(m, S, u)
  <2>1. LinksFrom(m, S, u) = {}
    BY <1>1, <1>2 DEF Unlinked
  <2> QED
    BY <1>2, <2>1, FS_EmptySet
<1>3. CASE ~Unlinked(m, S, u)
  <2>1. PICK w \in S : LinksAt(m, w, u) # {}
    BY <1>3 DEF Unlinked
  <2>2. PICK k : k \in LinksAt(m, w, u)
    BY <2>1
  <2>3. \A x \in S : \A l \in LinksAt(m, x, u) : x = w /\ l = k
    BY <2>2 DEF OneLink
  <2>4. LinksFrom(m, S, u) = {<<w, k>>}
    BY <1>1, <2>2, <2>3
  <2> QED
    BY <1>3, <2>4, FS_Singleton
<1> QED
  BY <1>2, <1>3

\* What is given back of u: its one link, if that is freed, and the reference given.
LEMMA ReturnedIs ==
    ASSUME NEW m, OneLink(m), NEW S, S \subseteq Allocated(m), NEW u, NEW v
    PROVE  Returned(m, v, S, u) = (IF Unlinked(m, S, u) THEN 0 ELSE 1) + (IF u = v THEN 1 ELSE 0)
  BY LinkCount DEF Returned

\* More vnodes have more links.
LEMMA ReturnedGrows ==
    ASSUME NEW m, OneLink(m), NEW T, T \subseteq Allocated(m), NEW S, S \subseteq T, NEW u, NEW v
    PROVE  /\ Returned(m, v, S, u) \in Nat /\ Returned(m, v, T, u) \in Nat
           /\ Returned(m, v, S, u) <= Returned(m, v, T, u)
<1>1. Unlinked(m, T, u) => Unlinked(m, S, u)
  BY DEF Unlinked
<1>2. S \subseteq Allocated(m)
  OBVIOUS
<1> QED
  BY <1>1, <1>2, ReturnedIs

-----------------------------------------------------------------------------
(* vfs_unref *)

\* Freed is closed, and a vnode is in it only if its last reference is given back.
LEMMA FreedFacts ==
    ASSUME NEW m, Shape(m), OneLink(m), NEW v \in Allocated(m)
    PROVE  /\ Freed(m, v) \subseteq Allocated(m)
           /\ Frees(m, v, Freed(m, v))
           /\ \A u \in Freed(m, v) : LET n == Returned(m, v, Freed(m, v), u)
                                     IN  n > 0 /\ m.node[u].refcount <= n
<1> DEFINE F == Freed(m, v)
           R(S, u) == Returned(m, v, S, u)
           A == Allocated(m)
<1>1. \A u \in A : m.node[u].refcount \in Nat
  BY Fields
<1>2. F \subseteq A
  BY DEF Freed
<1>3. ASSUME NEW T, T \subseteq A, NEW S, S \subseteq T, NEW u
      PROVE R(S, u) \in Nat /\ R(T, u) \in Nat /\ R(S, u) <= R(T, u)
  BY <1>3, ReturnedGrows
<1>4. CASE m.node[v].refcount > 1
  <2>1. F = {}
    BY <1>4 DEF Freed
  <2>2. ASSUME NEW u \in A PROVE R({}, u) = 0 \/ m.node[u].refcount > R({}, u)
    <3>1. Unlinked(m, {}, u)
      BY DEF Unlinked
    <3>2. R({}, u) = IF u = v THEN 1 ELSE 0
      BY <3>1, ReturnedIs
    <3> QED
      BY <1>4, <3>2
  <2> QED
    BY <2>1, <2>2 DEF Frees
<1>5. CASE ~(m.node[v].refcount > 1)
  <2>1. F = {u \in A : \A S \in SUBSET A : Frees(m, v, S) => u \in S}
    BY <1>5 DEF Freed
  <2>2. ASSUME NEW u \in A \ F PROVE R(F, u) = 0 \/ m.node[u].refcount > R(F, u)
    <3>1. PICK S \in SUBSET A : Frees(m, v, S) /\ u \notin S
      BY <2>1
    <3>2. F \subseteq S
      BY <2>1, <3>1
    <3>3. R(S, u) = 0 \/ m.node[u].refcount > R(S, u)
      BY <3>1 DEF Frees
    <3>4. R(F, u) \in Nat /\ R(S, u) \in Nat /\ R(F, u) <= R(S, u)
      BY <1>3, <3>1, <3>2
    <3>5. m.node[u].refcount \in Nat
      BY <1>1
    <3> HIDE DEF R, F, A
    <3> QED
      BY <3>3, <3>4, <3>5
  <2>3. ASSUME NEW u \in F PROVE R(F, u) > 0 /\ m.node[u].refcount <= R(F, u)
    <3> SUFFICES ASSUME ~(R(F, u) > 0 /\ m.node[u].refcount <= R(F, u)) PROVE FALSE
      OBVIOUS
    <3>1. F \ {u} \subseteq F /\ F \ {u} \in SUBSET A
      BY <1>2
    <3>2. ASSUME NEW x \in A \ (F \ {u}) PROVE R(F \ {u}, x) = 0 \/ m.node[x].refcount > R(F \ {u}, x)
      <4>1. R(F \ {u}, x) \in Nat /\ R(F, x) \in Nat /\ R(F \ {u}, x) <= R(F, x)
        BY <1>2, <1>3, <3>1
      <4>2. R(F, x) = 0 \/ m.node[x].refcount > R(F, x)
        <5>1. CASE x = u
          <6>1. R(F, u) \in Nat /\ m.node[u].refcount \in Nat
            BY <1>1, <4>1, <5>1
          <6> HIDE DEF R, F
          <6> QED
            BY <5>1, <6>1
        <5>2. CASE x # u
          BY <2>2, <5>2
        <5> QED
          BY <5>1, <5>2
      <4>3. m.node[x].refcount \in Nat
        BY <1>1
      <4> HIDE DEF R, F, A
      <4> QED
        BY <4>1, <4>2, <4>3
    <3>3. Frees(m, v, F \ {u})
      <4> HIDE DEF F
      <4> QED
        BY <3>2 DEF Frees
    <3>4. u \in F \ {u}
      BY <2>1, <3>1, <3>3
    <3> QED
      BY <3>4
  <2> QED
    BY <1>2, <2>2, <2>3 DEF Frees
<1> QED
  BY <1>4, <1>5

\* What is freed has no reference left, and what is not keeps one.
LEMMA FreedHas ==
    ASSUME NEW m, NEW ext, Graph(m), Counted(m, ext), NEW v \in Vnodes, ext[v] > 0
    PROVE  /\ vfs_root \notin Freed(m, v)
           /\ \A u \in Freed(m, v) :
                 /\ MountsOn(m, u) = {} /\ ext[u] = IF u = v THEN 1 ELSE 0
                 /\ Unlinked(m, Allocated(m) \ Freed(m, v), u)
           /\ \A u \in Allocated(m) \ Freed(m, v) :
                 u # vfs_root => m.node[u].refcount > Returned(m, v, Freed(m, v), u)
           /\ v \in Freed(m, v) \/ m.node[v].refcount > 1
<1> DEFINE F == Freed(m, v)
           A == Allocated(m)
<1>1. v \in A \ {vfs_root} /\ Shape(m) /\ OneLink(m) /\ Root(m)
  BY DEF Counted, Graph
<1>2. F \subseteq A /\ Frees(m, v, F)
  BY <1>1, FreedFacts
<1>3. ASSUME NEW u \in F PROVE LET n == Returned(m, v, F, u) IN n > 0 /\ m.node[u].refcount <= n
  BY <1>1, FreedFacts
<1> HIDE DEF F
<1>4. ASSUME NEW u PROVE Returned(m, v, F, u) = (IF Unlinked(m, F, u) THEN 0 ELSE 1) + (IF u = v THEN 1 ELSE 0)
  BY <1>1, <1>2, ReturnedIs
<1>5. ASSUME NEW u PROVE Cardinality(LinksFrom(m, A, u)) = IF Unlinked(m, A, u) THEN 0 ELSE 1
  BY <1>1, LinkCount
<1>6. vfs_root \notin F
  <2>1. Unlinked(m, F, vfs_root)
    BY <1>2 DEF Graph, LinksOK, Unlinked, LinksAt
  <2>2. ~(Returned(m, v, F, vfs_root) > 0)
    BY <1>1, <1>4, <2>1
  <2> QED
    BY <1>3, <2>2
<1>7. ASSUME NEW u \in F
      PROVE  /\ MountsOn(m, u) = {} /\ ext[u] = IF u = v THEN 1 ELSE 0
             /\ Unlinked(m, A \ F, u)
  <2>1. u \in A \ {vfs_root} /\ u \in Vnodes
    BY <1>2, <1>6 DEF Allocated
  <2> DEFINE c == Cardinality(MountsOn(m, u))
             l == Cardinality(LinksFrom(m, A, u))
             n == Returned(m, v, F, u)
             r == m.node[u].refcount
  <2>2. r = l + c + ext[u] /\ ext[u] \in Nat /\ r > 0
    BY <2>1 DEF Counted
  <2>3. c \in Nat /\ IsFiniteSet(MountsOn(m, u))
    BY Finite DEF MountsOn
  <2>4. r <= n
    BY <1>3
  <2>5. n = (IF Unlinked(m, F, u) THEN 0 ELSE 1) + (IF u = v THEN 1 ELSE 0)
    BY <1>4
  <2>6. l = IF Unlinked(m, A, u) THEN 0 ELSE 1
    BY <1>5
  <2>7. Unlinked(m, A, u) => Unlinked(m, F, u)
    BY <1>2 DEF Unlinked
  <2>8. u = v => ext[u] > 0
    OBVIOUS
  <2> HIDE DEF c, l, n, r, A, F
  <2>9. c = 0 /\ ext[u] = IF u = v THEN 1 ELSE 0
    BY <2>2, <2>3, <2>4, <2>5, <2>6, <2>7, <2>8
  <2>10. Unlinked(m, F, u) => Unlinked(m, A, u)
    BY <2>2, <2>3, <2>4, <2>5, <2>6, <2>7, <2>8
  <2>11. MountsOn(m, u) = {}
    BY <2>3, <2>9, FS_EmptySet DEF c
  <2>12. Unlinked(m, A \ F, u)
    <3>1. CASE Unlinked(m, F, u)
      BY <2>10, <3>1 DEF Unlinked
    <3>2. CASE ~Unlinked(m, F, u)
      <4>1. PICK w \in F : \E k \in LinksAt(m, w, u) : TRUE
        BY <3>2 DEF Unlinked
      <4>2. ASSUME NEW x \in A \ F, NEW j \in LinksAt(m, x, u) PROVE FALSE
        BY <1>1, <1>2, <4>1, <4>2 DEF OneLink, A
      <4> QED
        BY <4>2 DEF Unlinked
    <3> QED
      BY <3>1, <3>2
  <2> QED
    BY <2>9, <2>11, <2>12
<1>8. ASSUME NEW u \in A \ F, u # vfs_root PROVE m.node[u].refcount > Returned(m, v, F, u)
  <2>1. m.node[u].refcount > 0
    BY <1>8 DEF Counted
  <2>2. Returned(m, v, F, u) = 0 \/ m.node[u].refcount > Returned(m, v, F, u)
    BY <1>2 DEF Frees
  <2> QED
    BY <2>1, <2>2
<1>9. ASSUME v \notin F PROVE m.node[v].refcount > 1
  <2>1. m.node[v].refcount > Returned(m, v, F, v) /\ m.node[v].refcount \in Nat
    BY <1>1, <1>8, <1>9, Fields
  <2>2. Returned(m, v, F, v) \in {1, 2}
    BY <1>4
  <2> QED
    BY <2>1, <2>2
<1> QED
  BY <1>6, <1>7, <1>8, <1>9 DEF F

\* What vfs_unref leaves is as it was, but for the counts.
LEMMA UnrefFields ==
    ASSUME NEW m, NEW ext, NEW own, Good(m, ext, own), NEW v \in Vnodes, ext[v] > 0
    PROVE  LET n == vfs_unref(m, v) IN
           /\ Shape(n)
           /\ Allocated(n) = Allocated(m) \ Freed(m, v)
           /\ \A u \in Allocated(n) :
                 /\ n.node[u].fs = m.node[u].fs /\ n.node[u].child = m.node[u].child
                 /\ n.node[u].mount = m.node[u].mount
                 /\ n.node[u].refcount = m.node[u].refcount - Returned(m, v, Freed(m, v), u)
           /\ Driven(n, own)
<1> DEFINE F == Freed(m, v)
           n == vfs_unref(m, v)
           A == Allocated(m)
           of(f) == {u \in F : m.node[u].fs = f}
<1>1. v \in A \ {vfs_root} /\ Shape(m) /\ OneLink(m) /\ Root(m) /\ Driven(m, own) /\ Graph(m) /\ Counted(m, ext)
  BY DEF Counted, Graph, Good
<1>2. F \subseteq A /\ vfs_root \notin F
  BY <1>1, FreedFacts, FreedHas
<1>3. n = [node |-> [u \in Vnodes |->
                      IF u \in F \/ m.node[u] = None THEN None
                      ELSE [m.node[u] EXCEPT !.refcount = @ - Returned(m, v, F, u)]],
           drv  |-> [f \in Fs |-> IF of(f) = {} THEN m.drv[f] ELSE Fewer(m.drv[f], Cardinality(of(f)))]]
  BY DEF vfs_unref
<1> HIDE DEF F, n
<1>4. ASSUME NEW u \in A PROVE Returned(m, v, F, u) \in Nat
  BY <1>1, <1>2, ReturnedIs
<1>5. ASSUME NEW u \in A \ F
      PROVE  /\ n.node[u] = [m.node[u] EXCEPT !.refcount = @ - Returned(m, v, F, u)]
             /\ m.node[u].refcount - Returned(m, v, F, u) \in Nat
             /\ n.node[u] \in VnodeType
  <2>1. n.node[u] = [m.node[u] EXCEPT !.refcount = @ - Returned(m, v, F, u)]
    BY <1>3 DEF Allocated
  <2>2. m.node[u].refcount - Returned(m, v, F, u) \in Nat
    <3>1. Returned(m, v, F, u) \in Nat /\ m.node[u].refcount \in Nat
      BY <1>1, <1>4, Fields
    <3>2. CASE u = vfs_root
      <4>1. Unlinked(m, F, vfs_root)
        BY <1>1, <1>2 DEF Graph, LinksOK, Unlinked, LinksAt
      <4>2. Returned(m, v, F, u) = 0
        BY <1>1, <1>2, <3>2, <4>1, ReturnedIs
      <4> QED
        BY <3>1, <4>2
    <3>3. CASE u # vfs_root
      <4>1. m.node[u].refcount > Returned(m, v, F, u)
        BY <1>1, <3>3, FreedHas DEF F
      <4> QED
        BY <3>1, <4>1
    <3> QED
      BY <3>2, <3>3
  <2>3. m.node[u] \in VnodeType
    BY <1>1, Fields
  <2>4. n.node[u] \in VnodeType
    BY <2>1, <2>2, <2>3 DEF VnodeType
  <2> QED
    BY <2>1, <2>2, <2>4
<1>6. ASSUME NEW u \in Vnodes PROVE n.node[u] = None <=> u \in F \/ u \notin A
  <2>1. CASE u \in A \ F
    BY <1>5, <2>1, VfsAssumption
  <2>2. CASE ~(u \in A \ F)
    BY <1>3, <2>2 DEF Allocated
  <2> QED
    BY <2>1, <2>2
<1>7. Allocated(n) = A \ F
  BY <1>6 DEF Allocated
<1>8. ASSUME NEW u \in A \ F
      PROVE  /\ n.node[u].fs = m.node[u].fs /\ n.node[u].child = m.node[u].child
             /\ n.node[u].mount = m.node[u].mount
             /\ n.node[u].refcount = m.node[u].refcount - Returned(m, v, F, u)
  <2>1. m.node[u] \in VnodeType
    BY <1>1, Fields
  <2> QED
    BY <1>5, <2>1 DEF VnodeType
<1>9. ASSUME NEW f \in Fs
      PROVE  /\ n.drv[f] \in DriverType \cup {None}
             /\ IF n.drv[f] = None THEN VnodesOf(n, f) = {} /\ own[f] = 0
                ELSE /\ n.drv[f].refcount = Cardinality(VnodesOf(n, f)) + own[f]
                     /\ n.drv[f].refcount > 0
  <2>1. VnodesOf(n, f) = VnodesOf(m, f) \ of(f)
    BY <1>2, <1>7, <1>8 DEF VnodesOf
  <2>2. of(f) \subseteq VnodesOf(m, f)
    BY <1>2 DEF VnodesOf
  <2>3. n.drv[f] = IF of(f) = {} THEN m.drv[f] ELSE Fewer(m.drv[f], Cardinality(of(f)))
    BY <1>3
  <2>4. m.drv[f] \in DriverType \cup {None} /\ own[f] \in {0, 1}
    BY <1>1 DEF Shape, Driven
  <2>5. CASE of(f) = {}
    BY <1>1, <2>1, <2>3, <2>4, <2>5 DEF Driven
  <2>6. CASE of(f) # {}
    <3> DEFINE a == Cardinality(VnodesOf(m, f))
               b == Cardinality(of(f))
               c == Cardinality(VnodesOf(n, f))
               d == m.drv[f]
    <3>1. d # None /\ d.refcount = a + own[f] /\ d \in DriverType
      BY <1>1, <2>2, <2>4, <2>6 DEF Driven
    <3>2. VnodesOf(m, f) \subseteq A /\ of(f) \subseteq A /\ VnodesOf(n, f) \subseteq A
      BY <2>1, <2>2 DEF VnodesOf
    <3>3. /\ IsFiniteSet(VnodesOf(m, f)) /\ IsFiniteSet(of(f)) /\ IsFiniteSet(VnodesOf(n, f))
          /\ a \in Nat /\ b \in Nat /\ c \in Nat
      BY <3>2, Finite
    <3>4. VnodesOf(m, f) = VnodesOf(n, f) \cup of(f) /\ VnodesOf(n, f) \cap of(f) = {}
      BY <2>1, <2>2
    <3>5. a = c + b
      <4>1. Cardinality(VnodesOf(n, f) \cap of(f)) = 0
        BY <3>4, FS_EmptySet
      <4>2. a = c + b - Cardinality(VnodesOf(n, f) \cap of(f))
        BY <3>3, <3>4, FS_Union
      <4>3. c \in Nat /\ b \in Nat
        BY <3>3
      <4> HIDE DEF a, b, c
      <4>4. a = c + b - 0
        BY <4>1, <4>2
      <4> QED
        BY <4>3, <4>4
    <3>6. b # 0
      BY <2>6, <3>3, FS_EmptySet
    <3>7. n.drv[f] = IF d.refcount > b THEN [d EXCEPT !.refcount = @ - b] ELSE None
      BY <2>3, <2>6 DEF Fewer
    <3>8. c = 0 => VnodesOf(n, f) = {}
      BY <3>3, FS_EmptySet
    <3> HIDE DEF a, b, c, d, of
    <3>9. CASE d.refcount > b
      <4>1. n.drv[f] = [d EXCEPT !.refcount = @ - b] /\ d.refcount - b \in Nat /\ d.refcount - b = c + own[f]
            /\ d.refcount - b > 0
        BY <2>4, <3>1, <3>3, <3>5, <3>7, <3>9
      <4>2. n.drv[f] \in DriverType /\ n.drv[f].refcount = d.refcount - b
        BY <3>1, <4>1 DEF DriverType
      <4> QED
        BY <4>1, <4>2, VfsAssumption DEF c
    <3>10. CASE ~(d.refcount > b)
      <4>1. c = 0 /\ own[f] = 0
        BY <2>4, <3>1, <3>3, <3>5, <3>10
      <4> QED
        BY <3>7, <3>8, <3>10, <4>1
    <3> QED
      BY <3>9, <3>10
  <2> QED
    BY <2>5, <2>6
<1>10. Shape(n)
  <2>1. n = [node |-> n.node, drv |-> n.drv] /\ DOMAIN n.node = Vnodes /\ DOMAIN n.drv = Fs
        /\ n.node = [u \in Vnodes |-> n.node[u]] /\ n.drv = [f \in Fs |-> n.drv[f]]
    BY <1>3
  <2>2. \A u \in Vnodes : n.node[u] \in VnodeType \cup {None}
    BY <1>5, <1>6
  <2>3. \A f \in Fs : n.drv[f] \in DriverType \cup {None}
    BY <1>9
  <2> QED
    BY <2>1, <2>2, <2>3 DEF Shape
<1>11. Driven(n, own)
  BY <1>1, <1>9 DEF Driven
<1> QED
  BY <1>7, <1>8, <1>10, <1>11 DEF n, F

\* A part of a graph is a graph, if nothing of the rest is referred to from it.
LEMMA PartOf ==
    ASSUME NEW m, NEW n, Graph(m), Shape(n), Allocated(n) \subseteq Allocated(m),
           vfs_root \in Allocated(n), n.node[vfs_root].refcount = 0,
           \A u \in Allocated(n) :
              /\ n.node[u].fs = m.node[u].fs /\ n.node[u].child = m.node[u].child
              /\ n.node[u].mount = m.node[u].mount,
           \A u \in Allocated(m) \ Allocated(n) :
              /\ Unlinked(m, Allocated(n), u)
              /\ \A w \in Allocated(n) : m.node[w].mount # u
    PROVE  Graph(n)
<1> DEFINE A == Allocated(m)
           B == Allocated(n)
<1>1. Root(m) /\ LinksOK(m) /\ OneLink(m) /\ NoRing(m) /\ MountsOK(m) /\ B \subseteq A
  BY DEF Graph
<1>2. ASSUME NEW u, NEW w \in B PROVE LinksAt(n, w, u) = LinksAt(m, w, u)
  BY DEF LinksAt
<1>3. ASSUME NEW S, S \subseteq B, NEW u PROVE Unlinked(n, S, u) <=> Unlinked(m, S, u)
  BY <1>2, <1>3 DEF Unlinked
<1> HIDE DEF A, B
<1>4. Root(n)
  BY <1>1 DEF Root, A, B
<1>5. LinksOK(n)
  <2> SUFFICES ASSUME NEW w \in B, NEW k \in DOMAIN n.node[w].child, NEW u, u = n.node[w].child[k].vnode
               PROVE  u \in B \ {vfs_root} /\ n.node[u].fs = n.node[w].fs
    BY DEF LinksOK, B
  <2>1. n.node[w].child = m.node[w].child /\ w \in A
    BY <1>1 DEF B
  <2>2. u \in A \ {vfs_root} /\ m.node[u].fs = m.node[w].fs /\ k \in LinksAt(m, w, u)
    BY <1>1, <2>1 DEF LinksOK, A, LinksAt
  <2>3. u \in B
    BY <2>2 DEF A, B, Unlinked
  <2> QED
    BY <2>2, <2>3 DEF B
<1>6. OneLink(n)
  <2> SUFFICES ASSUME NEW u, NEW w1 \in B, NEW w2 \in B, NEW k1 \in LinksAt(n, w1, u), NEW k2 \in LinksAt(n, w2, u)
               PROVE  w1 = w2 /\ k1 = k2
    BY DEF OneLink, B
  <2>1. k1 \in LinksAt(m, w1, u) /\ k2 \in LinksAt(m, w2, u) /\ w1 \in A /\ w2 \in A
    BY <1>1, <1>2
  <2> QED
    BY <1>1, <2>1 DEF OneLink, A
<1>7. NoRing(n)
  <2> SUFFICES ASSUME NEW S, S \subseteq B, S # {} PROVE \E u \in S : Unlinked(n, S, u)
    BY DEF NoRing, B
  <2>1. PICK u \in S : Unlinked(m, S, u)
    BY <1>1 DEF NoRing, A
  <2> QED
    BY <1>3, <2>1
<1>8. MountsOK(n)
  <2> SUFFICES ASSUME NEW w \in B, NEW u, u = n.node[w].mount, u # None
               PROVE  /\ u \in B \ {vfs_root} /\ Unlinked(n, B, u)
                      /\ <<n.node[w].fs, n.node[u].fs>> \in MountOrder
    BY DEF MountsOK, B
  <2>1. n.node[w].mount = m.node[w].mount /\ n.node[w].fs = m.node[w].fs /\ w \in A
    BY <1>1 DEF B
  <2>2. u \in A \ {vfs_root} /\ Unlinked(m, A, u) /\ <<m.node[w].fs, m.node[u].fs>> \in MountOrder
    BY <1>1, <2>1 DEF MountsOK, A
  <2>3. u \in B
    BY <2>1, <2>2 DEF A, B
  <2>4. Unlinked(m, B, u)
    BY <1>1, <2>2 DEF Unlinked
  <2>5. n.node[u].fs = m.node[u].fs
    BY <2>3 DEF B
  <2>6. Unlinked(n, B, u)
    BY <1>3, <2>4
  <2> QED
    BY <2>1, <2>2, <2>3, <2>5, <2>6
<1> QED
  BY <1>4, <1>5, <1>6, <1>7, <1>8 DEF Graph

\* Who refers to v from outside gives that up: the counts are right again, if
\* nothing is mounted on what is freed.
LEMMA UnrefOK ==
    ASSUME NEW m, NEW ext, NEW own, Good(m, ext, own), NEW v \in Vnodes, ext[v] > 0,
           \A u \in Freed(m, v) : m.node[u].mount = None
    PROVE  Good(vfs_unref(m, v), Less(ext, v), own)
<1> DEFINE F == Freed(m, v)
           n == vfs_unref(m, v)
           A == Allocated(m)
           B == Allocated(n)
           less == Less(ext, v)
<1>1. v \in A \ {vfs_root} /\ Shape(m) /\ OneLink(m) /\ Root(m) /\ Graph(m) /\ Counted(m, ext)
  BY DEF Counted, Graph, Good
<1>2. F \subseteq A /\ vfs_root \notin F
  BY <1>1, FreedFacts, FreedHas
<1>3. /\ Shape(n) /\ B = A \ F /\ Driven(n, own)
      /\ \A u \in B : /\ n.node[u].fs = m.node[u].fs /\ n.node[u].child = m.node[u].child
                      /\ n.node[u].mount = m.node[u].mount
                      /\ n.node[u].refcount = m.node[u].refcount - Returned(m, v, F, u)
  BY UnrefFields
<1>4. ASSUME NEW u \in F
      PROVE  MountsOn(m, u) = {} /\ ext[u] = (IF u = v THEN 1 ELSE 0) /\ Unlinked(m, B, u)
  <2>1. MountsOn(m, u) = {} /\ ext[u] = (IF u = v THEN 1 ELSE 0) /\ Unlinked(m, A \ F, u)
    BY <1>1, FreedHas
  <2> HIDE DEF A, B, F
  <2> QED
    BY <1>3, <2>1
<1>5. ASSUME NEW u \in B, u # vfs_root PROVE m.node[u].refcount > Returned(m, v, F, u)
  BY <1>1, <1>3, <1>5, FreedHas
<1>6. ASSUME NEW u PROVE Returned(m, v, F, u) = (IF Unlinked(m, F, u) THEN 0 ELSE 1) + (IF u = v THEN 1 ELSE 0)
  BY <1>1, <1>2, ReturnedIs
<1> HIDE DEF F, n
<1>7. Graph(n)
  <2>1. vfs_root \in B
    BY <1>1, <1>2, <1>3 DEF Root
  <2>2. n.node[vfs_root].refcount = 0
    <3>1. m.node[vfs_root].refcount = 0
      BY <1>1 DEF Root
    <3>2. n.node[vfs_root].refcount = 0 - Returned(m, v, F, vfs_root)
      BY <1>3, <2>1, <3>1
    <3>3. n.node[vfs_root].refcount \in Nat
      BY <1>3, <2>1, Fields
    <3> QED
      BY <1>6, <3>2, <3>3
  <2>3. ASSUME NEW u \in A \ B PROVE Unlinked(m, B, u) /\ \A w \in B : m.node[w].mount # u
    BY <1>3, <1>4, <2>3 DEF MountsOn
  <2>4. B \subseteq A
    BY <1>3
  <2> QED
    BY <1>1, <1>3, <2>1, <2>2, <2>3, <2>4, PartOf
<1>8. Counted(n, less)
  <2>1. less \in [Vnodes -> Nat] /\ \A u \in Vnodes : less[u] = IF u = v THEN ext[u] - 1 ELSE ext[u]
    BY <1>1 DEF Counted, Less
  <2>2. ASSUME NEW u \in Vnodes, less[u] > 0 PROVE u \in B \ {vfs_root}
    <3>1. ext[u] \in Nat
      BY <1>1 DEF Counted
    <3>2. ext[u] > 0
      BY <2>1, <2>2, <3>1
    <3>3. u \notin F
      BY <1>4, <2>1, <2>2
    <3> QED
      BY <1>1, <1>3, <3>2, <3>3 DEF Counted
  <2>3. ASSUME NEW u \in B, u # vfs_root
        PROVE  /\ n.node[u].refcount > 0
               /\ n.node[u].refcount = Cardinality(LinksFrom(n, B, u)) + Cardinality(MountsOn(n, u)) + less[u]
    <3>1. u \in A \ {vfs_root} /\ u \in Vnodes /\ u # None
      BY <1>3, <2>3, VfsAssumption DEF Allocated
    <3> DEFINE r == m.node[u].refcount
               c == Cardinality(MountsOn(m, u))
               l == Cardinality(LinksFrom(m, A, u))
               lf == Cardinality(LinksFrom(m, F, u))
               lb == Cardinality(LinksFrom(n, B, u))
    <3>2. r = l + c + ext[u] /\ ext[u] \in Nat /\ r \in Nat
      BY <1>1, <3>1, Fields DEF Counted
    <3>3. c \in Nat
      BY Finite DEF MountsOn
    <3>4. MountsOn(n, u) = MountsOn(m, u)
      BY <1>2, <1>3, <3>1 DEF MountsOn, F
    <3>5. LinksFrom(n, B, u) = LinksFrom(m, B, u)
      BY <1>3 DEF LinksFrom, LinksAt
    <3>6. /\ l = (IF Unlinked(m, A, u) THEN 0 ELSE 1) /\ lb = (IF Unlinked(m, B, u) THEN 0 ELSE 1)
      BY <1>1, <1>3, <3>5, LinkCount
    <3>7. Unlinked(m, A, u) <=> Unlinked(m, F, u) /\ Unlinked(m, B, u)
      BY <1>2, <1>3 DEF Unlinked
    <3>8. Unlinked(m, F, u) \/ Unlinked(m, B, u)
      <4> SUFFICES ASSUME NEW w1 \in F, NEW k1 \in LinksAt(m, w1, u), NEW w2 \in B, NEW k2 \in LinksAt(m, w2, u)
                   PROVE  FALSE
        BY DEF Unlinked
      <4>1. w1 \in A /\ w2 \in A /\ w1 # w2
        BY <1>2, <1>3
      <4> QED
        BY <1>1, <4>1 DEF OneLink
    <3>9. n.node[u].refcount = r - ((IF Unlinked(m, F, u) THEN 0 ELSE 1) + (IF u = v THEN 1 ELSE 0))
      BY <1>3, <1>6
    <3>10. r > ((IF Unlinked(m, F, u) THEN 0 ELSE 1) + (IF u = v THEN 1 ELSE 0))
      BY <1>5, <1>6, <2>3
    <3>11. less[u] = IF u = v THEN ext[u] - 1 ELSE ext[u]
      BY <2>1, <3>1
    <3> HIDE DEF r, c, l, lf, lb, less, A, B
    <3>12. n.node[u].refcount = lb + c + less[u] /\ n.node[u].refcount > 0
      BY <3>2, <3>3, <3>6, <3>7, <3>8, <3>9, <3>10, <3>11
    <3> QED
      BY <3>4, <3>12 DEF lb, c
  <2> QED
    BY <2>1, <2>2, <2>3 DEF Counted
<1> QED
  BY <1>3, <1>7, <1>8 DEF Good, n

-----------------------------------------------------------------------------
(* Changes of one vnode *)

Alike(m, n, v) ==
    /\ n = [node |-> n.node, drv |-> m.drv]
    /\ n.node = [u \in Vnodes |-> n.node[u]]
    /\ \A u \in Vnodes : u # v => n.node[u] = m.node[u]

\* Shape and vnodes of a memory in which one vnode is written.
LEMMA OneChanged ==
    ASSUME NEW m, NEW n, NEW own, Shape(m), Driven(m, own), NEW v \in Allocated(m), Alike(m, n, v),
           n.node[v] \in VnodeType, n.node[v].fs = m.node[v].fs
    PROVE  Shape(n) /\ Driven(n, own) /\ Allocated(n) = Allocated(m)
<1>1. n.drv = m.drv /\ v \in Vnodes /\ n.node[v] # None
  BY VfsAssumption DEF Allocated, Alike
<1>2. \A u \in Vnodes : u # v => n.node[u] = m.node[u]
  BY DEF Alike
<1>3. Shape(n)
  <2>1. \A u \in Vnodes : n.node[u] \in VnodeType \cup {None}
    BY <1>1, <1>2 DEF Shape
  <2> QED
    BY <1>1, <2>1 DEF Shape, Alike
<1>4. Allocated(n) = Allocated(m)
  BY <1>1, <1>2 DEF Allocated
<1>5. ASSUME NEW f PROVE VnodesOf(n, f) = VnodesOf(m, f)
  <2>1. \A u \in Allocated(m) : u \in Vnodes
    BY DEF Allocated
  <2> QED
    BY <1>2, <1>4, <2>1 DEF VnodesOf
<1>6. Driven(n, own)
  BY <1>1, <1>5 DEF Driven
<1> QED
  BY <1>2, <1>3, <1>4, <1>6

\* One more reference from outside.
LEMMA RefOK ==
    ASSUME NEW m, NEW ext, NEW own, Good(m, ext, own), NEW v \in Allocated(m), v # vfs_root
    PROVE  /\ Good(vfs_ref(m, v), More(ext, v), own)
           /\ Allocated(vfs_ref(m, v)) = Allocated(m)
           /\ \A u \in Allocated(m) :
                 /\ vfs_ref(m, v).node[u].fs = m.node[u].fs
                 /\ vfs_ref(m, v).node[u].child = m.node[u].child
                 /\ vfs_ref(m, v).node[u].mount = m.node[u].mount
<1> DEFINE n == vfs_ref(m, v)
           A == Allocated(m)
           more == More(ext, v)
           r == [m.node[v] EXCEPT !.refcount = m.node[v].refcount + 1]
<1>1. Shape(m) /\ Graph(m) /\ OneLink(m) /\ Root(m) /\ Counted(m, ext) /\ Driven(m, own) /\ v \in Vnodes
  BY DEF Good, Graph, Allocated
<1>2. m.node[v].refcount > 0 /\ m.node[v].refcount \in Nat /\ m.node[v] \in VnodeType
  BY <1>1, Fields DEF Counted
<1>3. n = [m EXCEPT !.node[v].refcount = m.node[v].refcount + 1]
  BY <1>2 DEF vfs_ref
<1>4. Alike(m, n, v) /\ n.node[v] = r
  <2>1. PICK a, b : m = [node |-> a, drv |-> b] /\ a \in [Vnodes -> VnodeType \cup {None}]
    BY <1>1 DEF Shape
  <2>2. n = [node |-> [a EXCEPT ![v] = [a[v] EXCEPT !.refcount = a[v].refcount + 1]], drv |-> b]
    BY <1>1, <1>3, <2>1
  <2>3. r = [a[v] EXCEPT !.refcount = a[v].refcount + 1]
    BY <2>1
  <2> HIDE DEF n, r
  <2> QED
    BY <1>1, <2>1, <2>2, <2>3 DEF Alike
<1>5. /\ r \in VnodeType /\ r.fs = m.node[v].fs /\ r.child = m.node[v].child
      /\ r.mount = m.node[v].mount /\ r.refcount = m.node[v].refcount + 1
  BY <1>2 DEF VnodeType
<1> HIDE DEF n, r
<1>6. /\ Shape(n) /\ Driven(n, own) /\ Allocated(n) = A /\ n.node[v] = r
      /\ \A u \in Vnodes : u # v => n.node[u] = m.node[u]
  BY <1>1, <1>4, <1>5, OneChanged DEF Alike
<1>7. \A u \in A : /\ n.node[u].fs = m.node[u].fs /\ n.node[u].child = m.node[u].child
                   /\ n.node[u].mount = m.node[u].mount
                   /\ n.node[u].refcount = IF u = v THEN m.node[u].refcount + 1 ELSE m.node[u].refcount
  BY <1>5, <1>6 DEF Allocated
<1>8. Graph(n)
  <2>1. vfs_root \in A /\ n.node[vfs_root].refcount = 0
    BY <1>1, <1>7 DEF Root
  <2> QED
    BY <1>1, <1>6, <1>7, <2>1, PartOf
<1>9. Counted(n, more)
  <2>1. more \in [Vnodes -> Nat] /\ \A u \in Vnodes : more[u] = IF u = v THEN ext[u] + 1 ELSE ext[u]
    BY <1>1 DEF Counted, More
  <2>2. ASSUME NEW u \in Vnodes, more[u] > 0 PROVE u \in A \ {vfs_root}
    BY <1>1, <2>1, <2>2 DEF Counted
  <2>3. ASSUME NEW u \in A, u # vfs_root
        PROVE  /\ n.node[u].refcount > 0
               /\ n.node[u].refcount = Cardinality(LinksFrom(n, A, u)) + Cardinality(MountsOn(n, u)) + more[u]
    <3>1. LinksFrom(n, A, u) = LinksFrom(m, A, u) /\ MountsOn(n, u) = MountsOn(m, u)
      BY <1>6, <1>7 DEF LinksFrom, LinksAt, MountsOn
    <3>2. /\ m.node[u].refcount > 0 /\ u \in Vnodes
          /\ m.node[u].refcount = Cardinality(LinksFrom(m, A, u)) + Cardinality(MountsOn(m, u)) + ext[u]
      BY <1>1, <2>3 DEF Counted, Allocated
    <3>3. Cardinality(LinksFrom(m, A, u)) \in Nat /\ Cardinality(MountsOn(m, u)) \in Nat /\ ext[u] \in Nat
      BY <1>1, <3>2, LinkCount, Finite DEF MountsOn, Counted
    <3> HIDE DEF more, A
    <3> QED
      BY <1>7, <2>1, <3>1, <3>2, <3>3
  <2> QED
    BY <1>6, <2>1, <2>2, <2>3 DEF Counted
<1> QED
  BY <1>6, <1>7, <1>8, <1>9 DEF Good, n

\* Only mounts are written, and what is mounted is the root of a file system.
LEMMA Remounted ==
    ASSUME NEW m, NEW n, Graph(m), Shape(n), Allocated(n) = Allocated(m),
           \A x \in Allocated(m) :
              /\ n.node[x].fs = m.node[x].fs /\ n.node[x].child = m.node[x].child
              /\ n.node[x].refcount = m.node[x].refcount,
           \A x \in Allocated(m) : LET u == n.node[x].mount IN
              \/ u \in {None, m.node[x].mount}
              \/ /\ u \in Allocated(m) \ {vfs_root} /\ Unlinked(m, Allocated(m), u)
                 /\ <<m.node[x].fs, m.node[u].fs>> \in MountOrder
    PROVE  Graph(n)
<1> DEFINE A == Allocated(m)
<1>1. Root(m) /\ LinksOK(m) /\ OneLink(m) /\ NoRing(m) /\ MountsOK(m)
  BY DEF Graph
<1>2. ASSUME NEW u, NEW w \in A PROVE LinksAt(n, w, u) = LinksAt(m, w, u)
  BY DEF LinksAt
<1>3. ASSUME NEW S, S \subseteq A, NEW u PROVE Unlinked(n, S, u) <=> Unlinked(m, S, u)
  BY <1>2, <1>3 DEF Unlinked
<1>4. Root(n)
  BY <1>1 DEF Root
<1>5. LinksOK(n)
  BY <1>1 DEF LinksOK
<1>6. OneLink(n)
  BY <1>1, <1>2 DEF OneLink
<1>7. NoRing(n)
  BY <1>1, <1>3 DEF NoRing
<1>8. MountsOK(n)
  <2> SUFFICES ASSUME NEW w \in A, NEW u, u = n.node[w].mount, u # None
               PROVE  /\ u \in A \ {vfs_root} /\ Unlinked(m, A, u)
                      /\ <<m.node[w].fs, m.node[u].fs>> \in MountOrder
    BY <1>3 DEF MountsOK
  <2> QED
    BY <1>1 DEF MountsOK
<1> QED
  BY <1>4, <1>5, <1>6, <1>7, <1>8 DEF Graph

\* Something is mounted on w, or nothing any more.
LEMMA MountSet ==
    ASSUME NEW m, NEW ext, NEW own, Good(m, ext, own), NEW w \in Allocated(m),
           m.node[w].mount = None,
           NEW u \in Vnodes, ext[u] > 0, Unlinked(m, Allocated(m), u),
           <<m.node[w].fs, m.node[u].fs>> \in MountOrder
    PROVE  LET n == [m EXCEPT !.node[w].mount = u] IN
           /\ Good(n, Less(ext, u), own)
           /\ Allocated(n) = Allocated(m)
           /\ \A x \in Allocated(m) : n.node[x].fs = m.node[x].fs /\ n.node[x].child = m.node[x].child
<1> DEFINE n == [m EXCEPT !.node[w].mount = u]
           A == Allocated(m)
           less == Less(ext, u)
           r == [m.node[w] EXCEPT !.mount = u]
<1>1. Shape(m) /\ Graph(m) /\ OneLink(m) /\ Counted(m, ext) /\ Driven(m, own) /\ w \in Vnodes
  BY DEF Good, Graph, Allocated
<1>2. m.node[w] \in VnodeType
  BY <1>1, Fields
<1>3. Alike(m, n, w) /\ n.node[w] = r
  <2>1. PICK a, b : m = [node |-> a, drv |-> b] /\ a \in [Vnodes -> VnodeType \cup {None}]
    BY <1>1 DEF Shape
  <2>2. n = [node |-> [a EXCEPT ![w] = [a[w] EXCEPT !.mount = u]], drv |-> b]
    BY <1>1, <2>1
  <2>3. r = [a[w] EXCEPT !.mount = u]
    BY <2>1
  <2> HIDE DEF n, r
  <2> QED
    BY <1>1, <2>1, <2>2, <2>3 DEF Alike
<1>4. /\ r \in VnodeType /\ r.fs = m.node[w].fs /\ r.child = m.node[w].child
      /\ r.mount = u /\ r.refcount = m.node[w].refcount
  BY <1>2 DEF VnodeType
<1> HIDE DEF n, r
<1>5. /\ Shape(n) /\ Driven(n, own) /\ Allocated(n) = A /\ n.node[w] = r
      /\ \A x \in Vnodes : x # w => n.node[x] = m.node[x]
  BY <1>1, <1>3, <1>4, OneChanged DEF Alike
<1>6. \A x \in A : /\ n.node[x].fs = m.node[x].fs /\ n.node[x].child = m.node[x].child
                   /\ n.node[x].mount = IF x = w THEN u ELSE m.node[x].mount
                   /\ n.node[x].refcount = m.node[x].refcount
  BY <1>4, <1>5 DEF Allocated
<1>7. u \in A \ {vfs_root} /\ u # None
  BY <1>1, VfsAssumption DEF Counted
<1>8. Graph(n)
  <2>1. ASSUME NEW x \in A
        PROVE  LET y == n.node[x].mount IN
               \/ y \in {None, m.node[x].mount}
               \/ /\ y \in A \ {vfs_root} /\ Unlinked(m, A, y)
                  /\ <<m.node[x].fs, m.node[y].fs>> \in MountOrder
    BY <1>6, <1>7
  <2> QED
    BY <1>1, <1>5, <1>6, <2>1, Remounted
<1>9. Counted(n, less)
  <2>1. less \in [Vnodes -> Nat] /\ \A x \in Vnodes : less[x] = IF x = u THEN ext[x] - 1 ELSE ext[x]
    BY <1>1 DEF Counted, Less
  <2>2. ASSUME NEW x \in Vnodes, less[x] > 0 PROVE x \in A \ {vfs_root}
    BY <1>1, <1>7, <2>1, <2>2 DEF Counted
  <2>3. ASSUME NEW x \in A, x # vfs_root
        PROVE  /\ n.node[x].refcount > 0
               /\ n.node[x].refcount = Cardinality(LinksFrom(n, A, x)) + Cardinality(MountsOn(n, x)) + less[x]
    <3>1. LinksFrom(n, A, x) = LinksFrom(m, A, x)
      BY <1>6 DEF LinksFrom, LinksAt
    <3>2. MountsOn(n, x) = IF x = u THEN MountsOn(m, x) \cup {w} ELSE MountsOn(m, x)
      <4>1. x # None
        BY VfsAssumption DEF Allocated
      <4> QED
        BY <1>5, <1>6, <4>1 DEF MountsOn
    <3>3. w \notin MountsOn(m, u) /\ IsFiniteSet(MountsOn(m, x))
      BY <1>7, Finite DEF MountsOn
    <3>4. Cardinality(MountsOn(n, x)) = IF x = u THEN Cardinality(MountsOn(m, x)) + 1 ELSE Cardinality(MountsOn(m, x))
      BY <3>2, <3>3, FS_AddElement
    <3>5. /\ m.node[x].refcount > 0 /\ x \in Vnodes
          /\ m.node[x].refcount = Cardinality(LinksFrom(m, A, x)) + Cardinality(MountsOn(m, x)) + ext[x]
      BY <1>1, <2>3 DEF Counted, Allocated
    <3>6. Cardinality(LinksFrom(m, A, x)) \in Nat /\ Cardinality(MountsOn(m, x)) \in Nat /\ ext[x] \in Nat
      BY <1>1, <3>5, LinkCount, Finite DEF MountsOn, Counted
    <3> HIDE DEF less, A
    <3> QED
      BY <1>6, <2>1, <3>1, <3>4, <3>5, <3>6
  <2> QED
    BY <1>5, <2>1, <2>2, <2>3 DEF Counted
<1> QED
  BY <1>5, <1>6, <1>8, <1>9 DEF Good, n

\* Nothing is mounted on w any more: someone else has the reference from then on.
LEMMA MountClear ==
    ASSUME NEW m, NEW ext, NEW own, Good(m, ext, own), NEW w \in Allocated(m),
           NEW u, m.node[w].mount = u, u # None
    PROVE  LET n == [m EXCEPT !.node[w].mount = None] IN
           /\ Good(n, More(ext, u), own)
           /\ Allocated(n) = Allocated(m) /\ u \in Allocated(m) \ {vfs_root} /\ u \in Vnodes
           /\ \A x \in Allocated(m) :
                 /\ n.node[x].fs = m.node[x].fs /\ n.node[x].child = m.node[x].child
                 /\ n.node[x].mount = (IF x = w THEN None ELSE m.node[x].mount)
                 /\ n.node[x].refcount = m.node[x].refcount
<1> DEFINE n == [m EXCEPT !.node[w].mount = None]
           A == Allocated(m)
           more == More(ext, u)
           r == [m.node[w] EXCEPT !.mount = None]
<1>1. /\ Shape(m) /\ Graph(m) /\ OneLink(m) /\ Counted(m, ext) /\ Driven(m, own)
      /\ w \in Vnodes /\ MountsOK(m)
  BY DEF Good, Graph, Allocated
<1>2. m.node[w] \in VnodeType
  BY <1>1, Fields
<1>3. Alike(m, n, w) /\ n.node[w] = r
  <2>1. PICK a, b : m = [node |-> a, drv |-> b] /\ a \in [Vnodes -> VnodeType \cup {None}]
    BY <1>1 DEF Shape
  <2>2. n = [node |-> [a EXCEPT ![w] = [a[w] EXCEPT !.mount = None]], drv |-> b]
    BY <1>1, <2>1
  <2>3. r = [a[w] EXCEPT !.mount = None]
    BY <2>1
  <2> HIDE DEF n, r
  <2> QED
    BY <1>1, <2>1, <2>2, <2>3 DEF Alike
<1>4. /\ r \in VnodeType /\ r.fs = m.node[w].fs /\ r.child = m.node[w].child
      /\ r.mount = None /\ r.refcount = m.node[w].refcount
  BY <1>2 DEF VnodeType
<1> HIDE DEF n, r
<1>5. /\ Shape(n) /\ Driven(n, own) /\ Allocated(n) = A /\ n.node[w] = r
      /\ \A x \in Vnodes : x # w => n.node[x] = m.node[x]
  BY <1>1, <1>3, <1>4, OneChanged DEF Alike
<1>6. \A x \in A : /\ n.node[x].fs = m.node[x].fs /\ n.node[x].child = m.node[x].child
                   /\ n.node[x].mount = (IF x = w THEN None ELSE m.node[x].mount)
                   /\ n.node[x].refcount = m.node[x].refcount
  BY <1>4, <1>5 DEF Allocated
<1>7. u \in A \ {vfs_root} /\ u \in Vnodes
  BY <1>1 DEF MountsOK, Allocated
<1>8. Graph(n)
  <2>1. ASSUME NEW x \in A PROVE n.node[x].mount \in {None, m.node[x].mount}
    BY <1>6
  <2> QED
    BY <1>1, <1>5, <1>6, <2>1, Remounted
<1>9. Counted(n, more)
  <2>1. more \in [Vnodes -> Nat] /\ \A x \in Vnodes : more[x] = IF x = u THEN ext[x] + 1 ELSE ext[x]
    BY <1>1, <1>7 DEF Counted, More
  <2>2. ASSUME NEW x \in Vnodes, more[x] > 0 PROVE x \in A \ {vfs_root}
    BY <1>1, <1>7, <2>1, <2>2 DEF Counted
  <2>3. ASSUME NEW x \in A, x # vfs_root
        PROVE  /\ n.node[x].refcount > 0
               /\ n.node[x].refcount = Cardinality(LinksFrom(n, A, x)) + Cardinality(MountsOn(n, x)) + more[x]
    <3>1. LinksFrom(n, A, x) = LinksFrom(m, A, x)
      BY <1>6 DEF LinksFrom, LinksAt
    <3>2. MountsOn(n, x) = IF x = u THEN MountsOn(m, x) \ {w} ELSE MountsOn(m, x)
      <4>1. x # None
        BY VfsAssumption DEF Allocated
      <4> QED
        BY <1>5, <1>6, <4>1 DEF MountsOn
    <3>3. w \in MountsOn(m, u) /\ IsFiniteSet(MountsOn(m, x))
      BY <1>7, Finite DEF MountsOn
    <3>4. Cardinality(MountsOn(n, x)) = IF x = u THEN Cardinality(MountsOn(m, x)) - 1 ELSE Cardinality(MountsOn(m, x))
      BY <3>2, <3>3, FS_RemoveElement
    <3>5. /\ m.node[x].refcount > 0 /\ x \in Vnodes
          /\ m.node[x].refcount = Cardinality(LinksFrom(m, A, x)) + Cardinality(MountsOn(m, x)) + ext[x]
      BY <1>1, <2>3 DEF Counted, Allocated
    <3>6. Cardinality(LinksFrom(m, A, x)) \in Nat /\ Cardinality(MountsOn(m, x)) \in Nat /\ ext[x] \in Nat
      BY <1>1, <3>5, LinkCount, Finite DEF MountsOn, Counted
    <3> HIDE DEF more, A
    <3> QED
      BY <1>6, <2>1, <3>1, <3>4, <3>5, <3>6
  <2> QED
    BY <1>5, <2>1, <2>2, <2>3 DEF Counted
<1> QED
  BY <1>5, <1>6, <1>7, <1>8, <1>9 DEF Good, n

-----------------------------------------------------------------------------
(* Links that come and go *)

\* A sequence with one element more, in front.
LEMMA Prepended ==
    ASSUME NEW S, NEW s \in Seq(S), NEW x \in S
    PROVE  LET t == <<x>> \o s IN
           /\ t \in Seq(S) /\ DOMAIN t = 1 .. Len(s) + 1 /\ t[1] = x
           /\ \A k \in 2 .. Len(s) + 1 : t[k] = s[k - 1]
<1>1. <<x>> \in Seq(S) /\ Len(<<x>>) = 1 /\ <<x>>[1] = x
  OBVIOUS
<1>2. Len(s) \in Nat
  BY LenProperties
<1> DEFINE o == <<x>>
<1> HIDE DEF o
<1>3. o \in Seq(S) /\ Len(o) = 1 /\ o[1] = x
  BY <1>1 DEF o
<1>4. /\ o \o s \in Seq(S) /\ Len(o \o s) = Len(o) + Len(s)
      /\ \A k \in 1 .. Len(o) + Len(s) : (o \o s)[k] = IF k <= Len(o) THEN o[k] ELSE s[k - Len(o)]
  BY <1>3, ConcatProperties, Zenon
<1>5. DOMAIN (o \o s) = 1 .. Len(o \o s)
  BY <1>4, LenProperties
<1> DEFINE t == o \o s
<1> HIDE DEF t
<1>6. /\ t \in Seq(S) /\ DOMAIN t = 1 .. Len(s) + 1 /\ t[1] = x
      /\ \A k \in 2 .. Len(s) + 1 : t[k] = s[k - 1]
  BY <1>2, <1>3, <1>4, <1>5 DEF t
<1> QED
  BY <1>6 DEF t, o

\* A sequence with one element less.
LEMMA Removed ==
    ASSUME NEW S, NEW s \in Seq(S), NEW i \in 1 .. Len(s)
    PROVE  LET t == RemoveAt(s, i) IN
           /\ t \in Seq(S) /\ DOMAIN t = 1 .. Len(s) - 1
           /\ \A k \in 1 .. Len(s) - 1 : t[k] = IF k < i THEN s[k] ELSE s[k + 1]
<1> DEFINE t == RemoveAt(s, i)
           f == SubSeq(s, 1, i - 1)
           h == SubSeq(s, i + 1, Len(s))
<1>1. Len(s) \in Nat /\ \A k \in 1 .. Len(s) : s[k] \in S
  BY LenProperties, ElementOfSeq
<1>2. t = f \o h
  BY DEF RemoveAt
<1>3. f \in Seq(S) /\ Len(f) = i - 1 /\ \A k \in 1 .. i - 1 : f[k] = s[k]
  BY <1>1, SubSeqProperties
<1>4. h \in Seq(S) /\ Len(h) = Len(s) - i /\ \A k \in 1 .. Len(s) - i : h[k] = s[i + k]
  BY <1>1, SubSeqProperties
<1> HIDE DEF f, h, t
<1>5. /\ f \o h \in Seq(S) /\ Len(f \o h) = Len(f) + Len(h)
      /\ \A k \in 1 .. Len(f) + Len(h) : (f \o h)[k] = IF k <= Len(f) THEN f[k] ELSE h[k - Len(f)]
  BY <1>3, <1>4, ConcatProperties, Zenon
<1>6. Len(t) = Len(s) - 1 /\ t \in Seq(S)
  <2>1. Len(f \o h) = (i - 1) + (Len(s) - i)
    BY <1>3, <1>4, <1>5
  <2> QED
    BY <1>1, <1>2, <1>5, <2>1
<1>7. DOMAIN t = 1 .. Len(s) - 1
  BY <1>6, LenProperties
<1>8. ASSUME NEW k \in 1 .. Len(s) - 1 PROVE t[k] = IF k < i THEN s[k] ELSE s[k + 1]
  <2>1. k \in 1 .. Len(f) + Len(h)
    BY <1>1, <1>3, <1>4
  <2>2. t[k] = IF k <= Len(f) THEN f[k] ELSE h[k - Len(f)]
    BY <1>2, <1>5, <2>1
  <2>3. CASE k < i
    BY <1>1, <1>3, <2>2, <2>3
  <2>4. CASE ~(k < i)
    <3>1. k - (i - 1) \in 1 .. Len(s) - i /\ i + (k - (i - 1)) = k + 1
      BY <1>1, <2>4
    <3>2. t[k] = h[k - (i - 1)]
      BY <1>1, <1>3, <2>2, <2>4
    <3> QED
      BY <1>4, <2>4, <3>1, <3>2
  <2> QED
    BY <2>3, <2>4
<1> QED
  BY <1>6, <1>7, <1>8 DEF t

\* v gets its link: it is from then on the link that keeps it.
LEMMA LinkOK ==
    ASSUME NEW m, NEW ext, NEW own, Good(m, ext, own), NEW dir \in Allocated(m), NEW v \in Vnodes,
           dir # v, m.node[dir].fs = m.node[v].fs, NEW name \in Names,
           ext[v] > 0, Unlinked(m, Allocated(m), v), MountsOn(m, v) = {}, m.node[v].child = <<>>
    PROVE  LET n == vfs_append_link(m, dir, name, v) IN
           /\ Good(n, Less(ext, v), own)
           /\ Allocated(n) = Allocated(m)
           /\ \A x \in Allocated(m) : n.node[x].fs = m.node[x].fs
           /\ \A x : x # v /\ Unlinked(m, Allocated(m), x) => Unlinked(n, Allocated(n), x)
<1> DEFINE n == vfs_append_link(m, dir, name, v)
           A == Allocated(m)
           less == Less(ext, v)
           s == m.node[dir].child
           link == [name |-> name, vnode |-> v]
           t == <<link>> \o s
           r == [m.node[dir] EXCEPT !.child = t]
<1>1. /\ Shape(m) /\ Graph(m) /\ OneLink(m) /\ Counted(m, ext) /\ Driven(m, own) /\ Root(m)
      /\ dir \in Vnodes /\ MountsOK(m) /\ LinksOK(m) /\ NoRing(m)
      /\ v \in A \ {vfs_root} /\ m.node[dir] \in VnodeType
  BY Fields DEF Good, Graph, Allocated, Counted
<1>2. s \in Seq([name : Names, vnode : Vnodes]) /\ Len(s) \in Nat /\ DOMAIN s = 1 .. Len(s)
  BY <1>1, Fields, LenProperties
<1>3. link \in [name : Names, vnode : Vnodes] /\ link.vnode = v
  BY <1>1 DEF Allocated
<1>4. /\ t \in Seq([name : Names, vnode : Vnodes]) /\ DOMAIN t = 1 .. Len(s) + 1 /\ t[1] = link
      /\ \A k \in 2 .. Len(s) + 1 : t[k] = s[k - 1]
  BY <1>2, <1>3, Prepended
<1> HIDE DEF t
<1>5. Alike(m, n, dir) /\ n.node[dir] = r
  <2>1. PICK a, b : m = [node |-> a, drv |-> b] /\ a \in [Vnodes -> VnodeType \cup {None}]
    BY <1>1 DEF Shape
  <2>2. n = [node |-> [a EXCEPT ![dir] = [a[dir] EXCEPT !.child = t]], drv |-> b]
    BY <1>1, <2>1 DEF vfs_append_link, t
  <2>3. r = [a[dir] EXCEPT !.child = t]
    BY <2>1
  <2> HIDE DEF n, r
  <2> QED
    BY <1>1, <2>1, <2>2, <2>3 DEF Alike
<1>6. /\ r \in VnodeType /\ r.fs = m.node[dir].fs /\ r.mount = m.node[dir].mount
      /\ r.refcount = m.node[dir].refcount /\ r.child = t
  BY <1>1, <1>4 DEF VnodeType
<1> HIDE DEF n, r
<1>7. Shape(n) /\ Driven(n, own) /\ Allocated(n) = A
  BY <1>1, <1>5, <1>6, OneChanged
<1>8. \A x \in A : /\ n.node[x].fs = m.node[x].fs /\ n.node[x].mount = m.node[x].mount
                   /\ n.node[x].refcount = m.node[x].refcount
                   /\ n.node[x].child = IF x = dir THEN t ELSE m.node[x].child
  BY <1>5, <1>6 DEF Allocated, Alike
<1>9. ASSUME NEW x, NEW w \in A, w # dir PROVE LinksAt(n, w, x) = LinksAt(m, w, x)
  BY <1>8, <1>9 DEF LinksAt
<1>10. ASSUME NEW x, NEW k PROVE k \in LinksAt(n, dir, x) <=> (k = 1 /\ x = v) \/ (k \in 2 .. Len(s) + 1 /\ k - 1 \in LinksAt(m, dir, x))
  <2>1. k \in LinksAt(n, dir, x) <=> k \in 1 .. Len(s) + 1 /\ t[k].vnode = x
    BY <1>4, <1>8 DEF LinksAt
  <2>2. k \in 2 .. Len(s) + 1 => (k - 1 \in LinksAt(m, dir, x) <=> t[k].vnode = x)
    <3> SUFFICES ASSUME k \in 2 .. Len(s) + 1 PROVE k - 1 \in LinksAt(m, dir, x) <=> t[k].vnode = x
      OBVIOUS
    <3>1. t[k] = s[k - 1] /\ k - 1 \in 1 .. Len(s)
      BY <1>2, <1>4
    <3> QED
      BY <1>2, <3>1 DEF LinksAt
  <2>3. k = 1 => (t[k].vnode = x <=> x = v)
    BY <1>3, <1>4
  <2>4. k \in 1 .. Len(s) + 1 <=> k = 1 \/ k \in 2 .. Len(s) + 1
    BY <1>2
  <2>5. ~(1 \in 2 .. Len(s) + 1)
    BY <1>2
  <2> QED
    BY <2>1, <2>2, <2>3, <2>4, <2>5, Zenon
<1>11. ASSUME NEW x, x # v PROVE LinksAt(n, dir, x) = {} <=> LinksAt(m, dir, x) = {}
  <2>1. ASSUME NEW k \in LinksAt(m, dir, x) PROVE k + 1 \in LinksAt(n, dir, x)
    <3>1. k \in 1 .. Len(s)
      BY <1>2 DEF LinksAt
    <3>2. k + 1 \in 2 .. Len(s) + 1 /\ (k + 1) - 1 = k
      BY <1>2, <3>1
    <3> QED
      BY <1>10, <3>2
  <2>2. ASSUME NEW k \in LinksAt(n, dir, x) PROVE k - 1 \in LinksAt(m, dir, x)
    BY <1>10, <1>11
  <2> QED
    BY <2>1, <2>2
<1>12. ASSUME NEW S, S \subseteq A, NEW x, x # v PROVE Unlinked(n, S, x) <=> Unlinked(m, S, x)
  <2>1. ASSUME NEW w \in S PROVE LinksAt(n, w, x) = {} <=> LinksAt(m, w, x) = {}
    BY <1>9, <1>11, <1>12
  <2> QED
    BY <2>1 DEF Unlinked
<1>13. ~Unlinked(n, A, v)
  BY <1>10 DEF Unlinked
<1> HIDE DEF A, s
<1>14. Root(n)
  <2>1. dir # vfs_root
    BY <1>1, VfsAssumption DEF Root, A
  <2> QED
    BY <1>1, <1>7, <1>8, <2>1 DEF Root, A
<1>15. LinksOK(n)
  <2> SUFFICES ASSUME NEW w \in A, NEW k \in DOMAIN n.node[w].child, NEW u, u = n.node[w].child[k].vnode
               PROVE  u \in A \ {vfs_root} /\ m.node[u].fs = m.node[w].fs
    BY <1>7, <1>8 DEF LinksOK
  <2>1. k \in LinksAt(n, w, u)
    BY DEF LinksAt
  <2>2. ASSUME NEW j \in LinksAt(m, w, u) PROVE u \in A \ {vfs_root} /\ m.node[u].fs = m.node[w].fs
    BY <1>1 DEF LinksOK, LinksAt, A
  <2>3. CASE w = dir
    BY <1>1, <1>10, <2>1, <2>2, <2>3
  <2>4. CASE w # dir
    BY <1>9, <2>1, <2>2, <2>4
  <2> QED
    BY <2>3, <2>4
<1>16. OneLink(n)
  <2> SUFFICES ASSUME NEW u, NEW w1 \in A, NEW w2 \in A, NEW k1 \in LinksAt(n, w1, u), NEW k2 \in LinksAt(n, w2, u)
               PROVE  w1 = w2 /\ k1 = k2
    BY <1>7 DEF OneLink
  <2>1. CASE u = v
    <3>1. ASSUME NEW w \in A, NEW k \in LinksAt(n, w, v) PROVE w = dir /\ k = 1
      BY <1>9, <1>10 DEF Unlinked, A
    <3> QED
      BY <2>1, <3>1
  <2>2. CASE u # v
    <3>1. ASSUME NEW w \in A, NEW k \in LinksAt(n, w, u)
          PROVE  IF w = dir THEN k \in 2 .. Len(s) + 1 /\ k - 1 \in LinksAt(m, w, u) ELSE k \in LinksAt(m, w, u)
      BY <1>9, <1>10, <2>2
    <3>2. ASSUME NEW j1 \in LinksAt(m, w1, u), NEW j2 \in LinksAt(m, w2, u) PROVE w1 = w2 /\ j1 = j2
      BY <1>1 DEF OneLink, A
    <3>3. CASE w1 = dir /\ w2 = dir
      <4>1. k1 - 1 = k2 - 1 /\ k1 \in 2 .. Len(s) + 1 /\ k2 \in 2 .. Len(s) + 1
        BY <3>1, <3>2, <3>3
      <4> QED
        BY <1>2, <3>3, <4>1
    <3>4. CASE w1 # dir \/ w2 # dir
      BY <3>1, <3>2, <3>4
    <3> QED
      BY <3>3, <3>4
  <2> QED
    BY <2>1, <2>2
<1>17. NoRing(n)
  <2> SUFFICES ASSUME NEW S, S \subseteq A, S # {} PROVE \E u \in S : Unlinked(n, S, u)
    BY <1>7 DEF NoRing
  <2>0. \A x : LinksAt(n, v, x) = {}
    <3>1. \A x : LinksAt(m, v, x) = {}
      BY DEF LinksAt
    <3> QED
      BY <1>1, <1>9, <3>1
  <2>1. CASE S \subseteq {v}
    BY <2>0, <2>1 DEF Unlinked
  <2>2. CASE ~(S \subseteq {v})
    <3>1. S \ {v} # {} /\ S \ {v} \subseteq A
      BY <2>2
    <3>2. PICK u \in S \ {v} : Unlinked(m, S \ {v}, u)
      BY <1>1, <3>1 DEF NoRing, A
    <3>3. Unlinked(n, S \ {v}, u)
      BY <1>12, <3>1, <3>2
    <3> QED
      BY <2>0, <3>3 DEF Unlinked
  <2> QED
    BY <2>1, <2>2
<1>18. MountsOK(n)
  <2> SUFFICES ASSUME NEW w \in A, NEW u, u = m.node[w].mount, u # None
               PROVE  /\ u \in A \ {vfs_root} /\ Unlinked(n, A, u)
                      /\ <<m.node[w].fs, m.node[u].fs>> \in MountOrder
    BY <1>7, <1>8 DEF MountsOK
  <2>1. /\ u \in A \ {vfs_root} /\ Unlinked(m, A, u)
        /\ <<m.node[w].fs, m.node[u].fs>> \in MountOrder
    BY <1>1 DEF MountsOK, A
  <2>2. u # v
    BY DEF MountsOn, A
  <2> QED
    BY <1>12, <2>1, <2>2
<1>19. Counted(n, less)
  <2>1. less \in [Vnodes -> Nat] /\ \A x \in Vnodes : less[x] = IF x = v THEN ext[x] - 1 ELSE ext[x]
    BY <1>1 DEF Counted, Less
  <2>2. ASSUME NEW x \in Vnodes, less[x] > 0 PROVE x \in A \ {vfs_root}
    BY <1>1, <2>1, <2>2 DEF Counted, A
  <2>3. ASSUME NEW x \in A, x # vfs_root
        PROVE  /\ n.node[x].refcount > 0
               /\ n.node[x].refcount = Cardinality(LinksFrom(n, A, x)) + Cardinality(MountsOn(n, x)) + less[x]
    <3>1. MountsOn(n, x) = MountsOn(m, x)
      BY <1>7, <1>8 DEF MountsOn, A
    <3>2. Cardinality(LinksFrom(m, A, x)) = IF Unlinked(m, A, x) THEN 0 ELSE 1
      BY <1>1, LinkCount DEF A
    <3>3. Cardinality(LinksFrom(n, A, x)) = IF Unlinked(n, A, x) THEN 0 ELSE 1
      BY <1>7, <1>16, LinkCount
    <3>4. /\ m.node[x].refcount > 0 /\ x \in Vnodes
          /\ m.node[x].refcount = Cardinality(LinksFrom(m, A, x)) + Cardinality(MountsOn(m, x)) + ext[x]
      BY <1>1, <2>3 DEF Counted, Allocated, A
    <3>5. Cardinality(MountsOn(m, x)) \in Nat /\ ext[x] \in Nat
      BY <1>1, <3>4, Finite DEF MountsOn, Counted, A
    <3>6. IF x = v THEN Unlinked(m, A, x) /\ ~Unlinked(n, A, x) ELSE Unlinked(m, A, x) <=> Unlinked(n, A, x)
      BY <1>12, <1>13 DEF A
    <3>7. n.node[x].refcount = m.node[x].refcount /\ less[x] = IF x = v THEN ext[x] - 1 ELSE ext[x]
      BY <1>8, <2>1, <3>4
    <3> HIDE DEF less
    <3>8. CASE x = v
      BY <3>1, <3>2, <3>3, <3>4, <3>5, <3>6, <3>7, <3>8
    <3>9. CASE x # v
      BY <3>1, <3>2, <3>3, <3>4, <3>5, <3>6, <3>7, <3>9
    <3> QED
      BY <3>8, <3>9
  <2> QED
    BY <1>7, <2>1, <2>2, <2>3 DEF Counted
<1>20. Graph(n)
  BY <1>7, <1>14, <1>15, <1>16, <1>17, <1>18 DEF Graph
<1> QED
  BY <1>7, <1>8, <1>12, <1>19, <1>20 DEF Good, n, A

\* No vnode has a link to itself.
LEMMA NotItself ==
    ASSUME NEW m, NoRing(m), NEW w \in Allocated(m), NEW k \in DOMAIN m.node[w].child
    PROVE  m.node[w].child[k].vnode # w
<1>1. PICK u \in {w} : Unlinked(m, {w}, u)
  BY DEF NoRing
<1> QED
  BY <1>1 DEF Unlinked, LinksAt

\* The link to u goes: someone else has the reference from then on.
LEMMA UnlinkOK ==
    ASSUME NEW m, NEW ext, NEW own, Good(m, ext, own), NEW dir \in Allocated(m),
           NEW k \in DOMAIN m.node[dir].child, NEW u, u = m.node[dir].child[k].vnode
    PROVE  LET n == remove_link(m, dir, k) IN
           /\ Good(n, More(ext, u), own)
           /\ Allocated(n) = Allocated(m)
           /\ u \in Vnodes /\ u \in Allocated(m) \ {vfs_root} /\ u # dir
           /\ \A x \in Allocated(m) :
                 /\ n.node[x].fs = m.node[x].fs /\ n.node[x].mount = m.node[x].mount
                 /\ n.node[x].refcount = m.node[x].refcount
           /\ Alike(m, n, dir)
           /\ n.node[dir] = [m.node[dir] EXCEPT !.child = RemoveAt(m.node[dir].child, k)]
           /\ \A x : Unlinked(m, Allocated(m), x) => Unlinked(n, Allocated(n), x)
<1> DEFINE n == remove_link(m, dir, k)
           A == Allocated(m)
           more == More(ext, u)
           s == m.node[dir].child
           t == RemoveAt(s, k)
           r == [m.node[dir] EXCEPT !.child = t]
           up(j) == IF j < k THEN j ELSE j + 1
<1>1. /\ Shape(m) /\ Graph(m) /\ OneLink(m) /\ Counted(m, ext) /\ Driven(m, own) /\ Root(m)
      /\ dir \in Vnodes /\ MountsOK(m) /\ LinksOK(m) /\ NoRing(m) /\ m.node[dir] \in VnodeType
  BY Fields DEF Good, Graph, Allocated
<1>2. s \in Seq([name : Names, vnode : Vnodes]) /\ Len(s) \in Nat /\ DOMAIN s = 1 .. Len(s)
  BY <1>1, Fields, LenProperties
<1>3. u \in Vnodes /\ u \in A \ {vfs_root} /\ u # dir /\ k \in LinksAt(m, dir, u)
  BY <1>1, NotItself DEF LinksOK, LinksAt, Allocated
<1>4. /\ t \in Seq([name : Names, vnode : Vnodes]) /\ DOMAIN t = 1 .. Len(s) - 1
      /\ \A j \in 1 .. Len(s) - 1 : t[j] = IF j < k THEN s[j] ELSE s[j + 1]
  BY <1>2, Removed
<1> HIDE DEF t
<1>5. Alike(m, n, dir) /\ n.node[dir] = r
  <2>1. PICK a, b : m = [node |-> a, drv |-> b] /\ a \in [Vnodes -> VnodeType \cup {None}]
    BY <1>1 DEF Shape
  <2>2. n = [node |-> [a EXCEPT ![dir] = [a[dir] EXCEPT !.child = t]], drv |-> b]
    BY <1>1, <2>1 DEF remove_link, t
  <2>3. r = [a[dir] EXCEPT !.child = t]
    BY <2>1
  <2> HIDE DEF n, r
  <2> QED
    BY <1>1, <2>1, <2>2, <2>3 DEF Alike
<1>6. /\ r \in VnodeType /\ r.fs = m.node[dir].fs /\ r.mount = m.node[dir].mount
      /\ r.refcount = m.node[dir].refcount /\ r.child = t
  BY <1>1, <1>4 DEF VnodeType
<1> HIDE DEF n, r
<1>7. Shape(n) /\ Driven(n, own) /\ Allocated(n) = A
  BY <1>1, <1>5, <1>6, OneChanged
<1>8. \A x \in A : /\ n.node[x].fs = m.node[x].fs /\ n.node[x].mount = m.node[x].mount
                   /\ n.node[x].refcount = m.node[x].refcount
                   /\ n.node[x].child = IF x = dir THEN t ELSE m.node[x].child
  BY <1>5, <1>6 DEF Allocated, Alike
<1>9. ASSUME NEW x, NEW w \in A, w # dir PROVE LinksAt(n, w, x) = LinksAt(m, w, x)
  BY <1>8, <1>9 DEF LinksAt
<1>10. ASSUME NEW x, NEW j
       PROVE j \in LinksAt(n, dir, x) <=> j \in 1 .. Len(s) - 1 /\ up(j) \in LinksAt(m, dir, x)
  <2>1. j \in LinksAt(n, dir, x) <=> j \in 1 .. Len(s) - 1 /\ t[j].vnode = x
    BY <1>4, <1>8 DEF LinksAt
  <2>2. ASSUME j \in 1 .. Len(s) - 1 PROVE up(j) \in LinksAt(m, dir, x) <=> t[j].vnode = x
    <3>1. t[j] = s[up(j)] /\ up(j) \in 1 .. Len(s)
      BY <1>2, <1>4, <2>2
    <3> HIDE DEF up
    <3> QED
      BY <1>2, <3>1 DEF LinksAt
  <2> QED
    BY <2>1, <2>2
<1>11. ASSUME NEW j1 \in 1 .. Len(s) - 1, NEW j2 \in 1 .. Len(s) - 1, up(j1) = up(j2) PROVE j1 = j2
  BY <1>2, <1>11
<1>12. ASSUME NEW j \in 1 .. Len(s) - 1 PROVE up(j) # k
  BY <1>2
<1>13. ASSUME NEW j \in 1 .. Len(s), j # k PROVE \E i \in 1 .. Len(s) - 1 : up(i) = j
  <2>1. CASE j < k
    BY <1>2, <2>1
  <2>2. CASE ~(j < k)
    <3>1. j - 1 \in 1 .. Len(s) - 1 /\ ~(j - 1 < k) /\ (j - 1) + 1 = j
      BY <1>2, <1>13, <2>2
    <3> QED
      BY <3>1
  <2> QED
    BY <2>1, <2>2
<1> HIDE DEF up
<1>14. ASSUME NEW x, x # u, LinksAt(m, dir, x) # {} PROVE LinksAt(n, dir, x) # {}
  <2>1. PICK j \in 1 .. Len(s) : j \in LinksAt(m, dir, x) /\ j # k
    BY <1>2, <1>14 DEF LinksAt
  <2> QED
    BY <1>10, <1>13, <2>1
<1>15. LinksAt(n, dir, u) = {}
  <2> SUFFICES ASSUME NEW j \in LinksAt(n, dir, u) PROVE FALSE
    OBVIOUS
  <2>1. j \in 1 .. Len(s) - 1 /\ up(j) \in LinksAt(m, dir, u)
    BY <1>10
  <2>2. up(j) = k
    BY <1>1, <1>3, <2>1 DEF OneLink
  <2> QED
    BY <1>12, <2>1, <2>2
<1>16. ASSUME NEW S, S \subseteq A, NEW x, Unlinked(m, S, x) PROVE Unlinked(n, S, x)
  <2>1. ASSUME NEW w \in S PROVE LinksAt(n, w, x) = {}
    BY <1>9, <1>10, <1>16 DEF Unlinked
  <2> QED
    BY <2>1 DEF Unlinked
<1>17. ASSUME NEW x, x # u, Unlinked(n, A, x) PROVE Unlinked(m, A, x)
  <2>1. ASSUME NEW w \in A PROVE LinksAt(m, w, x) = {}
    BY <1>9, <1>14, <1>17 DEF Unlinked
  <2> QED
    BY <2>1 DEF Unlinked
<1>18. Unlinked(n, A, u) /\ ~Unlinked(m, A, u)
  <2>1. ASSUME NEW w \in A, w # dir PROVE LinksAt(m, w, u) = {}
    BY <1>1, <1>3, <2>1 DEF OneLink
  <2>2. ASSUME NEW w \in A PROVE LinksAt(n, w, u) = {}
    BY <1>9, <1>15, <2>1
  <2> QED
    BY <1>3, <2>2 DEF Unlinked
<1> HIDE DEF A, s
<1>19. Root(n)
  <2>1. dir # vfs_root
    BY <1>1, <1>2, <1>3 DEF Root, LinksAt
  <2> QED
    BY <1>1, <1>7, <1>8, <2>1 DEF Root, A
<1>20. LinksOK(n)
  <2> SUFFICES ASSUME NEW w \in A, NEW j \in DOMAIN n.node[w].child, NEW x, x = n.node[w].child[j].vnode
               PROVE  x \in A \ {vfs_root} /\ m.node[x].fs = m.node[w].fs
    BY <1>7, <1>8 DEF LinksOK
  <2>1. j \in LinksAt(n, w, x)
    BY DEF LinksAt
  <2>2. ASSUME NEW i \in LinksAt(m, w, x) PROVE x \in A \ {vfs_root} /\ m.node[x].fs = m.node[w].fs
    BY <1>1 DEF LinksOK, LinksAt, A
  <2>3. CASE w = dir
    BY <1>10, <2>1, <2>2, <2>3
  <2>4. CASE w # dir
    BY <1>9, <2>1, <2>2, <2>4
  <2> QED
    BY <2>3, <2>4
<1>21. OneLink(n)
  <2> SUFFICES ASSUME NEW x, NEW w1 \in A, NEW w2 \in A, NEW k1 \in LinksAt(n, w1, x), NEW k2 \in LinksAt(n, w2, x)
               PROVE  w1 = w2 /\ k1 = k2
    BY <1>7 DEF OneLink
  <2>1. ASSUME NEW w \in A, NEW j \in LinksAt(n, w, x)
        PROVE IF w = dir THEN j \in 1 .. Len(s) - 1 /\ up(j) \in LinksAt(m, w, x) ELSE j \in LinksAt(m, w, x)
    BY <1>9, <1>10
  <2>2. ASSUME NEW j1 \in LinksAt(m, w1, x), NEW j2 \in LinksAt(m, w2, x) PROVE w1 = w2 /\ j1 = j2
    BY <1>1 DEF OneLink, A
  <2>3. CASE w1 = dir /\ w2 = dir
    BY <1>11, <2>1, <2>2, <2>3
  <2>4. CASE w1 # dir \/ w2 # dir
    BY <2>1, <2>2, <2>4
  <2> QED
    BY <2>3, <2>4
<1>22. NoRing(n)
  <2> SUFFICES ASSUME NEW S, S \subseteq A, S # {} PROVE \E x \in S : Unlinked(n, S, x)
    BY <1>7 DEF NoRing
  <2>1. PICK x \in S : Unlinked(m, S, x)
    BY <1>1 DEF NoRing, A
  <2> QED
    BY <1>16, <2>1
<1>23. MountsOK(n)
  <2> SUFFICES ASSUME NEW w \in A, NEW x, x = m.node[w].mount, x # None
               PROVE  /\ x \in A \ {vfs_root} /\ Unlinked(n, A, x)
                      /\ <<m.node[w].fs, m.node[x].fs>> \in MountOrder
    BY <1>7, <1>8 DEF MountsOK
  <2>1. /\ x \in A \ {vfs_root} /\ Unlinked(m, A, x)
        /\ <<m.node[w].fs, m.node[x].fs>> \in MountOrder
    BY <1>1 DEF MountsOK, A
  <2> QED
    BY <1>16, <2>1
<1>24. Counted(n, more)
  <2>1. more \in [Vnodes -> Nat] /\ \A x \in Vnodes : more[x] = IF x = u THEN ext[x] + 1 ELSE ext[x]
    <3>1. ext \in [Vnodes -> Nat] /\ u \in Vnodes
      BY <1>1, <1>3 DEF Counted
    <3> QED
      BY <3>1 DEF More
  <2>2. ASSUME NEW x \in Vnodes, more[x] > 0 PROVE x \in A \ {vfs_root}
    BY <1>1, <1>3, <2>1, <2>2 DEF Counted, A
  <2>3. ASSUME NEW x \in A, x # vfs_root
        PROVE  /\ n.node[x].refcount > 0
               /\ n.node[x].refcount = Cardinality(LinksFrom(n, A, x)) + Cardinality(MountsOn(n, x)) + more[x]
    <3>1. MountsOn(n, x) = MountsOn(m, x)
      BY <1>7, <1>8 DEF MountsOn, A
    <3>2. Cardinality(LinksFrom(m, A, x)) = IF Unlinked(m, A, x) THEN 0 ELSE 1
      BY <1>1, LinkCount DEF A
    <3>3. Cardinality(LinksFrom(n, A, x)) = IF Unlinked(n, A, x) THEN 0 ELSE 1
      BY <1>7, <1>21, LinkCount
    <3>4. /\ m.node[x].refcount > 0 /\ x \in Vnodes
          /\ m.node[x].refcount = Cardinality(LinksFrom(m, A, x)) + Cardinality(MountsOn(m, x)) + ext[x]
      BY <1>1, <2>3 DEF Counted, Allocated, A
    <3>5. Cardinality(MountsOn(m, x)) \in Nat /\ ext[x] \in Nat
      BY <1>1, <3>4, Finite DEF MountsOn, Counted, A
    <3>6. n.node[x].refcount = m.node[x].refcount /\ more[x] = IF x = u THEN ext[x] + 1 ELSE ext[x]
      BY <1>8, <2>1, <3>4
    <3> HIDE DEF more
    <3>7. CASE x = u
      BY <1>18, <3>1, <3>2, <3>3, <3>4, <3>5, <3>6, <3>7
    <3>8. CASE x # u
      <4>1. Unlinked(m, A, x) <=> Unlinked(n, A, x)
        BY <1>16, <1>17, <3>8
      <4> QED
        BY <3>1, <3>2, <3>3, <3>4, <3>5, <3>6, <3>8, <4>1
    <3> QED
      BY <3>7, <3>8
  <2> QED
    BY <1>7, <2>1, <2>2, <2>3 DEF Counted
<1>25. Graph(n)
  BY <1>7, <1>19, <1>20, <1>21, <1>22, <1>23 DEF Graph
<1>26. n.node[dir] = [m.node[dir] EXCEPT !.child = RemoveAt(m.node[dir].child, k)]
  BY <1>5 DEF r, t, s
<1>27. Good(n, more, own)
  BY <1>7, <1>24, <1>25 DEF Good
<1> HIDE DEF more
<1> QED
  BY <1>3, <1>5, <1>7, <1>8, <1>16, <1>26, <1>27 DEF n, A, more

-----------------------------------------------------------------------------
(* New vnodes *)

\* v was not in memory and is now, with one reference from outside.
Added(m, n, v, f) ==
    /\ \A u \in Vnodes : u # v => n.node[u] = m.node[u]
    /\ n.node[v] \in VnodeType
    /\ n.node[v].fs = f /\ n.node[v].refcount = 1
    /\ n.node[v].child = <<>> /\ n.node[v].mount = None

\* A new vnode that nothing refers to but who made it.
LEMMA AddedOK ==
    ASSUME NEW m, NEW ext, NEW own, Good(m, ext, own), NEW v \in Unused(m), NEW f \in Fs,
           NEW n, NEW has, Shape(n), Driven(n, has), Added(m, n, v, f)
    PROVE  /\ Good(n, More(ext, v), has) /\ ext[v] = 0
           /\ Allocated(n) = Allocated(m) \cup {v} /\ v # vfs_root /\ v \in Vnodes
           /\ Unlinked(n, Allocated(n), v) /\ MountsOn(n, v) = {}
           /\ \A x \in Allocated(m) : Unlinked(m, Allocated(m), x) => Unlinked(n, Allocated(n), x)
<1> DEFINE A == Allocated(m)
           more == More(ext, v)
<1>1. /\ Shape(m) /\ Graph(m) /\ OneLink(m) /\ Counted(m, ext) /\ Root(m)
      /\ MountsOK(m) /\ LinksOK(m) /\ NoRing(m)
  BY DEF Good, Graph
<1>2. v \in Vnodes /\ v \notin A /\ v # vfs_root /\ v # None
  BY <1>1, VfsAssumption DEF Root, Unused
<1>3. Allocated(n) = A \cup {v}
  BY <1>2, VfsAssumption DEF Added, Allocated
<1>4. \A x \in A : n.node[x] = m.node[x]
  BY <1>2 DEF Added, Allocated
<1>5. ext[v] = 0
  BY <1>1, <1>2 DEF Counted
<1>6. ASSUME NEW x, NEW w \in A PROVE LinksAt(n, w, x) = LinksAt(m, w, x)
  BY <1>4 DEF LinksAt
<1>7. ASSUME NEW x PROVE LinksAt(n, v, x) = {}
  <2>1. DOMAIN n.node[v].child = {}
    BY DEF Added
  <2> QED
    BY <2>1 DEF LinksAt
<1>8. ASSUME NEW S, S \subseteq A \cup {v}, NEW x PROVE Unlinked(n, S, x) <=> Unlinked(m, S \ {v}, x)
  BY <1>6, <1>7, <1>8 DEF Unlinked
<1>9. Unlinked(m, A, v)
  BY <1>1, <1>2 DEF Unlinked, LinksAt, LinksOK
<1> HIDE DEF A
<1>10. A \cup {v} \subseteq A \cup {v} /\ (A \cup {v}) \ {v} = A
  BY <1>2 DEF A
<1>11. ASSUME NEW x PROVE Unlinked(n, A \cup {v}, x) <=> Unlinked(m, A, x)
  <2>1. Unlinked(n, A \cup {v}, x) <=> Unlinked(m, (A \cup {v}) \ {v}, x)
    BY <1>8, <1>10
  <2> QED
    BY <1>10, <2>1
<1>12. ASSUME NEW x, x # None PROVE MountsOn(n, x) = MountsOn(m, x)
  BY <1>3, <1>4, <1>12 DEF MountsOn, Added, A
<1>13. MountsOn(m, v) = {}
  BY <1>1, <1>2 DEF MountsOn, MountsOK, A
<1>14. Root(n)
  BY <1>1, <1>2, <1>3, <1>4 DEF Root, Added, A
<1>15. LinksOK(n)
  <2> SUFFICES ASSUME NEW w \in A \cup {v}, NEW k \in DOMAIN n.node[w].child, NEW x, x = n.node[w].child[k].vnode
               PROVE  x \in (A \cup {v}) \ {vfs_root} /\ n.node[x].fs = n.node[w].fs
    BY <1>3 DEF LinksOK
  <2>1. k \in LinksAt(n, w, x)
    BY DEF LinksAt
  <2>2. w \in A
    BY <1>7, <2>1
  <2>3. x \in A \ {vfs_root} /\ m.node[x].fs = m.node[w].fs
    BY <1>1, <1>4, <2>2 DEF LinksOK, A
  <2> QED
    BY <1>4, <2>2, <2>3
<1>16. OneLink(n)
  <2> SUFFICES ASSUME NEW x, NEW w1 \in A \cup {v}, NEW w2 \in A \cup {v},
                      NEW k1 \in LinksAt(n, w1, x), NEW k2 \in LinksAt(n, w2, x)
               PROVE  w1 = w2 /\ k1 = k2
    BY <1>3 DEF OneLink
  <2>1. w1 \in A /\ w2 \in A
    BY <1>7
  <2>2. k1 \in LinksAt(m, w1, x) /\ k2 \in LinksAt(m, w2, x)
    BY <1>6, <2>1
  <2> QED
    BY <1>1, <2>1, <2>2 DEF OneLink, A
<1>17. NoRing(n)
  <2> SUFFICES ASSUME NEW S, S \subseteq A \cup {v}, S # {} PROVE \E x \in S : Unlinked(n, S, x)
    BY <1>3 DEF NoRing
  <2>1. CASE S \ {v} = {}
    <3>1. PICK x : x \in S
      OBVIOUS
    <3>2. Unlinked(m, S \ {v}, x)
      BY <2>1 DEF Unlinked
    <3> QED
      BY <1>8, <3>1, <3>2
  <2>2. CASE S \ {v} # {}
    <3>1. S \ {v} \subseteq A
      OBVIOUS
    <3>2. PICK x \in S \ {v} : Unlinked(m, S \ {v}, x)
      BY <1>1, <2>2, <3>1 DEF NoRing, A
    <3> QED
      BY <1>8, <3>2
  <2> QED
    BY <2>1, <2>2
<1>18. MountsOK(n)
  <2> SUFFICES ASSUME NEW w \in A \cup {v}, NEW x, x = n.node[w].mount, x # None
               PROVE  /\ x \in (A \cup {v}) \ {vfs_root} /\ Unlinked(n, A \cup {v}, x)
                      /\ <<n.node[w].fs, n.node[x].fs>> \in MountOrder
    BY <1>3 DEF MountsOK
  <2>1. w \in A
    BY DEF Added
  <2>2. x \in A \ {vfs_root} /\ Unlinked(m, A, x) /\ <<m.node[w].fs, m.node[x].fs>> \in MountOrder
    BY <1>1, <1>4, <2>1 DEF MountsOK, A
  <2> QED
    BY <1>4, <1>11, <2>1, <2>2
<1>19. Counted(n, more)
  <2>1. more \in [Vnodes -> Nat] /\ \A x \in Vnodes : more[x] = IF x = v THEN 1 ELSE ext[x]
    BY <1>1, <1>2, <1>5 DEF Counted, More
  <2>2. ASSUME NEW x \in Vnodes, more[x] > 0 PROVE x \in (A \cup {v}) \ {vfs_root}
    BY <1>1, <1>2, <2>1, <2>2 DEF Counted, A
  <2>3. ASSUME NEW x \in A \cup {v}, x # vfs_root
        PROVE  /\ n.node[x].refcount > 0
               /\ n.node[x].refcount = Cardinality(LinksFrom(n, A \cup {v}, x)) + Cardinality(MountsOn(n, x)) + more[x]
    <3>1. x \in Vnodes /\ x # None
      BY <1>2, VfsAssumption DEF A, Allocated
    <3>2. Cardinality(MountsOn(n, x)) = Cardinality(MountsOn(m, x)) /\ more[x] = IF x = v THEN 1 ELSE ext[x]
      BY <1>12, <2>1, <3>1
    <3>3. Cardinality(LinksFrom(m, A, x)) = IF Unlinked(m, A, x) THEN 0 ELSE 1
      BY <1>1, LinkCount DEF A
    <3>4. Cardinality(LinksFrom(n, A \cup {v}, x)) = IF Unlinked(n, A \cup {v}, x) THEN 0 ELSE 1
      BY <1>3, <1>16, LinkCount
    <3>5. Cardinality(LinksFrom(n, A \cup {v}, x)) = Cardinality(LinksFrom(m, A, x))
      BY <1>11, <3>3, <3>4
    <3> HIDE DEF more
    <3>6. CASE x = v
      <4>1. Cardinality(LinksFrom(n, A \cup {v}, x)) = 0
        BY <1>9, <3>3, <3>5, <3>6 DEF A
      <4>2. Cardinality(MountsOn(n, x)) = 0
        BY <1>13, <3>2, <3>6, FS_EmptySet
      <4> QED
        BY <3>2, <3>6, <4>1, <4>2 DEF Added
    <3>7. CASE x # v
      <4>1. /\ m.node[x].refcount > 0
            /\ m.node[x].refcount = Cardinality(LinksFrom(m, A, x)) + Cardinality(MountsOn(m, x)) + ext[x]
        BY <1>1, <2>3, <3>7 DEF Counted, A
      <4> QED
        BY <1>4, <3>2, <3>5, <3>7, <4>1
    <3> QED
      BY <3>6, <3>7
  <2> QED
    BY <1>3, <2>1, <2>2, <2>3 DEF Counted
<1>20. Unlinked(n, A \cup {v}, v) /\ \A x \in A : Unlinked(m, A, x) => Unlinked(n, A \cup {v}, x)
  BY <1>9, <1>11 DEF A
<1>21. MountsOn(n, v) = {}
  BY <1>2, <1>12, <1>13
<1>22. Good(n, more, has)
  BY <1>14, <1>15, <1>16, <1>17, <1>18, <1>19 DEF Good, Graph
<1> HIDE DEF more
<1> QED
  BY <1>2, <1>3, <1>5, <1>20, <1>21, <1>22 DEF A, more

New(f) == [fs |-> f, refcount |-> 1, child |-> <<>>, mount |-> None]

\* tmpfs_create and devfs_create
LEMMA CreateOK ==
    ASSUME NEW m, NEW ext, NEW own, Good(m, ext, own), NEW f \in Fs, m.drv[f] = None, NEW v \in Unused(m)
    PROVE  LET n == fs_create(m, f, v) IN
           /\ Good(n, More(ext, v), [own EXCEPT ![f] = 1]) /\ ext[v] = 0 /\ own[f] = 0
           /\ Allocated(n) = Allocated(m) \cup {v} /\ v # vfs_root /\ v \in Vnodes
           /\ Unlinked(n, Allocated(n), v) /\ n.node[v].fs = f
           /\ \A x \in Allocated(m) : n.node[x] = m.node[x]
           /\ \A x \in Allocated(m) : Unlinked(m, Allocated(m), x) => Unlinked(n, Allocated(n), x)
<1> DEFINE n == fs_create(m, f, v)
           has == [own EXCEPT ![f] = 1]
<1>1. Shape(m) /\ Driven(m, own) /\ v \in Vnodes /\ v \notin Allocated(m) /\ f # NoFs
  BY VfsAssumption DEF Good, Graph, Unused, Fs
<1>2. PICK a, b : /\ m = [node |-> a, drv |-> b] /\ a \in [Vnodes -> VnodeType \cup {None}]
                  /\ b \in [Fs -> DriverType \cup {None}]
  BY <1>1 DEF Shape
<1> DEFINE m1 == [node |-> [a EXCEPT ![v] = Vnode(f)], drv |-> [b EXCEPT ![f] = [refcount |-> 0]]]
           m2 == [node |-> [a EXCEPT ![v] = Vnode(f)], drv |-> [b EXCEPT ![f] = [refcount |-> 1]]]
           m3 == [node |-> [a EXCEPT ![v] = New(f)], drv |-> [b EXCEPT ![f] = [refcount |-> 2]]]
<1>3. [m EXCEPT !.node[v] = Vnode(f), !.drv[f] = [refcount |-> 0]] = m1
  <2> DEFINE z == [refcount |-> 0]
             y == Vnode(f)
  <2> HIDE DEF z, y
  <2>1. [[node |-> a, drv |-> b] EXCEPT !.node[v] = y] = [node |-> [a EXCEPT ![v] = y], drv |-> b]
    OBVIOUS
  <2>2. [[node |-> [a EXCEPT ![v] = y], drv |-> b] EXCEPT !.drv[f] = z]
           = [node |-> [a EXCEPT ![v] = y], drv |-> [b EXCEPT ![f] = z]]
    OBVIOUS
  <2>3. [m EXCEPT !.node[v] = y, !.drv[f] = z] = [[[node |-> a, drv |-> b] EXCEPT !.node[v] = y] EXCEPT !.drv[f] = z]
    BY <1>2, Zenon
  <2> QED
    BY <2>1, <2>2, <2>3, Zenon DEF z, y
<1>4. vfs_driver_ref(m1, f) = m2
  BY <1>2 DEF vfs_driver_ref
<1>5. vfs_ref(m2, v) = m3
  <2>1. m2.node[v] = Vnode(f) /\ Vnode(f).refcount = 0 /\ Vnode(f).fs = f
    BY <1>1, <1>2 DEF Vnode
  <2>2. vfs_ref(m2, v) = [vfs_driver_ref(m2, f) EXCEPT !.node[v].refcount = @ + 1]
    <3> HIDE DEF m2
    <3> QED
      BY <1>1, <2>1 DEF vfs_ref
  <2>3. vfs_driver_ref(m2, f) = [node |-> [a EXCEPT ![v] = Vnode(f)], drv |-> [b EXCEPT ![f] = [refcount |-> 2]]]
    BY <1>2 DEF vfs_driver_ref
  <2>4. [Vnode(f) EXCEPT !.refcount = @ + 1] = New(f)
    BY DEF Vnode, New
  <2>5. [[node |-> [a EXCEPT ![v] = Vnode(f)], drv |-> [b EXCEPT ![f] = [refcount |-> 2]]]
            EXCEPT !.node[v].refcount = @ + 1] = m3
    BY <1>1, <1>2, <2>4
  <2> QED
    BY <2>2, <2>3, <2>5
<1>6. n = m3
  BY <1>3, <1>4, <1>5 DEF fs_create
<1> HIDE DEF n
<1>7. /\ n.node[v] = New(f) /\ \A x \in Vnodes : x # v => n.node[x] = m.node[x]
      /\ n.drv[f] = [refcount |-> 2] /\ \A g \in Fs : g # f => n.drv[g] = m.drv[g]
      /\ n = [node |-> n.node, drv |-> n.drv]
      /\ n.node = [x \in Vnodes |-> n.node[x]] /\ n.drv = [g \in Fs |-> n.drv[g]]
  BY <1>1, <1>2, <1>6
<1>8. New(f) \in VnodeType /\ New(f).fs = f /\ New(f).refcount = 1 /\ New(f).child = <<>> /\ New(f).mount = None
  BY DEF New, VnodeType
<1>9. Added(m, n, v, f)
  BY <1>7, <1>8 DEF Added
<1>10. Shape(n)
  <2>1. \A x \in Vnodes : n.node[x] \in VnodeType \cup {None}
    BY <1>1, <1>7, <1>8 DEF Shape
  <2>2. [refcount |-> 2] \in DriverType
    BY DEF DriverType
  <2>3. \A g \in Fs : n.drv[g] \in DriverType \cup {None}
    BY <1>1, <1>7, <2>2 DEF Shape
  <2> QED
    BY <1>7, <2>1, <2>3 DEF Shape
<1>11. \A x \in Allocated(m) : n.node[x] = m.node[x]
  BY <1>1, <1>7 DEF Allocated
<1>12. Allocated(n) = Allocated(m) \cup {v}
  BY <1>1, <1>7, <1>8, VfsAssumption DEF Allocated
<1>13. Driven(n, has)
  <2>1. has \in [Fs -> {0, 1}] /\ \A g \in Fs : has[g] = IF g = f THEN 1 ELSE own[g]
    BY <1>1 DEF Driven
  <2>2. ASSUME NEW g \in Fs
        PROVE  IF n.drv[g] = None THEN VnodesOf(n, g) = {} /\ has[g] = 0
               ELSE n.drv[g].refcount = Cardinality(VnodesOf(n, g)) + has[g] /\ n.drv[g].refcount > 0
    <3>1. CASE g = f
      <4>1. VnodesOf(m, f) = {}
        BY <1>1 DEF Driven
      <4>2. VnodesOf(n, f) = {v}
        BY <1>7, <1>8, <1>11, <1>12, <4>1 DEF VnodesOf
      <4>3. [refcount |-> 2] # None
        BY VfsAssumption DEF DriverType
      <4>4. n.drv[f].refcount = 2 /\ n.drv[f] # None
        BY <1>7, <4>3
      <4> HIDE DEF has
      <4>5. has[f] = 1
        BY <2>1
      <4>6. Cardinality({v}) = 1
        BY FS_Singleton
      <4> QED
        BY <3>1, <4>2, <4>4, <4>5, <4>6
    <3>2. CASE g # f
      <4>1. VnodesOf(n, g) = VnodesOf(m, g)
        BY <1>7, <1>8, <1>11, <1>12, <3>2 DEF VnodesOf
      <4> QED
        BY <1>1, <1>7, <2>1, <3>2, <4>1 DEF Driven
    <3> QED
      BY <3>1, <3>2
  <2> QED
    BY <2>1, <2>2 DEF Driven
<1>14. own[f] = 0
  BY <1>1 DEF Driven
<1>15. /\ Good(n, More(ext, v), has) /\ ext[v] = 0
       /\ Allocated(n) = Allocated(m) \cup {v} /\ v # vfs_root /\ v \in Vnodes
       /\ Unlinked(n, Allocated(n), v)
       /\ \A x \in Allocated(m) : Unlinked(m, Allocated(m), x) => Unlinked(n, Allocated(n), x)
  BY <1>9, <1>10, <1>13, AddedOK
<1> QED
  BY <1>7, <1>8, <1>11, <1>14, <1>15 DEF n

\* tmpfs_createi and devfs_bind_dev
LEMMA LinkedOK ==
    ASSUME NEW m, NEW ext, NEW own, Good(m, ext, own), NEW dir \in Allocated(m), m.node[dir].fs \in Fs,
           NEW name \in Names, NEW v \in Unused(m)
    PROVE  LET n == linked(m, dir, name, v) IN
           /\ Good(n, ext, own)
           /\ Allocated(n) = Allocated(m) \cup {v}
           /\ \A x \in Allocated(m) : n.node[x].fs = m.node[x].fs
           /\ \A x \in Allocated(m) : Unlinked(m, Allocated(m), x) => Unlinked(n, Allocated(n), x)
<1> DEFINE f == m.node[dir].fs
           n1 == vfs_ref([m EXCEPT !.node[v] = Vnode(f)], v)
           n == linked(m, dir, name, v)
<1>1. Shape(m) /\ Driven(m, own) /\ v \in Vnodes /\ v \notin Allocated(m) /\ f # NoFs
  BY VfsAssumption DEF Good, Graph, Unused, Fs
<1>2. PICK a, b : /\ m = [node |-> a, drv |-> b] /\ a \in [Vnodes -> VnodeType \cup {None}]
                  /\ b \in [Fs -> DriverType \cup {None}]
  BY <1>1 DEF Shape
<1>3. m.drv[f] # None /\ m.drv[f] \in DriverType
  <2>1. dir \in VnodesOf(m, f)
    BY DEF VnodesOf
  <2> QED
    BY <1>1, <2>1 DEF Driven, Shape
<1> HIDE DEF f
<1> DEFINE m1 == [node |-> [a EXCEPT ![v] = Vnode(f)], drv |-> b]
           m3 == [node |-> [a EXCEPT ![v] = New(f)], drv |-> [b EXCEPT ![f] = [refcount |-> b[f].refcount + 1]]]
<1>4. [m EXCEPT !.node[v] = Vnode(f)] = m1
  BY <1>2
<1>5. vfs_ref(m1, v) = m3
  <2>1. m1.node[v] = Vnode(f) /\ Vnode(f).refcount = 0 /\ Vnode(f).fs = f
    BY <1>1, <1>2 DEF Vnode
  <2>2. vfs_ref(m1, v) = [vfs_driver_ref(m1, f) EXCEPT !.node[v].refcount = @ + 1]
    <3> HIDE DEF m1
    <3> QED
      BY <1>1, <2>1 DEF vfs_ref
  <2>3. vfs_driver_ref(m1, f) = [node |-> [a EXCEPT ![v] = Vnode(f)], drv |-> [b EXCEPT ![f] = [refcount |-> b[f].refcount + 1]]]
    <3>1. b[f] \in [refcount : Nat] /\ f \in Fs
      BY <1>2, <1>3 DEF DriverType, f
    <3>2. [b[f] EXCEPT !.refcount = @ + 1] = [refcount |-> b[f].refcount + 1]
      BY <3>1
    <3>3. [m1 EXCEPT !.drv[f].refcount = @ + 1]
            = [node |-> [a EXCEPT ![v] = Vnode(f)], drv |-> [b EXCEPT ![f] = [b[f] EXCEPT !.refcount = @ + 1]]]
      BY <1>2, <3>1
    <3> QED
      BY <3>2, <3>3 DEF vfs_driver_ref
  <2>4. [Vnode(f) EXCEPT !.refcount = @ + 1] = New(f)
    BY DEF Vnode, New
  <2>5. [[node |-> [a EXCEPT ![v] = Vnode(f)], drv |-> [b EXCEPT ![f] = [refcount |-> b[f].refcount + 1]]]
            EXCEPT !.node[v].refcount = @ + 1] = m3
    BY <1>1, <1>2, <2>4
  <2> QED
    BY <2>2, <2>3, <2>5
<1>6. n1 = m3 /\ n = vfs_append_link(n1, dir, name, v)
  BY <1>4, <1>5 DEF linked, f
<1> HIDE DEF n1, n
<1>7. /\ n1.node[v] = New(f) /\ \A x \in Vnodes : x # v => n1.node[x] = m.node[x]
      /\ n1.drv[f] = [refcount |-> m.drv[f].refcount + 1] /\ \A g \in Fs : g # f => n1.drv[g] = m.drv[g]
      /\ n1 = [node |-> n1.node, drv |-> n1.drv]
      /\ n1.node = [x \in Vnodes |-> n1.node[x]] /\ n1.drv = [g \in Fs |-> n1.drv[g]]
  BY <1>1, <1>2, <1>6 DEF f
<1>8. New(f) \in VnodeType /\ New(f).fs = f /\ New(f).refcount = 1 /\ New(f).child = <<>> /\ New(f).mount = None
  BY DEF New, VnodeType, f
<1>9. Added(m, n1, v, f)
  BY <1>7, <1>8 DEF Added
<1>10. [refcount |-> m.drv[f].refcount + 1] \in DriverType /\ [refcount |-> m.drv[f].refcount + 1] # None
       /\ m.drv[f].refcount \in Nat
  BY <1>3, VfsAssumption DEF DriverType
<1>11. Shape(n1)
  <2>1. \A x \in Vnodes : n1.node[x] \in VnodeType \cup {None}
    BY <1>1, <1>7, <1>8 DEF Shape
  <2>2. \A g \in Fs : n1.drv[g] \in DriverType \cup {None}
    BY <1>1, <1>7, <1>10 DEF Shape
  <2> QED
    BY <1>7, <2>1, <2>2 DEF Shape
<1>12. \A x \in Allocated(m) : n1.node[x] = m.node[x]
  BY <1>1, <1>7 DEF Allocated
<1>13. Allocated(n1) = Allocated(m) \cup {v}
  BY <1>1, <1>7, <1>8, VfsAssumption DEF Allocated
<1>14. Driven(n1, own)
  <2>1. ASSUME NEW g \in Fs
        PROVE  IF n1.drv[g] = None THEN VnodesOf(n1, g) = {} /\ own[g] = 0
               ELSE n1.drv[g].refcount = Cardinality(VnodesOf(n1, g)) + own[g] /\ n1.drv[g].refcount > 0
    <3>1. CASE g = f
      <4>1. VnodesOf(n1, f) = VnodesOf(m, f) \cup {v}
        BY <1>7, <1>8, <1>12, <1>13 DEF VnodesOf
      <4>2. v \notin VnodesOf(m, f) /\ IsFiniteSet(VnodesOf(m, f)) /\ Cardinality(VnodesOf(m, f)) \in Nat
        BY <1>1, Finite DEF VnodesOf
      <4>3. Cardinality(VnodesOf(n1, f)) = Cardinality(VnodesOf(m, f)) + 1
        BY <4>1, <4>2, FS_AddElement
      <4>4. m.drv[f].refcount = Cardinality(VnodesOf(m, f)) + own[f] /\ own[f] \in {0, 1}
        BY <1>1, <1>3 DEF Driven, f
      <4>5. n1.drv[f].refcount = m.drv[f].refcount + 1 /\ n1.drv[f] # None
        BY <1>7, <1>10
      <4> QED
        BY <1>10, <3>1, <4>2, <4>3, <4>4, <4>5
    <3>2. CASE g # f
      <4>1. VnodesOf(n1, g) = VnodesOf(m, g)
        BY <1>7, <1>8, <1>12, <1>13, <3>2 DEF VnodesOf
      <4> QED
        BY <1>1, <1>7, <3>2, <4>1 DEF Driven
    <3> QED
      BY <3>1, <3>2
  <2> QED
    BY <1>1, <2>1 DEF Driven
<1> DEFINE more == More(ext, v)
<1>15. f \in Fs
  BY DEF f
<1>16. /\ Good(n1, more, own) /\ ext[v] = 0
       /\ Unlinked(n1, Allocated(n1), v) /\ MountsOn(n1, v) = {} /\ v # vfs_root
       /\ \A x \in Allocated(m) : Unlinked(m, Allocated(m), x) => Unlinked(n1, Allocated(n1), x)
  BY <1>9, <1>11, <1>14, <1>15, AddedOK
<1>17. ext \in [Vnodes -> Nat]
  BY DEF Good, Counted
<1>18. more[v] = 1 /\ Less(more, v) = ext
  <2>1. Less(more, v) = ext
    BY <1>1, <1>17, MoreLess
  <2>2. more[v] = 1
    BY <1>1, <1>16, <1>17 DEF More
  <2> QED
    BY <2>1, <2>2
<1> HIDE DEF more
<1>19. dir \in Allocated(n1) /\ dir # v /\ n1.node[dir].fs = n1.node[v].fs /\ n1.node[v].child = <<>> /\ more[v] > 0
  BY <1>1, <1>7, <1>8, <1>12, <1>13, <1>18 DEF f
<1>20. /\ Good(n, Less(more, v), own)
       /\ Allocated(n) = Allocated(n1)
       /\ \A x \in Allocated(n1) : n.node[x].fs = n1.node[x].fs
       /\ \A x : x # v /\ Unlinked(n1, Allocated(n1), x) => Unlinked(n, Allocated(n), x)
  <2> DEFINE o == vfs_append_link(n1, dir, name, v)
  <2>1. v \in Vnodes /\ Good(n1, more, own) /\ Unlinked(n1, Allocated(n1), v) /\ MountsOn(n1, v) = {}
    BY <1>1, <1>16
  <2>2. /\ Good(o, Less(more, v), own)
        /\ Allocated(o) = Allocated(n1)
        /\ \A x \in Allocated(n1) : o.node[x].fs = n1.node[x].fs
        /\ \A x : x # v /\ Unlinked(n1, Allocated(n1), x) => Unlinked(o, Allocated(o), x)
    BY <1>19, <2>1, LinkOK
  <2> HIDE DEF o
  <2> QED
    BY <1>6, <2>2 DEF o
<1> QED
  BY <1>1, <1>12, <1>13, <1>16, <1>18, <1>20 DEF n

-----------------------------------------------------------------------------
(* vfs_unref before what it is called after *)

\* What is freed is in every set that frees all it must.
LEMMA FreedLeast ==
    ASSUME NEW m, NEW v, NEW S, S \subseteq Allocated(m), Frees(m, v, S)
    PROVE  Freed(m, v) \subseteq S
  BY DEF Freed

\* Only vnodes of the same file system are freed.
LEMMA FreedWithin ==
    ASSUME NEW m, Graph(m), NEW v \in Allocated(m)
    PROVE  Freed(m, v) \subseteq VnodesOf(m, m.node[v].fs)
<1> DEFINE S == VnodesOf(m, m.node[v].fs)
<1>1. LinksOK(m) /\ OneLink(m) /\ S \subseteq Allocated(m)
  BY DEF Graph, VnodesOf
<1>2. ASSUME NEW u \in Allocated(m) \ S PROVE Returned(m, v, S, u) = 0
  <2>1. u # v
    BY DEF VnodesOf
  <2>2. Unlinked(m, S, u)
    BY <1>1, <1>2 DEF Unlinked, LinksOK, LinksAt, VnodesOf
  <2> QED
    BY <1>1, <2>1, <2>2, ReturnedIs
<1> HIDE DEF S
<1>3. Frees(m, v, S)
  BY <1>2 DEF Frees
<1>4. Freed(m, v) \subseteq S
  BY <1>1, <1>3, FreedLeast
<1> QED
  BY <1>4 DEF S

\* A vnode without links takes no other one with it.
LEMMA FreedLeaf ==
    ASSUME NEW m, Graph(m), NEW v \in Allocated(m), m.node[v].child = <<>>
    PROVE  Freed(m, v) \subseteq {v}
<1>1. OneLink(m) /\ {v} \subseteq Allocated(m)
  BY DEF Graph
<1>2. ASSUME NEW u \in Allocated(m) \ {v} PROVE Returned(m, v, {v}, u) = 0
  <2>1. DOMAIN m.node[v].child = {}
    OBVIOUS
  <2>2. Unlinked(m, {v}, u)
    BY <2>1 DEF Unlinked, LinksAt
  <2> QED
    BY <1>1, <1>2, <2>2, ReturnedIs
<1>3. Frees(m, v, {v})
  BY <1>2 DEF Frees
<1> QED
  BY <1>1, <1>3, FreedLeast

\* If a change of w leaves alone what is given back, it can be made before or after.
Commuted(m, n, v, w) ==
    LET p == vfs_unref(m, v)
        q == vfs_unref(n, v)
        r == Returned(m, v, Freed(m, v), w)
    IN  /\ q.drv = p.drv
        /\ \A u \in Vnodes : u # w => q.node[u] = p.node[u]
        /\ p.node[w] = [m.node[w] EXCEPT !.refcount = @ - r]
        /\ q.node[w] = [n.node[w] EXCEPT !.refcount = @ - r]
        /\ p = [node |-> p.node, drv |-> p.drv] /\ p.node = [u \in Vnodes |-> p.node[u]]
        /\ q = [node |-> q.node, drv |-> q.drv] /\ q.node = [u \in Vnodes |-> q.node[u]]

\* vfs_unref(v) and a write to w, which it does not free, in either order.
LEMMA Commutes ==
    ASSUME NEW m, NEW n, NEW v, NEW w \in Vnodes, Alike(m, n, w),
           m.node[w] # None, n.node[w] # None, n.node[w].fs = m.node[w].fs,
           Freed(n, v) = Freed(m, v), w \notin Freed(m, v),
           \A u : Returned(n, v, Freed(m, v), u) = Returned(m, v, Freed(m, v), u)
    PROVE  Commuted(m, n, v, w)
<1> DEFINE F == Freed(m, v)
           p == vfs_unref(m, v)
           q == vfs_unref(n, v)
           R(u) == Returned(m, v, F, u)
           of(f) == {u \in F : m.node[u].fs = f}
<1>1. p = [node |-> [u \in Vnodes |->
                      IF u \in F \/ m.node[u] = None THEN None
                      ELSE [m.node[u] EXCEPT !.refcount = @ - R(u)]],
           drv |-> [f \in Fs |-> IF of(f) = {} THEN m.drv[f] ELSE Fewer(m.drv[f], Cardinality(of(f)))]]
  BY DEF vfs_unref
<1>2. \A f : of(f) = {u \in F : n.node[u].fs = f}
  <2>1. \A u \in F : u \in Vnodes /\ u # w
    BY DEF Freed, Allocated
  <2> QED
    BY <2>1 DEF Alike
<1>3. q = [node |-> [u \in Vnodes |->
                      IF u \in F \/ n.node[u] = None THEN None
                      ELSE [n.node[u] EXCEPT !.refcount = @ - R(u)]],
           drv |-> [f \in Fs |-> IF of(f) = {} THEN n.drv[f] ELSE Fewer(n.drv[f], Cardinality(of(f)))]]
  <2> DEFINE on(f) == {u \in F : n.node[u].fs = f}
  <2>1. q = [node |-> [u \in Vnodes |->
                      IF u \in F \/ n.node[u] = None THEN None
                      ELSE [n.node[u] EXCEPT !.refcount = @ - Returned(n, v, F, u)]],
             drv |-> [f \in Fs |-> IF on(f) = {} THEN n.drv[f] ELSE Fewer(n.drv[f], Cardinality(on(f)))]]
    BY DEF vfs_unref
  <2>2. \A f : of(f) = on(f)
    BY <1>2
  <2> HIDE DEF F, q, of, on
  <2> QED
    BY <2>1, <2>2 DEF F
<1>4. n.drv = m.drv /\ \A u \in Vnodes : u # w => n.node[u] = m.node[u]
  BY DEF Alike
<1> HIDE DEF F, p, q, R, of
<1>5. q.drv = p.drv
  BY <1>1, <1>3, <1>4
<1>6. \A u \in Vnodes : u # w => q.node[u] = p.node[u]
  BY <1>1, <1>3, <1>4
<1>7. p.node[w] = [m.node[w] EXCEPT !.refcount = @ - R(w)]
  BY <1>1 DEF F
<1>8. q.node[w] = [n.node[w] EXCEPT !.refcount = @ - R(w)]
  BY <1>3 DEF F
<1>9. p = [node |-> p.node, drv |-> p.drv] /\ p.node = [u \in Vnodes |-> p.node[u]]
  BY <1>1
<1>10. q = [node |-> q.node, drv |-> q.drv] /\ q.node = [u \in Vnodes |-> q.node[u]]
  BY <1>3
<1> QED
  BY <1>5, <1>6, <1>7, <1>8, <1>9, <1>10 DEF Commuted, p, q, R, F

\* devfs_unbind_dev gives the reference back before it takes the link away.
LEMMA UnbindOrder ==
    ASSUME NEW m, NEW ext, NEW own, Good(m, ext, own), NEW dir \in Allocated(m), ext[dir] > 0,
           NEW k \in DOMAIN m.node[dir].child, NEW v, v = m.node[dir].child[k].vnode
    PROVE  remove_link(vfs_unref(m, v), dir, k) = vfs_unref(remove_link(m, dir, k), v)
<1> DEFINE n == remove_link(m, dir, k)
           A == Allocated(m)
           F == Freed(m, v)
           G == Freed(n, v)
           t == RemoveAt(m.node[dir].child, k)
<1>1. /\ Shape(m) /\ Graph(m) /\ OneLink(m) /\ Counted(m, ext) /\ m.node[dir] \in VnodeType
      /\ dir \in Vnodes /\ dir # vfs_root
  BY Fields DEF Good, Graph, Allocated, Counted
<1>2. /\ Good(n, More(ext, v), own) /\ Allocated(n) = A
      /\ v \in Vnodes /\ v \in A \ {vfs_root} /\ v # dir
      /\ \A x \in A : n.node[x].fs = m.node[x].fs /\ n.node[x].refcount = m.node[x].refcount
      /\ Alike(m, n, dir) /\ n.node[dir] = [m.node[dir] EXCEPT !.child = t]
  BY UnlinkOK
<1> HIDE DEF n, t
<1>3. Shape(n) /\ Graph(n) /\ OneLink(n) /\ Counted(n, More(ext, v))
  BY <1>2 DEF Good, Graph
<1>4. ASSUME NEW w \in A, w # dir, NEW x PROVE LinksAt(n, w, x) = LinksAt(m, w, x)
  BY <1>2, <1>4 DEF LinksAt, Alike, Allocated
<1>5. ASSUME NEW S, S \subseteq A, dir \notin S, NEW x
      PROVE  Returned(n, v, S, x) = Returned(m, v, S, x)
  <2>1. Unlinked(n, S, x) <=> Unlinked(m, S, x)
    BY <1>4, <1>5 DEF Unlinked
  <2> QED
    BY <1>1, <1>2, <1>3, <1>5, <2>1, ReturnedIs
<1>6. /\ F \subseteq A /\ Frees(m, v, F)
      /\ \A u \in F : LET c == Returned(m, v, F, u) IN c > 0 /\ m.node[u].refcount <= c
  BY <1>1, <1>2, FreedFacts
<1>7. G \subseteq A /\ Frees(n, v, G)
  BY <1>2, <1>3, FreedFacts
<1> HIDE DEF A, F, G
<1>8. dir \notin F
  <2> SUFFICES ASSUME dir \in F PROVE FALSE
    OBVIOUS
  <2> DEFINE c == Cardinality(MountsOn(m, dir))
             l == Cardinality(LinksFrom(m, A, dir))
  <2>1. m.node[dir].refcount <= Returned(m, v, F, dir)
    BY <1>6
  <2>2. Returned(m, v, F, dir) = IF Unlinked(m, F, dir) THEN 0 ELSE 1
    <3>1. Returned(m, v, F, dir) = (IF Unlinked(m, F, dir) THEN 0 ELSE 1) + (IF dir = v THEN 1 ELSE 0)
      BY <1>1, <1>6, ReturnedIs DEF A
    <3> QED
      BY <1>2, <3>1
  <2>3. l = IF Unlinked(m, A, dir) THEN 0 ELSE 1
    BY <1>1, LinkCount DEF A
  <2>4. Unlinked(m, A, dir) => Unlinked(m, F, dir)
    BY <1>6 DEF Unlinked
  <2>5. m.node[dir].refcount = l + c + ext[dir] /\ ext[dir] \in Nat
    BY <1>1 DEF Counted, A
  <2>6. c \in Nat
    BY Finite DEF MountsOn
  <2> HIDE DEF c, l
  <2> QED
    BY <2>1, <2>2, <2>3, <2>4, <2>5, <2>6
<1>9. dir \notin G
  <2>1. More(ext, v)[v] > 0 /\ More(ext, v)[dir] > 0
    BY <1>1, <1>2 DEF Counted, More
  <2> DEFINE more == More(ext, v)
  <2> HIDE DEF more
  <2>2. \A u \in G : more[u] = IF u = v THEN 1 ELSE 0
    <3>1. Graph(n) /\ Counted(n, more) /\ v \in Vnodes /\ more[v] > 0
      BY <1>2, <1>3, <2>1 DEF more
    <3>2. ASSUME NEW u \in Freed(n, v) PROVE more[u] = IF u = v THEN 1 ELSE 0
      BY ONLY <3>1, <3>2, FreedHas
    <3> QED
      BY <3>2 DEF G
  <2> QED
    BY <1>2, <2>1, <2>2 DEF more
<1>10. Frees(n, v, F)
  <2>1. ASSUME NEW u \in A \ F
        PROVE  Returned(n, v, F, u) = 0 \/ n.node[u].refcount > Returned(n, v, F, u)
    <3>1. Returned(m, v, F, u) = 0 \/ m.node[u].refcount > Returned(m, v, F, u)
      BY <1>6 DEF Frees, A
    <3> QED
      BY <1>2, <1>5, <1>6, <1>8, <3>1
  <2> QED
    BY <1>2, <2>1 DEF Frees
<1>11. Frees(m, v, G)
  <2>1. ASSUME NEW u \in A \ G
        PROVE  Returned(m, v, G, u) = 0 \/ m.node[u].refcount > Returned(m, v, G, u)
    <3>1. Returned(n, v, G, u) = 0 \/ n.node[u].refcount > Returned(n, v, G, u)
      BY <1>2, <1>7 DEF Frees
    <3> QED
      BY <1>2, <1>5, <1>7, <1>9, <3>1
  <2> QED
    BY <2>1 DEF Frees, A
<1>12. F = G
  <2>1. G \subseteq F
    BY <1>2, <1>6, <1>10, FreedLeast DEF G
  <2>2. F \subseteq G
    BY <1>7, <1>11, FreedLeast DEF F, A
  <2> QED
    BY <2>1, <2>2
<1> DEFINE p == vfs_unref(m, v)
           q == vfs_unref(n, v)
           r == Returned(m, v, F, dir)
<1>13. /\ q.drv = p.drv
       /\ \A u \in Vnodes : u # dir => q.node[u] = p.node[u]
       /\ p.node[dir] = [m.node[dir] EXCEPT !.refcount = @ - r]
       /\ q.node[dir] = [n.node[dir] EXCEPT !.refcount = @ - r]
       /\ p = [node |-> p.node, drv |-> p.drv] /\ p.node = [u \in Vnodes |-> p.node[u]]
       /\ q = [node |-> q.node, drv |-> q.drv] /\ q.node = [u \in Vnodes |-> q.node[u]]
  <2>1. m.node[dir] # None /\ n.node[dir] # None /\ n.node[dir].fs = m.node[dir].fs
    BY <1>2 DEF Allocated, A
  <2>2. Freed(n, v) = Freed(m, v) /\ dir \notin Freed(m, v)
    BY <1>8, <1>12 DEF F, G
  <2>3. \A u : Returned(n, v, Freed(m, v), u) = Returned(m, v, Freed(m, v), u)
    BY <1>5, <1>6, <1>8 DEF F
  <2> QED
    <3>1. Commuted(m, n, v, dir)
      BY <1>1, <1>2, <2>1, <2>2, <2>3, Commutes
    <3> QED
      BY <3>1 DEF Commuted, F
<1> HIDE DEF p, q, r
<1>14. p.node[dir].child = m.node[dir].child
  <2>1. ASSUME NEW z \in VnodeType, NEW y PROVE [z EXCEPT !.refcount = y].child = z.child
    BY DEF VnodeType
  <2> QED
    BY <1>1, <1>13, <2>1
<1>15. q.node[dir] = [p.node[dir] EXCEPT !.child = t]
  <2>1. ASSUME NEW z \in VnodeType, NEW y
        PROVE  /\ [[z EXCEPT !.child = t] EXCEPT !.refcount = y] = [[z EXCEPT !.refcount = y] EXCEPT !.child = t]
               /\ [z EXCEPT !.child = t].refcount = z.refcount
    BY DEF VnodeType
  <2> DEFINE z == m.node[dir]
             y == z.refcount - r
  <2>2. z \in VnodeType /\ n.node[dir] = [z EXCEPT !.child = t] /\ p.node[dir] = [z EXCEPT !.refcount = y]
    BY <1>1, <1>2, <1>13
  <2>3. n.node[dir].refcount = z.refcount
    BY <2>1, <2>2
  <2>4. q.node[dir] = [n.node[dir] EXCEPT !.refcount = y]
    BY <1>13, <2>3
  <2> HIDE DEF z, y
  <2> QED
    BY ONLY <2>1, <2>2, <2>4
<1>16. remove_link(p, dir, k) = [p EXCEPT !.node[dir].child = t]
  BY <1>14 DEF remove_link, t
<1>17. [p EXCEPT !.node[dir].child = t] = q
  <2>1. PICK a, b : p = [node |-> a, drv |-> b] /\ a = [u \in Vnodes |-> a[u]]
    BY <1>13
  <2>2. [[node |-> a, drv |-> b] EXCEPT !.node[dir].child = t]
          = [node |-> [a EXCEPT ![dir] = [a[dir] EXCEPT !.child = t]], drv |-> b]
    BY <1>1, <2>1
  <2>3. q.node = [a EXCEPT ![dir] = [a[dir] EXCEPT !.child = t]]
    BY <1>1, <1>13, <1>15, <2>1
  <2> QED
    BY <1>13, <2>1, <2>2, <2>3
<1> QED
  BY <1>16, <1>17 DEF p, q, n

\* What is freed is of another file system than what the mount is on, so the mount
\* can be taken away before or after.
LEMMA UnmountOrder ==
    ASSUME NEW m, NEW ext, NEW own, Good(m, ext, own), NEW w \in Allocated(m),
           NEW t, m.node[w].mount = t, t # None
    PROVE  [vfs_unref(m, t) EXCEPT !.node[w].mount = None] = vfs_unref([m EXCEPT !.node[w].mount = None], t)
<1> DEFINE n == [m EXCEPT !.node[w].mount = None]
           A == Allocated(m)
           F == Freed(m, t)
<1>1. /\ Shape(m) /\ Graph(m) /\ OneLink(m) /\ MountsOK(m) /\ m.node[w] \in VnodeType /\ w \in Vnodes
  BY Fields DEF Good, Graph, Allocated
<1>2. /\ Good(n, More(ext, t), own) /\ Allocated(n) = A /\ t \in A \ {vfs_root} /\ t \in Vnodes
      /\ \A x \in A : /\ n.node[x].fs = m.node[x].fs /\ n.node[x].child = m.node[x].child
                      /\ n.node[x].refcount = m.node[x].refcount
  BY MountClear
<1>3. Alike(m, n, w) /\ n.node[w] = [m.node[w] EXCEPT !.mount = None]
  <2>1. PICK a, b : m = [node |-> a, drv |-> b] /\ a \in [Vnodes -> VnodeType \cup {None}]
    BY <1>1 DEF Shape
  <2>2. n = [node |-> [a EXCEPT ![w] = [a[w] EXCEPT !.mount = None]], drv |-> b]
    BY <1>1, <2>1
  <2> HIDE DEF n
  <2> QED
    BY <1>1, <2>1, <2>2 DEF Alike
<1> HIDE DEF n
<1>4. OneLink(n)
  BY <1>2 DEF Good, Graph
<1>5. ASSUME NEW S, S \subseteq A, NEW x PROVE Returned(n, t, S, x) = Returned(m, t, S, x)
  <2>1. Unlinked(n, S, x) <=> Unlinked(m, S, x)
    BY <1>2, <1>5 DEF Unlinked, LinksAt
  <2> QED
    BY <1>1, <1>2, <1>4, <1>5, <2>1, ReturnedIs
<1>6. F \subseteq A /\ F \subseteq VnodesOf(m, m.node[t].fs) /\ Frees(m, t, F)
  BY <1>1, <1>2, FreedFacts, FreedWithin
<1>7. Freed(n, t) \subseteq A /\ Frees(n, t, Freed(n, t))
  BY <1>2, <1>4, FreedFacts DEF Good, Graph
<1>8. ASSUME NEW S, S \subseteq A PROVE Frees(n, t, S) <=> Frees(m, t, S)
  <2> HIDE DEF A
  <2>1. ASSUME NEW u \in A
        PROVE  Returned(n, t, S, u) = Returned(m, t, S, u) /\ n.node[u].refcount = m.node[u].refcount
    BY <1>2, <1>5, <1>8
  <2>2. Frees(n, t, S) <=> \A u \in A \ S : LET c == Returned(n, t, S, u) IN c = 0 \/ n.node[u].refcount > c
    BY <1>2 DEF Frees
  <2>3. Frees(m, t, S) <=> \A u \in A \ S : LET c == Returned(m, t, S, u) IN c = 0 \/ m.node[u].refcount > c
    BY DEF Frees, A
  <2> QED
    BY <2>1, <2>2, <2>3
<1>9. Freed(n, t) = Freed(m, t)
  <2>1. Freed(n, t) \subseteq F
    BY <1>2, <1>6, <1>8, FreedLeast
  <2>2. F \subseteq Freed(n, t)
    BY <1>7, <1>8, FreedLeast
  <2> QED
    BY <2>1, <2>2
<1>10. w \notin F
  <2>1. <<m.node[w].fs, m.node[t].fs>> \in MountOrder
    BY <1>1 DEF MountsOK
  <2>2. PICK rank \in [Fs \cup {NoFs} -> 0 .. Cardinality(Fs)] :
          \A p \in MountOrder : rank[p[2]] < rank[p[1]]
    BY VfsAssumption DEF MountsEnd
  <2>3. rank[m.node[t].fs] < rank[m.node[w].fs]
    BY <2>1, <2>2
  <2>4. m.node[w].fs \in Fs \cup {NoFs} /\ IsFiniteSet(Fs)
    BY <1>1, Fields, VfsAssumption
  <2>5. rank[m.node[w].fs] \in Int
    BY <2>2, <2>4, FS_CardinalityType
  <2>6. m.node[w].fs # m.node[t].fs
    BY <2>3, <2>5
  <2> QED
    BY <1>6, <2>6 DEF VnodesOf
<1> DEFINE p == vfs_unref(m, t)
           q == vfs_unref(n, t)
           r == Returned(m, t, F, w)
<1>11. Commuted(m, n, t, w)
  <2>1. m.node[w] # None /\ n.node[w] # None /\ n.node[w].fs = m.node[w].fs
    BY <1>2 DEF Allocated
  <2>2. \A u : Returned(n, t, Freed(m, t), u) = Returned(m, t, Freed(m, t), u)
    BY <1>5, <1>6
  <2> QED
    BY <1>1, <1>3, <1>9, <1>10, <2>1, <2>2, Commutes
<1>12. /\ q.drv = p.drv
       /\ \A u \in Vnodes : u # w => q.node[u] = p.node[u]
       /\ p.node[w] = [m.node[w] EXCEPT !.refcount = @ - r]
       /\ q.node[w] = [n.node[w] EXCEPT !.refcount = @ - r]
       /\ p = [node |-> p.node, drv |-> p.drv] /\ p.node = [u \in Vnodes |-> p.node[u]]
       /\ q = [node |-> q.node, drv |-> q.drv] /\ q.node = [u \in Vnodes |-> q.node[u]]
  BY <1>11 DEF Commuted
<1> HIDE DEF p, q, r
<1>13. q.node[w] = [p.node[w] EXCEPT !.mount = None]
  <2>1. ASSUME NEW z \in VnodeType, NEW y
        PROVE  /\ [[z EXCEPT !.mount = None] EXCEPT !.refcount = y] = [[z EXCEPT !.refcount = y] EXCEPT !.mount = None]
               /\ [z EXCEPT !.mount = None].refcount = z.refcount
    BY DEF VnodeType
  <2> DEFINE z == m.node[w]
             y == z.refcount - r
  <2>2. z \in VnodeType /\ n.node[w] = [z EXCEPT !.mount = None] /\ p.node[w] = [z EXCEPT !.refcount = y]
    BY <1>1, <1>3, <1>12
  <2>3. n.node[w].refcount = z.refcount
    BY <2>1, <2>2
  <2>4. q.node[w] = [n.node[w] EXCEPT !.refcount = y]
    BY <1>12, <2>3
  <2> HIDE DEF z, y
  <2> QED
    BY ONLY <2>1, <2>2, <2>4
<1>14. [p EXCEPT !.node[w].mount = None] = q
  <2>1. PICK a, b : p = [node |-> a, drv |-> b] /\ a = [u \in Vnodes |-> a[u]]
    BY <1>12
  <2>2. [[node |-> a, drv |-> b] EXCEPT !.node[w].mount = None]
          = [node |-> [a EXCEPT ![w] = [a[w] EXCEPT !.mount = None]], drv |-> b]
    BY <1>1, <2>1
  <2>3. q.node = [a EXCEPT ![w] = [a[w] EXCEPT !.mount = None]]
    BY <1>1, <1>12, <1>13, <2>1
  <2> QED
    BY <1>12, <2>1, <2>2, <2>3
<1> QED
  BY <1>14 DEF p, q, n

\* The one link of that name goes, so vfs_unlink does no more than the driver.
LEMMA UnlinkIs ==
    ASSUME NEW m, NEW ext, NEW own, Good(m, ext, own), NEW dir \in Allocated(m), NEW name,
           ~UnlinkFails(m, dir, name), Cardinality(LinksNamed(m, dir, name)) = 1
    PROVE  \E k \in DOMAIN m.node[dir].child :
              vfs_unlink(m, dir, name) = vfs_unref(remove_link(m, dir, k), m.node[dir].child[k].vnode)
<1> DEFINE A == Allocated(m)
           s == m.node[dir].child
<1>1. /\ Shape(m) /\ Graph(m) /\ m.node[dir] \in VnodeType /\ dir \in Vnodes
      /\ s \in Seq([name : Names, vnode : Vnodes]) /\ Len(s) \in Nat /\ DOMAIN s = 1 .. Len(s)
  BY Fields, LenProperties DEF Good, Graph, Allocated
<1>2. PICK k \in DOMAIN s : LinksNamed(m, dir, name) = {k}
  <2>1. LinksNamed(m, dir, name) \subseteq 1 .. Len(s) /\ IsFiniteSet(1 .. Len(s))
    BY <1>1, FS_Interval DEF LinksNamed
  <2>2. IsFiniteSet(LinksNamed(m, dir, name))
    BY <2>1, FS_Subset
  <2>3. PICK k : LinksNamed(m, dir, name) = {k}
    BY <2>2, FS_Singleton
  <2> QED
    BY <2>3 DEF LinksNamed
<1>3. Min({k}) = k
  BY <1>1 DEF Min
<1> DEFINE v == s[k].vnode
           n == remove_link(m, dir, k)
           d == vfs_unref(n, v)
<1>4. m.node[v].child = <<>>
  BY <1>2, <1>3 DEF UnlinkFails
<1>5. driver_unlink(m, dir, name) = d
  BY <1>2, <1>3 DEF driver_unlink
<1>6. /\ Good(n, More(ext, v), own) /\ Allocated(n) = A
      /\ v \in Vnodes /\ v \in A \ {vfs_root} /\ v # dir
      /\ Alike(m, n, dir) /\ n.node[dir] = [m.node[dir] EXCEPT !.child = RemoveAt(s, k)]
  BY UnlinkOK
<1> HIDE DEF n, d, v
<1>7. Freed(n, v) \subseteq {v}
  <2>1. n.node[v].child = <<>>
    BY <1>4, <1>6 DEF Alike
  <2> QED
    BY <1>6, <2>1, FreedLeaf DEF Good
<1>8. d.node[dir].child = RemoveAt(s, k)
  <2>1. More(ext, v)[v] > 0
    BY <1>6 DEF Good, Counted, More
  <2>2. dir \in Allocated(n) \ Freed(n, v)
    BY <1>6, <1>7
  <2>3. d.node[dir].child = n.node[dir].child
    <3> DEFINE more == More(ext, v)
    <3> HIDE DEF more
    <3>1. Good(n, more, own) /\ v \in Vnodes /\ more[v] > 0
      BY <1>6, <2>1 DEF more
    <3>2. Allocated(d) = Allocated(n) \ Freed(n, v) /\ \A u \in Allocated(d) : d.node[u].child = n.node[u].child
      BY ONLY <3>1, UnrefFields DEF d
    <3> QED
      BY <2>2, <3>2
  <2> QED
    BY <1>1, <1>6, <2>3 DEF VnodeType
<1>9. LinksNamed(d, dir, name) = {}
  <2> DEFINE t == RemoveAt(s, k)
  <2>1. /\ DOMAIN t = 1 .. Len(s) - 1
        /\ \A j \in 1 .. Len(s) - 1 : t[j] = IF j < k THEN s[j] ELSE s[j + 1]
    BY <1>1, Removed
  <2> HIDE DEF t
  <2>2. ASSUME NEW j \in DOMAIN t, t[j].name = name PROVE FALSE
    <3>1. t[j] = s[IF j < k THEN j ELSE j + 1] /\ (IF j < k THEN j ELSE j + 1) \in 1 .. Len(s)
          /\ (IF j < k THEN j ELSE j + 1) # k
      BY <1>1, <2>1
    <3> DEFINE i == IF j < k THEN j ELSE j + 1
    <3> HIDE DEF i
    <3>2. i \in LinksNamed(m, dir, name) /\ i # k
      BY <1>1, <2>2, <3>1 DEF LinksNamed, i
    <3> QED
      BY <1>2, <3>2
  <2> QED
    BY <1>8, <2>2 DEF LinksNamed, t
<1>10. vfs_unlink(m, dir, name) = d
  BY <1>5, <1>9 DEF vfs_unlink
<1> QED
  BY <1>10 DEF d, n, v

\* Graph and counts are about the vnodes.
LEMMA SameNodes ==
    ASSUME NEW m, NEW n, n.node = m.node, NEW ext, Graph(m), Counted(m, ext), Shape(n), NEW own, Driven(n, own)
    PROVE  Good(n, ext, own)
<1>1. Allocated(n) = Allocated(m)
  BY DEF Allocated
<1>2. \A w, u : LinksAt(n, w, u) = LinksAt(m, w, u)
  BY DEF LinksAt
<1>3. \A S, u : LinksFrom(n, S, u) = LinksFrom(m, S, u)
  BY DEF LinksFrom, LinksAt
<1>4. \A S, u : Unlinked(n, S, u) = Unlinked(m, S, u)
  BY DEF Unlinked, LinksAt
<1>5. \A u : MountsOn(n, u) = MountsOn(m, u)
  BY <1>1 DEF MountsOn
<1>6. Root(n) /\ LinksOK(n) /\ OneLink(n) /\ NoRing(n) /\ MountsOK(n)
  <2>1. Root(n)
    BY <1>1 DEF Graph, Root
  <2>2. LinksOK(n)
    BY <1>1 DEF Graph, LinksOK
  <2>3. OneLink(n)
    BY <1>1, <1>2 DEF Graph, OneLink
  <2>4. NoRing(n)
    BY <1>1, <1>4 DEF Graph, NoRing
  <2>5. MountsOK(n)
    BY <1>1, <1>4 DEF Graph, MountsOK
  <2> QED
    BY <2>1, <2>2, <2>3, <2>4, <2>5
<1>7. Counted(n, ext)
  BY <1>1, <1>3, <1>5 DEF Counted
<1> QED
  BY <1>6, <1>7 DEF Good, Graph

\* tmpfs_destroy and devfs_destroy give the reference to the driver back last.
LEMMA DriverUnrefOK ==
    ASSUME NEW m, NEW ext, NEW own, Good(m, ext, own), NEW f \in Fs, own[f] = 1
    PROVE  /\ Good(vfs_driver_unref(m, f), ext, [own EXCEPT ![f] = 0])
           /\ vfs_driver_unref(m, f).node = m.node
<1> DEFINE n == vfs_driver_unref(m, f)
           has == [own EXCEPT ![f] = 0]
<1>1. Shape(m) /\ Graph(m) /\ Driven(m, own) /\ Counted(m, ext)
  BY DEF Good, Graph
<1>2. PICK a, b : /\ m = [node |-> a, drv |-> b] /\ b \in [Fs -> DriverType \cup {None}]
  BY <1>1 DEF Shape
<1>3. n = [node |-> a, drv |-> [b EXCEPT ![f] = Fewer(b[f], 1)]]
  <2> DEFINE z == Fewer(b[f], 1)
  <2>1. [[node |-> a, drv |-> b] EXCEPT !.drv[f] = z] = [node |-> a, drv |-> [b EXCEPT ![f] = z]]
    OBVIOUS
  <2>2. n = [[node |-> a, drv |-> b] EXCEPT !.drv[f] = z]
    BY <1>2 DEF vfs_driver_unref
  <2> QED
    BY <2>1, <2>2
<1> HIDE DEF n
<1>4. /\ n.node = m.node /\ n.drv[f] = Fewer(m.drv[f], 1) /\ \A g \in Fs : g # f => n.drv[g] = m.drv[g]
      /\ n = [node |-> n.node, drv |-> n.drv] /\ n.drv = [g \in Fs |-> n.drv[g]]
  BY <1>2, <1>3
<1> DEFINE d == m.drv[f]
           c == Cardinality(VnodesOf(m, f))
<1>5. d # None /\ d \in DriverType /\ d.refcount = c + 1 /\ d.refcount \in Nat /\ c \in Nat
      /\ IsFiniteSet(VnodesOf(m, f))
  <2>1. d # None /\ d.refcount = c + own[f]
    BY <1>1 DEF Driven
  <2>2. d \in DriverType
    BY <1>1, <2>1 DEF Shape
  <2>3. c \in Nat /\ IsFiniteSet(VnodesOf(m, f))
    BY Finite DEF VnodesOf
  <2> QED
    BY <2>1, <2>2, <2>3 DEF DriverType
<1>6. \A g : VnodesOf(n, g) = VnodesOf(m, g)
  BY <1>4 DEF VnodesOf, Allocated
<1> HIDE DEF d, c
<1>7. CASE c = 0
  <2>1. n.drv[f] = None
    BY <1>4, <1>5, <1>7 DEF Fewer, d
  <2>2. VnodesOf(m, f) = {}
    BY <1>5, <1>7, FS_EmptySet DEF c
  <2>3. Driven(n, has)
    BY <1>1, <1>4, <1>6, <2>1, <2>2 DEF Driven
  <2>4. Shape(n)
    <3>1. \A g \in Fs : n.drv[g] \in DriverType \cup {None}
      BY <1>1, <1>4, <2>1 DEF Shape
    <3> QED
      BY <1>1, <1>4, <3>1 DEF Shape
  <2> QED
    BY <1>1, <1>4, <2>3, <2>4, SameNodes DEF n
<1>8. CASE c # 0
  <2>1. n.drv[f] = [d EXCEPT !.refcount = @ - 1]
    BY <1>4, <1>5, <1>8 DEF Fewer, d
  <2>2. n.drv[f] \in DriverType /\ n.drv[f].refcount = c /\ n.drv[f] # None /\ c > 0
    BY <1>5, <1>8, <2>1, VfsAssumption DEF DriverType
  <2>3. Driven(n, has)
    <3>1. has \in [Fs -> {0, 1}] /\ \A g \in Fs : has[g] = IF g = f THEN 0 ELSE own[g]
      BY <1>1 DEF Driven
    <3> HIDE DEF has
    <3>2. ASSUME NEW g \in Fs
          PROVE  IF n.drv[g] = None THEN VnodesOf(n, g) = {} /\ has[g] = 0
                 ELSE n.drv[g].refcount = Cardinality(VnodesOf(n, g)) + has[g] /\ n.drv[g].refcount > 0
      <4>1. CASE g = f
        <5>1. has[f] = 0 /\ Cardinality(VnodesOf(n, f)) = c
          BY <1>6, <3>1 DEF c
        <5> QED
          BY <1>5, <2>2, <4>1, <5>1
      <4>2. CASE g # f
        BY <1>1, <1>4, <1>6, <3>1, <4>2 DEF Driven
      <4> QED
        BY <4>1, <4>2
    <3> QED
      BY <3>1, <3>2 DEF Driven
  <2>4. Shape(n)
    <3>1. \A g \in Fs : n.drv[g] \in DriverType \cup {None}
      BY <1>1, <1>4, <2>2 DEF Shape
    <3> QED
      BY <1>1, <1>4, <3>1 DEF Shape
  <2> QED
    BY <1>1, <1>4, <2>3, <2>4, SameNodes DEF n
<1> QED
  BY <1>7, <1>8

-----------------------------------------------------------------------------
(* What is mounted on what *)

\* A set of numbers that is not empty has a smallest one.
LEMMA Smallest ==
    ASSUME NEW S, S \subseteq Nat, S # {}
    PROVE  \E x \in S : \A y \in S : x <= y
<1>1. PICK x \in S : \A y \in S : ~(<<y, x>> \in OpToRel(<, Nat))
  BY NatLessThanWellFounded, WFMin
<1>2. \A y \in S : ~(y < x)
  BY <1>1 DEF OpToRel
<1> QED
  BY <1>2

\* Going from mount to mount comes to an end.
LEMMA MountLast ==
    ASSUME NEW m, Graph(m), NEW S, S \subseteq Allocated(m), S # {},
           \A u \in S : m.node[u].mount # None => m.node[u].mount \in S
    PROVE  \E u \in S : m.node[u].mount = None
<1>1. PICK rank \in [Fs \cup {NoFs} -> 0 .. Cardinality(Fs)] :
          \A p \in MountOrder : rank[p[2]] < rank[p[1]]
  BY VfsAssumption DEF MountsEnd
<1>2. Cardinality(Fs) \in Nat
  BY VfsAssumption, FS_CardinalityType
<1> DEFINE r(u) == rank[m.node[u].fs]
           R == {r(u) : u \in S}
<1>3. ASSUME NEW u \in S PROVE r(u) \in Nat
  <2>1. m.node[u].fs \in Fs \cup {NoFs}
    BY Fields DEF Graph
  <2> QED
    BY <1>1, <1>2, <2>1
<1>4. PICK x \in R : \A y \in R : x <= y
  <2>1. R \subseteq Nat
    BY <1>3
  <2>2. R # {}
    OBVIOUS
  <2> HIDE DEF R
  <2> QED
    BY <2>1, <2>2, Smallest
<1>5. PICK u \in S : x = r(u)
  BY <1>4
<1>6. SUFFICES ASSUME m.node[u].mount # None PROVE FALSE
  OBVIOUS
<1>7. m.node[u].mount \in S /\ <<m.node[u].fs, m.node[m.node[u].mount].fs>> \in MountOrder
  BY <1>6 DEF Graph, MountsOK
<1>8. r(m.node[u].mount) < r(u)
  BY <1>1, <1>7
<1>9. r(u) <= r(m.node[u].mount)
  BY <1>4, <1>5, <1>7
<1>10. r(u) \in Nat /\ r(m.node[u].mount) \in Nat
  BY <1>3, <1>7
<1> HIDE DEF r
<1> QED
  BY <1>8, <1>9, <1>10

\* The mounts from v on end, with one that nothing is mounted on.
LEMMA TopOK ==
    ASSUME NEW m, Graph(m), NEW v \in Allocated(m)
    PROVE  /\ mounts(m, v) \subseteq Allocated(m) /\ v \in mounts(m, v)
           /\ top(m, v) \in mounts(m, v) /\ m.node[top(m, v)].mount = None
           /\ m.node[v].mount # None => \E u \in mounts(m, v) : m.node[u].mount = top(m, v)
<1> DEFINE U == Mounted(m) \cup {v}
           Closed(S) == v \in S /\ \A w \in S : m.node[w].mount # None => m.node[w].mount \in S
           M == mounts(m, v)
           t == top(m, v)
<1>1. U \subseteq Allocated(m)
  BY DEF Mounted, Graph, MountsOK
<1>2. M = {u \in U : \A S \in {X \in SUBSET U : Closed(X)} : u \in S}
  BY DEF mounts
<1>3. M \subseteq U /\ v \in M
  BY <1>2
<1>4. \A w \in M : m.node[w].mount # None => m.node[w].mount \in M
  <2> SUFFICES ASSUME NEW w \in M, m.node[w].mount # None PROVE m.node[w].mount \in M
    OBVIOUS
  <2> DEFINE x == m.node[w].mount
  <2>1. x \in U
    BY <1>1, <1>3 DEF Mounted
  <2>2. ASSUME NEW S \in SUBSET U, Closed(S) PROVE x \in S
    BY <1>2, <2>2
  <2> HIDE DEF x, U, Closed
  <2>3. x \in M
    BY <1>2, <2>1, <2>2
  <2> QED
    BY <2>3 DEF x
<1>5. \A S \in SUBSET U : Closed(S) => M \subseteq S
  BY <1>2
<1> HIDE DEF M, U
<1>6. \E u \in M : m.node[u].mount = None
  BY <1>1, <1>3, <1>4, MountLast
<1>7. t \in M /\ m.node[t].mount = None
  BY <1>6 DEF top, M
<1> HIDE DEF t
<1>8. ASSUME m.node[v].mount # None PROVE \E u \in M : m.node[u].mount = t
  <2> SUFFICES ASSUME \A u \in M : m.node[u].mount # t PROVE FALSE
    OBVIOUS
  <2>1. t # v
    BY <1>7, <1>8
  <2>2. Closed(M \ {t})
    BY <1>3, <1>4, <2>1
  <2>3. M \subseteq M \ {t}
    BY <1>3, <1>5, <2>2
  <2> QED
    BY <1>7, <2>3
<1> QED
  BY <1>1, <1>3, <1>7, <1>8 DEF M, t

-----------------------------------------------------------------------------
(* Files and callers *)

Put(g, d, y) == [g EXCEPT ![d] = y]
Points(D, g, x) == Cardinality({d \in D : g[d] = x})

\* d is put on y: one more points to y, one less to where d was.
LEMMA PointsChange ==
    ASSUME NEW D, IsFiniteSet(D), NEW g, DOMAIN g = D, NEW d \in D, NEW y, NEW x
    PROVE  /\ Points(D, g, x) \in Nat
           /\ Points(D, Put(g, d, y), x)
                = (Points(D, g, x) - (IF x = g[d] THEN 1 ELSE 0)) + (IF x = y THEN 1 ELSE 0)
<1> DEFINE S == {e \in D : g[e] = x}
           h == Put(g, d, y)
           T == {e \in D : h[e] = x}
<1>1. IsFiniteSet(S) /\ Cardinality(S) \in Nat
  BY FS_Subset, FS_CardinalityType
<1>2. h[d] = y /\ \A e \in D : e # d => h[e] = g[e]
  BY DEF Put
<1>3. T = IF x = y THEN (S \ {d}) \cup {d} ELSE S \ {d}
  BY <1>2
<1>4. d \in S <=> x = g[d]
  OBVIOUS
<1>5. Points(D, g, x) = Cardinality(S) /\ Points(D, h, x) = Cardinality(T)
  BY DEF Points
<1> HIDE DEF S, T, h
<1>6. /\ IsFiniteSet(S \ {d})
      /\ Cardinality(S \ {d}) = Cardinality(S) - (IF x = g[d] THEN 1 ELSE 0)
  BY <1>1, <1>4, FS_RemoveElement
<1>7. Cardinality((S \ {d}) \cup {d}) = Cardinality(S \ {d}) + 1
  BY <1>6, FS_AddElement
<1>8. Points(D, h, x) = (Points(D, g, x) - (IF x = g[d] THEN 1 ELSE 0)) + (IF x = y THEN 1 ELSE 0)
  <2>1. CASE x = y
    BY <1>1, <1>3, <1>5, <1>6, <1>7, <2>1
  <2>2. CASE x # y
    BY <1>1, <1>3, <1>5, <1>6, <2>2
  <2> QED
    BY <2>1, <2>2
<1> QED
  BY <1>1, <1>5, <1>8 DEF h

ExtOf(h, g) == [v \in Vnodes |-> Points(Files, g, v) + Points(Fs, h, v)]
OwnOf(h) == [f \in Fs |-> IF h[f] = None THEN 0 ELSE 1]

\* Files that are opened and closed are references that come and go.
LEMMA FileChange ==
    ASSUME NEW h \in [Fs -> Vnodes \cup {None}], NEW g \in [Files -> Vnodes \cup {None}],
           NEW d \in Files, NEW v \in Vnodes
    PROVE  /\ g[d] = None => ExtOf(h, Put(g, d, v)) = More(ExtOf(h, g), v)
           /\ g[d] = v => ExtOf(h, Put(g, d, None)) = Less(ExtOf(h, g), v) /\ ExtOf(h, g)[v] > 0
<1>0. v # None /\ IsFiniteSet(Files) /\ IsFiniteSet(Fs) /\ None \notin Vnodes
  BY VfsAssumption
<1>1. ASSUME NEW x PROVE Points(Fs, h, x) \in Nat
  BY <1>0, FS_Subset, FS_CardinalityType DEF Points
<1>2. ASSUME NEW y, NEW x
      PROVE  /\ Points(Files, g, x) \in Nat
             /\ Points(Files, Put(g, d, y), x)
                  = (Points(Files, g, x) - (IF x = g[d] THEN 1 ELSE 0)) + (IF x = y THEN 1 ELSE 0)
  <2>1. DOMAIN g = Files /\ DOMAIN h = Fs
    OBVIOUS
  <2> QED
    BY <1>0, <2>1, PointsChange
<1>3. ASSUME g[d] = None PROVE ExtOf(h, Put(g, d, v)) = More(ExtOf(h, g), v)
  <2>1. \A x \in Vnodes : Points(Files, Put(g, d, v), x) = Points(Files, g, x) + (IF x = v THEN 1 ELSE 0)
    BY <1>0, <1>2, <1>3
  <2>2. \A x \in Vnodes : ExtOf(h, Put(g, d, v))[x] = More(ExtOf(h, g), v)[x]
    <3>1. ASSUME NEW x \in Vnodes
          PROVE  /\ ExtOf(h, g)[x] = Points(Files, g, x) + Points(Fs, h, x)
                 /\ ExtOf(h, Put(g, d, v))[x] = ExtOf(h, g)[x] + (IF x = v THEN 1 ELSE 0)
      <4>1. /\ ExtOf(h, g)[x] = Points(Files, g, x) + Points(Fs, h, x)
            /\ ExtOf(h, Put(g, d, v))[x] = Points(Files, Put(g, d, v), x) + Points(Fs, h, x)
        BY DEF ExtOf
      <4>2. Points(Files, g, x) \in Nat /\ Points(Fs, h, x) \in Nat
        BY <1>1, <1>2
      <4> QED
        BY <2>1, <4>1, <4>2
    <3>2. ExtOf(h, g) \in [Vnodes -> Nat]
      BY <1>1, <1>2 DEF ExtOf
    <3> QED
      BY <3>1, <3>2 DEF More
  <2> QED
    BY <2>2 DEF ExtOf, More
<1>4. ASSUME g[d] = v PROVE ExtOf(h, Put(g, d, None)) = Less(ExtOf(h, g), v)
  <2>1. \A x \in Vnodes : Points(Files, Put(g, d, None), x) = Points(Files, g, x) - (IF x = v THEN 1 ELSE 0)
    BY <1>0, <1>2, <1>4
  <2>2. \A x \in Vnodes : ExtOf(h, Put(g, d, None))[x] = Less(ExtOf(h, g), v)[x]
    <3>1. ASSUME NEW x \in Vnodes
          PROVE  /\ ExtOf(h, g)[x] = Points(Files, g, x) + Points(Fs, h, x)
                 /\ ExtOf(h, Put(g, d, None))[x] = ExtOf(h, g)[x] - (IF x = v THEN 1 ELSE 0)
      <4>1. /\ ExtOf(h, g)[x] = Points(Files, g, x) + Points(Fs, h, x)
            /\ ExtOf(h, Put(g, d, None))[x] = Points(Files, Put(g, d, None), x) + Points(Fs, h, x)
        BY DEF ExtOf
      <4>2. Points(Files, g, x) \in Nat /\ Points(Fs, h, x) \in Nat
        BY <1>1, <1>2
      <4> QED
        BY <2>1, <4>1, <4>2
    <3>2. ExtOf(h, g) \in [Vnodes -> Nat]
      BY <1>1, <1>2 DEF ExtOf
    <3> QED
      BY <3>1, <3>2 DEF Less
  <2> QED
    BY <2>2 DEF ExtOf, Less
<1>5. ASSUME g[d] = v PROVE ExtOf(h, g)[v] > 0
  <2>1. Points(Files, g, v) > 0
    <3>1. d \in {e \in Files : g[e] = v} /\ IsFiniteSet({e \in Files : g[e] = v})
      BY <1>0, <1>5, FS_Subset
    <3>2. Points(Files, g, v) # 0
      BY <3>1, FS_EmptySet DEF Points
    <3> QED
      BY <1>2, <3>2
  <2> QED
    BY <1>1, <1>2, <2>1 DEF ExtOf
<1> QED
  BY <1>3, <1>4, <1>5

\* So are the roots that callers of <fs>_create get and give back.
LEMMA HandleChange ==
    ASSUME NEW h \in [Fs -> Vnodes \cup {None}], NEW g \in [Files -> Vnodes \cup {None}],
           NEW f \in Fs, NEW v \in Vnodes
    PROVE  /\ h[f] = None => /\ ExtOf(Put(h, f, v), g) = More(ExtOf(h, g), v)
                             /\ OwnOf(Put(h, f, v)) = [OwnOf(h) EXCEPT ![f] = 1]
           /\ h[f] = v => /\ ExtOf(Put(h, f, None), g) = Less(ExtOf(h, g), v) /\ ExtOf(h, g)[v] > 0
                          /\ OwnOf(Put(h, f, None)) = [OwnOf(h) EXCEPT ![f] = 0] /\ OwnOf(h)[f] = 1
<1>0. v # None /\ IsFiniteSet(Files) /\ IsFiniteSet(Fs) /\ None \notin Vnodes
  BY VfsAssumption
<1>1. ASSUME NEW x PROVE Points(Files, g, x) \in Nat
  BY <1>0, FS_Subset, FS_CardinalityType DEF Points
<1>2. ASSUME NEW y, NEW x
      PROVE  /\ Points(Fs, h, x) \in Nat
             /\ Points(Fs, Put(h, f, y), x)
                  = (Points(Fs, h, x) - (IF x = h[f] THEN 1 ELSE 0)) + (IF x = y THEN 1 ELSE 0)
  <2>1. DOMAIN g = Files /\ DOMAIN h = Fs
    OBVIOUS
  <2> QED
    BY <1>0, <2>1, PointsChange
<1>3. ASSUME h[f] = None PROVE ExtOf(Put(h, f, v), g) = More(ExtOf(h, g), v)
  <2>1. \A x \in Vnodes : Points(Fs, Put(h, f, v), x) = Points(Fs, h, x) + (IF x = v THEN 1 ELSE 0)
    BY <1>0, <1>2, <1>3
  <2>2. \A x \in Vnodes : ExtOf(Put(h, f, v), g)[x] = More(ExtOf(h, g), v)[x]
    <3>1. ASSUME NEW x \in Vnodes
          PROVE  /\ ExtOf(h, g)[x] = Points(Files, g, x) + Points(Fs, h, x)
                 /\ ExtOf(Put(h, f, v), g)[x] = ExtOf(h, g)[x] + (IF x = v THEN 1 ELSE 0)
      <4>1. /\ ExtOf(h, g)[x] = Points(Files, g, x) + Points(Fs, h, x)
            /\ ExtOf(Put(h, f, v), g)[x] = Points(Files, g, x) + Points(Fs, Put(h, f, v), x)
        BY DEF ExtOf
      <4>2. Points(Files, g, x) \in Nat /\ Points(Fs, h, x) \in Nat
        BY <1>1, <1>2
      <4> QED
        BY <2>1, <4>1, <4>2
    <3>2. ExtOf(h, g) \in [Vnodes -> Nat]
      BY <1>1, <1>2 DEF ExtOf
    <3> QED
      BY <3>1, <3>2 DEF More
  <2> QED
    BY <2>2 DEF ExtOf, More
<1>4. ASSUME h[f] = v PROVE ExtOf(Put(h, f, None), g) = Less(ExtOf(h, g), v)
  <2>1. \A x \in Vnodes : Points(Fs, Put(h, f, None), x) = Points(Fs, h, x) - (IF x = v THEN 1 ELSE 0)
    BY <1>0, <1>2, <1>4
  <2>2. \A x \in Vnodes : ExtOf(Put(h, f, None), g)[x] = Less(ExtOf(h, g), v)[x]
    <3>1. ASSUME NEW x \in Vnodes
          PROVE  /\ ExtOf(h, g)[x] = Points(Files, g, x) + Points(Fs, h, x)
                 /\ ExtOf(Put(h, f, None), g)[x] = ExtOf(h, g)[x] - (IF x = v THEN 1 ELSE 0)
      <4>1. /\ ExtOf(h, g)[x] = Points(Files, g, x) + Points(Fs, h, x)
            /\ ExtOf(Put(h, f, None), g)[x] = Points(Files, g, x) + Points(Fs, Put(h, f, None), x)
        BY DEF ExtOf
      <4>2. Points(Files, g, x) \in Nat /\ Points(Fs, h, x) \in Nat
        BY <1>1, <1>2
      <4> QED
        BY <2>1, <4>1, <4>2
    <3>2. ExtOf(h, g) \in [Vnodes -> Nat]
      BY <1>1, <1>2 DEF ExtOf
    <3> QED
      BY <3>1, <3>2 DEF Less
  <2> QED
    BY <2>2 DEF ExtOf, Less
<1>5. ASSUME h[f] = v PROVE ExtOf(h, g)[v] > 0
  <2>1. Points(Fs, h, v) > 0
    <3>1. f \in {e \in Fs : h[e] = v} /\ IsFiniteSet({e \in Fs : h[e] = v})
      BY <1>0, <1>5, FS_Subset
    <3>2. Points(Fs, h, v) # 0
      BY <3>1, FS_EmptySet DEF Points
    <3> QED
      BY <1>2, <3>2
  <2> QED
    BY <1>1, <1>2, <2>1 DEF ExtOf
<1>6. /\ OwnOf(Put(h, f, v)) = [OwnOf(h) EXCEPT ![f] = 1]
      /\ OwnOf(Put(h, f, None)) = [OwnOf(h) EXCEPT ![f] = 0]
      /\ h[f] = v => OwnOf(h)[f] = 1
  BY <1>0 DEF OwnOf, Put
<1> QED
  BY <1>3, <1>4, <1>5, <1>6

-----------------------------------------------------------------------------
(* The invariant *)

Roots(m, h) ==
    \A f \in Fs : h[f] # None => m.node[h[f]].fs = f /\ Unlinked(m, Allocated(m), h[f])

IInv ==
    /\ Good(mem, ExtOf(handle, file), OwnOf(handle))
    /\ handle \in [Fs -> Vnodes \cup {None}] /\ file \in [Files -> Vnodes \cup {None}]
    /\ Roots(mem, handle)

\* The code's callers unlink only what they may, and nothing that something is mounted on.
Careful == UnlinkRefused = FALSE /\ LoseMounts = FALSE

\* Min finds the smallest one.
LEMMA MinIn ==
    ASSUME NEW S, S \subseteq Nat, S # {}
    PROVE  Min(S) \in S
<1>1. PICK x \in S : \A y \in S : x <= y
  BY Smallest
<1> QED
  BY <1>1 DEF Min

\* File systems and roots stay what they are.
Kept(m, n) ==
    /\ \A x \in Allocated(m) \cap Allocated(n) : n.node[x].fs = m.node[x].fs
    /\ \A x \in Allocated(m) : Unlinked(m, Allocated(m), x) => Unlinked(n, Allocated(n), x)

\* What callers and files have is in memory.
LEMMA HeldIs ==
    ASSUME NEW m, NEW h \in [Fs -> Vnodes \cup {None}], NEW g \in [Files -> Vnodes \cup {None}],
           Good(m, ExtOf(h, g), OwnOf(h))
    PROVE  /\ \A f \in Fs : h[f] # None => /\ h[f] \in Vnodes /\ h[f] \in Allocated(m) \ {vfs_root}
                                           /\ ExtOf(h, g)[h[f]] > 0
           /\ \A d \in Files : g[d] # None => /\ g[d] \in Vnodes /\ g[d] \in Allocated(m) \ {vfs_root}
                                              /\ ExtOf(h, g)[g[d]] > 0
           /\ ExtOf(h, g) \in [Vnodes -> Nat]
<1>1. Counted(m, ExtOf(h, g))
  BY DEF Good
<1>2. ASSUME NEW f \in Fs, h[f] # None
      PROVE  h[f] \in Vnodes /\ h[f] \in Allocated(m) \ {vfs_root} /\ ExtOf(h, g)[h[f]] > 0
  <2>1. h[f] \in Vnodes
    BY <1>2
  <2>2. ExtOf(h, g)[h[f]] > 0
    BY <2>1, HandleChange
  <2> QED
    BY <1>1, <2>1, <2>2 DEF Counted
<1>3. ASSUME NEW d \in Files, g[d] # None
      PROVE  g[d] \in Vnodes /\ g[d] \in Allocated(m) \ {vfs_root} /\ ExtOf(h, g)[g[d]] > 0
  <2>1. g[d] \in Vnodes
    BY <1>3
  <2>2. ExtOf(h, g)[g[d]] > 0
    BY <2>1, FileChange
  <2> QED
    BY <1>1, <2>1, <2>2 DEF Counted
<1>4. ExtOf(h, g) \in [Vnodes -> Nat]
  BY <1>1 DEF Counted
<1> QED
  BY <1>2, <1>3, <1>4

\* The roots that callers have stay roots.
LEMMA RootsKept ==
    ASSUME NEW m, NEW n, NEW h \in [Fs -> Vnodes \cup {None}], NEW g \in [Files -> Vnodes \cup {None}],
           Good(n, ExtOf(h, g), OwnOf(h)), Kept(m, n), Roots(m, h),
           \A f \in Fs : h[f] # None => h[f] \in Allocated(m)
    PROVE  Roots(n, h)
<1>1. \A f \in Fs : h[f] # None => h[f] \in Allocated(n)
  BY HeldIs
<1> QED
  BY <1>1 DEF Roots, Kept

\* v is given back and nothing is mounted on what that frees.
LEMMA DroppedOK ==
    ASSUME NEW m, NEW ext, NEW own, Good(m, ext, own), NEW v \in Vnodes, ext[v] > 0,
           \A u \in Allocated(m) : vfs_unref(m, v).node[u] = None => m.node[u].mount = None
    PROVE  LET n == vfs_unref(m, v) IN
           Good(n, Less(ext, v), own) /\ Kept(m, n) /\ Allocated(n) \subseteq Allocated(m)
<1> DEFINE n == vfs_unref(m, v)
           F == Freed(m, v)
<1>1. Allocated(n) = Allocated(m) \ F
      /\ \A u \in Allocated(n) : n.node[u].fs = m.node[u].fs /\ n.node[u].child = m.node[u].child
  BY UnrefFields
<1>2. v \in Allocated(m) /\ Graph(m)
  BY DEF Good, Counted
<1>3. F \subseteq Allocated(m)
  BY DEF Freed
<1> HIDE DEF F, n
<1>4. ASSUME NEW u \in F PROVE m.node[u].mount = None
  <2>1. u \in Allocated(m) /\ n.node[u] = None
    BY <1>1, <1>3 DEF Allocated
  <2> QED
    BY <2>1 DEF n
<1>5. Good(n, Less(ext, v), own)
  BY <1>4, UnrefOK DEF F, n
<1>6. Kept(m, n)
  BY <1>1 DEF Kept, Unlinked, LinksAt
<1> QED
  BY <1>1, <1>5, <1>6 DEF n

\* The link to v goes and with it its reference.
LEMMA UnlinkedOK ==
    ASSUME NEW m, NEW ext, NEW own, Good(m, ext, own), NEW dir \in Allocated(m),
           NEW k \in DOMAIN m.node[dir].child, NEW v, v = m.node[dir].child[k].vnode,
           NEW n, n = vfs_unref(remove_link(m, dir, k), v),
           \A u \in Allocated(m) : n.node[u] = None => m.node[u].mount = None
    PROVE  Good(n, ext, own) /\ Kept(m, n) /\ Allocated(n) \subseteq Allocated(m)
<1> DEFINE n1 == remove_link(m, dir, k)
           more == More(ext, v)
<1>1. /\ Good(n1, more, own) /\ Allocated(n1) = Allocated(m) /\ v \in Vnodes
      /\ \A x \in Allocated(m) : n1.node[x].fs = m.node[x].fs /\ n1.node[x].mount = m.node[x].mount
      /\ \A x : Unlinked(m, Allocated(m), x) => Unlinked(n1, Allocated(n1), x)
  <2>1. Good(n1, more, own) /\ Allocated(n1) = Allocated(m) /\ v \in Vnodes
    BY UnlinkOK
  <2>2. \A x \in Allocated(m) : n1.node[x].fs = m.node[x].fs /\ n1.node[x].mount = m.node[x].mount
    <3>1. Alike(m, n1, dir) /\ n1.node[dir] = [m.node[dir] EXCEPT !.child = RemoveAt(m.node[dir].child, k)]
      BY UnlinkOK
    <3>2. m.node[dir] \in VnodeType
      BY Fields DEF Good, Graph
    <3> HIDE DEF n1
    <3>3. n1.node[dir].fs = m.node[dir].fs /\ n1.node[dir].mount = m.node[dir].mount
      BY <3>1, <3>2 DEF VnodeType
    <3> QED
      BY <3>1, <3>3 DEF Alike, Allocated
  <2>3. \A x : Unlinked(m, Allocated(m), x) => Unlinked(n1, Allocated(n1), x)
    BY UnlinkOK
  <2> QED
    BY <2>1, <2>2, <2>3
<1>2. ext \in [Vnodes -> Nat]
  BY DEF Good, Counted
<1>3. more[v] > 0 /\ Less(more, v) = ext
  <2>1. more[v] > 0
    BY <1>1, <1>2 DEF More
  <2> QED
    BY <1>1, <1>2, <2>1, MoreLess
<1> HIDE DEF n1, more
<1>4. \A u \in Allocated(n1) : vfs_unref(n1, v).node[u] = None => n1.node[u].mount = None
  BY <1>1 DEF n1
<1>5. Good(vfs_unref(n1, v), Less(more, v), own) /\ Kept(n1, vfs_unref(n1, v))
      /\ Allocated(vfs_unref(n1, v)) \subseteq Allocated(n1)
  BY <1>1, <1>3, <1>4, DroppedOK
<1>6. n = vfs_unref(n1, v)
  BY DEF n1
<1>7. Good(n, ext, own) /\ Kept(n1, n) /\ Allocated(n) \subseteq Allocated(n1)
  BY <1>3, <1>5, <1>6
<1>8. Kept(m, n)
  <2>1. \A x \in Allocated(m) \cap Allocated(n) : n.node[x].fs = m.node[x].fs
    BY <1>1, <1>7 DEF Kept
  <2>2. \A x \in Allocated(m) : Unlinked(m, Allocated(m), x) => Unlinked(n, Allocated(n), x)
    BY <1>1, <1>7 DEF Kept
  <2> QED
    BY <2>1, <2>2 DEF Kept
<1> QED
  BY <1>1, <1>7, <1>8

-----------------------------------------------------------------------------
(* Every step keeps the invariant *)

\* The parts of the invariant that every step needs.
LEMMA Unfolded ==
    ASSUME IInv
    PROVE  /\ Good(mem, ExtOf(handle, file), OwnOf(handle)) /\ Graph(mem) /\ Shape(mem)
           /\ handle \in [Fs -> Vnodes \cup {None}] /\ file \in [Files -> Vnodes \cup {None}]
           /\ Roots(mem, handle)
           /\ \A f \in Fs : handle[f] # None =>
                 /\ handle[f] \in Vnodes /\ handle[f] \in Allocated(mem) \ {vfs_root}
                 /\ ExtOf(handle, file)[handle[f]] > 0
           /\ \A d \in Files : file[d] # None =>
                 /\ file[d] \in Vnodes /\ file[d] \in Allocated(mem) \ {vfs_root}
                 /\ ExtOf(handle, file)[file[d]] > 0
           /\ ExtOf(handle, file) \in [Vnodes -> Nat]
  BY HeldIs DEF IInv, Good, Graph

\* The memory changes, the callers and files do not.
LEMMA Unchanged ==
    ASSUME IInv, Good(mem', ExtOf(handle, file), OwnOf(handle)), Kept(mem, mem'), UNCHANGED <<handle, file>>
    PROVE  IInv'
<1>1. Roots(mem', handle)
  BY Unfolded, RootsKept
<1> QED
  BY <1>1, Unfolded DEF IInv

\* tmpfs_create and devfs_create.
LEMMA FsCreateStep ==
    ASSUME IInv, NEW f \in Fs, FsCreate(f)
    PROVE  IInv'
<1> DEFINE v == Min(Unused(mem))
           ext == ExtOf(handle, file)
           own == OwnOf(handle)
<1>1. /\ mem.drv[f] = None /\ mem' = fs_create(mem, f, v) /\ handle' = Put(handle, f, v) /\ file' = file
  BY DEF FsCreate, Put
<1>2. v \in Unused(mem)
  <2>1. Unused(mem) \subseteq Nat
    BY VfsAssumption DEF Unused, Vnodes
  <2> QED
    BY <2>1, MinIn DEF FsCreate
<1>3. Good(mem, ext, own)
  BY Unfolded
<1> HIDE DEF v, ext, own
<1>4. /\ Good(mem', More(ext, v), [own EXCEPT ![f] = 1]) /\ own[f] = 0
      /\ Allocated(mem') = Allocated(mem) \cup {v} /\ v \in Vnodes
      /\ Unlinked(mem', Allocated(mem'), v) /\ mem'.node[v].fs = f
      /\ \A x \in Allocated(mem) : mem'.node[x] = mem.node[x]
      /\ \A x \in Allocated(mem) : Unlinked(mem, Allocated(mem), x) => Unlinked(mem', Allocated(mem'), x)
  BY <1>1, <1>2, <1>3, CreateOK
<1>5. handle[f] = None
  BY <1>4 DEF OwnOf, own
<1>6. ExtOf(handle', file') = More(ext, v) /\ OwnOf(handle') = [own EXCEPT ![f] = 1]
  BY <1>1, <1>4, <1>5, Unfolded, HandleChange DEF ext, own
<1>7. /\ handle' \in [Fs -> Vnodes \cup {None}] /\ file' \in [Files -> Vnodes \cup {None}]
      /\ handle'[f] = v /\ \A g \in Fs : g # f => handle'[g] = handle[g]
  BY <1>1, <1>4, Unfolded DEF Put
<1>8. Roots(mem', handle')
  <2> SUFFICES ASSUME NEW g \in Fs, handle'[g] # None
               PROVE  mem'.node[handle'[g]].fs = g /\ Unlinked(mem', Allocated(mem'), handle'[g])
    BY DEF Roots
  <2>1. CASE g = f
    BY <1>4, <1>7, <2>1
  <2>2. CASE g # f
    BY <1>4, <1>7, <2>2, Unfolded DEF Roots
  <2> QED
    BY <2>1, <2>2
<1> QED
  BY <1>4, <1>6, <1>7, <1>8 DEF IInv

\* tmpfs_destroy and devfs_destroy.
LEMMA FsDestroyStep ==
    ASSUME IInv, Careful, NEW f \in Fs, FsDestroy(f)
    PROVE  IInv'
<1> DEFINE v == handle[f]
           ext == ExtOf(handle, file)
           own == OwnOf(handle)
           n == vfs_unref(mem, v)
<1>1. /\ v # None /\ mem' = vfs_driver_unref(n, f) /\ handle' = Put(handle, f, None) /\ file' = file
      /\ \A u \in Allocated(mem) : mem'.node[u] = None => mem.node[u].mount = None
  BY DEF FsDestroy, Put, fs_destroy, KeepsMounts, Careful
<1>2. v \in Vnodes /\ Good(mem, ext, own) /\ ext[v] > 0
  BY <1>1, Unfolded
<1>3. /\ ExtOf(handle', file') = Less(ext, v)
      /\ OwnOf(handle') = [own EXCEPT ![f] = 0] /\ own[f] = 1
  BY <1>1, <1>2, Unfolded, HandleChange
<1>4. mem'.node = n.node
  BY <1>1 DEF vfs_driver_unref
<1>5. Good(n, Less(ext, v), own) /\ Kept(mem, n)
  BY <1>1, <1>2, <1>4, DroppedOK
<1> HIDE DEF n, ext, own
<1>6. Good(mem', ExtOf(handle', file'), OwnOf(handle'))
  <2>1. Good(mem', Less(ext, v), [own EXCEPT ![f] = 0])
    BY <1>1, <1>3, <1>5, DriverUnrefOK
  <2> QED
    BY <1>3, <2>1
<1>7. Kept(mem, mem')
  BY <1>4, <1>5 DEF Kept, Allocated, Unlinked, LinksAt
<1>8. /\ handle' \in [Fs -> Vnodes \cup {None}] /\ file' \in [Files -> Vnodes \cup {None}]
      /\ handle'[f] = None /\ \A g \in Fs : g # f => handle'[g] = handle[g]
  BY <1>1, Unfolded DEF Put
<1>9. Roots(mem, handle') /\ \A g \in Fs : handle'[g] # None => handle'[g] \in Allocated(mem)
  BY <1>8, Unfolded DEF Roots
<1>10. Roots(mem', handle')
  BY <1>6, <1>7, <1>8, <1>9, RootsKept
<1> QED
  BY <1>6, <1>8, <1>10 DEF IInv

\* A new vnode in a directory: tmpfs_createi, and what devfs_bind_dev does.
LEMMA LinkedStep ==
    ASSUME IInv, NEW dir \in Allocated(mem), mem.node[dir].fs \in Fs, NEW name \in Names, Unused(mem) # {},
           mem' = linked(mem, dir, name, Min(Unused(mem))), UNCHANGED <<handle, file>>
    PROVE  IInv'
<1> DEFINE v == Min(Unused(mem))
           ext == ExtOf(handle, file)
           own == OwnOf(handle)
<1>1. v \in Unused(mem)
  <2>1. Unused(mem) \subseteq Nat
    BY VfsAssumption DEF Unused, Vnodes
  <2> QED
    BY <2>1, MinIn
<1>2. Good(mem, ext, own)
  BY Unfolded
<1>3. mem' = linked(mem, dir, name, v)
  OBVIOUS
<1> HIDE DEF v, ext, own
<1>4. /\ Good(mem', ext, own)
      /\ \A x \in Allocated(mem) : mem'.node[x].fs = mem.node[x].fs
      /\ \A x \in Allocated(mem) : Unlinked(mem, Allocated(mem), x) => Unlinked(mem', Allocated(mem'), x)
  BY <1>1, <1>2, <1>3, LinkedOK
<1>5. Kept(mem, mem')
  BY <1>4 DEF Kept
<1> QED
  BY <1>4, <1>5, Unchanged DEF ext, own

\* vfs_create, which asks the driver of what is mounted last.
LEMMA CreateStep ==
    ASSUME IInv, NEW v \in Allocated(mem), NEW name \in Names, Create(v, name)
    PROVE  IInv'
<1>1. top(mem, v) \in Allocated(mem)
  BY Unfolded, TopOK
<1>2. mem.node[top(mem, v)].fs \in Fs
  BY DEF Create, Fs
<1> QED
  BY <1>1, <1>2, LinkedStep DEF Create

\* devfs_bind_dev.
LEMMA BindStep ==
    ASSUME IInv, NEW f \in Dev, NEW name \in Names, Bind(f, name)
    PROVE  IInv'
<1>1. f \in Fs /\ handle[f] # None
  BY DEF Fs, Bind
<1>2. handle[f] \in Allocated(mem) /\ mem.node[handle[f]].fs \in Fs
  BY <1>1, Unfolded DEF Roots
<1> QED
  BY <1>2, LinkedStep DEF Bind

\* devfs_unbind_dev.
LEMMA UnbindStep ==
    ASSUME IInv, Careful, NEW f \in Dev, NEW name \in Names, Unbind(f, name)
    PROVE  IInv'
<1> DEFINE dir == handle[f]
           at == LinksNamed(mem, dir, name)
           k == Min(at)
           v == mem.node[dir].child[k].vnode
           ext == ExtOf(handle, file)
           own == OwnOf(handle)
<1>1. f \in Fs /\ dir # None /\ at # {} /\ mem' = remove_link(vfs_unref(mem, v), dir, k)
      /\ UNCHANGED <<handle, file>>
      /\ \A u \in Allocated(mem) : mem'.node[u] = None => mem.node[u].mount = None
  BY DEF Fs, Unbind, KeepsMounts, Careful
<1>2. dir \in Allocated(mem) /\ Good(mem, ext, own) /\ ext[dir] > 0
  BY <1>1, Unfolded
<1>3. k \in DOMAIN mem.node[dir].child
  <2>1. mem.node[dir].child \in Seq([name : Names, vnode : Vnodes])
    BY <1>2, Unfolded, Fields
  <2>2. at \subseteq DOMAIN mem.node[dir].child /\ at \subseteq Nat
    BY <2>1 DEF LinksNamed
  <2> QED
    BY <1>1, <2>2, MinIn
<1> HIDE DEF k, ext, own, at
<1>4. mem' = vfs_unref(remove_link(mem, dir, k), v)
  BY <1>1, <1>2, <1>3, UnbindOrder
<1>5. Good(mem', ext, own) /\ Kept(mem, mem')
  BY <1>1, <1>2, <1>3, <1>4, UnlinkedOK
<1> QED
  BY <1>1, <1>5, Unchanged DEF ext, own

\* vfs_unlink, of what the drivers let go.
LEMMA UnlinkStep ==
    ASSUME IInv, Careful, NEW dir \in Allocated(mem), NEW name \in Names, Unlink(dir, name)
    PROVE  IInv'
<1> DEFINE ext == ExtOf(handle, file)
           own == OwnOf(handle)
<1>1. /\ ~UnlinkFails(mem, dir, name) /\ Cardinality(LinksNamed(mem, dir, name)) = 1
      /\ mem' = vfs_unlink(mem, dir, name) /\ UNCHANGED <<handle, file>>
      /\ \A u \in Allocated(mem) : mem'.node[u] = None => mem.node[u].mount = None
  BY DEF Unlink, KeepsMounts, Careful
<1>2. Good(mem, ext, own)
  BY Unfolded
<1> HIDE DEF ext, own
<1>3. PICK k \in DOMAIN mem.node[dir].child :
          mem' = vfs_unref(remove_link(mem, dir, k), mem.node[dir].child[k].vnode)
  BY <1>1, <1>2, UnlinkIs
<1>4. Good(mem', ext, own) /\ Kept(mem, mem')
  BY <1>1, <1>2, <1>3, UnlinkedOK
<1> QED
  BY <1>1, <1>4, Unchanged DEF ext, own

\* vfs_mount.
LEMMA MountStep ==
    ASSUME IInv, NEW v \in Allocated(mem), NEW f \in Fs, Mount(v, f)
    PROVE  IInv'
<1> DEFINE t == top(mem, v)
           root == handle[f]
           ext == ExtOf(handle, file)
           own == OwnOf(handle)
           n == vfs_ref(mem, root)
           more == More(ext, root)
<1>1. /\ root # None /\ <<mem.node[t].fs, f>> \in MountOrder /\ UNCHANGED <<handle, file>>
      /\ mem' = [n EXCEPT !.node[t].mount = root]
  BY DEF Mount, vfs_mount
<1>2. /\ root \in Vnodes /\ root \in Allocated(mem) \ {vfs_root} /\ Good(mem, ext, own) /\ ext \in [Vnodes -> Nat]
      /\ mem.node[root].fs = f /\ Unlinked(mem, Allocated(mem), root)
  BY <1>1, Unfolded DEF Roots
<1>3. t \in Allocated(mem) /\ mem.node[t].mount = None
  BY Unfolded, TopOK
<1> HIDE DEF t, root, ext, own
<1>4. /\ Good(n, more, own) /\ Allocated(n) = Allocated(mem)
      /\ \A u \in Allocated(mem) : /\ n.node[u].fs = mem.node[u].fs /\ n.node[u].child = mem.node[u].child
                                   /\ n.node[u].mount = mem.node[u].mount
  BY <1>2, RefOK
<1>5. more[root] > 0 /\ Less(more, root) = ext
  <2>1. more[root] > 0
    BY <1>2 DEF More
  <2> QED
    BY <1>2, <2>1, MoreLess
<1> HIDE DEF n, more
<1>6. Unlinked(n, Allocated(n), root)
  BY <1>2, <1>4 DEF Unlinked, LinksAt
<1>7. t \in Allocated(n) /\ n.node[t].mount = None /\ <<n.node[t].fs, n.node[root].fs>> \in MountOrder
  BY <1>1, <1>2, <1>3, <1>4
<1>8. /\ Good(mem', Less(more, root), own) /\ Allocated(mem') = Allocated(n)
      /\ \A x \in Allocated(n) : mem'.node[x].fs = n.node[x].fs /\ mem'.node[x].child = n.node[x].child
  BY <1>1, <1>2, <1>4, <1>5, <1>6, <1>7, MountSet
<1>9. Kept(mem, mem')
  BY <1>4, <1>8 DEF Kept, Unlinked, LinksAt
<1>10. Good(mem', ext, own)
  BY <1>5, <1>8
<1> QED
  BY <1>1, <1>9, <1>10, Unchanged DEF ext, own

\* vfs_unmount.
LEMMA UnmountStep ==
    ASSUME IInv, Careful, NEW v \in Allocated(mem), Unmount(v)
    PROVE  IInv'
<1> DEFINE t == top(mem, v)
           under == CHOOSE u \in mounts(mem, v) : mem.node[u].mount = t
           ext == ExtOf(handle, file)
           own == OwnOf(handle)
           n == [mem EXCEPT !.node[under].mount = None]
           more == More(ext, t)
<1>1. /\ mem.node[v].mount # None /\ UNCHANGED <<handle, file>>
      /\ mem' = [vfs_unref(mem, t) EXCEPT !.node[under].mount = None]
      /\ \A u \in Allocated(mem) : mem'.node[u] = None => mem.node[u].mount = None
  BY DEF Unmount, vfs_unmount, KeepsMounts, Careful
<1>2. /\ mounts(mem, v) \subseteq Allocated(mem) /\ t \in Allocated(mem)
      /\ \E u \in mounts(mem, v) : mem.node[u].mount = t
  BY <1>1, Unfolded, TopOK
<1>3. under \in Allocated(mem) /\ mem.node[under].mount = t
  BY <1>2
<1>4. t # None
  BY <1>2, VfsAssumption DEF Allocated
<1>5. Good(mem, ext, own) /\ ext \in [Vnodes -> Nat]
  BY Unfolded
<1> HIDE DEF t, under, ext, own
<1>6. mem' = vfs_unref(n, t)
  BY <1>1, <1>3, <1>4, <1>5, UnmountOrder
<1>7. /\ Good(n, more, own) /\ Allocated(n) = Allocated(mem) /\ t \in Vnodes
      /\ \A x \in Allocated(mem) :
            /\ n.node[x].fs = mem.node[x].fs /\ n.node[x].child = mem.node[x].child
            /\ n.node[x].mount = IF x = under THEN None ELSE mem.node[x].mount
  BY <1>3, <1>4, <1>5, MountClear
<1>8. more[t] > 0 /\ Less(more, t) = ext
  <2>1. more[t] > 0
    BY <1>5, <1>7 DEF More
  <2> QED
    BY <1>5, <1>7, <2>1, MoreLess
<1> HIDE DEF n, more
<1>9. \A u \in Allocated(n) : vfs_unref(n, t).node[u] = None => n.node[u].mount = None
  BY <1>1, <1>6, <1>7
<1>10. Good(mem', Less(more, t), own) /\ Kept(n, mem') /\ Allocated(mem') \subseteq Allocated(n)
  BY <1>6, <1>7, <1>8, <1>9, DroppedOK
<1>11. Kept(mem, mem')
  <2>1. \A x \in Allocated(mem) : Unlinked(mem, Allocated(mem), x) => Unlinked(n, Allocated(n), x)
    BY <1>7 DEF Unlinked, LinksAt
  <2> QED
    BY <1>7, <1>10, <2>1 DEF Kept
<1>12. Good(mem', ext, own)
  BY <1>8, <1>10
<1> QED
  BY <1>1, <1>11, <1>12, Unchanged DEF ext, own

\* vfs_open.
LEMMA OpenStep ==
    ASSUME IInv, NEW d \in Files, NEW v \in Allocated(mem), Open(d, v)
    PROVE  IInv'
<1> DEFINE t == top(mem, v)
           ext == ExtOf(handle, file)
           own == OwnOf(handle)
<1>1. /\ file[d] = None /\ mem.node[t].fs # NoFs
      /\ mem' = vfs_ref(mem, t) /\ file' = Put(file, d, t) /\ handle' = handle
  BY DEF Open, Put
<1>2. t \in Allocated(mem) /\ Good(mem, ext, own)
  BY Unfolded, TopOK
<1>3. t \in Vnodes /\ t # vfs_root
  BY <1>1, <1>2, Unfolded DEF Graph, Root, Allocated
<1>4. ExtOf(handle', file') = More(ext, t)
  BY <1>1, <1>3, Unfolded, FileChange
<1> HIDE DEF t, ext
<1>5. /\ Good(mem', More(ext, t), own) /\ Allocated(mem') = Allocated(mem)
      /\ \A u \in Allocated(mem) : mem'.node[u].fs = mem.node[u].fs /\ mem'.node[u].child = mem.node[u].child
  BY <1>1, <1>2, <1>3, RefOK
<1>6. Kept(mem, mem')
  BY <1>5 DEF Kept, Unlinked, LinksAt
<1>7. file' \in [Files -> Vnodes \cup {None}]
  BY <1>1, <1>3, Unfolded DEF Put
<1>8. Good(mem', ExtOf(handle', file'), OwnOf(handle'))
  BY <1>1, <1>4, <1>5
<1>9. Roots(mem', handle)
  BY <1>1, <1>6, <1>7, <1>8, Unfolded, RootsKept
<1> QED
  BY <1>1, <1>7, <1>8, <1>9, Unfolded DEF IInv

\* vfs_close.
LEMMA CloseStep ==
    ASSUME IInv, Careful, NEW d \in Files, Close(d)
    PROVE  IInv'
<1> DEFINE v == file[d]
           ext == ExtOf(handle, file)
           own == OwnOf(handle)
<1>1. /\ v # None /\ mem' = vfs_unref(mem, v) /\ file' = Put(file, d, None) /\ handle' = handle
      /\ \A u \in Allocated(mem) : mem'.node[u] = None => mem.node[u].mount = None
  BY DEF Close, Put, KeepsMounts, Careful
<1>2. v \in Vnodes /\ Good(mem, ext, own) /\ ext[v] > 0
  BY <1>1, Unfolded
<1>3. ExtOf(handle', file') = Less(ext, v)
  BY <1>1, <1>2, Unfolded, FileChange
<1>4. Good(mem', Less(ext, v), own) /\ Kept(mem, mem')
  BY <1>1, <1>2, DroppedOK
<1>5. file' \in [Files -> Vnodes \cup {None}]
  BY <1>1, Unfolded DEF Put
<1>6. Good(mem', ExtOf(handle', file'), OwnOf(handle'))
  BY <1>1, <1>3, <1>4
<1>7. Roots(mem', handle)
  BY <1>1, <1>4, <1>5, <1>6, Unfolded, RootsKept
<1> QED
  BY <1>1, <1>5, <1>6, <1>7, Unfolded DEF IInv

\* Every step keeps the invariant.
LEMMA Inductive ==
    ASSUME IInv, Careful, [Next]_vars
    PROVE  IInv'
<1>1. CASE UNCHANGED vars
  BY <1>1 DEF IInv, vars
<1>2. CASE Next
  <2>1. ASSUME NEW f \in Fs, FsCreate(f) PROVE IInv'
    BY <2>1, FsCreateStep
  <2>2. ASSUME NEW f \in Fs, FsDestroy(f) PROVE IInv'
    BY <2>2, FsDestroyStep
  <2>3. ASSUME NEW f \in Dev, NEW name \in Names, Bind(f, name) PROVE IInv'
    BY <2>3, BindStep
  <2>4. ASSUME NEW f \in Dev, NEW name \in Names, Unbind(f, name) PROVE IInv'
    BY <2>4, UnbindStep
  <2>5. ASSUME NEW d \in Files, Close(d) PROVE IInv'
    BY <2>5, CloseStep
  <2>6. ASSUME NEW d \in Files, NEW v \in Allocated(mem), Open(d, v) PROVE IInv'
    BY <2>6, OpenStep
  <2>7. ASSUME NEW v \in Allocated(mem), Unmount(v) PROVE IInv'
    BY <2>7, UnmountStep
  <2>8. ASSUME NEW v \in Allocated(mem), NEW f \in Fs, Mount(v, f) PROVE IInv'
    BY <2>8, MountStep
  <2>9. ASSUME NEW v \in Allocated(mem), NEW name \in Names, Create(v, name) PROVE IInv'
    BY <2>9, CreateStep
  <2>10. ASSUME NEW v \in Allocated(mem), NEW name \in Names, Unlink(v, name) PROVE IInv'
    BY <2>10, UnlinkStep
  <2> QED
    BY <1>2, <2>1, <2>2, <2>3, <2>4, <2>5, <2>6, <2>7, <2>8, <2>9, <2>10 DEF Next
<1> QED
  BY <1>1, <1>2

-----------------------------------------------------------------------------
(* The first state *)

\* vfs_init establishes it.
LEMMA Initially ==
    ASSUME Init
    PROVE  IInv
<1> DEFINE ext == ExtOf(handle, file)
           own == OwnOf(handle)
           first == Vnode(NoFs)
<1>1. /\ mem.node = [v \in Vnodes |-> IF v = vfs_root THEN first ELSE None]
      /\ mem.drv = [f \in Fs |-> None] /\ mem = [node |-> mem.node, drv |-> mem.drv]
      /\ handle = [f \in Fs |-> None] /\ file = [d \in Files |-> None]
  BY DEF Init
<1>2. first \in VnodeType /\ first # None /\ vfs_root \in Vnodes /\ None \notin Vnodes /\ NoFs \notin Fs
  <2>1. first \in VnodeType
    <3>1. <<>> \in Seq([name : Names, vnode : Vnodes])
      OBVIOUS
    <3> QED
      BY <3>1 DEF VnodeType, Vnode
  <2>2. vfs_root \in Vnodes
    BY VfsAssumption DEF Vnodes, vfs_root
  <2> HIDE DEF first
  <2> QED
    BY <2>1, <2>2, VfsAssumption
<1>3. first.fs = NoFs /\ first.refcount = 0 /\ first.child = <<>> /\ first.mount = None
  BY DEF Vnode
<1> HIDE DEF first
<1>4. Allocated(mem) = {vfs_root} /\ mem.node[vfs_root] = first
  BY <1>1, <1>2 DEF Allocated
<1>5. Shape(mem)
  BY <1>1, <1>2 DEF Shape
<1>6. Root(mem)
  BY <1>3, <1>4 DEF Root
<1>7. \A w \in Allocated(mem) : /\ mem.node[w].mount = None /\ DOMAIN mem.node[w].child = {}
                                /\ \A u : LinksAt(mem, w, u) = {}
  BY <1>3, <1>4 DEF LinksAt
<1>8. LinksOK(mem) /\ OneLink(mem) /\ MountsOK(mem)
  BY <1>7 DEF LinksOK, OneLink, MountsOK
<1>9. NoRing(mem)
  BY <1>7 DEF NoRing, Unlinked
<1>10. \A f \in Fs : handle[f] = None
  BY <1>1
<1>11. \A d \in Files : file[d] = None
  BY <1>1
<1>12. ext = [v \in Vnodes |-> 0]
  <2>1. ASSUME NEW v \in Vnodes PROVE Points(Files, file, v) = 0 /\ Points(Fs, handle, v) = 0
    <3>1. {d \in Files : file[d] = v} = {} /\ {f \in Fs : handle[f] = v} = {}
      BY <1>2, <1>10, <1>11
    <3> QED
      BY <3>1, FS_EmptySet DEF Points
  <2> QED
    BY <2>1 DEF ExtOf
<1>13. Counted(mem, ext)
  BY <1>4, <1>12 DEF Counted
<1>14. own = [f \in Fs |-> 0]
  BY <1>10 DEF OwnOf
<1>15. Driven(mem, own)
  <2>1. \A f \in Fs : VnodesOf(mem, f) = {} /\ mem.drv[f] = None
    BY <1>1, <1>2, <1>3, <1>4 DEF VnodesOf
  <2> QED
    BY <1>14, <2>1 DEF Driven
<1>16. Good(mem, ext, own)
  BY <1>5, <1>6, <1>8, <1>9, <1>13, <1>15 DEF Good, Graph
<1>17. Roots(mem, handle)
  BY <1>10 DEF Roots
<1> QED
  BY <1>1, <1>16, <1>17 DEF IInv

-----------------------------------------------------------------------------
(* What the invariant says *)

\* What is referred to has a reference, so it is in memory.
LEMMA NoDanglingHolds ==
    ASSUME IInv
    PROVE  NoDangling
<1>1. Shape(mem) /\ Root(mem) /\ LinksOK(mem) /\ MountsOK(mem) /\ Counted(mem, ExtOf(handle, file))
      /\ Driven(mem, OwnOf(handle))
  BY DEF IInv, Good, Graph
<1>2. TypeOK
  <2>1. \A v \in Allocated(mem) :
          mem.node[v] \in VnodeType /\ (mem.node[v].refcount > 0 \/ v = vfs_root)
    BY <1>1, Fields DEF Counted
  <2>2. ASSUME NEW f \in Fs, mem.drv[f] # None PROVE mem.drv[f].refcount \in Nat \ {0}
    BY <1>1, <2>2 DEF Driven, Shape, DriverType
  <2> QED
    BY <2>1, <2>2 DEF TypeOK, IInv
<1>3. Pointers \ {None} \subseteq Allocated(mem)
  <2> SUFFICES ASSUME NEW p \in Pointers, p # None PROVE p \in Allocated(mem)
    OBVIOUS
  <2>1. \/ \E v \in Allocated(mem) : \E k \in DOMAIN mem.node[v].child : p = mem.node[v].child[k].vnode
        \/ \E v \in Allocated(mem) : p = mem.node[v].mount
        \/ \E f \in Fs : p = handle[f]
        \/ \E d \in Files : p = file[d]
    <3>1. DOMAIN handle = Fs /\ DOMAIN file = Files
      BY DEF IInv
    <3>2. \/ \E v \in Allocated(mem) : p \in {ln.vnode : ln \in ToSet(mem.node[v].child)}
          \/ p \in {mem.node[v].mount : v \in Allocated(mem)} \/ p \in Range(handle) \/ p \in Range(file)
      <4> DEFINE to(v) == {ln.vnode : ln \in ToSet(mem.node[v].child)}
                 all == { to(v) : v \in Allocated(mem) }
      <4>1. p \in UNION all \/ p \in {mem.node[v].mount : v \in Allocated(mem)}
            \/ p \in Range(handle) \/ p \in Range(file)
        <5>1. Pointers = (UNION all) \cup {mem.node[v].mount : v \in Allocated(mem)}
                           \cup Range(handle) \cup Range(file)
          BY Zenon DEF Pointers
        <5> HIDE DEF all
        <5> QED
          BY <5>1
      <4>2. p \in UNION all => \E v \in Allocated(mem) : p \in to(v)
        <5> HIDE DEF to
        <5> QED
          OBVIOUS
      <4> HIDE DEF all
      <4> QED
        BY <4>1, <4>2
    <3>3. ASSUME NEW v, p \in {ln.vnode : ln \in ToSet(mem.node[v].child)}
          PROVE  \E k \in DOMAIN mem.node[v].child : p = mem.node[v].child[k].vnode
      <4>1. PICK ln \in ToSet(mem.node[v].child) : p = ln.vnode
        BY <3>3
      <4> QED
        BY <4>1 DEF ToSet
    <3> QED
      <4>1. p \in Range(handle) => \E f \in Fs : p = handle[f]
        BY <3>1 DEF Range
      <4>2. p \in Range(file) => \E d \in Files : p = file[d]
        BY <3>1 DEF Range
      <4>3. (\E v \in Allocated(mem) : p \in {ln.vnode : ln \in ToSet(mem.node[v].child)})
            => \E v \in Allocated(mem) : \E k \in DOMAIN mem.node[v].child : p = mem.node[v].child[k].vnode
        BY <3>3
      <4> QED
        BY <3>2, <4>1, <4>2, <4>3
  <2>2. CASE \E v \in Allocated(mem) : \E k \in DOMAIN mem.node[v].child : p = mem.node[v].child[k].vnode
    BY <1>1, <2>2 DEF LinksOK
  <2>3. CASE \E v \in Allocated(mem) : p = mem.node[v].mount
    BY <1>1, <2>3 DEF MountsOK
  <2>4. CASE \E f \in Fs : p = handle[f]
    BY <2>4, Unfolded
  <2>5. CASE \E d \in Files : p = file[d]
    BY <2>5, Unfolded
  <2> QED
    BY <2>1, <2>2, <2>3, <2>4, <2>5
<1>4. \A v \in Allocated(mem) \ {vfs_root} : mem.drv[mem.node[v].fs] # None
  <2> SUFFICES ASSUME NEW v \in Allocated(mem) \ {vfs_root} PROVE mem.drv[mem.node[v].fs] # None
    OBVIOUS
  <2>1. mem.node[v].fs \in Fs /\ v \in VnodesOf(mem, mem.node[v].fs)
    BY <1>1 DEF Root, VnodesOf
  <2> QED
    BY <1>1, <2>1 DEF Driven
<1> QED
  BY <1>2, <1>3, <1>4 DEF NoDangling

\* The counts, with the references of callers and files spelled out.
LEMMA RefcountExactHolds ==
    ASSUME IInv
    PROVE  RefcountExact
<1>1. Counted(mem, ExtOf(handle, file)) /\ Driven(mem, OwnOf(handle))
  BY DEF IInv, Good
<1>2. ASSUME NEW v \in Allocated(mem) \ {vfs_root}
      PROVE  mem.node[v].refcount = References(v)
  <2>1. v \in Vnodes
    BY DEF Allocated
  <2>2. ExtOf(handle, file)[v] = Points(Files, file, v) + Points(Fs, handle, v)
    BY <2>1 DEF ExtOf
  <2>3. Points(Files, file, v) \in Nat /\ Points(Fs, handle, v) \in Nat
    <3>1. IsFiniteSet({d \in Files : file[d] = v}) /\ IsFiniteSet({f \in Fs : handle[f] = v})
      BY VfsAssumption, FS_Subset
    <3> QED
      BY <3>1, FS_CardinalityType DEF Points
  <2>4. mem.node[v].refcount = Cardinality(LinksTo(v)) + Cardinality(MountsOn(mem, v))
                                 + (Points(Files, file, v) + Points(Fs, handle, v))
    BY <1>1, <2>2 DEF Counted, LinksTo
  <2>5. References(v) = Cardinality(LinksTo(v)) + Cardinality(MountsOn(mem, v))
                          + Points(Files, file, v) + Points(Fs, handle, v)
    BY DEF References, MountsOn, Points
  <2>6. Cardinality(LinksTo(v)) \in Nat /\ Cardinality(MountsOn(mem, v)) \in Nat
    <3>1. Cardinality(LinksTo(v)) \in {0, 1}
      BY LinkCount DEF LinksTo, IInv, Good, Graph
    <3>2. MountsOn(mem, v) \subseteq Allocated(mem)
      BY DEF MountsOn
    <3> QED
      BY <3>1, <3>2, Finite
  <2> HIDE DEF References, LinksTo
  <2> QED
    BY <2>3, <2>4, <2>5, <2>6
<1>3. ASSUME NEW f \in Fs, mem.drv[f] # None
      PROVE  mem.drv[f].refcount = Cardinality({v \in Allocated(mem) : mem.node[v].fs = f})
                                     + (IF handle[f] = None THEN 0 ELSE 1)
  <2>1. OwnOf(handle)[f] = IF handle[f] = None THEN 0 ELSE 1
    BY DEF OwnOf
  <2> QED
    BY <1>1, <1>3, <2>1 DEF Driven, VnodesOf
<1> QED
  BY <1>2, <1>3 DEF RefcountExact

\* Were anything lost, then a set T of vnodes that only T refers to; but on the file
\* system of T that is mounted the least deep something is unlinked within T, as
\* links do not go round, so it is mounted, less deep.
LEMMA NothingLostHolds ==
    ASSUME IInv
    PROVE  NothingLost
<1> SUFFICES ASSUME NEW S \in SUBSET Allocated(mem), Held \subseteq S, Onwards(S), S # Allocated(mem)
             PROVE  FALSE
  BY DEF NothingLost
<1> DEFINE T == Allocated(mem) \ S
           ext == ExtOf(handle, file)
<1>1. /\ Graph(mem) /\ Counted(mem, ext) /\ OneLink(mem) /\ LinksOK(mem) /\ MountsOK(mem) /\ NoRing(mem)
      /\ Root(mem) /\ Shape(mem)
  BY DEF IInv, Good, Graph
<1>2. T # {} /\ vfs_root \notin T /\ T \subseteq Allocated(mem)
  BY VfsAssumption DEF Held, vfs_root, Vnodes
<1>3. ASSUME NEW u \in T PROVE ext[u] = 0
  <2>1. u \in Vnodes /\ u # None
    BY VfsAssumption DEF Allocated
  <2>2. {d \in Files : file[d] = u} = {} /\ {f \in Fs : handle[f] = u} = {}
    BY <2>1 DEF Held, Range, IInv
  <2> QED
    BY <2>1, <2>2, FS_EmptySet DEF ExtOf, Points
<1>4. ASSUME NEW u \in T, NEW w \in Allocated(mem), LinksAt(mem, w, u) # {}
      PROVE  w \in T /\ mem.node[w].fs = mem.node[u].fs
  BY <1>1, <1>4 DEF Onwards, LinksAt, LinksOK
<1>5. ASSUME NEW u \in T, Unlinked(mem, Allocated(mem), u)
      PROVE  \E w \in T : mem.node[w].mount = u
  <2>1. Cardinality(LinksFrom(mem, Allocated(mem), u)) = 0
    BY <1>1, <1>5, LinkCount
  <2>2. mem.node[u].refcount > 0
        /\ mem.node[u].refcount = Cardinality(LinksFrom(mem, Allocated(mem), u))
                                    + Cardinality(MountsOn(mem, u)) + ext[u]
    BY <1>1, <1>2 DEF Counted
  <2>3. MountsOn(mem, u) # {}
    BY <1>3, <2>1, <2>2, FS_EmptySet
  <2>4. PICK w \in Allocated(mem) : mem.node[w].mount = u
    BY <2>3 DEF MountsOn
  <2>5. u # None
    BY VfsAssumption DEF Allocated
  <2> QED
    BY <2>4, <2>5 DEF Onwards
<1>6. PICK rank \in [Fs \cup {NoFs} -> 0 .. Cardinality(Fs)] :
          \A p \in MountOrder : rank[p[2]] < rank[p[1]]
  BY VfsAssumption DEF MountsEnd
<1>7. Cardinality(Fs) \in Nat
  BY VfsAssumption, FS_CardinalityType
<1> DEFINE r(u) == rank[mem.node[u].fs]
           R == {Cardinality(Fs) - r(u) : u \in T}
<1>8. ASSUME NEW u \in Allocated(mem) PROVE r(u) \in 0 .. Cardinality(Fs)
  <2>1. mem.node[u].fs \in Fs \cup {NoFs}
    BY <1>1, Fields
  <2> QED
    BY <1>6, <2>1
<1> HIDE DEF r, T
<1>9. PICK t \in T : \A u \in T : r(u) <= r(t)
  <2>1. R \subseteq Nat
    BY <1>2, <1>7, <1>8
  <2>2. R # {}
    BY <1>2
  <2>3. PICK x \in R : \A y \in R : x <= y
    <3> HIDE DEF R
    <3> QED
      BY <2>1, <2>2, Smallest
  <2>4. PICK t \in T : x = Cardinality(Fs) - r(t)
    BY <2>3
  <2>5. ASSUME NEW u \in T PROVE r(u) <= r(t)
    <3>1. Cardinality(Fs) - r(t) <= Cardinality(Fs) - r(u)
      BY <2>3, <2>4
    <3>2. r(u) \in Nat /\ r(t) \in Nat
      BY <1>2, <1>8
    <3> QED
      BY <1>7, <3>1, <3>2
  <2> QED
    BY <2>5
<1> DEFINE G == {u \in T : r(u) = r(t)}
<1>10. PICK u \in G : Unlinked(mem, G, u)
  <2>1. G \in SUBSET Allocated(mem) /\ G # {}
    BY <1>2
  <2> HIDE DEF G
  <2> QED
    BY <1>1, <2>1 DEF NoRing
<1>11. Unlinked(mem, Allocated(mem), u)
  <2> SUFFICES ASSUME NEW w \in Allocated(mem), LinksAt(mem, w, u) # {} PROVE FALSE
    BY DEF Unlinked
  <2>1. w \in T /\ mem.node[w].fs = mem.node[u].fs
    BY <1>4
  <2>2. w \in G
    BY <2>1 DEF r
  <2> QED
    BY <1>10, <2>2 DEF Unlinked
<1>12. PICK w \in T : mem.node[w].mount = u
  BY <1>5, <1>11
<1>13. r(u) < r(w)
  <2>1. u # None
    BY <1>2, VfsAssumption DEF Allocated
  <2>2. <<mem.node[w].fs, mem.node[u].fs>> \in MountOrder
    BY <1>1, <1>2, <1>12, <2>1 DEF MountsOK
  <2> QED
    BY <1>6, <2>2 DEF r
<1>14. r(w) <= r(t) /\ r(u) = r(t) /\ r(w) \in Nat /\ r(t) \in Nat
  BY <1>2, <1>8, <1>9
<1> QED
  BY <1>13, <1>14

-----------------------------------------------------------------------------
(* The theorems.  Careful is the care that the code leaves to its callers; the *)
(* runs show what happens without it.                                          *)

\* The invariant holds for any number of vnodes, files, names and file systems.
THEOREM VfsInvariant == ASSUME Careful PROVE Spec => []IInv
<1>1. Init => IInv
  BY Initially
<1>2. IInv /\ [Next]_vars => IInv'
  BY Inductive
<1> QED
  BY <1>1, <1>2, PTL DEF Spec

\* No link, mount, open file or caller refers to a vnode that vfs_unref freed, and no
\* vnode to a driver that vfs_driver_unref freed.
THEOREM VfsNoDangling == ASSUME Careful PROVE Spec => []NoDangling
<1>1. Spec => []IInv
  BY VfsInvariant
<1>2. IInv => NoDangling
  BY NoDanglingHolds
<1> QED
  BY <1>1, <1>2, PTL

\* The count of each vnode and of each driver is the number of what refers to it
\* (vfs_ref, vfs_unref, vfs_driver_ref, vfs_driver_unref).
THEOREM VfsRefcountExact == ASSUME Careful PROVE Spec => []RefcountExact
<1>1. Spec => []IInv
  BY VfsInvariant
<1>2. IInv => RefcountExact
  BY RefcountExactHolds
<1> QED
  BY <1>1, <1>2, PTL

\* Reference counting loses nothing: neither links nor mounts go round, so all that is
\* in memory is reached from vfs_root, an open file or what a caller of
\* <fs>_create has.
THEOREM VfsNothingLost == ASSUME Careful PROVE Spec => []NothingLost
<1>1. Spec => []IInv
  BY VfsInvariant
<1>2. IInv => NothingLost
  BY NothingLostHolds
<1> QED
  BY <1>1, <1>2, PTL
=============================================================================
