---------------------------- MODULE PagingProof ----------------------------
(***************************************************************************)
(* Proofs about Paging: the tables form a tree of four levels whose counts *)
(* are exact, whatever pages are mapped and unmapped, for every size of a  *)
(* table and every set of pages and frames, and the tree implements an     *)
(* address space.                                                          *)
(***************************************************************************)
EXTENDS Paging, FiniteSetTheorems, WellFoundedInduction, TLAPS

-----------------------------------------------------------------------------
(* Memory *)

Tables == Frames \cup {k_pml4}

EntryType == [present : BOOLEAN, to : Nat, sub : Int]

Memory == [table : [Tables -> [Idx -> EntryType]], free : SUBSET Frames]

Pages == Idx \X Idx \X Idx \X Idx

\* The entries in use of table t.
Used(m, t) == {i \in Idx : m.table[t][i].present}

\* The memories m and n differ in entry i of table t only.
OthersSame(m, n, t, i) ==
    \A u \in Tables, j \in Idx : u # t \/ j # i => n.table[u][j] = m.table[u][j]

\* An entry is written.
Put(m, t, i, e) == [m EXCEPT !.table[t][i] = e]

LEMMA PutFacts ==
    ASSUME NEW m \in Memory, NEW t \in Tables, NEW i \in Idx, NEW e \in EntryType
    PROVE  LET n == Put(m, t, i, e) IN
           /\ n \in Memory /\ n.free = m.free
           /\ n.table[t][i] = e /\ OthersSame(m, n, t, i)
BY DEF Memory, Put, OthersSame

\* An entry has three fields.
LEMMA EntryFacts ==
    ASSUME NEW m \in Memory, NEW t \in Tables, NEW i \in Idx
    PROVE  LET e == m.table[t][i] IN
           /\ e \in EntryType
           /\ e.present \in BOOLEAN /\ e.to \in Nat /\ e.sub \in Int
           /\ below(m, t, i) \in Nat
BY DEF Memory, EntryType, below

\* The entries of a table are finitely many.
LEMMA UsedFinite ==
    ASSUME NEW m, NEW t
    PROVE  /\ IsFiniteSet(Used(m, t)) /\ Cardinality(Used(m, t)) \in Nat
           /\ Cardinality(Used(m, t)) = 0 <=> Used(m, t) = {}
<1>1. Used(m, t) \in SUBSET Idx /\ IsFiniteSet(Idx)
  BY PagingAssumption DEF Used
<1>2. IsFiniteSet(Used(m, t))
  BY <1>1, FS_Subset
<1> QED
  BY <1>2, FS_EmptySet, FS_CardinalityType

\* One entry more, or one less.
LEMMA UsedAdd ==
    ASSUME NEW m, NEW n, NEW t, NEW i \in Idx,
           \A j \in Idx : j # i => n.table[t][j] = m.table[t][j],
           ~m.table[t][i].present, n.table[t][i].present
    PROVE  Cardinality(Used(n, t)) = Cardinality(Used(m, t)) + 1 /\ Used(n, t) # {}
<1>1. Used(n, t) = Used(m, t) \cup {i} /\ i \notin Used(m, t)
  BY DEF Used
<1> QED
  BY <1>1, UsedFinite, FS_AddElement

\* The two memories have the same entries in use in a table whose entries are
\* the same.
LEMMA UsedSame ==
    ASSUME NEW m, NEW n, NEW t,
           \A j \in Idx : n.table[t][j].present = m.table[t][j].present
    PROVE  Used(n, t) = Used(m, t)
BY DEF Used

\* A set of numbers has a smallest one.
LEMMA SmallestFrame ==
    ASSUME NEW S, S \subseteq Nat, S # {}
    PROVE  Min(S) \in S
<1>1. \E x \in S : \A y \in S : ~(<<y, x>> \in OpToRel(<, Nat))
  BY NatLessThanWellFounded, WFMin
<1>2. PICK x \in S : \A y \in S : ~(<<y, x>> \in OpToRel(<, Nat))
  BY <1>1
<1>3. \A y \in S : ~(y < x)
  BY <1>2 DEF OpToRel
<1>4. \A y \in S : x <= y
  BY <1>3
<1> QED
  BY <1>4 DEF Min

-----------------------------------------------------------------------------
(* The tree *)

\* The level of each table: 1 for the PML4, 4 for a PT, 0 for no table.  An entry
\* in use of a table above level 4 points to a table one level further down, no
\* two point to the same, and every table but the PML4 has one that points to it.
Inner(L, t) == t \in Tables /\ L[t] \in 1 .. 3

Tree(m, L) ==
    /\ m \in Memory /\ L \in [Tables -> 0 .. 4]
    /\ \A t \in Tables : L[t] = 1 <=> t = k_pml4
    /\ \A t \in Tables, i \in Idx : Inner(L, t) /\ m.table[t][i].present =>
          below(m, t, i) \in Frames /\ L[below(m, t, i)] = L[t] + 1
    /\ \A t, u \in Tables, i, j \in Idx :
          /\ Inner(L, t) /\ m.table[t][i].present
          /\ Inner(L, u) /\ m.table[u][j].present
          /\ below(m, t, i) = below(m, u, j)
          => t = u /\ i = j
    /\ \A t \in Tables : L[t] > 1 =>
          \E u \in Tables, i \in Idx : Inner(L, u) /\ m.table[u][i].present /\ below(m, u, i) = t
    /\ \A t \in Tables : L[t] # 0 => t \notin m.free

\* The counts are those of the entries in use below, and k more for the entry
\* that points to table x.
Counted(m, L, x, k) ==
    \A t \in Tables, i \in Idx : Inner(L, t) /\ m.table[t][i].present =>
        m.table[t][i].sub = Cardinality(Used(m, below(m, t, i)))
                                + (IF below(m, t, i) = x THEN k ELSE 0)

\* No table but the PML4 is empty, except perhaps x.
Filled(m, L, x) == \A t \in Tables : L[t] > 1 /\ t # x => Used(m, t) # {}

\* The allocator has all frames that are no table.
Returned(m, L) == \A t \in Frames : L[t] = 0 => t \in m.free

\* Nothing points to the PML4 from above, so it is no exception.
LEMMA RootUncounted ==
    ASSUME NEW m, NEW L, Tree(m, L), NEW k, NEW x
    PROVE  /\ Counted(m, L, k_pml4, k) => Counted(m, L, x, 0)
           /\ Counted(m, L, x, 0) => Counted(m, L, k_pml4, k)
           /\ Filled(m, L, k_pml4) => Filled(m, L, x)
<1>1. \A t \in Tables, i \in Idx : Inner(L, t) /\ m.table[t][i].present =>
          /\ below(m, t, i) # k_pml4 
          /\ Cardinality(Used(m, below(m, t, i))) \in Nat
  BY PagingAssumption, UsedFinite DEF Tree
<1>2. \A t \in Tables : L[t] > 1 => t # k_pml4
  BY DEF Tree
<1> QED
  BY <1>1, <1>2 DEF Counted, Filled

\* Two memories whose entries are in use and point to the same.
SameShape(m, n) ==
    \A t \in Tables, i \in Idx : /\ n.table[t][i].present = m.table[t][i].present
                                 /\ below(n, t, i) = below(m, t, i)

LEMMA ShapeTree ==
    ASSUME NEW m, NEW L, Tree(m, L), NEW n \in Memory, n.free = m.free, SameShape(m, n)
    PROVE  /\ Tree(n, L)
           /\ \A t \in Tables : Used(n, t) = Used(m, t)
           /\ \A x : Filled(m, L, x) => Filled(n, L, x)
           /\ Returned(m, L) => Returned(n, L)
<1>1. \A t \in Tables : Used(n, t) = Used(m, t)
  BY UsedSame DEF SameShape
<1>2. Tree(n, L)
  BY DEF Tree, SameShape, Inner
<1> QED
  BY <1>1, <1>2 DEF Filled, Returned

\* Counting one entry up or down moves the exception of the table below it.
LEMMA CountInv ==
    ASSUME NEW m, NEW L, Tree(m, L), NEW t, NEW i \in Idx, Inner(L, t), m.table[t][i].present,
           NEW k \in Int, NEW c \in Int, Counted(m, L, below(m, t, i), k),
           NEW e \in EntryType, e.present, e.to = below(m, t, i), e.sub = m.table[t][i].sub + c
    PROVE  LET n == Put(m, t, i, e) IN
           /\ Tree(n, L) /\ Counted(n, L, below(m, t, i), k + c)
           /\ \A x : Filled(m, L, x) => Filled(n, L, x)
           /\ Returned(m, L) => Returned(n, L)
           /\ SameShape(m, n) /\ n.table[t][i] = e /\ n.free = m.free
<1> DEFINE n == Put(m, t, i, e)
           x == below(m, t, i)
<1>1. m \in Memory /\ t \in Tables
  BY DEF Tree, Inner
<1>2. n \in Memory /\ n.free = m.free /\ n.table[t][i] = e /\ OthersSame(m, n, t, i)
  BY <1>1, PutFacts
<1> HIDE DEF n
<1>3. SameShape(m, n)
  <2>1. e.present = m.table[t][i].present /\ below(n, t, i) = below(m, t, i)
    BY <1>1, <1>2, EntryFacts DEF EntryType, below
  <2>2. ASSUME NEW u \in Tables, NEW j \in Idx, u # t \/ j # i
        PROVE  n.table[u][j] = m.table[u][j]
    BY <1>2, <2>2 DEF OthersSame
  <2> QED
    BY <1>2, <2>1, <2>2 DEF SameShape, below
<1>4. /\ Tree(n, L) /\ \A u \in Tables : Used(n, u) = Used(m, u)
      /\ \A y : Filled(m, L, y) => Filled(n, L, y)
      /\ Returned(m, L) => Returned(n, L)
  BY <1>2, <1>3, ShapeTree
<1>5. ASSUME NEW u \in Tables, NEW j \in Idx, Inner(L, u), n.table[u][j].present
      PROVE  n.table[u][j].sub = Cardinality(Used(n, below(n, u, j)))
                                     + (IF below(n, u, j) = x THEN k + c ELSE 0)
  <2>1. m.table[u][j].present /\ below(n, u, j) = below(m, u, j)
    BY <1>3, <1>5 DEF SameShape
  <2>2. below(m, u, j) \in Tables /\ Used(n, below(m, u, j)) = Used(m, below(m, u, j))
    BY <1>4, <1>5, <2>1 DEF Tree, Tables
  <2>3. /\ m.table[u][j].sub = Cardinality(Used(m, below(m, u, j)))
                                  + (IF below(m, u, j) = x THEN k ELSE 0)
        /\ Cardinality(Used(m, below(m, u, j))) \in Nat
    BY <1>5, <2>1, UsedFinite DEF Counted
  <2>4. CASE u = t /\ j = i
    BY <1>2, <2>1, <2>2, <2>3, <2>4
  <2>5. CASE ~(u = t /\ j = i)
    <3>1. below(m, u, j) # x
      BY <1>1, <1>5, <2>1, <2>5 DEF Tree
    <3>2. n.table[u][j] = m.table[u][j]
      BY <1>2, <2>5 DEF OthersSame
    <3> QED
      BY <2>1, <2>2, <2>3, <3>1, <3>2
  <2> QED
    BY <2>4, <2>5
<1> QED
  BY <1>2, <1>3, <1>4, <1>5 DEF Counted, n
-----------------------------------------------------------------------------
(* Pages *)

\* What page w is mapped to.
Page(m, w) == IF HasPage(m, w) THEN below(m, PtOf(m, w), w[4]) ELSE Unmapped

\* The tables on the way to a page are of the levels 1 to 4.
LEMMA PathFacts ==
    ASSUME NEW m, NEW L, Tree(m, L), NEW w \in Pages
    PROVE  /\ w[1] \in Idx /\ w[2] \in Idx /\ w[3] \in Idx /\ w[4] \in Idx
           /\ k_pml4 \in Tables /\ L[k_pml4] = 1
           /\ HasPdp(m, w) => PdpOf(m, w) \in Tables /\ L[PdpOf(m, w)] = 2
           /\ HasPd(m, w) => PdOf(m, w) \in Tables /\ L[PdOf(m, w)] = 3
           /\ HasPt(m, w) => PtOf(m, w) \in Tables /\ L[PtOf(m, w)] = 4
<1>1. w[1] \in Idx /\ w[2] \in Idx /\ w[3] \in Idx /\ w[4] \in Idx
  BY DEF Pages
<1>2. k_pml4 \in Tables /\ L[k_pml4] = 1
  BY DEF Tree, Tables
<1>3. \A t \in Tables, i \in Idx : L[t] \in 1 .. 3 /\ m.table[t][i].present =>
          below(m, t, i) \in Tables /\ L[below(m, t, i)] = L[t] + 1
  BY DEF Tree, Inner, Tables
<1>4. HasPdp(m, w) => PdpOf(m, w) \in Tables /\ L[PdpOf(m, w)] = 2
  BY <1>1, <1>2, <1>3 DEF HasPdp, PdpOf
<1>5. HasPd(m, w) => PdOf(m, w) \in Tables /\ L[PdOf(m, w)] = 3
  BY <1>1, <1>3, <1>4 DEF HasPd, PdOf
<1>6. HasPt(m, w) => PtOf(m, w) \in Tables /\ L[PtOf(m, w)] = 4
  BY <1>1, <1>3, <1>5 DEF HasPt, PtOf
<1> QED
  BY <1>1, <1>2, <1>4, <1>5, <1>6

\* Counts have nothing to do with what is mapped.
LEMMA ShapePages ==
    ASSUME NEW m, NEW L, Tree(m, L), NEW n, SameShape(m, n), NEW w \in Pages
    PROVE  /\ Page(n, w) = Page(m, w)
           /\ HasPt(n, w) = HasPt(m, w)
           /\ HasPt(m, w) => PtOf(n, w) = PtOf(m, w) /\ PdOf(n, w) = PdOf(m, w)
<1>1. /\ HasPdp(n, w) = HasPdp(m, w) /\ PdpOf(n, w) = PdpOf(m, w)
      /\ w[1] \in Idx /\ w[2] \in Idx /\ w[3] \in Idx /\ w[4] \in Idx
  BY PathFacts DEF SameShape, HasPdp, PdpOf
<1>2. HasPd(n, w) = HasPd(m, w) /\ (HasPdp(m, w) => PdOf(n, w) = PdOf(m, w))
  BY <1>1, PathFacts DEF SameShape, HasPd, PdOf
<1>3. HasPt(n, w) = HasPt(m, w) /\ (HasPd(m, w) => PtOf(n, w) = PtOf(m, w))
  BY <1>1, <1>2, PathFacts DEF SameShape, HasPt, PtOf, HasPd
<1>4. HasPage(n, w) = HasPage(m, w)
  BY <1>1, <1>3, PathFacts DEF SameShape, HasPage, HasPt
<1>5. HasPage(m, w) => below(n, PtOf(n, w), w[4]) = below(m, PtOf(m, w), w[4])
  BY <1>1, <1>3, PathFacts DEF SameShape, HasPage, HasPt
<1>6. HasPt(m, w) => HasPd(m, w) /\ HasPdp(m, w)
  BY DEF HasPt, HasPd
<1>7. Page(n, w) = Page(m, w)
  BY <1>4, <1>5 DEF Page
<1> QED
  BY <1>2, <1>3, <1>6, <1>7

\* Whether there is an empty table under an entry or none maps no page.
LEMMA EmptyTablePages ==
    ASSUME NEW m, NEW L, Tree(m, L), NEW n, NEW t, NEW i \in Idx, Inner(L, t),
           ~m.table[t][i].present,
           \A u \in Tables, j \in Idx :
               L[u] # 0 /\ (u # t \/ j # i) => n.table[u][j] = m.table[u][j],
           \A j \in Idx : ~n.table[below(n, t, i)][j].present,
           NEW w \in Pages
    PROVE  Page(n, w) = Page(m, w)
<1>1. /\ w[1] \in Idx /\ w[2] \in Idx /\ w[3] \in Idx /\ w[4] \in Idx
      /\ k_pml4 \in Tables /\ L[k_pml4] = 1
  BY PathFacts
<1>2. CASE t = k_pml4 /\ i = w[1]
  <2>1. ~HasPage(m, w)
    BY <1>2 DEF HasPage, HasPt, HasPd, HasPdp
  <2>2. ~HasPage(n, w)
    BY <1>1, <1>2 DEF HasPage, HasPt, HasPd, PdpOf
  <2> QED
    BY <2>1, <2>2 DEF Page
<1>3. CASE t # k_pml4 \/ i # w[1]
  <2>1. n.table[k_pml4][w[1]] = m.table[k_pml4][w[1]]
    BY <1>1, <1>3
  <2>2. HasPdp(n, w) = HasPdp(m, w) /\ PdpOf(n, w) = PdpOf(m, w)
    BY <2>1 DEF HasPdp, PdpOf, below
  <2>3. CASE ~HasPdp(m, w)
    BY <2>2, <2>3 DEF Page, HasPage, HasPt, HasPd
  <2>4. CASE HasPdp(m, w) /\ t = PdpOf(m, w) /\ i = w[2]
    <3>1. ~HasPage(m, w)
      BY <2>4 DEF HasPage, HasPt, HasPd
    <3>2. ~HasPage(n, w)
      BY <1>1, <2>2, <2>4 DEF HasPage, HasPt, PdOf
    <3> QED
      BY <3>1, <3>2 DEF Page
  <2>5. CASE HasPdp(m, w) /\ (t # PdpOf(m, w) \/ i # w[2])
    <3>1. n.table[PdpOf(m, w)][w[2]] = m.table[PdpOf(m, w)][w[2]]
      BY <1>1, <2>5, PathFacts
    <3>2. HasPd(n, w) = HasPd(m, w) /\ PdOf(n, w) = PdOf(m, w)
      BY <2>2, <3>1 DEF HasPd, PdOf, below
    <3>3. CASE ~HasPd(m, w)
      BY <3>2, <3>3 DEF Page, HasPage, HasPt
    <3>4. CASE HasPd(m, w) /\ t = PdOf(m, w) /\ i = w[3]
      <4>1. ~HasPage(m, w)
        BY <3>4 DEF HasPage, HasPt
      <4>2. ~HasPage(n, w)
        BY <1>1, <3>2, <3>4 DEF HasPage, PtOf
      <4> QED
        BY <4>1, <4>2 DEF Page
    <3>5. CASE HasPd(m, w) /\ (t # PdOf(m, w) \/ i # w[3])
      <4>1. n.table[PdOf(m, w)][w[3]] = m.table[PdOf(m, w)][w[3]]
        BY <1>1, <3>5, PathFacts
      <4>2. HasPt(n, w) = HasPt(m, w) /\ PtOf(n, w) = PtOf(m, w)
        BY <3>2, <4>1 DEF HasPt, PtOf, below
      <4>3. CASE ~HasPt(m, w)
        BY <4>2, <4>3 DEF Page, HasPage
      <4>4. CASE HasPt(m, w)
        <5>1. L[PtOf(m, w)] = 4 /\ PtOf(m, w) \in Tables /\ PtOf(m, w) # t
          BY <4>4, PathFacts DEF Inner
        <5>2. n.table[PtOf(m, w)][w[4]] = m.table[PtOf(m, w)][w[4]]
          BY <1>1, <5>1
        <5> QED
          BY <4>2, <5>2 DEF Page, HasPage, below
      <4> QED
        BY <4>3, <4>4
    <3> QED
      BY <3>3, <3>4, <3>5
  <2> QED
    BY <2>3, <2>4, <2>5
<1> QED
  BY <1>2, <1>3
-----------------------------------------------------------------------------
(* paging_map *)

\* A new table is empty, comes from the allocator and is under the entry.
LEMMA InstallFacts ==
    ASSUME NEW m \in Memory, NEW t \in Tables, t \notin m.free, NEW i \in Idx, m.free # {}
    PROVE  LET new == Min(m.free)
               n   == install(m, t, i)
           IN
           /\ new \in Frames /\ new \in m.free /\ new # t
           /\ n \in Memory /\ n.free = m.free \ {new}
           /\ n.table[t][i] = Entry(new)
           /\ \A j \in Idx : n.table[new][j] = Absent
           /\ \A u \in Tables, j \in Idx :
                 u # new /\ (u # t \/ j # i) => n.table[u][j] = m.table[u][j]
<1> DEFINE new == Min(m.free)
           n   == install(m, t, i)
<1>1. m.free \subseteq Frames /\ m.free \subseteq Nat
  BY PagingAssumption DEF Memory
<1>2. new \in m.free /\ new \in Frames /\ new # t /\ new \in Nat
  BY <1>1, SmallestFrame
<1>3. n = [m EXCEPT !.table[t][i] = Entry(new), !.table[new] = Cleared, !.free = @ \ {new}]
  BY DEF install
<1> HIDE DEF new, n
<1>4. Entry(new) \in EntryType /\ Absent \in EntryType /\ Cleared \in [Idx -> EntryType]
  BY <1>2 DEF EntryType, Entry, Absent, Cleared
<1>5. new \in Tables
  BY <1>2 DEF Tables
<1>6. /\ n \in Memory /\ n.free = m.free \ {new}
      /\ n.table[t][i] = Entry(new) /\ n.table[new] = Cleared
  BY <1>2, <1>3, <1>4, <1>5 DEF Memory
<1>7. \A u \in Tables, j \in Idx :
         u # new /\ (u # t \/ j # i) => n.table[u][j] = m.table[u][j]
  BY <1>2, <1>3, <1>5 DEF Memory
<1>8. \A j \in Idx : n.table[new][j] = Absent
  BY <1>6 DEF Cleared
<1> QED
  BY <1>2, <1>6, <1>7, <1>8 DEF new, n

\* With it the tree grows by one table, which nothing counts yet.
Installed(m, L, n, K, t, i) ==
    /\ Tree(n, K) /\ Counted(n, K, t, -1) /\ Filled(n, K, below(n, t, i))
    /\ Returned(m, L) => Returned(n, K)
    /\ \A u \in Tables : L[u] # 0 => K[u] = L[u]
    /\ n.table[t][i].present
    /\ n.free = m.free \ {below(n, t, i)} /\ below(n, t, i) \in m.free
    /\ \A j \in Idx : ~n.table[below(n, t, i)][j].present
    /\ \A u \in Tables, j \in Idx :
          L[u] # 0 /\ (u # t \/ j # i) => n.table[u][j] = m.table[u][j]

LEMMA InstallInv ==
    ASSUME NEW m, NEW L, Tree(m, L), NEW t, NEW i \in Idx, Inner(L, t), ~m.table[t][i].present,
           m.free # {}, Counted(m, L, k_pml4, 0), Filled(m, L, t)
    PROVE  \E K : Installed(m, L, install(m, t, i), K, t, i)
<1> DEFINE new == Min(m.free)
           n   == install(m, t, i)
           K   == [L EXCEPT ![new] = L[t] + 1]
<1>1. m \in Memory /\ t \in Tables /\ t \notin m.free /\ L[t] \in 1 .. 3 /\ L \in [Tables -> 0 .. 4]
  BY DEF Tree, Inner
<1>2. /\ new \in Frames /\ new \in m.free /\ new # t
      /\ n \in Memory /\ n.free = m.free \ {new}
      /\ n.table[t][i] = Entry(new)
      /\ \A j \in Idx : n.table[new][j] = Absent
      /\ \A u \in Tables, j \in Idx :
            u # new /\ (u # t \/ j # i) => n.table[u][j] = m.table[u][j]
  BY <1>1, InstallFacts
<1> HIDE DEF new, n
<1>3. new \in Tables /\ L[new] = 0 /\ new # k_pml4
  BY <1>1, <1>2, PagingAssumption DEF Tables, Tree
<1>4. /\ K \in [Tables -> 0 .. 4] /\ K[new] = L[t] + 1
      /\ \A u \in Tables : u # new => K[u] = L[u]
      /\ \A u \in Tables : L[u] # 0 => K[u] = L[u] /\ u # new
  BY <1>1, <1>3
<1> HIDE DEF K
<1>5. /\ n.table[t][i].present /\ below(n, t, i) = new
      /\ \A j \in Idx : ~n.table[new][j].present
  BY <1>2 DEF Entry, Absent, below
\* An entry of the new tree is the new one or an old one.
<1>6. ASSUME NEW u \in Tables, NEW j \in Idx, Inner(K, u), n.table[u][j].present, u # t \/ j # i
      PROVE  /\ Inner(L, u) /\ m.table[u][j].present /\ n.table[u][j] = m.table[u][j]
             /\ below(n, u, j) = below(m, u, j) /\ below(m, u, j) # new
             /\ below(m, u, j) \in Frames /\ L[below(m, u, j)] = L[u] + 1
  <2>1. u # new
    BY <1>5, <1>6
  <2>2. Inner(L, u) /\ n.table[u][j] = m.table[u][j]
    BY <1>2, <1>4, <1>6, <2>1 DEF Inner
  <2>3. below(n, u, j) = below(m, u, j) /\ m.table[u][j].present
    BY <1>6, <2>2 DEF below
  <2>4. below(m, u, j) \in Frames /\ L[below(m, u, j)] = L[u] + 1
    BY <2>2, <2>3 DEF Tree
  <2>5. below(m, u, j) # new
    BY <1>3, <2>2, <2>4 DEF Inner
  <2> QED
    BY <2>2, <2>3, <2>4, <2>5
<1>7. Tree(n, K)
  <2>1. ASSUME NEW u \in Tables PROVE K[u] = 1 <=> u = k_pml4
    BY <1>1, <1>3, <1>4 DEF Tree
  <2>2. ASSUME NEW u \in Tables, NEW j \in Idx, Inner(K, u), n.table[u][j].present
        PROVE  below(n, u, j) \in Frames /\ K[below(n, u, j)] = K[u] + 1
    <3>1. CASE u = t /\ j = i
      BY <1>1, <1>2, <1>4, <1>5, <3>1
    <3>2. CASE u # t \/ j # i
      BY <1>4, <1>6, <2>2, <3>2 DEF Inner, Tables
    <3> QED
      BY <3>1, <3>2
  <2>3. ASSUME NEW u \in Tables, NEW v \in Tables, NEW j \in Idx, NEW l \in Idx,
               Inner(K, u), n.table[u][j].present, Inner(K, v), n.table[v][l].present,
               below(n, u, j) = below(n, v, l)
        PROVE  u = v /\ j = l
    <3>1. CASE (u = t /\ j = i) \/ (v = t /\ l = i)
      BY <1>5, <1>6, <2>3, <3>1
    <3>2. CASE ~(u = t /\ j = i) /\ ~(v = t /\ l = i)
      <4>1. /\ Inner(L, u) /\ m.table[u][j].present /\ Inner(L, v) /\ m.table[v][l].present
            /\ below(m, u, j) = below(m, v, l)
        BY <1>6, <2>3, <3>2
      <4> QED
        BY <4>1 DEF Tree
    <3> QED
      BY <3>1, <3>2
  <2>4. ASSUME NEW u \in Tables, K[u] > 1
        PROVE  \E v \in Tables, j \in Idx :
                  Inner(K, v) /\ n.table[v][j].present /\ below(n, v, j) = u
    <3>1. CASE u = new
      BY <1>1, <1>4, <1>2, <1>5, <3>1 DEF Inner
    <3>2. CASE u # new
      <4>1. PICK v \in Tables, j \in Idx :
                    Inner(L, v) /\ m.table[v][j].present /\ below(m, v, j) = u
        BY <1>4, <2>4, <3>2 DEF Tree
      <4>2. v # new /\ Inner(K, v) /\ (v # t \/ j # i)
        BY <1>3, <1>4, <4>1 DEF Inner
      <4>3. n.table[v][j] = m.table[v][j]
        BY <1>2, <4>2
      <4> QED
        BY <4>1, <4>2, <4>3 DEF below
    <3> QED
      BY <3>1, <3>2
  <2>5. ASSUME NEW u \in Tables, K[u] # 0 PROVE u \notin n.free
    BY <1>2, <1>4, <2>5 DEF Tree
  <2> QED
    BY <1>2, <1>4, <2>1, <2>2, <2>3, <2>4, <2>5 DEF Tree
<1>8. \A u \in Tables : u # t /\ u # new => Used(n, u) = Used(m, u)
  BY <1>2, UsedSame
<1>9. /\ Used(n, new) = {} /\ Cardinality(Used(n, new)) = 0
      /\ Cardinality(Used(n, t)) = Cardinality(Used(m, t)) + 1 /\ Used(n, t) # {}
      /\ Cardinality(Used(m, t)) \in Nat
  <2>1. Used(n, new) = {}
    BY <1>5 DEF Used
  <2>2. \A j \in Idx : j # i => n.table[t][j] = m.table[t][j]
    BY <1>1, <1>2
  <2>3. Cardinality(Used(n, t)) = Cardinality(Used(m, t)) + 1 /\ Used(n, t) # {}
    BY <1>5, <2>2, UsedAdd
  <2> QED
    BY <2>1, <2>3, UsedFinite
<1>10. Counted(n, K, t, -1)
  <2> SUFFICES ASSUME NEW u \in Tables, NEW j \in Idx, Inner(K, u), n.table[u][j].present
               PROVE  n.table[u][j].sub = Cardinality(Used(n, below(n, u, j)))
                                            + (IF below(n, u, j) = t THEN -1 ELSE 0)
    BY DEF Counted
  <2>1. CASE u = t /\ j = i
    <3>1. n.table[u][j].sub = 0
      BY <1>2, <2>1 DEF Entry
    <3>2. below(n, u, j) = new /\ new # t
      BY <1>2, <1>5, <2>1
    <3>3. Cardinality(Used(n, below(n, u, j))) = 0
      BY <1>9, <3>2
    <3> QED
      BY <3>1, <3>2, <3>3
  <2>2. CASE u # t \/ j # i
    <3>1. /\ Inner(L, u) /\ m.table[u][j].present /\ n.table[u][j] = m.table[u][j]
          /\ below(n, u, j) = below(m, u, j) /\ below(m, u, j) # new
          /\ below(m, u, j) \in Tables
      BY <1>6, <2>2 DEF Tables
    <3>2. /\ m.table[u][j].sub = Cardinality(Used(m, below(m, u, j)))
          /\ Cardinality(Used(m, below(m, u, j))) \in Nat
      BY <3>1, UsedFinite DEF Counted
    <3> QED
      BY <1>8, <1>9, <3>1, <3>2
  <2> QED
    BY <2>1, <2>2
<1>11. Filled(n, K, new)
  BY <1>4, <1>8, <1>9 DEF Filled
<1>12. Returned(m, L) => Returned(n, K)
  BY <1>1, <1>2, <1>4 DEF Returned, Tables
<1>13. \A u \in Tables, j \in Idx :
          L[u] # 0 /\ (u # t \/ j # i) => n.table[u][j] = m.table[u][j]
  BY <1>2, <1>4
<1>14. Installed(m, L, n, K, t, i)
  BY <1>2, <1>4, <1>5, <1>7, <1>10, <1>11, <1>12, <1>13 DEF Installed
<1> QED
  BY <1>14 DEF n

\* What making sure of a table under entry i of table t brings about, and keeps.
Ensured(m, L, n, t, i) ==
    /\ \E K : /\ Tree(n, K) /\ Counted(n, K, k_pml4, 0) /\ Filled(n, K, below(n, t, i))
              /\ Returned(m, L) => Returned(n, K)
    /\ n.table[t][i].present
    /\ \A u \in Tables, j \in Idx : L[u] # 0 /\ (u # t \/ j # i) =>
          /\ n.table[u][j].present = m.table[u][j].present
          /\ below(n, u, j) = below(m, u, j)
    /\ \A w \in Pages : Page(n, w) = Page(m, w)
    /\ m.table[t][i].present => n = m
    /\ Cardinality(n.free) \in Nat /\ Cardinality(n.free) + 1 >= Cardinality(m.free)

\* The frames that are left.
LEMMA FreeFacts ==
    ASSUME NEW m \in Memory
    PROVE  /\ IsFiniteSet(m.free) /\ Cardinality(m.free) \in Nat
           /\ Cardinality(m.free) > 0 => m.free # {}
<1>1. m.free \in SUBSET Frames /\ IsFiniteSet(Frames)
  BY PagingAssumption DEF Memory
<1>2. IsFiniteSet(m.free)
  BY <1>1, FS_Subset
<1> QED
  BY <1>2, FS_CardinalityType, FS_EmptySet

\* A table that is there already, and not empty.
LEMMA EnsuredAlready ==
    ASSUME NEW m, NEW L, Tree(m, L), NEW t \in Tables, NEW i \in Idx, m.table[t][i].present,
           Counted(m, L, k_pml4, 0), Filled(m, L, t)
    PROVE  Ensured(m, L, m, t, i)
<1>1. Used(m, t) # {}
  BY DEF Used
<1>2. Filled(m, L, below(m, t, i))
  BY <1>1 DEF Filled
<1>3. Cardinality(m.free) \in Nat
  BY FreeFacts DEF Tree
<1> QED
  BY <1>2, <1>3 DEF Ensured

\* Installing a table changes no page, and takes one frame.
LEMMA InstalledEnsures ==
    ASSUME NEW m, NEW L, Tree(m, L), NEW t, NEW i \in Idx, Inner(L, t), ~m.table[t][i].present,
           NEW n, NEW K, Installed(m, L, n, K, t, i)
    PROVE  /\ \A w \in Pages : Page(n, w) = Page(m, w)
           /\ Cardinality(n.free) \in Nat /\ Cardinality(n.free) + 1 >= Cardinality(m.free)
           /\ \A u \in Tables, j \in Idx : L[u] # 0 /\ (u # t \/ j # i) =>
                 /\ n.table[u][j].present = m.table[u][j].present
                 /\ below(n, u, j) = below(m, u, j)
<1>1. \A w \in Pages : Page(n, w) = Page(m, w)
  BY EmptyTablePages DEF Installed
<1>2. Cardinality(n.free) \in Nat /\ Cardinality(n.free) + 1 >= Cardinality(m.free)
  <2> DEFINE new == below(n, t, i)
  <2>1. n.free = m.free \ {new} /\ new \in m.free
    BY DEF Installed
  <2>2. IsFiniteSet(m.free) /\ Cardinality(m.free) \in Nat /\ Cardinality(n.free) \in Nat
    BY FreeFacts DEF Tree, Installed
  <2>3. Cardinality(m.free \ {new}) = Cardinality(m.free) - 1
    BY <2>1, <2>2, FS_RemoveElement
  <2> QED
    BY <2>1, <2>2, <2>3
<1>3. \A u \in Tables, j \in Idx : L[u] # 0 /\ (u # t \/ j # i) =>
          /\ n.table[u][j].present = m.table[u][j].present
          /\ below(n, u, j) = below(m, u, j)
  BY DEF below, Installed
<1> QED
  BY <1>1, <1>2, <1>3

LEMMA EnsurePdpInv ==
    ASSUME NEW m, NEW L, Tree(m, L), NEW i \in Idx,
           Counted(m, L, k_pml4, 0), Filled(m, L, k_pml4),
           m.table[k_pml4][i].present \/ m.free # {}
    PROVE  Ensured(m, L, ensure_pdp(m, i), k_pml4, i)
<1>1. k_pml4 \in Tables /\ Inner(L, k_pml4)
  BY DEF Tree, Tables, Inner
<1>2. CASE m.table[k_pml4][i].present
  BY <1>1, <1>2, EnsuredAlready DEF ensure_pdp
<1>3. CASE ~m.table[k_pml4][i].present
  <2> DEFINE n == install(m, k_pml4, i)
  <2>1. PICK K : Installed(m, L, n, K, k_pml4, i)
    BY <1>1, <1>3, InstallInv
  <2>2. ensure_pdp(m, i) = n
    BY <1>3 DEF ensure_pdp
  <2> HIDE DEF n
  <2>3. Counted(n, K, k_pml4, 0)
    BY <2>1, RootUncounted DEF Installed
  <2> QED
    BY <1>1, <1>3, <2>1, <2>2, <2>3, InstalledEnsures DEF Ensured, Installed
<1> QED
  BY <1>2, <1>3

\* The entry above counts a table that is new.
LEMMA EnsureInv ==
    ASSUME NEW m, NEW L, Tree(m, L), NEW s, NEW j \in Idx, Inner(L, s), m.table[s][j].present,
           NEW t, t = below(m, s, j), Inner(L, t), NEW i \in Idx,
           Counted(m, L, k_pml4, 0), Filled(m, L, t),
           m.table[t][i].present \/ m.free # {}
    PROVE  Ensured(m, L, ensure(m, s, j, t, i), t, i)
<1>1. CASE m.table[t][i].present
  BY <1>1, EnsuredAlready DEF ensure, Inner
<1>2. CASE ~m.table[t][i].present
  <2> DEFINE n == install(m, t, i)
             e == [n.table[s][j] EXCEPT !.sub = @ + 1]
             o == Put(n, s, j, e)
  <2>1. PICK K : Installed(m, L, n, K, t, i)
    BY <1>2, InstallInv
  <2>2. ensure(m, s, j, t, i) = o
    BY <1>2 DEF ensure, paging_increment_subcount, Put
  <2> HIDE DEF n
  <2>3. s # t /\ L[s] # 0 /\ s \in Tables
    BY DEF Tree, Inner
  <2>4. n.table[s][j] = m.table[s][j] /\ below(n, s, j) = t
    BY <2>1, <2>3 DEF Installed, below
  <2>5. Tree(n, K) /\ Inner(K, s) /\ n.table[s][j].present /\ Counted(n, K, below(n, s, j), -1)
    BY <2>1, <2>3, <2>4 DEF Installed, Inner
  <2>6. e \in EntryType /\ e.present /\ e.to = below(n, s, j) /\ e.sub = n.table[s][j].sub + 1
    <3>1. n.table[s][j] \in EntryType
      BY <2>3, <2>5, EntryFacts DEF Tree
    <3> QED
      BY <2>5, <3>1 DEF EntryType, below
  <2> HIDE DEF e
  <2>7. /\ Tree(o, K) /\ Counted(o, K, below(n, s, j), -1 + 1)
        /\ \A x : Filled(n, K, x) => Filled(o, K, x)
        /\ Returned(n, K) => Returned(o, K)
        /\ SameShape(n, o) /\ o.free = n.free
    BY <2>5, <2>6, CountInv
  <2> HIDE DEF o
  <2>8. Counted(o, K, k_pml4, 0)
    BY <2>7, RootUncounted
  <2>9. /\ \A w \in Pages : Page(n, w) = Page(m, w)
        /\ Cardinality(n.free) \in Nat /\ Cardinality(n.free) + 1 >= Cardinality(m.free)
        /\ \A u \in Tables, l \in Idx : L[u] # 0 /\ (u # t \/ l # i) =>
              /\ n.table[u][l].present = m.table[u][l].present
              /\ below(n, u, l) = below(m, u, l)
    BY <1>2, <2>1, InstalledEnsures
  <2>10. \A w \in Pages : Page(o, w) = Page(m, w)
    BY <2>5, <2>7, <2>9, ShapePages
  <2>11. /\ o.table[t][i].present /\ below(o, t, i) = below(n, t, i)
         /\ \A u \in Tables, l \in Idx : L[u] # 0 /\ (u # t \/ l # i) =>
              /\ o.table[u][l].present = m.table[u][l].present
              /\ below(o, u, l) = below(m, u, l)
    BY <2>1, <2>7, <2>9 DEF SameShape, Installed, Inner
  <2>12. Filled(o, K, below(o, t, i)) /\ (Returned(m, L) => Returned(o, K))
    BY <2>1, <2>7, <2>11 DEF Installed
  <2> QED
    BY <1>2, <2>2, <2>7, <2>8, <2>9, <2>10, <2>11, <2>12 DEF Ensured
<1> QED
  BY <1>1, <1>2

\* Other tables that were there keep what they point to.
LEMMA EnsuredKeeps ==
    ASSUME NEW m, NEW L, NEW n, NEW t, NEW i, Ensured(m, L, n, t, i),
           NEW u \in Tables, NEW j \in Idx, L[u] # 0, u # t
    PROVE  n.table[u][j].present = m.table[u][j].present /\ below(n, u, j) = below(m, u, j)
BY DEF Ensured

\* The tables on the way to a page are made as far as they are missing.  Only the
\* PT may be empty then.
LEMMA WithTables ==
    ASSUME NEW m, NEW L, Tree(m, L), NEW v \in Pages,
           Counted(m, L, k_pml4, 0), Filled(m, L, k_pml4), Needed(m, v) <= Cardinality(m.free)
    PROVE  LET n == with_tables(m, v) IN
           /\ \E K : /\ Tree(n, K) /\ Counted(n, K, k_pml4, 0) /\ Filled(n, K, PtOf(n, v))
                     /\ Returned(m, L) => Returned(n, K)
           /\ HasPt(n, v)
           /\ \A w \in Pages : Page(n, w) = Page(m, w)
<1> DEFINE root == k_pml4
           m1  == ensure_pdp(m, v[1])
           m2  == ensure(m1, root, v[1], PdpOf(m1, v), v[2])
           m3  == ensure(m2, PdpOf(m2, v), v[2], PdOf(m2, v), v[3])
<1>1. with_tables(m, v) = m3
  BY DEF with_tables
<1>2. /\ v[1] \in Idx /\ v[2] \in Idx /\ v[3] \in Idx
      /\ root \in Tables /\ m \in Memory /\ Cardinality(m.free) \in Nat
      /\ Cardinality(m.free) > 0 => m.free # {}
  BY PathFacts, FreeFacts DEF Tree
<1>3. Ensured(m, L, m1, root, v[1])
  <2>1. m.table[root][v[1]].present \/ m.free # {}
    BY <1>2 DEF Needed, HasPt, HasPd, HasPdp
  <2> QED
    BY <1>2, <2>1, EnsurePdpInv
<1> HIDE DEF m1
<1>4. PICK L1 : /\ Tree(m1, L1) /\ Counted(m1, L1, root, 0) /\ Filled(m1, L1, PdpOf(m1, v))
                /\ Returned(m, L) => Returned(m1, L1)
  BY <1>3 DEF Ensured, PdpOf
<1>5. /\ HasPdp(m1, v) /\ (HasPdp(m, v) => m1 = m)
      /\ \A w \in Pages : Page(m1, w) = Page(m, w)
      /\ Cardinality(m1.free) \in Nat /\ Cardinality(m1.free) + 1 >= Cardinality(m.free)
      /\ Cardinality(m1.free) > 0 => m1.free # {}
  BY <1>3, <1>4, FreeFacts DEF Ensured, HasPdp, Tree
<1>6. /\ Inner(L1, root) /\ m1.table[root][v[1]].present
      /\ Inner(L1, PdpOf(m1, v)) /\ L1[PdpOf(m1, v)] = 2 /\ L1[root] = 1
      /\ PdpOf(m1, v) = below(m1, root, v[1])
  BY <1>2, <1>4, <1>5, PathFacts DEF Inner, HasPdp, PdpOf
<1>7. Ensured(m1, L1, m2, PdpOf(m1, v), v[2])
  <2>1. m1.table[PdpOf(m1, v)][v[2]].present \/ m1.free # {}
    <3>1. CASE HasPdp(m, v)
      BY <1>2, <1>5, <3>1 DEF Needed, HasPt, HasPd
    <3>2. CASE ~HasPdp(m, v)
      <4>1. Needed(m, v) = 3
        BY <3>2 DEF Needed, HasPt, HasPd
      <4> QED
        BY <1>2, <1>5, <4>1
    <3> QED
      BY <3>1, <3>2
  <2> QED
    BY <1>2, <1>4, <1>6, <2>1, EnsureInv
<1> HIDE DEF m2
<1>8. /\ PdpOf(m2, v) = PdpOf(m1, v) /\ HasPdp(m2, v) /\ HasPd(m2, v) /\ (HasPd(m1, v) => m2 = m1)
      /\ \A w \in Pages : Page(m2, w) = Page(m, w)
      /\ Cardinality(m2.free) \in Nat /\ Cardinality(m2.free) + 1 >= Cardinality(m1.free)
  <2>1. /\ m2.table[root][v[1]].present = m1.table[root][v[1]].present
        /\ below(m2, root, v[1]) = below(m1, root, v[1])
    <3>1. L1[root] # 0 /\ root # PdpOf(m1, v)
      BY <1>6
    <3> QED
      BY <1>2, <1>7, <3>1, EnsuredKeeps
  <2>2. PdpOf(m2, v) = PdpOf(m1, v) /\ HasPdp(m2, v)
    BY <1>5, <2>1 DEF PdpOf, HasPdp
  <2>3. HasPd(m2, v) /\ (HasPd(m1, v) => m2 = m1)
    BY <1>7, <2>2 DEF HasPd, Ensured
  <2> QED
    BY <1>5, <1>7, <2>2, <2>3 DEF Ensured
<1>9. PICK L2 : /\ Tree(m2, L2) /\ Counted(m2, L2, root, 0) /\ Filled(m2, L2, PdOf(m2, v))
                /\ Returned(m, L) => Returned(m2, L2)
  BY <1>4, <1>7, <1>8 DEF Ensured, PdOf
<1>10. /\ Inner(L2, PdpOf(m2, v)) /\ m2.table[PdpOf(m2, v)][v[2]].present
       /\ Inner(L2, PdOf(m2, v)) /\ L2[PdOf(m2, v)] = 3 /\ L2[PdpOf(m2, v)] = 2 /\ L2[root] = 1
       /\ PdOf(m2, v) = below(m2, PdpOf(m2, v), v[2])
       /\ Cardinality(m2.free) > 0 => m2.free # {}
  BY <1>8, <1>9, PathFacts, FreeFacts DEF Inner, HasPd, PdOf, Tree
<1>11. Ensured(m2, L2, m3, PdOf(m2, v), v[3])
  <2>1. m2.table[PdOf(m2, v)][v[3]].present \/ m2.free # {}
    <3>1. CASE HasPd(m, v)
      <4>1. m2 = m
        BY <1>5, <1>8, <3>1 DEF HasPd
      <4> QED
        BY <1>2, <3>1, <4>1 DEF Needed, HasPt
    <3>2. CASE HasPdp(m, v) /\ ~HasPd(m, v)
      <4>1. Needed(m, v) = 2 /\ m1 = m
        BY <1>5, <3>2 DEF Needed, HasPt
      <4> QED
        BY <1>2, <1>8, <1>10, <4>1
    <3>3. CASE ~HasPdp(m, v)
      <4>1. Needed(m, v) = 3
        BY <3>3 DEF Needed, HasPt, HasPd
      <4> QED
        BY <1>2, <1>5, <1>8, <1>10, <4>1
    <3> QED
      BY <3>1, <3>2, <3>3
  <2> QED
    BY <1>2, <1>9, <1>10, <2>1, EnsureInv
<1> HIDE DEF m3
<1>12. /\ PdOf(m3, v) = PdOf(m2, v) /\ HasPd(m3, v) /\ HasPt(m3, v)
       /\ PtOf(m3, v) = below(m3, PdOf(m2, v), v[3])
       /\ \A w \in Pages : Page(m3, w) = Page(m, w)
  <2>1. /\ m3.table[root][v[1]].present = m2.table[root][v[1]].present
        /\ below(m3, root, v[1]) = below(m2, root, v[1])
        /\ m3.table[PdpOf(m2, v)][v[2]].present = m2.table[PdpOf(m2, v)][v[2]].present
        /\ below(m3, PdpOf(m2, v), v[2]) = below(m2, PdpOf(m2, v), v[2])
    <3>1. /\ L2[root] # 0 /\ root # PdOf(m2, v)
          /\ PdpOf(m2, v) \in Tables /\ L2[PdpOf(m2, v)] # 0 /\ PdpOf(m2, v) # PdOf(m2, v)
      BY <1>10 DEF Inner
    <3> QED
      BY <1>2, <1>11, <3>1, EnsuredKeeps
  <2>2. PdpOf(m3, v) = PdpOf(m2, v) /\ HasPdp(m3, v)
    BY <1>8, <2>1 DEF PdpOf, HasPdp
  <2>3. PdOf(m3, v) = PdOf(m2, v) /\ HasPd(m3, v)
    BY <1>8, <2>1, <2>2 DEF PdOf, HasPd
  <2>4. HasPt(m3, v)
    BY <1>11, <2>3 DEF HasPt, Ensured
  <2> QED
    BY <1>8, <1>11, <2>3, <2>4 DEF PtOf, Ensured
<1>13. PICK L3 : /\ Tree(m3, L3) /\ Counted(m3, L3, root, 0) /\ Filled(m3, L3, PtOf(m3, v))
                 /\ Returned(m, L) => Returned(m3, L3)
  BY <1>9, <1>11, <1>12 DEF Ensured
<1> QED
  BY <1>1, <1>12, <1>13
-----------------------------------------------------------------------------
(* Pages in their PT *)

\* What the tables above the PTs hold decides on the tree and the ways in it.
LEMMA InnerSame ==
    ASSUME NEW m, NEW L, Tree(m, L), NEW n \in Memory, n.free = m.free,
           \A u \in Tables, j \in Idx : Inner(L, u) => n.table[u][j] = m.table[u][j]
    PROVE  /\ Tree(n, L) /\ (Returned(m, L) => Returned(n, L))
           /\ \A w \in Pages :
                 /\ HasPt(n, w) = HasPt(m, w)
                 /\ HasPt(m, w) => /\ PdpOf(n, w) = PdpOf(m, w) /\ PdOf(n, w) = PdOf(m, w)
                                   /\ PtOf(n, w) = PtOf(m, w)
<1>1. \A u \in Tables, j \in Idx : Inner(L, u) =>
          n.table[u][j].present = m.table[u][j].present /\ below(n, u, j) = below(m, u, j)
  BY DEF below
<1>2. Tree(n, L) /\ (Returned(m, L) => Returned(n, L))
  BY <1>1 DEF Tree, Returned
<1>3. ASSUME NEW w \in Pages
      PROVE  /\ HasPt(n, w) = HasPt(m, w)
             /\ HasPt(m, w) => /\ PdpOf(n, w) = PdpOf(m, w) /\ PdOf(n, w) = PdOf(m, w)
                               /\ PtOf(n, w) = PtOf(m, w)
  <2>1. /\ w[1] \in Idx /\ w[2] \in Idx /\ w[3] \in Idx
        /\ Inner(L, k_pml4)
        /\ HasPdp(m, w) => Inner(L, PdpOf(m, w))
        /\ HasPd(m, w) => Inner(L, PdOf(m, w))
    BY <1>3, PathFacts DEF Inner
  <2>2. HasPdp(n, w) = HasPdp(m, w) /\ PdpOf(n, w) = PdpOf(m, w)
    BY <1>1, <2>1 DEF HasPdp, PdpOf, Inner
  <2>3. HasPd(n, w) = HasPd(m, w) /\ (HasPdp(m, w) => PdOf(n, w) = PdOf(m, w))
    BY <1>1, <2>1, <2>2 DEF HasPd, PdOf, Inner
  <2>4. HasPt(n, w) = HasPt(m, w) /\ (HasPd(m, w) => PtOf(n, w) = PtOf(m, w))
    BY <1>1, <2>1, <2>3 DEF HasPt, PtOf, Inner, HasPd
  <2> QED
    BY <2>2, <2>3, <2>4 DEF HasPt, HasPd
<1> QED
  BY <1>2, <1>3

\* Two pages of one PT have the same way to it.
LEMMA OnePath ==
    ASSUME NEW m, NEW L, Tree(m, L), NEW v \in Pages, NEW w \in Pages,
           HasPt(m, v), HasPt(m, w), PtOf(m, v) = PtOf(m, w), v[4] = w[4]
    PROVE  v = w
<1>1. \A t, u \in Tables, i, j \in Idx :
          /\ L[t] \in 1 .. 3 /\ m.table[t][i].present
          /\ L[u] \in 1 .. 3 /\ m.table[u][j].present
          /\ below(m, t, i) = below(m, u, j)
          => t = u /\ i = j
  BY DEF Tree, Inner
<1>2. HasPdp(m, v) /\ HasPd(m, v) /\ HasPdp(m, w) /\ HasPd(m, w)
  BY DEF HasPt, HasPd
<1>3. /\ k_pml4 \in Tables /\ L[k_pml4] = 1
      /\ PdpOf(m, v) \in Tables /\ L[PdpOf(m, v)] = 2 /\ PdOf(m, v) \in Tables /\ L[PdOf(m, v)] = 3
      /\ v[1] \in Idx /\ v[2] \in Idx /\ v[3] \in Idx
  BY <1>2, PathFacts
<1>4. /\ PdpOf(m, w) \in Tables /\ L[PdpOf(m, w)] = 2 /\ PdOf(m, w) \in Tables /\ L[PdOf(m, w)] = 3
      /\ w[1] \in Idx /\ w[2] \in Idx /\ w[3] \in Idx
  BY <1>2, PathFacts
<1>5. PdOf(m, v) = PdOf(m, w) /\ v[3] = w[3]
  BY <1>1, <1>2, <1>3, <1>4 DEF PtOf, HasPt
<1>6. PdpOf(m, v) = PdpOf(m, w) /\ v[2] = w[2]
  BY <1>1, <1>2, <1>3, <1>4, <1>5 DEF PdOf, HasPd
<1>7. v[1] = w[1]
  BY <1>1, <1>2, <1>3, <1>4, <1>6 DEF PdpOf, HasPdp
<1> QED
  BY <1>5, <1>6, <1>7 DEF Pages

\* An entry of the PT of page v is written: that page changes and no other, and
\* the exception of the PT moves by the entries that come or go.
LEMMA SetPage ==
    ASSUME NEW m, NEW L, Tree(m, L), NEW v \in Pages, HasPt(m, v), NEW e \in EntryType,
           NEW k \in Int, Counted(m, L, PtOf(m, v), k), Filled(m, L, PtOf(m, v))
    PROVE  LET pt == PtOf(m, v)
               n  == Put(m, pt, v[4], e)
           IN
           /\ Tree(n, L) /\ (Returned(m, L) => Returned(n, L))
           /\ HasPt(n, v) /\ PdpOf(n, v) = PdpOf(m, v) /\ PdOf(n, v) = PdOf(m, v) /\ PtOf(n, v) = pt
           /\ Counted(n, L, pt, k + Cardinality(Used(m, pt)) - Cardinality(Used(n, pt)))
           /\ Filled(n, L, pt) /\ (e.present => Filled(n, L, k_pml4))
           /\ n.table[pt][v[4]] = e /\ \A j \in Idx : j # v[4] => n.table[pt][j] = m.table[pt][j]
           /\ Page(n, v) = (IF e.present THEN e.to ELSE Unmapped)
           /\ \A w \in Pages : w # v => Page(n, w) = Page(m, w)
<1> DEFINE pt == PtOf(m, v)
           n  == Put(m, pt, v[4], e)
<1>1. /\ pt \in Tables /\ L[pt] = 4 /\ v[4] \in Idx /\ m \in Memory
  BY PathFacts DEF Tree
<1>2. n \in Memory /\ n.free = m.free /\ n.table[pt][v[4]] = e /\ OthersSame(m, n, pt, v[4])
  BY <1>1, PutFacts
<1> HIDE DEF n
<1>3. \A u \in Tables, j \in Idx : u # pt \/ j # v[4] => n.table[u][j] = m.table[u][j]
  BY <1>2 DEF OthersSame
<1>4. /\ Tree(n, L) /\ (Returned(m, L) => Returned(n, L))
      /\ \A w \in Pages :
            /\ HasPt(n, w) = HasPt(m, w)
            /\ HasPt(m, w) => /\ PdpOf(n, w) = PdpOf(m, w) /\ PdOf(n, w) = PdOf(m, w)
                              /\ PtOf(n, w) = PtOf(m, w)
  <2>1. \A u \in Tables, j \in Idx : Inner(L, u) => n.table[u][j] = m.table[u][j]
    BY <1>1, <1>3 DEF Inner
  <2> QED
    BY <1>2, <2>1, InnerSame
<1>5. \A u \in Tables : u # pt => Used(n, u) = Used(m, u)
  BY <1>3, UsedSame
<1>6. Counted(n, L, pt, k + Cardinality(Used(m, pt)) - Cardinality(Used(n, pt)))
  <2> SUFFICES ASSUME NEW u \in Tables, NEW j \in Idx, Inner(L, u), n.table[u][j].present
               PROVE  n.table[u][j].sub = Cardinality(Used(n, below(n, u, j)))
                          + (IF below(n, u, j) = pt
                             THEN k + Cardinality(Used(m, pt)) - Cardinality(Used(n, pt)) ELSE 0)
    BY DEF Counted
  <2>1. n.table[u][j] = m.table[u][j] /\ below(n, u, j) = below(m, u, j)
    BY <1>1, <1>3 DEF Inner, below
  <2>2. m.table[u][j].sub = Cardinality(Used(m, below(m, u, j)))
                                + (IF below(m, u, j) = pt THEN k ELSE 0)
    BY <2>1 DEF Counted
  <2>3. below(m, u, j) \in Tables
    BY <2>1 DEF Tree, Tables
  <2> HIDE DEF pt
  <2>4. Cardinality(Used(m, pt)) \in Nat /\ Cardinality(Used(n, pt)) \in Nat
    BY UsedFinite
  <2>5. CASE below(m, u, j) = pt
    BY <2>1, <2>2, <2>4, <2>5
  <2>6. CASE below(m, u, j) # pt
    BY <1>5, <2>1, <2>2, <2>3, <2>6
  <2> QED
    BY <2>5, <2>6
<1>7. Filled(n, L, pt) /\ (e.present => Filled(n, L, k_pml4))
  <2>1. e.present => Used(n, pt) # {}
    BY <1>1, <1>2 DEF Used
  <2>2. \A u \in Tables : L[u] > 1 /\ u # pt => Used(n, u) # {}
    BY <1>5 DEF Filled
  <2> QED
    BY <2>1, <2>2 DEF Filled
<1>8. Page(n, v) = (IF e.present THEN e.to ELSE Unmapped)
  BY <1>2, <1>4 DEF Page, HasPage, below
<1>9. ASSUME NEW w \in Pages, w # v PROVE Page(n, w) = Page(m, w)
  <2>1. CASE ~HasPt(m, w)
    BY <1>4, <1>9, <2>1 DEF Page, HasPage
  <2>2. CASE HasPt(m, w)
    <3>1. w[4] \in Idx /\ PtOf(m, w) \in Tables
      BY <1>9, <2>2, PathFacts
    <3>2. PtOf(m, w) # pt \/ w[4] # v[4]
      BY <1>9, <2>2, OnePath
    <3>3. n.table[PtOf(m, w)][w[4]] = m.table[PtOf(m, w)][w[4]]
      BY <1>3, <3>1, <3>2
    <3> QED
      BY <1>4, <1>9, <2>2, <3>3 DEF Page, HasPage, below
  <2> QED
    BY <2>1, <2>2
<1> QED
  BY <1>1, <1>2, <1>3, <1>4, <1>6, <1>7, <1>8, <1>9 DEF n

\* Outside the steps a tree is counted and filled without an exception.
Sound(m, L) == Tree(m, L) /\ Counted(m, L, k_pml4, 0) /\ Filled(m, L, k_pml4)

LEMMA MapInv ==
    ASSUME NEW m, NEW L, Sound(m, L), NEW v \in Pages, NEW p \in Nat,
           Needed(m, v) <= Cardinality(m.free)
    PROVE  LET n == paging_map(m, v, p) IN
           /\ \E K : Sound(n, K) /\ (Returned(m, L) => Returned(n, K))
           /\ Page(n, v) = p
           /\ \A w \in Pages : w # v => Page(n, w) = Page(m, w)
<1> DEFINE m3 == with_tables(m, v)
           pd == PdOf(m3, v)
           pt == PtOf(m3, v)
           m4 == IF HasPage(m3, v) THEN m3 ELSE paging_increment_subcount(m3, pd, v[3])
           n  == Put(m4, PtOf(m4, v), v[4], Entry(p))
<1>1. paging_map(m, v, p) = n
  BY DEF paging_map, Put
<1>2. PICK K : /\ Tree(m3, K) /\ Counted(m3, K, k_pml4, 0) /\ Filled(m3, K, pt)
               /\ Returned(m, L) => Returned(m3, K)
  BY WithTables DEF Sound
<1>3. HasPt(m3, v) /\ \A w \in Pages : Page(m3, w) = Page(m, w)
  BY WithTables DEF Sound
<1> HIDE DEF m3
<1>4. /\ pd \in Tables /\ Inner(K, pd) /\ v[3] \in Idx /\ v[4] \in Idx /\ pt \in Tables
      /\ m3.table[pd][v[3]].present /\ below(m3, pd, v[3]) = pt
  BY <1>2, <1>3, PathFacts DEF HasPt, PtOf, Inner
<1>5. Counted(m3, K, pt, 0)
  BY <1>2, RootUncounted
<1> DEFINE k == IF HasPage(m3, v) THEN 0 ELSE 1
<1>6. /\ Tree(m4, K) /\ Counted(m4, K, pt, k) /\ Filled(m4, K, pt)
      /\ Returned(m3, K) => Returned(m4, K)
      /\ HasPt(m4, v) /\ PtOf(m4, v) = pt
      /\ \A w \in Pages : Page(m4, w) = Page(m3, w)
      /\ m4.table[pt][v[4]].present <=> HasPage(m3, v)
  <2>1. CASE HasPage(m3, v)
    BY <1>2, <1>3, <1>5, <2>1 DEF HasPage
  <2>2. CASE ~HasPage(m3, v)
    <3> DEFINE e == [m3.table[pd][v[3]] EXCEPT !.sub = @ + 1]
    <3>1. m4 = Put(m3, pd, v[3], e)
      BY <2>2 DEF paging_increment_subcount, Put
    <3>2. m3.table[pd][v[3]] \in EntryType
      BY <1>2, <1>4, EntryFacts DEF Tree
    <3>3. e \in EntryType /\ e.present /\ e.to = pt /\ e.sub = m3.table[pd][v[3]].sub + 1
      BY <1>4, <3>2 DEF EntryType, below
    <3> HIDE DEF e, m4
    <3>4. /\ Tree(m4, K) /\ Counted(m4, K, pt, 0 + 1)
          /\ \A x : Filled(m3, K, x) => Filled(m4, K, x)
          /\ Returned(m3, K) => Returned(m4, K)
          /\ SameShape(m3, m4)
      BY <1>2, <1>4, <1>5, <3>1, <3>3, CountInv
    <3>5. /\ \A w \in Pages : Page(m4, w) = Page(m3, w)
          /\ HasPt(m4, v) /\ PtOf(m4, v) = pt
      BY <1>2, <1>3, <3>4, ShapePages
    <3>6. m4.table[pt][v[4]].present = m3.table[pt][v[4]].present
      BY <1>4, <3>4 DEF SameShape
    <3>7. k = 0 + 1 /\ ~m4.table[pt][v[4]].present
      BY <1>3, <2>2, <3>6 DEF HasPage
    <3> QED
      BY <1>2, <2>2, <3>4, <3>5, <3>7
  <2> QED
    BY <2>1, <2>2
<1> HIDE DEF m4
<1>7. Entry(p) \in EntryType /\ Entry(p).present /\ Entry(p).to = p
  BY DEF Entry, EntryType
<1>8. /\ Tree(n, K) /\ (Returned(m4, K) => Returned(n, K))
      /\ Counted(n, K, pt, k + Cardinality(Used(m4, pt)) - Cardinality(Used(n, pt)))
      /\ Filled(n, K, k_pml4)
      /\ n.table[pt][v[4]] = Entry(p) /\ \A j \in Idx : j # v[4] => n.table[pt][j] = m4.table[pt][j]
      /\ Page(n, v) = p
      /\ \A w \in Pages : w # v => Page(n, w) = Page(m4, w)
  BY <1>6, <1>7, SetPage
<1> HIDE DEF n, pt
<1>9. k + Cardinality(Used(m4, pt)) - Cardinality(Used(n, pt)) = 0
  <2>1. CASE HasPage(m3, v)
    <3>1. \A j \in Idx : n.table[pt][j].present <=> m4.table[pt][j].present
      BY <1>6, <1>7, <1>8, <2>1
    <3>2. Used(n, pt) = Used(m4, pt)
      BY <3>1 DEF Used
    <3> QED
      BY <2>1, <3>2, UsedFinite
  <2>2. CASE ~HasPage(m3, v)
    <3>1. /\ ~m4.table[pt][v[4]].present /\ n.table[pt][v[4]].present
          /\ \A j \in Idx : j # v[4] => n.table[pt][j] = m4.table[pt][j]
      BY <1>6, <1>7, <1>8, <2>2
    <3>2. Cardinality(Used(n, pt)) = Cardinality(Used(m4, pt)) + 1
      BY <1>4, <3>1, UsedAdd
    <3> QED
      BY <2>2, <3>2, UsedFinite
  <2> QED
    BY <2>1, <2>2
<1>10. Counted(n, K, k_pml4, 0)
  BY <1>8, <1>9, RootUncounted
<1> QED
  BY <1>1, <1>2, <1>3, <1>6, <1>8, <1>10 DEF Sound
-----------------------------------------------------------------------------
(* paging_unmap *)

\* What taking one from the count of entry i of table t brings about: the entry
\* stays, or the table below is gone and t has one entry less than is counted.
Dropped(m, L, n, t, i) ==
    /\ \E K : /\ Tree(n, K) /\ (~fractal /\ Returned(m, L) => Returned(n, K))
              /\ \A u \in Tables : u # below(m, t, i) => K[u] = L[u]
              /\ n.table[t][i].present => Counted(n, K, k_pml4, 0) /\ Filled(n, K, k_pml4)
              /\ ~n.table[t][i].present => Counted(n, K, t, 1) /\ Filled(n, K, t)
    /\ \A u \in Tables, j \in Idx : u # t \/ j # i => n.table[u][j] = m.table[u][j]
    /\ \A w \in Pages : Page(n, w) = Page(m, w)

\* The table below is empty: its entry and the table go.
LEMMA RemoveInv ==
    ASSUME NEW m, NEW L, Tree(m, L), NEW t, NEW i \in Idx, Inner(L, t), m.table[t][i].present,
           Counted(m, L, k_pml4, 0), Filled(m, L, below(m, t, i)), Used(m, below(m, t, i)) = {},
           NEW F \in SUBSET Frames, F \subseteq m.free \cup {below(m, t, i)}, m.free \subseteq F,
           NEW n \in Memory, n.free = F, n.table[t][i] = Absent,
           \A u \in Tables, j \in Idx : u # t \/ j # i => n.table[u][j] = m.table[u][j]
    PROVE  /\ \E K : /\ Tree(n, K) /\ Counted(n, K, t, 1) /\ Filled(n, K, t)
                     /\ Returned(m, L) /\ below(m, t, i) \in F => Returned(n, K)
                     /\ \A u \in Tables : u # below(m, t, i) => K[u] = L[u]
           /\ ~n.table[t][i].present
           /\ \A u \in Tables, j \in Idx : u # t \/ j # i => n.table[u][j] = m.table[u][j]
           /\ \A w \in Pages : Page(n, w) = Page(m, w)
<1> DEFINE x == below(m, t, i)
           K == [L EXCEPT ![x] = 0]
<1>1. /\ m \in Memory /\ t \in Tables /\ L[t] \in 1 .. 3 /\ L \in [Tables -> 0 .. 4]
      /\ x \in Frames /\ x \in Tables /\ L[x] = L[t] + 1 /\ x # k_pml4 /\ x # t
  BY PagingAssumption DEF Tree, Inner, Tables
<1>2. \A u \in Tables, j \in Idx : u # t \/ j # i => n.table[u][j] = m.table[u][j]
  OBVIOUS
<1>3. ~n.table[t][i].present
  BY DEF Absent
<1>4. /\ K \in [Tables -> 0 .. 4] /\ K[x] = 0
      /\ \A u \in Tables : u # x => K[u] = L[u]
      /\ \A u \in Tables : K[u] # 0 => K[u] = L[u] /\ u # x
  BY <1>1
<1> HIDE DEF K
\* An entry of the new tree is one of the old.
<1>5. ASSUME NEW u \in Tables, NEW j \in Idx, Inner(K, u), n.table[u][j].present
      PROVE  /\ Inner(L, u) /\ m.table[u][j].present /\ n.table[u][j] = m.table[u][j]
             /\ below(n, u, j) = below(m, u, j) /\ below(m, u, j) # x
             /\ below(m, u, j) \in Frames /\ L[below(m, u, j)] = L[u] + 1
  <2>1. u # t \/ j # i
    BY <1>3, <1>5
  <2>2. Inner(L, u) /\ n.table[u][j] = m.table[u][j]
    BY <1>2, <1>4, <1>5, <2>1 DEF Inner
  <2>3. below(n, u, j) = below(m, u, j) /\ m.table[u][j].present
    BY <1>5, <2>2 DEF below
  <2>4. below(m, u, j) \in Frames /\ L[below(m, u, j)] = L[u] + 1
    BY <2>2, <2>3 DEF Tree
  <2>5. below(m, u, j) # x
    BY <1>1, <2>1, <2>2, <2>3 DEF Tree
  <2> QED
    BY <2>2, <2>3, <2>4, <2>5
<1>6. Tree(n, K)
  <2>1. ASSUME NEW u \in Tables PROVE K[u] = 1 <=> u = k_pml4
    BY <1>1, <1>4 DEF Tree
  <2>2. ASSUME NEW u \in Tables, NEW j \in Idx, Inner(K, u), n.table[u][j].present
        PROVE  below(n, u, j) \in Frames /\ K[below(n, u, j)] = K[u] + 1
    BY <1>4, <1>5, <2>2 DEF Inner, Tables
  <2>3. ASSUME NEW u \in Tables, NEW v \in Tables, NEW j \in Idx, NEW l \in Idx,
               Inner(K, u), n.table[u][j].present, Inner(K, v), n.table[v][l].present,
               below(n, u, j) = below(n, v, l)
        PROVE  u = v /\ j = l
    <3>1. /\ Inner(L, u) /\ m.table[u][j].present /\ Inner(L, v) /\ m.table[v][l].present
          /\ below(m, u, j) = below(m, v, l)
      BY <1>5, <2>3
    <3> QED
      BY <3>1 DEF Tree
  <2>4. ASSUME NEW u \in Tables, K[u] > 1
        PROVE  \E v \in Tables, j \in Idx :
                  Inner(K, v) /\ n.table[v][j].present /\ below(n, v, j) = u
    <3>1. u # x /\ L[u] > 1
      BY <1>4, <2>4
    <3>2. PICK v \in Tables, j \in Idx : Inner(L, v) /\ m.table[v][j].present /\ below(m, v, j) = u
      BY <3>1 DEF Tree
    <3>3. v # x
      BY <3>2 DEF Used
    <3>4. v # t \/ j # i
      BY <3>1, <3>2
    <3>5. n.table[v][j] = m.table[v][j] /\ Inner(K, v)
      BY <1>2, <1>4, <3>2, <3>3, <3>4 DEF Inner
    <3> QED
      BY <3>2, <3>5 DEF below
  <2>5. ASSUME NEW u \in Tables, K[u] # 0 PROVE u \notin n.free
    BY <1>2, <1>4, <2>5 DEF Tree
  <2> QED
    BY <1>2, <1>4, <2>1, <2>2, <2>3, <2>4, <2>5 DEF Tree
<1>7. \A u \in Tables : u # t => Used(n, u) = Used(m, u)
  BY <1>2, UsedSame
<1>8. /\ Cardinality(Used(m, t)) = Cardinality(Used(n, t)) + 1
      /\ Cardinality(Used(n, t)) \in Nat
  <2>1. \A j \in Idx : j # i => m.table[t][j] = n.table[t][j]
    BY <1>1, <1>2
  <2> QED
    BY <1>3, <2>1, UsedAdd, UsedFinite
<1>9. Counted(n, K, t, 1)
  <2> SUFFICES ASSUME NEW u \in Tables, NEW j \in Idx, Inner(K, u), n.table[u][j].present
               PROVE  n.table[u][j].sub = Cardinality(Used(n, below(n, u, j)))
                                            + (IF below(n, u, j) = t THEN 1 ELSE 0)
    BY DEF Counted
  <2>1. /\ Inner(L, u) /\ m.table[u][j].present /\ n.table[u][j] = m.table[u][j]
        /\ below(n, u, j) = below(m, u, j) /\ below(m, u, j) \in Tables
    BY <1>5 DEF Tables
  <2>2. /\ m.table[u][j].sub = Cardinality(Used(m, below(m, u, j)))
        /\ Cardinality(Used(m, below(m, u, j))) \in Nat
    BY <2>1, UsedFinite DEF Counted
  <2>3. CASE below(m, u, j) = t
    BY <1>8, <2>1, <2>2, <2>3
  <2>4. CASE below(m, u, j) # t
    BY <1>7, <2>1, <2>2, <2>4
  <2> QED
    BY <2>3, <2>4
<1>10. Filled(n, K, t)
  <2> SUFFICES ASSUME NEW u \in Tables, K[u] > 1, u # t PROVE Used(n, u) # {}
    BY DEF Filled
  <2>1. u # x /\ L[u] > 1
    BY <1>4
  <2> QED
    BY <1>7, <2>1 DEF Filled
<1>11. Returned(m, L) /\ x \in F => Returned(n, K)
  BY <1>2, <1>4 DEF Returned, Tables
<1>12. ASSUME NEW w \in Pages PROVE Page(n, w) = Page(m, w)
  <2>1. Inner(K, t)
    BY <1>1, <1>4 DEF Inner
  <2>2. \A j \in Idx : ~m.table[below(m, t, i)][j].present
    BY DEF Used
  <2>3. \A u \in Tables, j \in Idx :
            K[u] # 0 /\ (u # t \/ j # i) => m.table[u][j] = n.table[u][j]
    BY <1>2
  <2> QED
    BY <1>3, <1>6, <1>12, <2>1, <2>2, <2>3, EmptyTablePages
<1> QED
  BY <1>2, <1>3, <1>4, <1>6, <1>9, <1>10, <1>11, <1>12

LEMMA DropInv ==
    ASSUME NEW m, NEW L, Tree(m, L), NEW t, NEW i \in Idx, Inner(L, t), m.table[t][i].present,
           Counted(m, L, below(m, t, i), 1), Filled(m, L, below(m, t, i))
    PROVE  Dropped(m, L, drop(m, t, i), t, i)
<1> DEFINE x    == below(m, t, i)
           e    == [m.table[t][i] EXCEPT !.sub = @ - 1]
           less == paging_decrement_subcount(m, t, i)
           back == IF fractal THEN {} ELSE {x}
           F    == less.free \cup back
           n    == drop(m, t, i)
<1>1. m \in Memory /\ t \in Tables /\ x \in Frames /\ x # t
  BY DEF Tree, Inner
<1>2. m.table[t][i] \in EntryType
  BY <1>1, EntryFacts
<1>3. e \in EntryType /\ e.present /\ e.to = x /\ e.sub = m.table[t][i].sub + (-1)
  BY <1>2 DEF EntryType, below
<1>4. n = IF less.table[t][i].sub # 0 THEN less ELSE [Put(less, t, i, Absent) EXCEPT !.free = F]
  <2> HIDE DEF less, back
  <2>1. n = IF less.table[t][i].sub # 0 THEN less
            ELSE [less EXCEPT !.table[t][i] = Absent, !.free = F]
    BY DEF drop, less, back
  <2>2. [less EXCEPT !.table[t][i] = Absent, !.free = F]
            = [Put(less, t, i, Absent) EXCEPT !.free = F]
    BY DEF Put
  <2> QED
    BY <2>1, <2>2
<1>5. less = Put(m, t, i, e)
  BY DEF paging_decrement_subcount, Put
<1> HIDE DEF e, n, less
<1>6. /\ Tree(less, L) /\ Counted(less, L, x, 1 + (-1)) /\ Filled(less, L, x)
      /\ Returned(m, L) => Returned(less, L)
      /\ SameShape(m, less) /\ less.table[t][i] = e /\ less.free = m.free
      /\ OthersSame(m, less, t, i)
  BY <1>1, <1>3, <1>5, CountInv, PutFacts
<1>7. /\ less.table[t][i].present /\ below(less, t, i) = x
      /\ \A u \in Tables, j \in Idx : u # t \/ j # i => less.table[u][j] = m.table[u][j]
      /\ \A w \in Pages : Page(less, w) = Page(m, w)
      /\ Counted(less, L, k_pml4, 0)
  BY <1>1, <1>3, <1>6, ShapePages, RootUncounted DEF SameShape, OthersSame
<1>8. less.table[t][i].sub = Cardinality(Used(less, x))
  BY <1>1, <1>6, <1>7, UsedFinite DEF Counted
<1> HIDE DEF x
<1>9. CASE less.table[t][i].sub # 0
  <2>1. n = less
    BY <1>4, <1>9
  <2>2. Used(less, x) # {}
    BY <1>8, <1>9, UsedFinite
  <2>3. Filled(less, L, k_pml4)
    BY <1>6, <2>2 DEF Filled
  <2> QED
    BY <1>6, <1>7, <2>1, <2>3 DEF Dropped, n
<1>10. CASE ~(less.table[t][i].sub # 0)
  <2>1. n = [Put(less, t, i, Absent) EXCEPT !.free = F]
    BY <1>4, <1>10
  <2>2. Used(less, x) = {}
    BY <1>8, <1>10, UsedFinite
  <2>3. /\ F \in SUBSET Frames /\ F \subseteq less.free \cup {x} /\ less.free \subseteq F
        /\ ~fractal => x \in F
    BY <1>1, <1>6 DEF Tree, Memory
  <2> HIDE DEF F
  <2>4. /\ n \in Memory /\ n.free = F /\ n.table[t][i] = Absent
        /\ \A u \in Tables, j \in Idx : u # t \/ j # i => n.table[u][j] = less.table[u][j]
    <3> DEFINE o == Put(less, t, i, Absent)
    <3>1. Absent \in EntryType
      BY DEF Absent, EntryType
    <3>2. o \in Memory /\ o.table[t][i] = Absent /\ OthersSame(less, o, t, i)
      BY <1>1, <1>6, <3>1, PutFacts DEF Tree
    <3> HIDE DEF o
    <3>3. n = [o EXCEPT !.free = F]
      BY <2>1 DEF o
    <3> QED
      BY <2>3, <3>2, <3>3 DEF Memory, OthersSame
  <2>5. /\ \E K : /\ Tree(n, K) /\ Counted(n, K, t, 1) /\ Filled(n, K, t)
                  /\ Returned(less, L) /\ x \in F => Returned(n, K)
                  /\ \A u \in Tables : u # x => K[u] = L[u]
        /\ ~n.table[t][i].present
        /\ \A u \in Tables, j \in Idx : u # t \/ j # i => n.table[u][j] = less.table[u][j]
        /\ \A w \in Pages : Page(n, w) = Page(less, w)
    BY <1>6, <1>7, <2>2, <2>3, <2>4, RemoveInv
  <2> QED
    BY <1>6, <1>7, <2>3, <2>5 DEF Dropped, n, x
<1> QED
  BY <1>9, <1>10

LEMMA UnmapInv ==
    ASSUME NEW m, NEW L, Sound(m, L), NEW v \in Pages, HasPage(m, v)
    PROVE  LET n == paging_unmap(m, v) IN
           /\ \E K : Sound(n, K) /\ (~fractal /\ Returned(m, L) => Returned(n, K))
           /\ Page(n, v) = Unmapped
           /\ \A w \in Pages : w # v => Page(n, w) = Page(m, w)
<1> DEFINE root == k_pml4
           pdp == PdpOf(m, v)
           pd  == PdOf(m, v)
           pt  == PtOf(m, v)
           m1  == Put(m, pt, v[4], Absent)
           m2  == drop(m1, pd, v[3])
           m3  == drop(m2, pdp, v[2])
           m4  == drop(m3, root, v[1])
           Kept(n) == \A w \in Pages : Page(n, w) = Page(m1, w)
<1>1. paging_unmap(m, v) = IF m2.table[pd][v[3]].present THEN m2
                           ELSE IF m3.table[pdp][v[2]].present THEN m3 ELSE m4
  BY DEF paging_unmap, Put
<1>2. HasPt(m, v) /\ HasPd(m, v) /\ HasPdp(m, v) /\ Tree(m, L)
  BY DEF HasPage, HasPt, HasPd, Sound
<1>3. /\ v[1] \in Idx /\ v[2] \in Idx /\ v[3] \in Idx /\ v[4] \in Idx
      /\ root \in Tables /\ pdp \in Tables /\ pd \in Tables /\ pt \in Tables
      /\ L[root] = 1 /\ L[pdp] = 2 /\ L[pd] = 3 /\ L[pt] = 4
  BY <1>2, PathFacts
<1>4. /\ Tree(m1, L) /\ (Returned(m, L) => Returned(m1, L))
      /\ Counted(m1, L, pt, 1) /\ Filled(m1, L, pt)
      /\ HasPt(m1, v) /\ PdpOf(m1, v) = pdp /\ PdOf(m1, v) = pd /\ PtOf(m1, v) = pt
      /\ Page(m1, v) = Unmapped /\ \A w \in Pages : w # v => Page(m1, w) = Page(m, w)
  <2>1. Absent \in EntryType /\ ~Absent.present
    BY DEF Absent, EntryType
  <2>2. Counted(m, L, pt, 0) /\ Filled(m, L, pt)
    BY <1>2, RootUncounted DEF Sound
  <2>3. /\ Tree(m1, L) /\ (Returned(m, L) => Returned(m1, L))
        /\ HasPt(m1, v) /\ PdpOf(m1, v) = pdp /\ PdOf(m1, v) = pd /\ PtOf(m1, v) = pt
        /\ Counted(m1, L, pt, 0 + Cardinality(Used(m, pt)) - Cardinality(Used(m1, pt)))
        /\ Filled(m1, L, pt)
        /\ m1.table[pt][v[4]] = Absent
        /\ \A j \in Idx : j # v[4] => m1.table[pt][j] = m.table[pt][j]
        /\ Page(m1, v) = Unmapped /\ \A w \in Pages : w # v => Page(m1, w) = Page(m, w)
    BY <1>2, <2>1, <2>2, SetPage
  <2> HIDE DEF m1
  <2>4. Cardinality(Used(m, pt)) = Cardinality(Used(m1, pt)) + 1
    <3>1. ~m1.table[pt][v[4]].present /\ m.table[pt][v[4]].present
      BY <2>1, <2>3 DEF HasPage
    <3>2. \A j \in Idx : j # v[4] => m.table[pt][j] = m1.table[pt][j]
      BY <2>3
    <3> QED
      BY <1>3, <3>1, <3>2, UsedAdd
  <2>5. 0 + Cardinality(Used(m, pt)) - Cardinality(Used(m1, pt)) = 1
    BY <2>4, UsedFinite
  <2> QED
    BY <2>3, <2>5
<1> HIDE DEF m1
<1>5. /\ m1.table[root][v[1]].present /\ below(m1, root, v[1]) = pdp
      /\ m1.table[pdp][v[2]].present /\ below(m1, pdp, v[2]) = pd
      /\ m1.table[pd][v[3]].present /\ below(m1, pd, v[3]) = pt
  BY <1>4 DEF HasPt, HasPd, HasPdp, PtOf, PdOf, PdpOf
<1> HIDE DEF pdp, pd, pt
<1>6. Dropped(m1, L, m2, pd, v[3])
  <2>1. Inner(L, pd)
    BY <1>3 DEF Inner
  <2> QED
    BY <1>3, <1>4, <1>5, <2>1, DropInv
<1> HIDE DEF m2
<1>7. PICK K : /\ Tree(m2, K) /\ (~fractal /\ Returned(m, L) => Returned(m2, K))
               /\ K[root] = 1 /\ K[pdp] = 2
               /\ m2.table[pd][v[3]].present => Counted(m2, K, root, 0) /\ Filled(m2, K, root)
               /\ ~m2.table[pd][v[3]].present => Counted(m2, K, pd, 1) /\ Filled(m2, K, pd)
  BY <1>3, <1>4, <1>5, <1>6 DEF Dropped
<1>8. /\ Kept(m2)
      /\ m2.table[root][v[1]] = m1.table[root][v[1]]
      /\ m2.table[pdp][v[2]] = m1.table[pdp][v[2]]
  BY <1>3, <1>6 DEF Dropped
<1>9. /\ m2.table[root][v[1]].present /\ below(m2, root, v[1]) = pdp
      /\ m2.table[pdp][v[2]].present /\ below(m2, pdp, v[2]) = pd
  BY <1>5, <1>8 DEF below
<1>10. CASE m2.table[pd][v[3]].present
  BY <1>1, <1>4, <1>7, <1>8, <1>10 DEF Sound
<1>11. CASE ~m2.table[pd][v[3]].present
  <2>1. Dropped(m2, K, m3, pdp, v[2])
    <3>1. Inner(K, pdp)
      BY <1>3, <1>7 DEF Inner
    <3> QED
      BY <1>3, <1>7, <1>9, <1>11, <3>1, DropInv
  <2> HIDE DEF m3
  <2>2. PICK J : /\ Tree(m3, J) /\ (~fractal /\ Returned(m, L) => Returned(m3, J))
                 /\ J[root] = 1
                 /\ m3.table[pdp][v[2]].present => Counted(m3, J, root, 0) /\ Filled(m3, J, root)
                 /\ ~m3.table[pdp][v[2]].present => Counted(m3, J, pdp, 1) /\ Filled(m3, J, pdp)
    BY <1>3, <1>7, <1>9, <2>1 DEF Dropped
  <2>3. Kept(m3) /\ m3.table[root][v[1]] = m2.table[root][v[1]]
    BY <1>3, <1>8, <2>1 DEF Dropped
  <2>4. m3.table[root][v[1]].present /\ below(m3, root, v[1]) = pdp
    BY <1>9, <2>3 DEF below
  <2>5. CASE m3.table[pdp][v[2]].present
    BY <1>1, <1>4, <1>11, <2>2, <2>3, <2>5 DEF Sound
  <2>6. CASE ~m3.table[pdp][v[2]].present
    <3>1. Dropped(m3, J, m4, root, v[1])
      <4>1. Inner(J, root)
        BY <1>3, <2>2 DEF Inner
      <4> QED
        BY <1>3, <2>2, <2>4, <2>6, <4>1, DropInv
    <3> HIDE DEF m4
    <3>2. PICK I : /\ Tree(m4, I) /\ (~fractal /\ Returned(m, L) => Returned(m4, I))
                   /\ Counted(m4, I, root, 0) \/ Counted(m4, I, root, 1)
                   /\ Filled(m4, I, root)
      BY <2>2, <3>1 DEF Dropped
    <3>3. Kept(m4)
      BY <2>3, <3>1 DEF Dropped
    <3>4. Sound(m4, I)
      BY <3>2, RootUncounted DEF Sound
    <3> QED
      BY <1>1, <1>4, <1>11, <2>6, <3>2, <3>3, <3>4
  <2> QED
    BY <2>5, <2>6
<1> QED
  BY <1>10, <1>11
-----------------------------------------------------------------------------
(* The invariant *)

\* There is a tree in memory that is counted and filled, and until paging is
\* enabled all other frames are the allocator's.
IInv == \E L : Sound(mem, L) /\ (~fractal => Returned(mem, L))

LEMMA InitInv == Init => IInv /\ \A w \in Pages : Page(mem, w) = Unmapped
<1> SUFFICES ASSUME Init PROVE IInv /\ \A w \in Pages : Page(mem, w) = Unmapped
  OBVIOUS
<1> DEFINE L == [t \in Tables |-> IF t = k_pml4 THEN 1 ELSE 0]
<1>1. k_pml4 \in Tables /\ k_pml4 \notin Frames /\ k_pml4 \in Nat
  BY PagingAssumption DEF Tables, k_pml4
<1>2. Cleared \in [Idx -> EntryType] /\ Dirty \in [Idx -> EntryType]
  BY <1>1 DEF Cleared, Dirty, Absent, Entry, EntryType
<1>3. /\ mem \in Memory /\ mem.free = Frames
      /\ \A i \in Idx : mem.table[k_pml4][i] = Absent
  BY <1>1, <1>2 DEF Init, Memory, Tables, Cleared
<1>4. \A i \in Idx : ~mem.table[k_pml4][i].present
  BY <1>3 DEF Absent
<1>5. L \in [Tables -> 0 .. 4] /\ \A t \in Tables : L[t] = IF t = k_pml4 THEN 1 ELSE 0
  OBVIOUS
<1> HIDE DEF L
<1>6. \A t \in Tables, i \in Idx : ~(Inner(L, t) /\ mem.table[t][i].present)
  BY <1>4, <1>5 DEF Inner
<1>7. Tree(mem, L)
  BY <1>1, <1>3, <1>5, <1>6 DEF Tree
<1>8. Counted(mem, L, k_pml4, 0) /\ Filled(mem, L, k_pml4) /\ Returned(mem, L)
  BY <1>3, <1>5, <1>6 DEF Counted, Filled, Returned
<1>9. ASSUME NEW w \in Pages PROVE Page(mem, w) = Unmapped
  BY <1>4, <1>7, <1>9, PathFacts DEF Page, HasPage, HasPt, HasPd, HasPdp
<1> QED
  BY <1>7, <1>8, <1>9 DEF IInv, Sound

\* A step keeps the invariant, and Map and Unmap do to the pages what they say.
Changes(v, p) == /\ Page(mem', v) = p
                 /\ \A w \in Pages : w # v => Page(mem', w) = Page(mem, w)

LEMMA StepInv ==
    ASSUME IInv
    PROVE  /\ [Next]_vars => IInv'
           /\ \A v \in Virts, p \in Phys : Map(v, p) => Changes(v, p)
           /\ \A v \in Virts : Unmap(v) => Changes(v, Unmapped)
<1> PICK L : Sound(mem, L) /\ (~fractal => Returned(mem, L))
  BY DEF IInv
<1>1. ASSUME NEW v \in Virts, NEW p \in Phys, Map(v, p) PROVE IInv' /\ Changes(v, p)
  <2>1. v \in Pages /\ p \in Nat
    BY PagingAssumption DEF Pages
  <2>2. /\ mem' = paging_map(mem, v, p) /\ fractal' = fractal
        /\ Needed(mem, v) <= Cardinality(mem.free)
    BY <1>1 DEF Map
  <2>3. /\ \E K : Sound(mem', K) /\ (Returned(mem, L) => Returned(mem', K))
        /\ Page(mem', v) = p
        /\ \A w \in Pages : w # v => Page(mem', w) = Page(mem, w)
    BY <2>1, <2>2, MapInv
  <2> QED
    BY <2>2, <2>3 DEF IInv, Changes
<1>2. ASSUME NEW v \in Virts, Unmap(v) PROVE IInv' /\ Changes(v, Unmapped)
  <2>1. v \in Pages
    BY PagingAssumption DEF Pages
  <2>2. mem' = paging_unmap(mem, v) /\ fractal' = fractal /\ HasPage(mem, v)
    BY <1>2 DEF Unmap
  <2>3. /\ \E K : Sound(mem', K) /\ (~fractal /\ Returned(mem, L) => Returned(mem', K))
        /\ Page(mem', v) = Unmapped
        /\ \A w \in Pages : w # v => Page(mem', w) = Page(mem, w)
    BY <2>1, <2>2, UnmapInv
  <2> QED
    BY <2>2, <2>3 DEF IInv, Changes
<1>3. ASSUME Enable PROVE IInv'
  <2>1. mem' = mem /\ fractal'
    BY <1>3 DEF Enable
  <2> QED
    BY <2>1 DEF IInv
<1>4. ASSUME UNCHANGED vars PROVE IInv'
  BY <1>4 DEF vars, IInv
<1> QED
  BY <1>1, <1>2, <1>3, <1>4 DEF Next

LEMMA Invariance == Spec => []IInv
<1>1. Init => IInv
  BY InitInv
<1>2. IInv /\ [Next]_vars => IInv'
  BY StepInv
<1> QED
  BY <1>1, <1>2, PTL DEF Spec

\* The tables of a kind are those of a level.
LEMMA LevelFacts ==
    ASSUME NEW L, Tree(mem, L)
    PROVE  /\ Pdps = {t \in Tables : L[t] = 2}
           /\ Pds = {t \in Tables : L[t] = 3}
           /\ Pts = {t \in Tables : L[t] = 4}
           /\ \A e \in TableEntries :
                 Inner(L, e[1]) /\ e[2] \in Idx /\ mem.table[e[1]][e[2]].present
<1>1. ASSUME NEW k \in 1 .. 3 PROVE Below({t \in Tables : L[t] = k}) = {t \in Tables : L[t] = k + 1}
  <2> DEFINE ts == {t \in Tables : L[t] = k}
  <2>1. ASSUME NEW x \in Below(ts) PROVE x \in Tables /\ L[x] = k + 1
    <3>1. PICK t \in ts, i \in Idx : mem.table[t][i].present /\ x = below(mem, t, i)
      BY <2>1 DEF Below, Present
    <3>2. Inner(L, t)
      BY <3>1 DEF Inner
    <3> QED
      BY <3>1, <3>2 DEF Tree, Tables
  <2>2. ASSUME NEW x \in Tables, L[x] = k + 1 PROVE x \in Below(ts)
    <3>1. PICK t \in Tables, i \in Idx :
              Inner(L, t) /\ mem.table[t][i].present /\ below(mem, t, i) = x
      BY <2>2 DEF Tree
    <3>2. L[x] = L[t] + 1
      BY <3>1 DEF Tree
    <3>3. t \in ts
      BY <2>2, <3>1, <3>2 DEF Inner
    <3> QED
      BY <3>1, <3>3 DEF Below, Present
  <2> QED
    BY <2>1, <2>2
<1>2. {k_pml4} = {t \in Tables : L[t] = 1}
  BY DEF Tree, Tables
<1>3. Pdps = {t \in Tables : L[t] = 2}
  BY <1>1, <1>2 DEF Pdps
<1>4. Pds = {t \in Tables : L[t] = 3}
  BY <1>1, <1>3 DEF Pds
<1>5. Pts = {t \in Tables : L[t] = 4}
  BY <1>1, <1>4 DEF Pts
<1>6. ASSUME NEW e \in TableEntries
      PROVE  Inner(L, e[1]) /\ e[2] \in Idx /\ mem.table[e[1]][e[2]].present
  BY <1>2, <1>3, <1>4, <1>6 DEF TableEntries, Inner
<1> QED
  BY <1>3, <1>4, <1>5, <1>6
-----------------------------------------------------------------------------
(* Theorems *)

\* The count in an entry is the number of entries in use in the table below it,
\* and no table stays that has none, whatever pages share it and in whatever
\* order they are mapped and unmapped.
THEOREM CountsExact == Spec => []SubcountExact
<1>1. IInv => SubcountExact
  <2> SUFFICES ASSUME IInv, NEW e \in TableEntries
               PROVE  LET entry == mem.table[e[1]][e[2]] IN
                      entry.sub = Cardinality(Present(entry.to)) /\ entry.sub > 0
    BY DEF SubcountExact
  <2>1. PICK L : Sound(mem, L)
    BY DEF IInv
  <2> DEFINE x == below(mem, e[1], e[2])
  <2>2. Inner(L, e[1]) /\ e[2] \in Idx /\ mem.table[e[1]][e[2]].present
    BY <2>1, LevelFacts DEF Sound
  <2>3. x \in Tables /\ x # k_pml4 /\ L[x] > 1
    <3>1. x \in Frames /\ L[x] = L[e[1]] + 1 /\ L[e[1]] \in 1 .. 3
      BY <2>1, <2>2 DEF Sound, Tree, Inner
    <3>2. x \in Tables /\ x # k_pml4
      BY <3>1, PagingAssumption DEF Tables
    <3>3. L[x] > 1
      BY <3>1
    <3> QED
      BY <3>2, <3>3
  <2>4. mem.table[e[1]][e[2]].sub = Cardinality(Used(mem, x)) /\ Used(mem, x) # {}
    BY <2>1, <2>2, <2>3, UsedFinite DEF Sound, Counted, Filled, Inner
  <2>5. Used(mem, x) = Present(mem.table[e[1]][e[2]].to)
    BY DEF Used, Present, below
  <2> QED
    BY <2>4, <2>5, UsedFinite
<1> QED
  BY <1>1, Invariance, PTL

\* No table is below two entries, and none is free.
THEOREM TablesNotShared == Spec => []TablesOwned
<1>1. IInv => TablesOwned
  <2> SUFFICES ASSUME IInv PROVE TablesOwned
    OBVIOUS
  <2>1. PICK L : Tree(mem, L)
    BY DEF IInv, Sound
  <2>2. ASSUME NEW e \in TableEntries, NEW o \in TableEntries,
               below(mem, e[1], e[2]) = below(mem, o[1], o[2])
        PROVE  e = o
    <3>1. /\ Inner(L, e[1]) /\ e[2] \in Idx /\ mem.table[e[1]][e[2]].present
          /\ Inner(L, o[1]) /\ o[2] \in Idx /\ mem.table[o[1]][o[2]].present
      BY <2>1, LevelFacts
    <3>2. e[1] = o[1] /\ e[2] = o[2]
      BY <2>1, <2>2, <3>1 DEF Tree, Inner
    <3> QED
      BY <3>2 DEF TableEntries
  <2>3. (Pdps \cup Pds \cup Pts) \cap (mem.free \cup {k_pml4}) = {}
    BY <2>1, LevelFacts DEF Tree
  <2> QED
    BY <2>2, <2>3 DEF TablesOwned
<1> QED
  BY <1>1, Invariance, PTL

\* Until paging is enabled no frame is lost.
THEOREM FramesReturned == Spec => []TablesReturned
<1>1. IInv => TablesReturned
  <2> SUFFICES ASSUME IInv, ~fractal, NEW t \in Frames, t \notin mem.free
               PROVE  t \in Pdps \cup Pds \cup Pts
    BY DEF TablesReturned
  <2>1. PICK L : Tree(mem, L) /\ Returned(mem, L)
    BY DEF IInv, Sound
  <2>2. t \in Tables /\ t # k_pml4 /\ L[t] # 0
    BY <2>1, PagingAssumption DEF Returned, Tables
  <2>3. L[t] \in 2 .. 4
    BY <2>1, <2>2 DEF Tree
  <2> QED
    BY <2>1, <2>2, <2>3, LevelFacts
<1> QED
  BY <1>1, Invariance, PTL

\* The tables implement an address space: a page is where it was mapped last,
\* and mapping or unmapping moves no other.
THEOREM Refinement == Spec => ImplementsAddressSpace
<1> DEFINE mapping == [v \in Virts |-> Walk(v)]
<1>1. \A v : Walk(v) = Page(mem, v)
  BY DEF Walk, Page
<1>2. \A v : Walk(v)' = Page(mem', v)
  BY DEF Walk, Page
<1>3. \A v \in Virts : v \in Pages
  BY PagingAssumption DEF Pages
<1>4. Init => AS!ASInit
  BY <1>1, <1>3, InitInv DEF AS!ASInit
<1>5. IInv /\ [Next]_vars => [AS!ASNext]_mapping
  <2> SUFFICES ASSUME IInv, [Next]_vars PROVE AS!ASNext \/ UNCHANGED mapping
    OBVIOUS
  <2>1. ASSUME NEW v \in Virts, NEW p, Changes(v, p)
        PROVE  mapping' = [mapping EXCEPT ![v] = p]
    BY <1>1, <1>2, <1>3, <2>1 DEF Changes
  <2>2. ASSUME NEW v \in Virts, NEW p \in Phys, Map(v, p) PROVE AS!ASNext
    BY <2>1, <2>2, StepInv DEF AS!ASNext, AS!MapPage
  <2>3. ASSUME NEW v \in Virts, Unmap(v) PROVE AS!ASNext
    BY <2>1, <2>3, StepInv DEF AS!ASNext, AS!UnmapPage
  <2>4. CASE Enable \/ UNCHANGED vars
    <3>1. mem' = mem
      BY <2>4 DEF Enable, vars
    <3> QED
      BY <1>1, <1>2, <3>1
  <2> QED
    BY <2>2, <2>3, <2>4 DEF Next
<1>6. Spec => AS!ASSpec
  BY <1>4, <1>5, Invariance, PTL DEF Spec, AS!ASSpec
<1> QED
  BY <1>6 DEF ImplementsAddressSpace
=============================================================================
