---------------------------- MODULE MemMapProof ----------------------------
(***************************************************************************)
(* Proofs about MemMap: for every address space, every set of region types *)
(* and every order of definitions the table stays sorted and disjoint, is  *)
(* agregated in the end, and paints the address space.                     *)
(*                                                                         *)
(* The argument is about one shape.  Around a new region r the old table   *)
(* has a last entry p that begins below r and a first entry q that ends    *)
(* above it; the new table has the entries up to p, r, and those from q    *)
(* on, the two at the ends cut to what lies outside of r (Spliced).  Such  *)
(* a table is sorted, and an address has the type it had, or r's           *)
(* (SplicedFacts).  Each case of memmap_define, and each merge of          *)
(* memmap_agregate, is shown to have that shape.                           *)
(***************************************************************************)
EXTENDS MemMap, SequenceTheorems, WellFoundedInduction, TLAPS

-----------------------------------------------------------------------------
(* Sequences and sets of numbers *)

\* The entries of a table after memmap_insert ...
LEMMA Inserted ==
    ASSUME NEW S, NEW m \in Seq(S), NEW id \in 1 .. Len(m) + 1, NEW e \in S
    PROVE  /\ memmap_insert(m, id, e) \in Seq(S)
           /\ Len(memmap_insert(m, id, e)) = Len(m) + 1
           /\ \A k \in 1 .. Len(m) + 1 :
                 memmap_insert(m, id, e)[k] = IF k < id THEN m[k]
                                              ELSE IF k = id THEN e ELSE m[k - 1]
<1> DEFINE f == SubSeq(m, 1, id - 1)
           g == <<e>>
           h == SubSeq(m, id, Len(m))
<1>1. Len(m) \in Nat /\ \A k \in 1 .. Len(m) : m[k] \in S
  BY LenProperties, ElementOfSeq
<1>2. f \in Seq(S) /\ Len(f) = id - 1 /\ \A k \in 1 .. id - 1 : f[k] = m[k]
  BY <1>1, SubSeqProperties
<1>3. h \in Seq(S) /\ Len(h) = Len(m) - id + 1 /\ \A k \in 1 .. Len(m) - id + 1 : h[k] = m[id + k - 1]
  BY <1>1, SubSeqProperties
<1>4. g \in Seq(S) /\ Len(g) = 1 /\ g[1] = e
  OBVIOUS
<1>5. memmap_insert(m, id, e) = (f \o g) \o h
  BY DEF memmap_insert, InsertAt
<1> HIDE DEF f, g, h
<1>8. /\ f \o g \in Seq(S) /\ Len(f \o g) = Len(f) + Len(g)
      /\ \A k \in 1 .. Len(f) + Len(g) : (f \o g)[k] = IF k <= Len(f) THEN f[k] ELSE g[k - Len(f)]
  BY <1>2, <1>4, ConcatProperties, Zenon
<1>6. /\ f \o g \in Seq(S) /\ Len(f \o g) = id
      /\ \A k \in 1 .. id : (f \o g)[k] = IF k < id THEN m[k] ELSE e
  BY <1>1, <1>2, <1>4, <1>8
<1> DEFINE fg == f \o g
<1> HIDE DEF fg
<1>10. fg \in Seq(S) /\ Len(fg) = id /\ \A k \in 1 .. id : fg[k] = IF k < id THEN m[k] ELSE e
  BY <1>6 DEF fg
<1>9. /\ fg \o h \in Seq(S) /\ Len(fg \o h) = Len(fg) + Len(h)
      /\ \A k \in 1 .. Len(fg) + Len(h) : (fg \o h)[k] = IF k <= Len(fg) THEN fg[k] ELSE h[k - Len(fg)]
  BY <1>3, <1>10, ConcatProperties, Zenon
<1>7. /\ (f \o g) \o h \in Seq(S) /\ Len((f \o g) \o h) = Len(m) + 1
      /\ \A k \in 1 .. Len(m) + 1 : ((f \o g) \o h)[k] = IF k <= id THEN (f \o g)[k] ELSE h[k - id]
  BY <1>1, <1>3, <1>10, <1>9 DEF fg
<1> QED
  BY <1>1, <1>3, <1>5, <1>6, <1>7

\* ... and after memmap_remove.
LEMMA Removed ==
    ASSUME NEW S, NEW m \in Seq(S), NEW f \in 1 .. Len(m) + 1, NEW l \in f - 1 .. Len(m)
    PROVE  /\ memmap_remove(m, f, l) \in Seq(S)
           /\ Len(memmap_remove(m, f, l)) = Len(m) - (l - f + 1)
           /\ \A k \in 1 .. Len(m) - (l - f + 1) :
                 memmap_remove(m, f, l)[k] = IF k < f THEN m[k] ELSE m[k + (l - f + 1)]
<1> DEFINE g == SubSeq(m, 1, f - 1)
           h == SubSeq(m, l + 1, Len(m))
<1>1. Len(m) \in Nat /\ \A k \in 1 .. Len(m) : m[k] \in S
  BY LenProperties, ElementOfSeq
<1>2. g \in Seq(S) /\ Len(g) = f - 1 /\ \A k \in 1 .. f - 1 : g[k] = m[k]
  BY <1>1, SubSeqProperties
<1>3. h \in Seq(S) /\ Len(h) = Len(m) - l /\ \A k \in 1 .. Len(m) - l : h[k] = m[l + k]
  BY <1>1, SubSeqProperties
<1>4. memmap_remove(m, f, l) = g \o h
  BY DEF memmap_remove
<1> HIDE DEF g, h
<1>6. /\ g \o h \in Seq(S) /\ Len(g \o h) = Len(g) + Len(h)
      /\ \A k \in 1 .. Len(g) + Len(h) : (g \o h)[k] = IF k <= Len(g) THEN g[k] ELSE h[k - Len(g)]
  BY <1>2, <1>3, ConcatProperties, Zenon
<1>5. /\ g \o h \in Seq(S) /\ Len(g \o h) = Len(m) - (l - f + 1)
      /\ \A k \in 1 .. Len(m) - (l - f + 1) : (g \o h)[k] = IF k < f THEN g[k] ELSE h[k - (f - 1)]
  BY <1>1, <1>2, <1>3, <1>6
<1>7. ASSUME NEW k \in 1 .. Len(m) - (l - f + 1)
      PROVE  memmap_remove(m, f, l)[k] = IF k < f THEN m[k] ELSE m[k + (l - f + 1)]
  <2>1. CASE k < f
    BY <1>1, <1>2, <1>4, <1>5, <2>1
  <2>2. CASE k >= f
    <3>1. k - (f - 1) \in 1 .. Len(m) - l /\ l + (k - (f - 1)) = k + (l - f + 1)
      BY <1>1, <2>2
    <3>2. h[k - (f - 1)] = m[k + (l - f + 1)]
      BY <1>3, <3>1
    <3>3. k \in 1 .. Len(m) - (l - f + 1) /\ ~(k < f)
      BY <1>1, <2>2
    <3>4. (g \o h)[k] = h[k - (f - 1)]
      BY <1>5, <3>3
    <3> QED
      BY <1>4, <3>2, <3>3, <3>4
  <2> QED
    BY <1>1, <2>1, <2>2
<1> QED
  BY <1>4, <1>5, <1>7

\* A set of numbers has a smallest one.
LEMMA Smallest ==
    ASSUME NEW S, S \subseteq Nat, S # {}
    PROVE  \E x \in S : \A y \in S : x <= y
<1>1. \E x \in S : \A y \in S : ~(<<y, x>> \in OpToRel(<, Nat))
  BY NatLessThanWellFounded, WFMin
<1>2. PICK x \in S : \A y \in S : ~(<<y, x>> \in OpToRel(<, Nat))
  BY <1>1
<1>3. \A y \in S : ~(y < x)
  BY <1>2 DEF OpToRel
<1> QED
  BY <1>3

\* The largest one, by counting down from the bound.
LEMMA Largest ==
    ASSUME NEW n \in Nat, NEW S, S \subseteq 0 .. n, S # {}
    PROVE  \E x \in S : \A y \in S : y <= x
<1> DEFINE T == {n - y : y \in S}
<1>6. \A y \in S : n - y \in Nat
  OBVIOUS
<1>1. T \subseteq Nat /\ T # {}
  BY <1>6
<1>2. PICK t \in T : \A u \in T : t <= u
  BY <1>1, Smallest
<1>3. PICK x \in S : t = n - x
  OBVIOUS
<1>4. \A y \in S : n - y \in T
  OBVIOUS
<1>5. \A y \in S : n - x <= n - y
  BY <1>2, <1>3, <1>4
<1> QED
  BY <1>5

-----------------------------------------------------------------------------
(* Searches *)

\* FirstOf finds the first index of a set ...
LEMMA FirstFacts ==
    ASSUME NEW n \in Nat, NEW S, S \subseteq 1 .. n
    PROVE  IF S = {} THEN FirstOf(S) = 0
           ELSE FirstOf(S) \in S /\ \A y \in S : FirstOf(S) <= y
<1>1. ASSUME S # {} PROVE FirstOf(S) \in S /\ \A y \in S : FirstOf(S) <= y
  <2>1. \E x \in S : \A y \in S : x <= y
    <3>1. S \subseteq Nat
      OBVIOUS
    <3> QED
      BY <1>1, <3>1, Smallest
  <2> QED
    BY <1>1, <2>1 DEF FirstOf, Min
<1> QED
  BY <1>1 DEF FirstOf

\* ... and the last one.
LEMMA LastFacts ==
    ASSUME NEW n \in Nat, NEW S, S \subseteq 1 .. n
    PROVE  IF S = {} THEN LastOf(S) = 0
           ELSE LastOf(S) \in S /\ \A y \in S : y <= LastOf(S)
<1>1. ASSUME S # {} PROVE LastOf(S) \in S /\ \A y \in S : y <= LastOf(S)
  <2>1. \E x \in S : \A y \in S : y <= x
    <3>1. S \subseteq 0 .. n
      OBVIOUS
    <3> QED
      BY <1>1, <3>1, Largest
  <2>2. \E x \in S : \A y \in S : x >= y
    BY <1>1, <2>1
  <2>3. LastOf(S) \in S /\ \A y \in S : LastOf(S) >= y
    BY <1>1, <2>2 DEF LastOf, Max
  <2> QED
    BY <1>1, <2>3
<1> QED
  BY <1>1 DEF LastOf

\* A sorted table without overlaps.
Table(m) ==
    /\ m \in Seq(Region)
    /\ \A k, l \in DOMAIN m : k < l => End(m[k]) <= m[l].base

\* What is known of the entries of a table.
LEMMA TableFacts ==
    ASSUME NEW m, Table(m)
    PROVE  /\ Len(m) \in Nat /\ DOMAIN m = 1 .. Len(m)
           /\ \A k \in 1 .. Len(m) :
                 /\ m[k] \in Region
                 /\ m[k].base \in Nat /\ End(m[k]) \in Nat /\ m[k].size \in Nat
                 /\ m[k].base < End(m[k]) /\ End(m[k]) <= Top
                 /\ End(m[k]) = m[k].base + m[k].size /\ m[k].type \in Types
           /\ \A k, l \in 1 .. Len(m) : k < l => End(m[k]) <= m[l].base
<1>1. m \in Seq(Region)
  BY DEF Table
<1>2. Len(m) \in Nat /\ DOMAIN m = 1 .. Len(m)
  BY <1>1, LenProperties
<1>3. ASSUME NEW k \in 1 .. Len(m) PROVE m[k] \in Region
  BY <1>1, ElementOfSeq
<1>4. ASSUME NEW e \in Region
      PROVE  /\ e.base \in Nat /\ End(e) \in Nat /\ e.size \in Nat
             /\ e.base < End(e) /\ End(e) <= Top
             /\ End(e) = e.base + e.size /\ e.type \in Types
  BY TopAssumption DEF Region, End
<1> QED
  BY <1>2, <1>3, <1>4 DEF Table

\* The type of the first entry of m that holds the address.
TypeIn(m, a) ==
    LET id == FirstOf({k \in DOMAIN m : Holds(m[k], a)})
    IN  IF id = 0 THEN None ELSE m[id].type

\* An address has the type of the one entry that holds it.
LEMMA TypeInFacts ==
    ASSUME NEW m, Table(m), NEW a \in Nat
    PROVE  /\ \A k \in 1 .. Len(m) : Holds(m[k], a) => TypeIn(m, a) = m[k].type
           /\ (\A k \in 1 .. Len(m) : ~Holds(m[k], a)) => TypeIn(m, a) = None
<1> DEFINE S == {k \in DOMAIN m : Holds(m[k], a)}
<1>1. S \subseteq 1 .. Len(m) /\ Len(m) \in Nat
  BY TableFacts
<1>2. IF S = {} THEN FirstOf(S) = 0 ELSE FirstOf(S) \in S /\ \A y \in S : FirstOf(S) <= y
  BY <1>1, FirstFacts
<1>3. ASSUME NEW k \in 1 .. Len(m), NEW l \in 1 .. Len(m), Holds(m[k], a), Holds(m[l], a) PROVE k = l
  <2>1. /\ m[k].base <= a /\ a < End(m[k]) /\ m[l].base <= a /\ a < End(m[l])
    BY <1>3 DEF Holds
  <2>2. /\ m[k].base \in Nat /\ End(m[k]) \in Nat /\ m[l].base \in Nat /\ End(m[l]) \in Nat
        /\ k < l => End(m[k]) <= m[l].base
        /\ l < k => End(m[l]) <= m[k].base
    BY TableFacts
  <2>3. k \in Int /\ l \in Int
    BY <1>1
  <2> QED
    BY <2>1, <2>2, <2>3
<1>4. TypeIn(m, a) = IF FirstOf(S) = 0 THEN None ELSE m[FirstOf(S)].type
  BY DEF TypeIn
<1>5. ASSUME NEW k \in 1 .. Len(m), Holds(m[k], a) PROVE TypeIn(m, a) = m[k].type
  <2>1. k \in S
    BY <1>5, TableFacts
  <2>2. FirstOf(S) = k
    BY <1>1, <1>2, <1>3, <1>5, <2>1
  <2> QED
    BY <1>4, <2>2
<1>6. ASSUME \A k \in 1 .. Len(m) : ~Holds(m[k], a) PROVE TypeIn(m, a) = None
  BY <1>1, <1>2, <1>4, <1>6
<1> QED
  BY <1>5, <1>6

\* p is the last entry that begins below the region r, q the first that ends
\* above it.
Around(m, r, p, q) ==
    /\ p \in 0 .. Len(m) /\ q \in 1 .. Len(m) + 1
    /\ \A k \in 1 .. Len(m) : /\ k <= p <=> m[k].base < r.base
                              /\ q <= k <=> End(r) < End(m[k])

\* e is what lies of the entry f below the region r, and above it.
Lower(e, f, r) == /\ e.base = f.base /\ e.type = f.type
                  /\ End(e) = IF End(f) <= r.base THEN End(f) ELSE r.base
Upper(e, f, r) == /\ End(e) = End(f) /\ e.type = f.type
                  /\ e.base = IF End(r) <= f.base THEN f.base ELSE End(r)

\* The table n has, around the region r, the entries of m up to p and those
\* from q on, cut where they would overlap r.
Spliced(m, n, r, p, q) ==
    /\ Around(m, r, p, q)
    /\ n \in Seq(Region)
    /\ Len(n) = p + 1 + (Len(m) + 1 - q)
    /\ \A k \in 1 .. p : Lower(n[k], m[k], r)
    /\ n[p + 1] = r
    /\ \A k \in q .. Len(m) : Upper(n[k + (p + 2 - q)], m[k], r)

\* n is a table, and the region r took over its addresses and no other.
Defined(m, n, r) ==
    /\ Table(n)
    /\ \A a \in Nat : TypeIn(n, a) = IF Holds(r, a) THEN r.type ELSE TypeIn(m, a)

\* A spliced table is a table, and paints the region and nothing else.
LEMMA SplicedFacts ==
    ASSUME NEW m, NEW n, NEW r \in Region, NEW p, NEW q, Table(m), Spliced(m, n, r, p, q)
    PROVE  Defined(m, n, r)
<1>1. /\ r.base \in Nat /\ End(r) \in Nat /\ r.base < End(r)
  BY DEF Region, End
<1>2. p \in 0 .. Len(m) /\ q \in 1 .. Len(m) + 1 /\ Len(m) \in Nat /\ p \in Nat /\ q \in Nat
  BY TableFacts DEF Spliced, Around
<1>3. /\ n \in Seq(Region) /\ Len(n) = p + 1 + (Len(m) + 1 - q)
      /\ DOMAIN n = 1 .. Len(n) /\ Len(n) \in Nat
  BY LenProperties DEF Spliced
<1>4. \A k \in 1 .. Len(m) : (k <= p <=> m[k].base < r.base) /\ (q <= k <=> End(r) < End(m[k]))
  BY DEF Spliced, Around
<1>5. \A k \in 1 .. p : /\ n[k].base = m[k].base /\ n[k].type = m[k].type
                        /\ End(n[k]) = IF End(m[k]) <= r.base THEN End(m[k]) ELSE r.base
  BY DEF Spliced, Lower
<1>6. n[p + 1] = r
  BY DEF Spliced
<1>7. ASSUME NEW j \in p + 2 .. Len(n)
      PROVE  LET k == j - (p + 2 - q) IN
             /\ k \in q .. Len(m) /\ k \in 1 .. Len(m)
             /\ End(n[j]) = End(m[k]) /\ n[j].type = m[k].type
             /\ n[j].base = IF End(r) <= m[k].base THEN m[k].base ELSE End(r)
  <2> DEFINE k == j - (p + 2 - q)
  <2>1. k \in q .. Len(m) /\ k \in 1 .. Len(m) /\ k + (p + 2 - q) = j
    BY <1>2, <1>3
  <2>2. LET e == n[k + (p + 2 - q)] IN
           /\ End(e) = End(m[k]) /\ e.type = m[k].type
           /\ e.base = IF End(r) <= m[k].base THEN m[k].base ELSE End(r)
    BY <2>1 DEF Spliced, Upper
  <2> QED
    BY <2>1, <2>2
<1> DEFINE old(j) == IF j <= p THEN j ELSE j - (p + 2 - q)
<1>8. \A j \in 1 .. Len(n) : j # p + 1 =>
         /\ old(j) \in 1 .. Len(m) /\ n[j].type = m[old(j)].type
         /\ m[old(j)].base <= n[j].base /\ End(n[j]) <= End(m[old(j)])
         /\ j <= p => End(n[j]) <= r.base
         /\ j > p + 1 => End(r) <= n[j].base
  <2> SUFFICES ASSUME NEW j \in 1 .. Len(n), j # p + 1
               PROVE  /\ old(j) \in 1 .. Len(m) /\ n[j].type = m[old(j)].type
                      /\ m[old(j)].base <= n[j].base /\ End(n[j]) <= End(m[old(j)])
                      /\ j <= p => End(n[j]) <= r.base
                      /\ j > p + 1 => End(r) <= n[j].base
    OBVIOUS
  <2>1. CASE j <= p
    <3>1. j \in 1 .. p /\ j \in 1 .. Len(m) /\ old(j) = j
      BY <1>2, <2>1
    <3>2. m[j].base \in Nat /\ End(m[j]) \in Nat
      BY <3>1, TableFacts
    <3> HIDE DEF old
    <3> QED
      BY <1>1, <1>2, <1>5, <2>1, <3>1, <3>2
  <2>2. CASE j > p
    <3>1. j \in p + 2 .. Len(n) /\ old(j) = j - (p + 2 - q)
      BY <1>2, <1>3, <2>2
    <3>2. /\ old(j) \in 1 .. Len(m)
          /\ End(n[j]) = End(m[old(j)]) /\ n[j].type = m[old(j)].type
          /\ n[j].base = IF End(r) <= m[old(j)].base THEN m[old(j)].base ELSE End(r)
      BY <1>7, <3>1
    <3>3. m[old(j)].base \in Nat /\ End(m[old(j)]) \in Nat
      BY <3>2, TableFacts
    <3> HIDE DEF old
    <3> QED
      BY <1>1, <1>2, <2>2, <3>1, <3>2, <3>3
  <2> QED
    BY <1>2, <2>1, <2>2
<1>9. Table(n)
  <2> SUFFICES ASSUME NEW j \in 1 .. Len(n), NEW l \in 1 .. Len(n), j < l
               PROVE  End(n[j]) <= n[l].base
    BY <1>3 DEF Table
  <2>0. n[j].base \in Nat /\ End(n[j]) \in Nat /\ n[l].base \in Nat /\ n[l].size \in Nat
    BY SMTT(30), <1>3, ElementOfSeq DEF Region, End
  <2>1. CASE j <= p /\ l > p
    <3>1. End(n[j]) <= r.base
      BY <1>2, <1>8, <2>1
    <3>2. r.base <= n[l].base
      <4>1. CASE l = p + 1
        BY <1>1, <1>6, <4>1
      <4>2. CASE l > p + 1
        BY SMTT(30), <1>1, <1>2, <1>8, <2>0, <4>2
      <4> QED
        BY <1>2, <2>1, <4>1, <4>2
    <3> QED
      BY <1>1, <2>0, <3>1, <3>2
  <2>2. CASE j = p + 1
    BY <1>1, <1>2, <1>6, <1>8, <2>0, <2>2
  <2>3. CASE l <= p \/ j > p + 1
    <3>1. old(j) < old(l) /\ j # p + 1 /\ l # p + 1
      BY <1>2, <2>3
    <3>2. End(m[old(j)]) <= m[old(l)].base
      BY <1>8, <3>1, TableFacts
    <3> HIDE DEF old
    <3> QED
      BY SMTT(30), <1>8, <2>0, <3>1, <3>2, TableFacts
  <2> QED
    BY <1>2, <2>1, <2>2, <2>3
<1>10. ASSUME NEW a \in Nat PROVE TypeIn(n, a) = IF Holds(r, a) THEN r.type ELSE TypeIn(m, a)
  <2>1. CASE Holds(r, a)
    <3>1. p + 1 \in 1 .. Len(n)
      BY <1>2, <1>3
    <3> QED
      BY <1>6, <1>9, <2>1, <3>1, TypeInFacts
  <2>2. ASSUME ~Holds(r, a), NEW k \in 1 .. Len(m), Holds(m[k], a)
        PROVE  \E j \in 1 .. Len(n) : Holds(n[j], a) /\ n[j].type = m[k].type
    <3>1. CASE a < r.base
      <4>1. k <= p
        BY <1>1, <1>4, <2>2, <3>1, TableFacts DEF Holds
      <4>2. k \in 1 .. p /\ k \in 1 .. Len(n)
        BY <1>2, <1>3, <4>1
      <4>3. /\ n[k].base = m[k].base /\ n[k].type = m[k].type
            /\ End(n[k]) = IF End(m[k]) <= r.base THEN End(m[k]) ELSE r.base
        BY <1>5, <4>2
      <4>4. Holds(n[k], a)
        BY <2>2, <3>1, <4>3 DEF Holds
      <4> QED
        BY <4>2, <4>3, <4>4
    <3>2. CASE End(r) <= a
      <4>1. q <= k
        BY <1>1, <1>4, <2>2, <3>2, TableFacts DEF Holds
      <4> DEFINE j == k + (p + 2 - q)
      <4>2. j \in p + 2 .. Len(n) /\ j - (p + 2 - q) = k
        BY <1>2, <1>3, <4>1
      <4>3. /\ End(n[j]) = End(m[k]) /\ n[j].type = m[k].type
            /\ n[j].base = IF End(r) <= m[k].base THEN m[k].base ELSE End(r)
        BY <1>7, <4>2
      <4>4. j \in 1 .. Len(n) /\ Holds(n[j], a)
        BY <1>1, <1>2, <2>2, <3>2, <4>2, <4>3, TableFacts DEF Holds
      <4> QED
        BY <4>3, <4>4
    <3> QED
      BY <1>1, <2>2, <3>1, <3>2 DEF Holds
  <2>3. ASSUME ~Holds(r, a), \A k \in 1 .. Len(m) : ~Holds(m[k], a)
        PROVE  \A j \in 1 .. Len(n) : ~Holds(n[j], a)
    <3> SUFFICES ASSUME NEW j \in 1 .. Len(n), Holds(n[j], a) PROVE FALSE
      OBVIOUS
    <3>1. n[j].base \in Nat /\ End(n[j]) \in Nat
      BY <1>3, ElementOfSeq DEF Region, End
    <3>2. j # p + 1
      BY <1>6, <2>3
    <3>3. Holds(m[old(j)], a) /\ old(j) \in 1 .. Len(m)
      <4> HIDE DEF old
      <4> QED
        BY SMTT(30), <1>8, <3>1, <3>2, TableFacts DEF Holds
    <3> QED
      BY <2>3, <3>3
  <2>4. CASE ~Holds(r, a)
    <3>1. CASE \E k \in 1 .. Len(m) : Holds(m[k], a)
      <4>1. PICK k \in 1 .. Len(m) : Holds(m[k], a)
        BY <3>1
      <4>2. PICK j \in 1 .. Len(n) : Holds(n[j], a) /\ n[j].type = m[k].type
        BY <2>2, <2>4, <4>1
      <4>3. TypeIn(n, a) = n[j].type /\ TypeIn(m, a) = m[k].type
        BY <1>9, <4>1, <4>2, TypeInFacts
      <4> QED
        BY <2>4, <4>2, <4>3
    <3>2. CASE \A k \in 1 .. Len(m) : ~Holds(m[k], a)
      <4>1. TypeIn(m, a) = None /\ TypeIn(n, a) = None
        BY <1>9, <2>3, <2>4, <3>2, TypeInFacts
      <4> QED
        BY <2>4, <4>1
    <3> QED
      BY <3>1, <3>2
  <2> QED
    BY <2>1, <2>4
<1> QED
  BY <1>9, <1>10 DEF Defined

\* It is enough to look at the entries p and q: the others lie beyond them.
LEMMA SpliceEnds ==
    ASSUME NEW m, NEW n \in Seq(Region), NEW r \in Region, NEW p, NEW q,
           Table(m), Around(m, r, p, q),
           Len(n) = p + 1 + (Len(m) + 1 - q), n[p + 1] = r,
           \A k \in 1 .. p - 1 : n[k] = m[k],
           \A k \in q + 1 .. Len(m) : n[k + (p + 2 - q)] = m[k],
           p >= 1 => Lower(n[p], m[p], r),
           q <= Len(m) => Upper(n[p + 2], m[q], r)
    PROVE  Defined(m, n, r)
<1>1. /\ r.base \in Nat /\ End(r) \in Nat /\ r.base < End(r)
  BY DEF Region, End
<1>2. p \in 0 .. Len(m) /\ q \in 1 .. Len(m) + 1 /\ Len(m) \in Nat /\ p \in Nat /\ q \in Nat
  BY TableFacts DEF Around
<1>3. ASSUME NEW k \in 1 .. p PROVE Lower(n[k], m[k], r)
  <2>1. CASE k = p
    BY <1>2, <2>1
  <2>2. CASE k < p
    <3>1. k \in 1 .. Len(m) /\ p \in 1 .. Len(m) /\ k \in 1 .. p - 1
      BY <1>2, <2>2
    <3>2. m[p].base < r.base /\ End(m[k]) <= m[p].base
      BY <1>2, <2>2, <3>1, TableFacts DEF Around
    <3>3. End(m[k]) <= r.base
      BY SMTT(30), <1>1, <3>1, <3>2, TableFacts
    <3> QED
      BY <3>1, <3>3 DEF Lower
  <2> QED
    BY <1>2, <2>1, <2>2
<1>4. ASSUME NEW k \in q .. Len(m) PROVE Upper(n[k + (p + 2 - q)], m[k], r)
  <2>1. CASE k = q
    <3>1. k + (p + 2 - q) = p + 2 /\ q <= Len(m)
      BY <1>2, <2>1
    <3> QED
      BY <2>1, <3>1
  <2>2. CASE k > q
    <3>1. k \in 1 .. Len(m) /\ q \in 1 .. Len(m) /\ k \in q + 1 .. Len(m)
      BY <1>2, <2>2
    <3>2. End(r) < End(m[q]) /\ End(m[q]) <= m[k].base
      BY <1>2, <2>2, <3>1, TableFacts DEF Around
    <3>3. End(r) <= m[k].base
      BY <1>1, <3>1, <3>2, TableFacts
    <3>4. n[k + (p + 2 - q)] = m[k]
      BY <3>1
    <3> QED
      BY <3>3, <3>4 DEF Upper
  <2> QED
    BY <1>2, <2>1, <2>2
<1>5. Spliced(m, n, r, p, q)
  BY <1>3, <1>4 DEF Spliced
<1> QED
  BY <1>5, SplicedFacts
-----------------------------------------------------------------------------
(* The operations on the table *)

\* A part of an entry is a region.
LEMMA PartOf ==
    ASSUME NEW f \in Region, NEW b \in Nat, NEW z \in Nat \ {0},
           f.base <= b, b + z <= End(f)
    PROVE  LET e == [base |-> b, size |-> z, type |-> f.type] IN
           e \in Region /\ e.base = b /\ e.size = z /\ e.type = f.type /\ End(e) = b + z
<1>1. f.base \in Nat /\ f.size \in Nat /\ f.base + f.size <= Top /\ f.type \in Types
  BY DEF Region
<1>2. b \in 0 .. Top - 1 /\ z \in 1 .. Top /\ b + z <= Top
  BY <1>1, TopAssumption DEF End
<1> QED
  BY <1>1, <1>2 DEF Region, End

\* An entry loses its first bytes, but not all.
LEMMA CutBottom ==
    ASSUME NEW m \in Seq(Region), NEW id \in 1 .. Len(m), NEW count \in Nat, count < m[id].size
    PROVE  LET c == memmap_cut_bottom(m, id, count) IN
           /\ c \in Seq(Region) /\ Len(c) = Len(m)
           /\ \A k \in 1 .. Len(m) : k # id => c[k] = m[k]
           /\ c[id].base = m[id].base + count /\ End(c[id]) = End(m[id]) /\ c[id].type = m[id].type
<1> DEFINE f == m[id]
           e == [base |-> f.base + count, size |-> f.size - count, type |-> f.type]
           c == memmap_cut_bottom(m, id, count)
<1>1. f \in Region /\ Len(m) \in Nat /\ m \in [1 .. Len(m) -> Region]
  BY ElementOfSeq, LenProperties
<1>2. f.base \in Nat /\ f.size \in Nat /\ End(f) = f.base + f.size
  BY <1>1 DEF Region, End
<1>3. e \in Region /\ e.base = f.base + count /\ End(e) = End(f) /\ e.type = f.type
  <2>1. /\ f.base + count \in Nat /\ f.size - count \in Nat \ {0}
        /\ f.base <= f.base + count /\ (f.base + count) + (f.size - count) = End(f)
    BY SMTT(30), <1>2
  <2> QED
    BY <1>1, <1>2, <2>1, PartOf
<1>4. c = [m EXCEPT ![id] = e]
  BY <1>2 DEF memmap_cut_bottom
<1> HIDE DEF e, c
<1>6. /\ c \in Seq(Region) /\ Len(c) = Len(m)
      /\ \A k \in 1 .. Len(m) : c[k] = IF k = id THEN e ELSE m[k]
  BY <1>3, <1>4, ExceptSeq
<1> QED
  BY <1>3, <1>6 DEF c

\* An entry loses its last bytes, but not all.
LEMMA CutTop ==
    ASSUME NEW m \in Seq(Region), NEW id \in 1 .. Len(m), NEW count \in Nat, count < m[id].size
    PROVE  LET c == memmap_cut_top(m, id, count) IN
           /\ c \in Seq(Region) /\ Len(c) = Len(m)
           /\ \A k \in 1 .. Len(m) : k # id => c[k] = m[k]
           /\ c[id].base = m[id].base /\ End(c[id]) = End(m[id]) - count /\ c[id].type = m[id].type
<1> DEFINE f == m[id]
           e == [base |-> f.base, size |-> f.size - count, type |-> f.type]
           c == memmap_cut_top(m, id, count)
<1>1. f \in Region /\ Len(m) \in Nat /\ m \in [1 .. Len(m) -> Region]
  BY ElementOfSeq, LenProperties
<1>2. f.base \in Nat /\ f.size \in Nat /\ End(f) = f.base + f.size
  BY <1>1 DEF Region, End
<1>3. e \in Region /\ e.base = f.base /\ End(e) = End(f) - count /\ e.type = f.type
  <2>1. /\ f.base \in Nat /\ f.size - count \in Nat \ {0}
        /\ f.base <= f.base /\ f.base + (f.size - count) <= End(f)
        /\ f.base + (f.size - count) = End(f) - count
    BY <1>2
  <2> QED
    BY <1>1, <1>2, <2>1, PartOf
<1>5. c = [m EXCEPT ![id] = e]
  BY <1>2 DEF memmap_cut_top
<1> HIDE DEF e, c
<1>6. /\ c \in Seq(Region) /\ Len(c) = Len(m)
      /\ \A k \in 1 .. Len(m) : c[k] = IF k = id THEN e ELSE m[k]
  BY <1>3, <1>5, ExceptSeq
<1> QED
  BY <1>3, <1>6 DEF c

\* An entry loses its middle, and becomes two.
LEMMA Split ==
    ASSUME NEW m \in Seq(Region), NEW id \in 1 .. Len(m),
           NEW offset \in Nat \ {0}, NEW size \in Nat, offset + size < m[id].size
    PROVE  LET c == memmap_split(m, id, offset, size) IN
           /\ c \in Seq(Region) /\ Len(c) = Len(m) + 1
           /\ \A k \in 1 .. id - 1 : c[k] = m[k]
           /\ \A k \in id + 1 .. Len(m) : c[k + 1] = m[k]
           /\ c[id].base = m[id].base /\ End(c[id]) = m[id].base + offset /\ c[id].type = m[id].type
           /\ /\ c[id + 1].base = m[id].base + offset + size
              /\ End(c[id + 1]) = End(m[id]) /\ c[id + 1].type = m[id].type
<1> DEFINE f == m[id]
           d == [base |-> f.base, size |-> offset, type |-> f.type]
           e == [base |-> f.base + offset + size, size |-> f.size - offset - size, type |-> f.type]
           n == [m EXCEPT ![id] = d]
           c == memmap_split(m, id, offset, size)
<1>1. f \in Region /\ Len(m) \in Nat /\ m \in [1 .. Len(m) -> Region]
  BY ElementOfSeq, LenProperties
<1>2. f.base \in Nat /\ f.size \in Nat /\ End(f) = f.base + f.size
  BY <1>1 DEF Region, End
<1>3. d \in Region /\ d.base = f.base /\ End(d) = f.base + offset /\ d.type = f.type
  <2>1. f.base <= f.base /\ f.base + offset <= End(f)
    BY <1>2
  <2> QED
    BY <1>1, <1>2, <2>1, PartOf
<1>4. e \in Region /\ e.base = f.base + offset + size /\ End(e) = End(f) /\ e.type = f.type
  <2>2. offset + size < f.size /\ offset \in Nat /\ size \in Nat
    OBVIOUS
  <2>1. /\ f.base + offset + size \in Nat /\ f.size - offset - size \in Nat \ {0}
        /\ f.base <= f.base + offset + size
        /\ (f.base + offset + size) + (f.size - offset - size) = End(f)
    <3> HIDE DEF f
    <3> QED
      BY SMTT(30), <1>2, <2>2
  <2> QED
    BY <1>1, <1>2, <2>1, PartOf
<1>7. c = memmap_insert(n, id + 1, e)
  BY DEF memmap_split
<1> HIDE DEF d, e, n, c
<1>8. n \in Seq(Region) /\ Len(n) = Len(m) /\ \A k \in 1 .. Len(m) : n[k] = IF k = id THEN d ELSE m[k]
  BY <1>3, ExceptSeq DEF n
<1>9. id + 1 \in 1 .. Len(n) + 1
  BY <1>1, <1>8
<1>14. n \in Seq(Region) /\ e \in Region
  BY <1>4, <1>8
<1>15. /\ c \in Seq(Region) /\ Len(c) = Len(n) + 1
       /\ \A k \in 1 .. Len(n) + 1 : c[k] = IF k < id + 1 THEN n[k]
                                            ELSE IF k = id + 1 THEN e ELSE n[k - 1]
  <2>1. LET x == memmap_insert(n, id + 1, e) IN
           /\ x \in Seq(Region) /\ Len(x) = Len(n) + 1
           /\ \A k \in 1 .. Len(n) + 1 : x[k] = IF k < id + 1 THEN n[k]
                                                ELSE IF k = id + 1 THEN e ELSE n[k - 1]
    BY <1>14, <1>9, Inserted
  <2> QED
    BY <2>1, <1>7
<1>10. /\ c \in Seq(Region) /\ Len(c) = Len(m) + 1
       /\ \A k \in 1 .. Len(m) + 1 : c[k] = IF k < id + 1 THEN n[k]
                                            ELSE IF k = id + 1 THEN e ELSE n[k - 1]
  BY <1>15, <1>8
<1>11. c[id] = d /\ c[id + 1] = e
  BY <1>1, <1>8, <1>10
<1>12. ASSUME NEW k \in 1 .. id - 1 PROVE c[k] = m[k]
  BY <1>1, <1>8, <1>10
<1>13. ASSUME NEW k \in id + 1 .. Len(m) PROVE c[k + 1] = m[k]
  <2>1. k \in 1 .. Len(m) /\ k + 1 \in 1 .. Len(m) + 1 /\ ~(k + 1 < id + 1) /\ k + 1 # id + 1
        /\ (k + 1) - 1 = k /\ k # id
    BY <1>1
  <2> QED
    BY <1>8, <1>10, <2>1
<1> QED
  BY <1>3, <1>4, <1>10, <1>11, <1>12, <1>13 DEF c

\* One entry goes into the table.
LEMMA Put ==
    ASSUME NEW m \in Seq(Region), NEW id \in 1 .. Len(m) + 1, NEW e \in Region
    PROVE  LET n == memmap_insert(m, id, e) IN
           /\ n \in Seq(Region) /\ Len(n) = Len(m) + 1
           /\ \A k \in 1 .. id - 1 : n[k] = m[k]
           /\ n[id] = e
           /\ \A k \in id .. Len(m) : n[k + 1] = m[k]
<1> DEFINE n == memmap_insert(m, id, e)
<1>1. Len(m) \in Nat
  BY LenProperties
<1>2. /\ n \in Seq(Region) /\ Len(n) = Len(m) + 1
      /\ \A k \in 1 .. Len(m) + 1 : n[k] = IF k < id THEN m[k]
                                          ELSE IF k = id THEN e ELSE m[k - 1]
  BY Inserted
<1> HIDE DEF n
<1>3. ASSUME NEW k \in id .. Len(m) PROVE n[k + 1] = m[k]
  <2>1. k + 1 \in 1 .. Len(m) + 1 /\ ~(k + 1 < id) /\ k + 1 # id /\ (k + 1) - 1 = k
    BY <1>1
  <2> QED
    BY <1>2, <2>1
<1>4. (\A k \in 1 .. id - 1 : n[k] = m[k]) /\ n[id] = e
  BY <1>1, <1>2
<1> QED
  BY <1>2, <1>3, <1>4 DEF n

\* One entry takes the place of the entries f .. l, of none when l = f - 1.
LEMMA Replaced ==
    ASSUME NEW m \in Seq(Region), NEW f \in 1 .. Len(m) + 1, NEW l \in f - 1 .. Len(m),
           NEW e \in Region
    PROVE  LET n == memmap_insert(memmap_remove(m, f, l), f, e) IN
           /\ n \in Seq(Region) /\ Len(n) = f + (Len(m) - l)
           /\ \A k \in 1 .. f - 1 : n[k] = m[k]
           /\ n[f] = e
           /\ \A k \in l + 1 .. Len(m) : n[k + (f - l)] = m[k]
<1> DEFINE c == memmap_remove(m, f, l)
           n == memmap_insert(c, f, e)
<1>1. Len(m) \in Nat
  BY LenProperties
<1>2. /\ c \in Seq(Region) /\ Len(c) = Len(m) - (l - f + 1)
      /\ \A k \in 1 .. Len(m) - (l - f + 1) : c[k] = IF k < f THEN m[k] ELSE m[k + (l - f + 1)]
  BY Removed
<1> HIDE DEF c
<1>3. f \in 1 .. Len(c) + 1
  BY <1>1, <1>2
<1>4. /\ n \in Seq(Region) /\ Len(n) = Len(c) + 1
      /\ \A k \in 1 .. f - 1 : n[k] = c[k]
      /\ n[f] = e
      /\ \A k \in f .. Len(c) : n[k + 1] = c[k]
  BY <1>2, <1>3, Put
<1> HIDE DEF n
<1>5. \A k \in 1 .. f - 1 : n[k] = m[k]
  BY <1>1, <1>2, <1>4
<1>6. ASSUME NEW k \in l + 1 .. Len(m) PROVE n[k + (f - l)] = m[k]
  <2> DEFINE j == k + (f - l) - 1
  <2>1. /\ j \in f .. Len(c) /\ j \in 1 .. Len(m) - (l - f + 1) /\ ~(j < f)
        /\ j + 1 = k + (f - l) /\ j + (l - f + 1) = k
    BY <1>1, <1>2
  <2> HIDE DEF j
  <2>2. n[j + 1] = c[j] /\ c[j] = m[j + (l - f + 1)]
    BY <1>2, <1>4, <2>1
  <2> QED
    BY <2>1, <2>2
<1> QED
  BY <1>1, <1>2, <1>4, <1>5, <1>6 DEF c, n

\* p is the last entry that begins below the region, told by its neighbours.
Low(m, r, p) ==
    /\ p \in 0 .. Len(m)
    /\ p >= 1 => m[p].base < r.base
    /\ p < Len(m) => r.base <= m[p + 1].base

\* q is the first entry that ends above the region, told by its neighbours.
High(m, r, q) ==
    /\ q \in 1 .. Len(m) + 1
    /\ q <= Len(m) => End(r) < End(m[q])
    /\ q >= 2 => End(m[q - 1]) <= End(r)

\* The neighbours of the two ends tell about all entries, as they are sorted.
LEMMA AroundFacts ==
    ASSUME NEW m, NEW r \in Region, NEW p, NEW q, Table(m), Low(m, r, p), High(m, r, q)
    PROVE  Around(m, r, p, q)
<1>1. /\ r.base \in Nat /\ End(r) \in Nat
  BY DEF Region, End
<1>2. p \in 0 .. Len(m) /\ q \in 1 .. Len(m) + 1 /\ Len(m) \in Nat /\ p \in Nat /\ q \in Nat
  BY TableFacts DEF Low, High
<1>3. ASSUME NEW k \in 1 .. Len(m) PROVE k <= p <=> m[k].base < r.base
  <2>0. m[k].base \in Nat /\ End(m[k]) \in Nat /\ m[k].base < End(m[k])
    BY TableFacts
  <2>1. CASE k <= p
    <3>1. p \in 1 .. Len(m) /\ m[p].base < r.base
      BY <1>2, <2>1 DEF Low
    <3>2. m[p].base \in Nat /\ (k < p => End(m[k]) <= m[p].base)
      BY <3>1, TableFacts
    <3>3. m[k].base <= m[p].base
      BY <1>2, <2>0, <2>1, <3>2
    <3> QED
      BY <1>1, <2>0, <2>1, <3>1, <3>2, <3>3
  <2>2. CASE k > p
    <3>1. p + 1 \in 1 .. Len(m) /\ r.base <= m[p + 1].base /\ (p + 1 < k \/ k = p + 1)
      BY <1>2, <2>2 DEF Low
    <3>2. /\ m[p + 1].base \in Nat /\ End(m[p + 1]) \in Nat /\ m[p + 1].base < End(m[p + 1])
          /\ (p + 1 < k => End(m[p + 1]) <= m[k].base)
      BY <3>1, TableFacts
    <3>3. m[p + 1].base <= m[k].base
      BY <2>0, <3>1, <3>2
    <3> QED
      BY <1>1, <1>2, <2>0, <2>2, <3>1, <3>2, <3>3
  <2> QED
    BY <1>2, <2>1, <2>2
<1>4. ASSUME NEW k \in 1 .. Len(m) PROVE q <= k <=> End(r) < End(m[k])
  <2>0. m[k].base \in Nat /\ End(m[k]) \in Nat /\ m[k].base < End(m[k])
    BY TableFacts
  <2>1. CASE q <= k
    <3>1. q \in 1 .. Len(m) /\ End(r) < End(m[q])
      BY <1>2, <2>1 DEF High
    <3>2. End(m[q]) \in Nat /\ (q < k => End(m[q]) <= m[k].base)
      BY <3>1, TableFacts
    <3>3. End(m[q]) <= End(m[k])
      BY <1>2, <2>0, <2>1, <3>2
    <3> QED
      BY <1>1, <2>0, <2>1, <3>1, <3>2, <3>3
  <2>2. CASE q > k
    <3>1. q - 1 \in 1 .. Len(m) /\ End(m[q - 1]) <= End(r) /\ (k < q - 1 \/ k = q - 1)
      BY <1>2, <2>2 DEF High
    <3>2. /\ m[q - 1].base \in Nat /\ End(m[q - 1]) \in Nat /\ m[q - 1].base < End(m[q - 1])
          /\ (k < q - 1 => End(m[k]) <= m[q - 1].base)
      BY <3>1, TableFacts
    <3>3. End(m[k]) <= End(m[q - 1])
      BY <2>0, <3>1, <3>2
    <3> QED
      BY <1>1, <1>2, <2>0, <2>2, <3>1, <3>2, <3>3
  <2> QED
    BY <1>2, <2>1, <2>2
<1> QED
  BY <1>2, <1>3, <1>4 DEF Around
-----------------------------------------------------------------------------
(* The searches of memmap_get_address_info *)

\* The first entry that holds the address.
LEMMA InFacts ==
    ASSUME Table(map), NEW a \in Nat
    PROVE  IF InInfo(a) = 0 THEN \A k \in 1 .. Len(map) : ~Holds(map[k], a)
           ELSE InInfo(a) \in 1 .. Len(map) /\ Holds(map[InInfo(a)], a)
<1> DEFINE S == {k \in DOMAIN map : Holds(map[k], a)}
<1>1. DOMAIN map = 1 .. Len(map) /\ Len(map) \in Nat /\ S \subseteq 1 .. Len(map)
  BY TableFacts
<1>2. IF S = {} THEN FirstOf(S) = 0 ELSE FirstOf(S) \in S /\ \A y \in S : FirstOf(S) <= y
  BY <1>1, FirstFacts
<1>3. InInfo(a) = FirstOf(S)
  BY DEF InInfo
<1> QED
  BY <1>1, <1>2, <1>3

\* The last entry that ends at or below the address.
LEMMA BeforeFacts ==
    ASSUME Table(map), NEW a \in Nat
    PROVE  /\ BeforeInfo(a) \in 0 .. Len(map)
           /\ BeforeInfo(a) # 0 => End(map[BeforeInfo(a)]) <= a
           /\ \A k \in 1 .. Len(map) : End(map[k]) <= a => k <= BeforeInfo(a)
<1> DEFINE S == {k \in DOMAIN map : map[k].base < a /\ End(map[k]) <= a}
<1>1. DOMAIN map = 1 .. Len(map) /\ Len(map) \in Nat /\ S \subseteq 1 .. Len(map)
  BY TableFacts
<1>2. IF S = {} THEN LastOf(S) = 0 ELSE LastOf(S) \in S /\ \A y \in S : y <= LastOf(S)
  BY <1>1, LastFacts
<1>3. BeforeInfo(a) = LastOf(S)
  BY DEF BeforeInfo
<1>4. \A k \in 1 .. Len(map) : End(map[k]) <= a => k \in S
  BY <1>1, TableFacts
<1> QED
  BY <1>1, <1>2, <1>3, <1>4

\* The first entry that begins above the address.
LEMMA AfterFacts ==
    ASSUME Table(map), NEW a \in Nat
    PROVE  IF AfterInfo(a) = 0 THEN \A k \in 1 .. Len(map) : map[k].base <= a
           ELSE /\ AfterInfo(a) \in 1 .. Len(map) /\ a < map[AfterInfo(a)].base
                /\ \A k \in 1 .. Len(map) : a < map[k].base => AfterInfo(a) <= k
<1> DEFINE S == {k \in DOMAIN map : a < map[k].base}
<1>1. DOMAIN map = 1 .. Len(map) /\ Len(map) \in Nat /\ S \subseteq 1 .. Len(map)
  BY TableFacts
<1>2. IF S = {} THEN FirstOf(S) = 0 ELSE FirstOf(S) \in S /\ \A y \in S : FirstOf(S) <= y
  BY <1>1, FirstFacts
<1>3. AfterInfo(a) = FirstOf(S)
  BY DEF AfterInfo
<1>4. \A k \in 1 .. Len(map) : ~(a < map[k].base) => map[k].base <= a
  BY TableFacts
<1> QED
  BY <1>1, <1>2, <1>3, <1>4

\* What is known of a region.
LEMMA RegionFacts ==
    ASSUME NEW r \in Region
    PROVE  /\ r.base \in Nat /\ r.size \in Nat /\ End(r) \in Nat /\ LastByte(r) \in Nat
           /\ r.base < End(r) /\ LastByte(r) = End(r) - 1
           /\ End(r) = r.base + r.size /\ End(r) <= Top
BY TopAssumption DEF Region, End, LastByte

\* What lies around the lower end of a region that begins in an entry ...
LEMMA LowWithin ==
    ASSUME Table(map), NEW r \in Region, bin(r) # 0
    PROVE  LET b == bin(r) IN
           /\ b \in 1 .. Len(map)
           /\ map[b].base <= r.base /\ r.base < End(map[b])
           /\ map[b].base = r.base => /\ Low(map, r, b - 1)
                                      /\ b - 1 >= 1 => End(map[b - 1]) <= r.base
           /\ map[b].base # r.base => Low(map, r, b)
<1> DEFINE b == bin(r)
<1>1. r.base \in Nat
  BY RegionFacts
<1>2. b \in 1 .. Len(map) /\ Holds(map[b], r.base)
  BY <1>1, InFacts DEF bin
<1> HIDE DEF b
<1>3. Len(map) \in Nat /\ map[b].base \in Nat /\ End(map[b]) \in Nat
  BY <1>2, TableFacts
<1>4. map[b].base <= r.base /\ r.base < End(map[b])
  BY <1>2 DEF Holds
<1>5. ASSUME b < Len(map) PROVE r.base <= map[b + 1].base
  <2>1. b + 1 \in 1 .. Len(map) /\ b < b + 1
    BY <1>2, <1>3, <1>5
  <2>2. End(map[b]) <= map[b + 1].base /\ map[b + 1].base \in Nat
    BY <1>2, <2>1, TableFacts
  <2> QED
    BY <1>1, <1>3, <1>4, <2>2
<1>6. ASSUME b - 1 >= 1 PROVE map[b - 1].base < r.base /\ End(map[b - 1]) <= r.base
  <2>1. b - 1 \in 1 .. Len(map) /\ b - 1 < b
    BY <1>2, <1>3, <1>6
  <2>2. /\ End(map[b - 1]) <= map[b].base /\ map[b - 1].base \in Nat
        /\ map[b - 1].base < End(map[b - 1]) /\ End(map[b - 1]) \in Nat
    BY <1>2, <2>1, TableFacts
  <2> QED
    BY <1>1, <1>3, <1>4, <2>2
<1>7. ASSUME map[b].base = r.base
      PROVE  Low(map, r, b - 1) /\ (b - 1 >= 1 => End(map[b - 1]) <= r.base)
  <2>1. b - 1 \in 0 .. Len(map) /\ (b - 1) + 1 = b
    BY <1>2, <1>3
  <2> QED
    BY <1>4, <1>6, <1>7, <2>1 DEF Low
<1>8. ASSUME map[b].base # r.base PROVE Low(map, r, b)
  <2>1. b \in 0 .. Len(map) /\ map[b].base < r.base
    BY <1>1, <1>2, <1>3, <1>4, <1>8
  <2> QED
    BY <1>5, <2>1 DEF Low
<1> QED
  BY <1>2, <1>4, <1>7, <1>8 DEF b

\* ... or outside of all.
LEMMA LowOutside ==
    ASSUME Table(map), NEW r \in Region, bin(r) = 0
    PROVE  LET p == IF bafter(r) = 0 THEN Len(map) ELSE bafter(r) - 1 IN
           /\ bafter(r) \in 0 .. Len(map)
           /\ Low(map, r, p)
           /\ p >= 1 => End(map[p]) <= r.base
<1> DEFINE ba == bafter(r)
           p == IF ba = 0 THEN Len(map) ELSE ba - 1
<1>1. r.base \in Nat /\ Len(map) \in Nat
  BY RegionFacts, TableFacts
<1>2. \A k \in 1 .. Len(map) : ~Holds(map[k], r.base)
  BY <1>1, InFacts DEF bin
<1>3. IF ba = 0 THEN \A k \in 1 .. Len(map) : map[k].base <= r.base
      ELSE /\ ba \in 1 .. Len(map) /\ r.base < map[ba].base
           /\ \A k \in 1 .. Len(map) : r.base < map[k].base => ba <= k
  BY <1>1, AfterFacts DEF bafter
<1> HIDE DEF ba
<1>4. p \in 0 .. Len(map) /\ ba \in 0 .. Len(map)
  BY <1>1, <1>3
<1>5. ASSUME p >= 1 PROVE map[p].base < r.base /\ End(map[p]) <= r.base
  <2>1. p \in 1 .. Len(map)
    BY <1>4, <1>5
  <2>2. map[p].base \in Nat /\ End(map[p]) \in Nat /\ map[p].base < End(map[p])
    BY <2>1, TableFacts
  <2>3. map[p].base <= r.base
    <3>1. CASE ba = 0
      BY <1>3, <2>1, <3>1
    <3>2. CASE ba # 0
      <4>1. ~(ba <= p)
        BY <1>3, <1>4, <3>2
      <4> HIDE DEF p
      <4> QED
        BY <1>1, <1>3, <2>1, <2>2, <3>2, <4>1
    <3> QED
      BY <3>1, <3>2
  <2>4. ~Holds(map[p], r.base)
    BY <1>2, <2>1
  <2> HIDE DEF p
  <2> QED
    BY <1>1, <2>2, <2>3, <2>4 DEF Holds
<1>6. ASSUME p < Len(map) PROVE r.base <= map[p + 1].base
  <2>1. ba # 0 /\ p + 1 = ba
    BY <1>1, <1>3, <1>6
  <2>2. r.base < map[ba].base /\ map[ba].base \in Nat
    BY <1>3, <2>1, TableFacts
  <2> HIDE DEF p
  <2> QED
    BY <1>1, <2>1, <2>2
<1>7. Low(map, r, p)
  <2> HIDE DEF p
  <2> QED
    BY <1>4, <1>5, <1>6 DEF Low
<1> QED
  BY <1>4, <1>5, <1>7 DEF ba

\* What lies around the upper end of a region that ends in an entry ...
LEMMA HighWithin ==
    ASSUME Table(map), NEW r \in Region, tin(r) # 0
    PROVE  LET t == tin(r) IN
           /\ t \in 1 .. Len(map)
           /\ map[t].base < End(r) /\ End(r) <= End(map[t])
           /\ End(map[t]) = End(r) => /\ High(map, r, t + 1)
                                      /\ t + 1 <= Len(map) => End(r) <= map[t + 1].base
           /\ End(map[t]) # End(r) => High(map, r, t)
<1> DEFINE t == tin(r)
<1>1. End(r) \in Nat /\ LastByte(r) \in Nat /\ LastByte(r) = End(r) - 1
  BY RegionFacts
<1>2. t \in 1 .. Len(map) /\ Holds(map[t], LastByte(r))
  BY <1>1, InFacts DEF tin
<1> HIDE DEF t
<1>3. /\ Len(map) \in Nat /\ map[t].base \in Nat /\ End(map[t]) \in Nat
      /\ map[t].base < End(map[t])
  BY <1>2, TableFacts
<1>4. map[t].base < End(r) /\ End(r) <= End(map[t])
  BY <1>1, <1>2, <1>3 DEF Holds
<1>5. ASSUME t + 1 <= Len(map) PROVE End(r) <= map[t + 1].base /\ map[t + 1].base < End(map[t + 1])
                                     /\ map[t + 1].base \in Nat /\ End(map[t + 1]) \in Nat
                                     /\ End(map[t]) <= map[t + 1].base
  <2>1. t + 1 \in 1 .. Len(map) /\ t < t + 1
    BY <1>2, <1>3, <1>5
  <2>2. End(map[t]) <= map[t + 1].base /\ map[t + 1].base \in Nat
        /\ map[t + 1].base < End(map[t + 1]) /\ End(map[t + 1]) \in Nat
    BY <1>2, <2>1, TableFacts
  <2> QED
    BY <1>1, <1>3, <1>4, <2>2
<1>6. ASSUME t >= 2 PROVE End(map[t - 1]) <= End(r)
  <2>1. t - 1 \in 1 .. Len(map) /\ t - 1 < t
    BY <1>2, <1>3, <1>6
  <2>2. End(map[t - 1]) <= map[t].base /\ End(map[t - 1]) \in Nat
    BY <1>2, <2>1, TableFacts
  <2> QED
    BY <1>1, <1>3, <1>4, <2>2
<1>7. ASSUME End(map[t]) = End(r)
      PROVE  High(map, r, t + 1) /\ (t + 1 <= Len(map) => End(r) <= map[t + 1].base)
  <2>1. t + 1 \in 1 .. Len(map) + 1 /\ (t + 1) - 1 = t
    BY <1>2, <1>3
  <2>2. t + 1 <= Len(map) => End(r) < End(map[t + 1]) /\ End(r) <= map[t + 1].base
    BY <1>1, <1>5
  <2>3. End(map[t]) <= End(r)
    BY <1>1, <1>7
  <2> QED
    BY <2>1, <2>2, <2>3 DEF High
<1>8. ASSUME End(map[t]) # End(r) PROVE High(map, r, t)
  <2>1. t \in 1 .. Len(map) + 1 /\ End(r) < End(map[t])
    BY <1>1, <1>2, <1>3, <1>4, <1>8
  <2> QED
    BY <1>6, <2>1 DEF High
<1> QED
  BY <1>2, <1>4, <1>7, <1>8 DEF t

\* ... or outside of all.
LEMMA HighOutside ==
    ASSUME Table(map), NEW r \in Region, tin(r) = 0
    PROVE  LET q == tbefore(r) + 1 IN
           /\ tbefore(r) \in 0 .. Len(map)
           /\ High(map, r, q)
           /\ q <= Len(map) => End(r) <= map[q].base
<1> DEFINE tb == tbefore(r)
<1>1. /\ End(r) \in Nat /\ LastByte(r) \in Nat /\ LastByte(r) = End(r) - 1
      /\ Len(map) \in Nat
  BY RegionFacts, TableFacts
<1>2. \A k \in 1 .. Len(map) : ~Holds(map[k], LastByte(r))
  BY <1>1, InFacts DEF tin
<1>3. /\ tb \in 0 .. Len(map)
      /\ tb # 0 => End(map[tb]) <= LastByte(r)
      /\ \A k \in 1 .. Len(map) : End(map[k]) <= LastByte(r) => k <= tb
  BY <1>1, BeforeFacts DEF tbefore
<1> HIDE DEF tb
<1>4. ASSUME tb + 1 <= Len(map)
      PROVE  End(r) <= map[tb + 1].base /\ End(r) < End(map[tb + 1])
  <2>1. tb + 1 \in 1 .. Len(map) /\ ~(tb + 1 <= tb)
    BY <1>1, <1>3, <1>4
  <2>2. map[tb + 1].base \in Nat /\ End(map[tb + 1]) \in Nat /\ map[tb + 1].base < End(map[tb + 1])
    BY <2>1, TableFacts
  <2>3. ~(End(map[tb + 1]) <= LastByte(r)) /\ ~Holds(map[tb + 1], LastByte(r))
    BY <1>2, <1>3, <2>1
  <2> QED
    BY <1>1, <2>2, <2>3 DEF Holds
<1>5. ASSUME tb + 1 >= 2 PROVE End(map[tb]) <= End(r)
  <2>1. tb \in 1 .. Len(map) /\ End(map[tb]) <= LastByte(r)
    BY <1>3, <1>5
  <2>2. End(map[tb]) \in Nat
    BY <2>1, TableFacts
  <2> QED
    BY <1>1, <2>1, <2>2
<1>6. High(map, r, tb + 1)
  <2>1. tb + 1 \in 1 .. Len(map) + 1 /\ (tb + 1) - 1 = tb
    BY <1>1, <1>3
  <2> QED
    BY <1>4, <1>5, <2>1 DEF High
<1> QED
  BY <1>3, <1>4, <1>6 DEF tb

\* The table n has the entries of m below the region r, which is its entry f ...
LowLaid(m, n, r, f) ==
    /\ Low(m, r, f - 1)
    /\ \A k \in 1 .. f - 2 : n[k] = m[k]
    /\ f >= 2 => Lower(n[f - 1], m[f - 1], r)

\* ... and those above it, from q on.
HighLaid(m, n, r, f, q) ==
    /\ High(m, r, q)
    /\ \A k \in q + 1 .. Len(m) : n[k + (f + 1 - q)] = m[k]
    /\ q <= Len(m) => Upper(n[f + 1], m[q], r)

\* A table with both parts in place is a spliced one.
LEMMA Laid ==
    ASSUME NEW m, NEW n \in Seq(Region), NEW r \in Region, NEW f \in Nat, NEW q, Table(m),
           LowLaid(m, n, r, f), HighLaid(m, n, r, f, q),
           Len(n) = f + (Len(m) + 1 - q), n[f] = r
    PROVE  Defined(m, n, r)
<1> DEFINE p == f - 1
<1>1. q \in Nat /\ Len(m) \in Nat
  BY TableFacts DEF HighLaid, High
<1>2. p + 1 = f /\ p - 1 = f - 2 /\ p + 2 = f + 1 /\ p + 2 - q = f + 1 - q /\ (p >= 1 <=> f >= 2)
  BY <1>1
<1>3. Around(m, r, p, q)
  BY AroundFacts DEF LowLaid, HighLaid
<1> HIDE DEF p
<1>4. /\ Len(n) = p + 1 + (Len(m) + 1 - q) /\ n[p + 1] = r
      /\ \A k \in 1 .. p - 1 : n[k] = m[k]
      /\ \A k \in q + 1 .. Len(m) : n[k + (p + 2 - q)] = m[k]
      /\ q <= Len(m) => Upper(n[p + 2], m[q], r)
  BY <1>2 DEF LowLaid, HighLaid
<1>5. p >= 1 => Lower(n[p], m[p], r)
  BY <1>2 DEF LowLaid, p
<1> QED
  BY <1>3, <1>4, <1>5, SpliceEnds

\* An entry that lies outside of the region stays as it is.
LEMMA Whole ==
    ASSUME NEW m, Table(m), NEW k \in 1 .. Len(m), NEW r \in Region
    PROVE  /\ End(m[k]) <= r.base => Lower(m[k], m[k], r)
           /\ End(r) <= m[k].base => Upper(m[k], m[k], r)
BY DEF Lower, Upper

\* The region begins where no entry is, or where one begins ...
LEMMA LowWhole ==
    ASSUME NEW m, NEW n, NEW r \in Region, NEW f \in Nat, Table(m), Low(m, r, f - 1),
           f - 1 >= 1 => End(m[f - 1]) <= r.base,
           \A k \in 1 .. f - 1 : n[k] = m[k]
    PROVE  LowLaid(m, n, r, f)
<1>1. f - 1 \in 0 .. Len(m) /\ Len(m) \in Nat
  BY TableFacts DEF Low
<1>2. \A k \in 1 .. f - 2 : n[k] = m[k]
  BY <1>1
<1>3. ASSUME f >= 2 PROVE Lower(n[f - 1], m[f - 1], r)
  <2>1. f - 1 \in 1 .. f - 1 /\ f - 1 \in 1 .. Len(m) /\ f - 1 >= 1
    BY <1>1, <1>3
  <2> QED
    BY <2>1, Whole
<1> QED
  BY <1>2, <1>3 DEF LowLaid

\* ... or inside an entry, which is cut.
LEMMA LowCut ==
    ASSUME NEW m, NEW n, NEW r \in Region, NEW b \in 1 .. Len(m), Table(m), Low(m, r, b),
           r.base < End(m[b]),
           \A k \in 1 .. b - 1 : n[k] = m[k],
           n[b].base = m[b].base, n[b].type = m[b].type, End(n[b]) = r.base
    PROVE  LowLaid(m, n, r, b + 1)
<1>1. b \in Nat /\ Len(m) \in Nat /\ End(m[b]) \in Nat /\ r.base \in Nat
  BY TableFacts, RegionFacts
<1>2. (b + 1) - 1 = b /\ (b + 1) - 2 = b - 1
  BY <1>1
<1>3. Lower(n[b], m[b], r)
  BY <1>1 DEF Lower
<1> QED
  BY <1>2, <1>3 DEF LowLaid

\* The same at the upper end: it is where no entry is, or where one ends ...
LEMMA HighWhole ==
    ASSUME NEW m, NEW n, NEW r \in Region, NEW f \in Nat, NEW q, Table(m), High(m, r, q),
           q <= Len(m) => End(r) <= m[q].base,
           \A k \in q .. Len(m) : n[k + (f + 1 - q)] = m[k]
    PROVE  HighLaid(m, n, r, f, q)
<1>1. q \in 1 .. Len(m) + 1 /\ Len(m) \in Nat
  BY TableFacts DEF High
<1>2. ASSUME NEW k \in q + 1 .. Len(m) PROVE n[k + (f + 1 - q)] = m[k]
  <2>1. k \in q .. Len(m)
    BY <1>1
  <2> QED
    BY <2>1
<1>3. ASSUME q <= Len(m) PROVE Upper(n[f + 1], m[q], r)
  <2>1. q \in q .. Len(m) /\ q \in 1 .. Len(m) /\ q + (f + 1 - q) = f + 1
    BY <1>1, <1>3
  <2>2. n[f + 1] = m[q]
    BY <2>1
  <2> QED
    BY <1>3, <2>1, <2>2, Whole
<1> QED
  BY <1>2, <1>3 DEF HighLaid

\* ... or inside an entry, which is cut.
LEMMA HighCut ==
    ASSUME NEW m, NEW n, NEW r \in Region, NEW f \in Nat, NEW t \in 1 .. Len(m), Table(m),
           High(m, r, t), m[t].base < End(r),
           \A k \in t + 1 .. Len(m) : n[k + (f + 1 - t)] = m[k],
           n[f + 1].base = End(r), n[f + 1].type = m[t].type, End(n[f + 1]) = End(m[t])
    PROVE  HighLaid(m, n, r, f, t)
<1>1. m[t].base \in Nat /\ End(r) \in Nat
  BY TableFacts, RegionFacts
<1>2. Upper(n[f + 1], m[t], r)
  BY <1>1 DEF Upper
<1> QED
  BY <1>2 DEF HighLaid
-----------------------------------------------------------------------------
(* The cases of memmap_define *)

\* The first region of all.
LEMMA FirstDefines ==
    ASSUME Table(map), NEW r \in Region, DefineFirst(r)
    PROVE  Defined(map, map', r)
<1> DEFINE n == memmap_insert(map, 1, r)
<1>1. map = <<>> /\ map' = n
  BY DEF DefineFirst
<1>2. 1 \in 1 .. Len(map) + 1 /\ Len(map) = 0
  BY <1>1
<1>8. 1 \in 1 .. Len(map) + 1
  BY <1>2
<1>3. map \in Seq(Region)
  BY DEF Table
<1>4. n \in Seq(Region) /\ Len(n) = Len(map) + 1 /\ n[1] = r
  BY <1>3, <1>8, Put
<1> DEFINE f == 1
           q == 1
<1>5. Low(map, r, f - 1) /\ High(map, r, q)
  BY <1>2 DEF Low, High
<1>6. /\ Len(n) = f + (Len(map) + 1 - q) /\ n[f] = r /\ f \in Nat
      /\ ~(f - 1 >= 1) /\ ~(q <= Len(map))
      /\ \A k \in 1 .. f - 1 : n[k] = map[k]
      /\ \A k \in q .. Len(map) : n[k + (f + 1 - q)] = map[k]
  BY <1>2, <1>4
<1> HIDE DEF n, f, q
<1>7. LowLaid(map, n, r, f) /\ HighLaid(map, n, r, f, q)
  BY <1>5, <1>6, LowWhole, HighWhole
<1> QED
  BY <1>1, <1>4, <1>6, <1>7, Laid

\* Both ends outside of all entries, with some in between.
LEMMA OverDefines ==
    ASSUME Table(map), NEW r \in Region, DefineOver(r)
    PROVE  Defined(map, map', r)
<1> DEFINE f == bafter(r)
           l == tbefore(r)
           q == l + 1
           n == memmap_insert(memmap_remove(map, f, l), f, r)
<1>1. bin(r) = 0 /\ tin(r) = 0 /\ f # 0 /\ l # 0 /\ l >= f /\ map' = n
  BY DEF DefineOver
<1>2. map \in Seq(Region) /\ Len(map) \in Nat
  BY TableFacts DEF Table
<1>3. /\ f \in 0 .. Len(map) /\ Low(map, r, f - 1)
      /\ f - 1 >= 1 => End(map[f - 1]) <= r.base
  BY <1>1, LowOutside
<1>4. /\ l \in 0 .. Len(map) /\ High(map, r, q)
      /\ q <= Len(map) => End(r) <= map[q].base
  BY <1>1, HighOutside
<1> HIDE DEF f, l
<1>5. f \in 1 .. Len(map) + 1 /\ l \in f - 1 .. Len(map) /\ f \in Nat /\ l \in Nat
  BY <1>1, <1>2, <1>3, <1>4
<1>6. /\ n \in Seq(Region) /\ Len(n) = f + (Len(map) - l)
      /\ \A k \in 1 .. f - 1 : n[k] = map[k]
      /\ n[f] = r
      /\ \A k \in l + 1 .. Len(map) : n[k + (f - l)] = map[k]
  BY ZenonT(40), <1>2, <1>5, Replaced
<1>7. q = l + 1 /\ f - l = f + 1 - q /\ Len(n) = f + (Len(map) + 1 - q)
  BY <1>2, <1>5, <1>6
<1> HIDE DEF n, q
<1>8. \A k \in q .. Len(map) : n[k + (f + 1 - q)] = map[k]
  BY <1>6, <1>7
<1>9. LowLaid(map, n, r, f) /\ HighLaid(map, n, r, f, q)
  BY <1>3, <1>4, <1>5, <1>6, <1>8, LowWhole, HighWhole
<1> QED
  BY <1>1, <1>5, <1>6, <1>7, <1>9, Laid

\* Both ends in one gap: the place is found from either side.
LEMMA InGapDefines ==
    ASSUME Table(map), NEW r \in Region, DefineInGap(r)
    PROVE  Defined(map, map', r)
<1> DEFINE ba == bafter(r)
           tb == tbefore(r)
           pos == IF ba # 0 THEN ba ELSE bbefore(r) + 1
           n == memmap_insert(map, pos, r)
<1>1. bin(r) = 0 /\ tin(r) = 0 /\ (ba = 0 \/ tb = 0 \/ tb < ba) /\ map' = n
  BY DEF DefineInGap
<1>2. /\ map \in Seq(Region) /\ Len(map) \in Nat
      /\ r.base \in Nat /\ LastByte(r) \in Nat /\ r.base <= LastByte(r)
  BY TableFacts, RegionFacts DEF Table
<1> DEFINE o == IF ba = 0 THEN Len(map) ELSE ba - 1
<1>3. /\ ba \in 0 .. Len(map) /\ Low(map, r, o)
      /\ o >= 1 => End(map[o]) <= r.base
  BY <1>1, LowOutside
<1>4. /\ tb \in 0 .. Len(map) /\ High(map, r, tb + 1)
      /\ tb + 1 <= Len(map) => End(r) <= map[tb + 1].base
  BY <1>1, HighOutside
<1>5. /\ bbefore(r) \in 0 .. Len(map)
      /\ \A k \in 1 .. Len(map) : End(map[k]) <= r.base => k <= bbefore(r)
  BY <1>2, BeforeFacts DEF bbefore
<1>6. \A k \in 1 .. Len(map) : End(map[k]) <= LastByte(r) => k <= tb
  BY <1>2, BeforeFacts DEF tbefore
<1> HIDE DEF ba, tb
<1>7. o >= 1 => o \in 1 .. Len(map) /\ o <= bbefore(r) /\ o <= tb
  <2> SUFFICES ASSUME o >= 1 PROVE o \in 1 .. Len(map) /\ o <= bbefore(r) /\ o <= tb
    OBVIOUS
  <2>1. o \in 1 .. Len(map)
    BY <1>2, <1>3
  <2> HIDE DEF o
  <2>2. End(map[o]) <= r.base /\ End(map[o]) \in Nat
    BY <1>3, <2>1, TableFacts
  <2>3. End(map[o]) <= LastByte(r)
    BY <1>2, <2>2
  <2> QED
    BY <1>5, <1>6, <2>1, <2>2, <2>3
<1>8. pos - 1 = o /\ pos = tb + 1 /\ pos \in 1 .. Len(map) + 1
  <2>1. CASE ba = 0
    BY <1>2, <1>3, <1>4, <1>5, <1>7, <2>1
  <2>2. CASE ba # 0
    BY <1>1, <1>2, <1>3, <1>4, <1>7, <2>2
  <2> QED
    BY <2>1, <2>2
<1>9. /\ Low(map, r, pos - 1) /\ High(map, r, pos)
      /\ pos - 1 >= 1 => End(map[pos - 1]) <= r.base
      /\ pos <= Len(map) => End(r) <= map[pos].base
      /\ pos \in 1 .. Len(map) + 1
  <2> HIDE DEF o, pos
  <2> QED
    BY <1>3, <1>4, <1>8
<1> HIDE DEF o, pos
<1>10. /\ n \in Seq(Region) /\ Len(n) = Len(map) + 1
       /\ \A k \in 1 .. pos - 1 : n[k] = map[k]
       /\ n[pos] = r
       /\ \A k \in pos .. Len(map) : n[k + 1] = map[k]
  BY <1>2, <1>9, Put
<1>11. pos + 1 - pos = 1 /\ Len(n) = pos + (Len(map) + 1 - pos) /\ pos \in Nat
  BY <1>2, <1>9, <1>10
<1> HIDE DEF n
<1>12. \A k \in pos .. Len(map) : n[k + (pos + 1 - pos)] = map[k]
  BY <1>10, <1>11
<1>13. LowLaid(map, n, r, pos) /\ HighLaid(map, n, r, pos, pos)
  BY <1>9, <1>10, <1>11, <1>12, LowWhole, HighWhole
<1> QED
  BY <1>1, <1>10, <1>11, <1>13, Laid

\* Both ends in one entry.
LEMMA WithinDefines ==
    ASSUME Table(map), NEW r \in Region, DefineWithin(r)
    PROVE  Defined(map, map', r)
<1> DEFINE id == bin(r)
           e == map[id]
<1>1. id # 0 /\ tin(r) = id
  BY DEF DefineWithin
<1>2. /\ map \in Seq(Region) /\ Len(map) \in Nat
      /\ r.base \in Nat /\ r.size \in Nat /\ End(r) \in Nat
      /\ r.base < End(r) /\ End(r) = r.base + r.size
  BY TableFacts, RegionFacts DEF Table
<1>3. /\ id \in 1 .. Len(map)
      /\ e.base <= r.base /\ r.base < End(e)
      /\ e.base = r.base => /\ Low(map, r, id - 1)
                            /\ id - 1 >= 1 => End(map[id - 1]) <= r.base
      /\ e.base # r.base => Low(map, r, id)
  BY <1>1, LowWithin
<1>4. /\ e.base < End(r) /\ End(r) <= End(e)
      /\ End(e) = End(r) => /\ High(map, r, id + 1)
                            /\ id + 1 <= Len(map) => End(r) <= map[id + 1].base
      /\ End(e) # End(r) => High(map, r, id)
  BY <1>1, HighWithin
<1>5. \/ e.base = r.base /\ e.size = r.size
         /\ map' = [map EXCEPT ![id] = [base |-> @.base, size |-> @.size, type |-> r.type]]
      \/ e.base # r.base /\ End(e) = End(r)
         /\ map' = memmap_insert(memmap_cut_top(map, id, r.size), id + 1, r)
      \/ e.base = r.base /\ End(e) # End(r)
         /\ map' = memmap_insert(memmap_cut_bottom(map, id, r.size), id, r)
      \/ e.base # r.base /\ End(e) # End(r)
         /\ map' = memmap_insert(memmap_split(map, id, r.base - e.base, r.size), id + 1, r)
  BY DEF DefineWithin
<1> HIDE DEF id
<1>6. /\ e.base \in Nat /\ e.size \in Nat /\ End(e) \in Nat /\ End(e) = e.base + e.size
      /\ id \in Nat
  BY <1>3, TableFacts
<1> HIDE DEF e
<1>7. CASE e.base = r.base /\ e.size = r.size
           /\ map' = [map EXCEPT ![id] = [base |-> @.base, size |-> @.size, type |-> r.type]]
  <2> DEFINE n == [map EXCEPT ![id] = r]
             q == id + 1
  <2>1. r = [base |-> r.base, size |-> r.size, type |-> r.type]
    BY DEF Region
  <2>2. map' = [map EXCEPT ![id] = [base |-> e.base, size |-> e.size, type |-> r.type]]
    BY <1>3, <1>7 DEF e
  <2>3. map' = n
    BY <1>7, <2>1, <2>2
  <2>4. n \in Seq(Region) /\ Len(n) = Len(map) /\ \A k \in 1 .. Len(map) : n[k] = IF k = id THEN r ELSE map[k]
    BY <1>2, <1>3, ExceptSeq
  <2> HIDE DEF n
  <2>5. End(e) = End(r)
    BY <1>2, <1>6, <1>7
  <2>6. Low(map, r, id - 1) /\ High(map, r, q)
    BY <1>3, <1>4, <1>7, <2>5
  <2>7. /\ Len(n) = id + (Len(map) + 1 - q) /\ n[id] = r
        /\ \A k \in 1 .. id - 1 : n[k] = map[k]
        /\ \A k \in q .. Len(map) : n[k + (id + 1 - q)] = map[k]
    BY <1>2, <1>3, <1>6, <2>4
  <2>8. q <= Len(map) => End(r) <= map[q].base
    BY <1>4, <2>5
  <2> HIDE DEF q
  <2>9. LowLaid(map, n, r, id) /\ HighLaid(map, n, r, id, q)
    BY <1>3, <1>6, <1>7, <2>6, <2>7, <2>8, LowWhole, HighWhole
  <2> QED
    BY <1>6, <2>3, <2>4, <2>7, <2>9, Laid
<1>8. CASE e.base # r.base /\ End(e) = End(r)
           /\ map' = memmap_insert(memmap_cut_top(map, id, r.size), id + 1, r)
  <2> DEFINE c == memmap_cut_top(map, id, r.size)
             f == id + 1
             n == memmap_insert(c, f, r)
  <2>1. r.size < e.size /\ End(e) - r.size = r.base
    BY <1>2, <1>3, <1>6, <1>8
  <2>2. /\ c \in Seq(Region) /\ Len(c) = Len(map)
        /\ \A k \in 1 .. Len(map) : k # id => c[k] = map[k]
        /\ c[id].base = e.base /\ End(c[id]) = r.base /\ c[id].type = e.type
    BY <1>2, <1>3, <2>1, CutTop DEF e
  <2> HIDE DEF c
  <2>3. f \in 1 .. Len(c) + 1
    BY <1>2, <1>3, <2>2
  <2>4. /\ n \in Seq(Region) /\ Len(n) = Len(c) + 1
        /\ \A k \in 1 .. f - 1 : n[k] = c[k]
        /\ n[f] = r
        /\ \A k \in f .. Len(c) : n[k + 1] = c[k]
    BY <2>2, <2>3, Put
  <2> HIDE DEF n
  <2>5. /\ \A k \in 1 .. id - 1 : n[k] = map[k]
        /\ n[id].base = e.base /\ End(n[id]) = r.base /\ n[id].type = e.type
        /\ Len(n) = f + (Len(map) + 1 - f) /\ f \in Nat
    BY <1>2, <1>3, <1>6, <2>2, <2>4
  <2>6. \A k \in f .. Len(map) : n[k + (f + 1 - f)] = map[k]
    <3>1. f + 1 - f = 1 /\ \A k \in f .. Len(map) : k \in 1 .. Len(map) /\ k # id
      BY <1>2, <1>3, <1>6
    <3> HIDE DEF f
    <3> QED
      BY <2>2, <2>4, <3>1
  <2>7. LowLaid(map, n, r, f)
    BY <1>3, <1>8, <2>5, LowCut DEF e
  <2>8. HighLaid(map, n, r, f, f)
    BY <1>4, <1>8, <2>5, <2>6, HighWhole
  <2> HIDE DEF f
  <2> QED
    BY <1>8, <2>4, <2>5, <2>7, <2>8, Laid DEF n, c, f
<1>9. CASE e.base = r.base /\ End(e) # End(r)
           /\ map' = memmap_insert(memmap_cut_bottom(map, id, r.size), id, r)
  <2> DEFINE c == memmap_cut_bottom(map, id, r.size)
             n == memmap_insert(c, id, r)
  <2>1. r.size < e.size /\ e.base + r.size = End(r)
    BY <1>2, <1>4, <1>6, <1>9
  <2>2. /\ c \in Seq(Region) /\ Len(c) = Len(map)
        /\ \A k \in 1 .. Len(map) : k # id => c[k] = map[k]
        /\ c[id].base = End(r) /\ End(c[id]) = End(e) /\ c[id].type = e.type
    BY <1>2, <1>3, <2>1, CutBottom DEF e
  <2> HIDE DEF c
  <2>3. id \in 1 .. Len(c) + 1
    BY <1>2, <1>3, <2>2
  <2>4. /\ n \in Seq(Region) /\ Len(n) = Len(c) + 1
        /\ \A k \in 1 .. id - 1 : n[k] = c[k]
        /\ n[id] = r
        /\ \A k \in id .. Len(c) : n[k + 1] = c[k]
    BY <2>2, <2>3, Put
  <2> HIDE DEF n
  <2>5. /\ \A k \in 1 .. id - 1 : n[k] = map[k]
        /\ n[id + 1] = c[id]
        /\ Len(n) = id + (Len(map) + 1 - id)
        /\ id + 1 - id = 1
    BY <1>2, <1>3, <1>6, <2>2, <2>4
  <2>6. \A k \in id + 1 .. Len(map) : n[k + (id + 1 - id)] = map[k]
    BY <1>2, <1>3, <1>6, <2>2, <2>4, <2>5
  <2>7. LowLaid(map, n, r, id)
    BY <1>3, <1>6, <1>9, <2>5, LowWhole
  <2>8. HighLaid(map, n, r, id, id)
    BY <1>3, <1>4, <1>6, <1>9, <2>2, <2>5, <2>6, HighCut DEF e
  <2> QED
    BY <1>6, <1>9, <2>4, <2>5, <2>7, <2>8, Laid DEF n, c
<1>10. CASE e.base # r.base /\ End(e) # End(r)
            /\ map' = memmap_insert(memmap_split(map, id, r.base - e.base, r.size), id + 1, r)
  <2> DEFINE o == r.base - e.base
             c == memmap_split(map, id, o, r.size)
             f == id + 1
             n == memmap_insert(c, f, r)
  <2>1. /\ o \in Nat \ {0} /\ o + r.size < e.size
        /\ e.base + o = r.base /\ e.base + o + r.size = End(r)
    BY SMTT(30), <1>2, <1>3, <1>4, <1>6, <1>10
  <2>9. map' = n
    BY <1>10
  <2> HIDE DEF o
  <2>10. /\ c \in Seq(Region) /\ Len(c) = Len(map) + 1
         /\ \A k \in 1 .. id - 1 : c[k] = map[k]
         /\ \A k \in id + 1 .. Len(map) : c[k + 1] = map[k]
         /\ c[id].base = e.base /\ End(c[id]) = e.base + o /\ c[id].type = e.type
         /\ c[f].base = e.base + o + r.size /\ End(c[f]) = End(e) /\ c[f].type = e.type
    <3>1. /\ map \in Seq(Region) /\ id \in 1 .. Len(map) /\ o \in Nat \ {0} /\ r.size \in Nat
          /\ o + r.size < map[id].size
      BY <1>2, <1>3, <2>1 DEF e
    <3> DEFINE w == memmap_split(map, id, o, r.size)
    <3>2. /\ w \in Seq(Region) /\ Len(w) = Len(map) + 1
          /\ \A k \in 1 .. id - 1 : w[k] = map[k]
          /\ \A k \in id + 1 .. Len(map) : w[k + 1] = map[k]
          /\ w[id].base = map[id].base /\ End(w[id]) = map[id].base + o /\ w[id].type = map[id].type
          /\ /\ w[id + 1].base = map[id].base + o + r.size
             /\ End(w[id + 1]) = End(map[id]) /\ w[id + 1].type = map[id].type
      <4> HIDE DEF f, n, c
      <4> QED
        BY SMTT(30), <3>1, Split
    <3> HIDE DEF w
    <3>3. c = w
      BY DEF w
    <3> HIDE DEF c
    <3> QED
      BY <3>2, <3>3 DEF e
  <2>2. /\ c \in Seq(Region) /\ Len(c) = Len(map) + 1
        /\ \A k \in 1 .. id - 1 : c[k] = map[k]
        /\ \A k \in id + 1 .. Len(map) : c[k + 1] = map[k]
        /\ c[id].base = e.base /\ End(c[id]) = r.base /\ c[id].type = e.type
        /\ c[f].base = End(r) /\ End(c[f]) = End(e) /\ c[f].type = e.type
    BY <2>1, <2>10
  <2> HIDE DEF c
  <2>3. f \in 1 .. Len(c) + 1
    BY <1>2, <1>3, <2>2
  <2>4. /\ n \in Seq(Region) /\ Len(n) = Len(c) + 1
        /\ \A k \in 1 .. f - 1 : n[k] = c[k]
        /\ n[f] = r
        /\ \A k \in f .. Len(c) : n[k + 1] = c[k]
    BY <2>2, <2>3, Put
  <2> HIDE DEF n
  <2>5. /\ \A k \in 1 .. id - 1 : n[k] = map[k]
        /\ n[id] = c[id] /\ n[f + 1] = c[f]
        /\ Len(n) = f + (Len(map) + 1 - id) /\ f \in Nat
        /\ f + 1 - id = 2
    <3>1. /\ f \in f .. Len(c) /\ id \in 1 .. f - 1 /\ f \in Nat /\ f + 1 - id = 2
          /\ \A k \in 1 .. id - 1 : k \in 1 .. f - 1
      BY <1>2, <1>3, <1>6, <2>2
    <3>2. Len(n) = f + (Len(map) + 1 - id)
      BY <1>2, <1>3, <1>6, <2>2, <2>4
    <3> HIDE DEF f
    <3> QED
      BY <2>2, <2>4, <3>1, <3>2
  <2>6. ASSUME NEW k \in id + 1 .. Len(map) PROVE n[k + (f + 1 - id)] = map[k]
    <3>1. k + (f + 1 - id) = (k + 1) + 1 /\ k + 1 \in f .. Len(c)
      BY <1>2, <1>3, <1>6, <2>2
    <3>2. n[(k + 1) + 1] = c[k + 1] /\ c[k + 1] = map[k]
      BY <2>2, <2>4, <3>1
    <3> QED
      BY <3>1, <3>2
  <2>7. LowLaid(map, n, r, f)
    BY <1>3, <1>10, <2>2, <2>5, LowCut DEF e
  <2>8. HighLaid(map, n, r, f, id)
    <3> HIDE DEF f
    <3> QED
      BY <1>3, <1>4, <1>10, <2>2, <2>5, <2>6, HighCut DEF e
  <2> HIDE DEF f
  <2> QED
    BY <2>4, <2>5, <2>7, <2>8, <2>9, Laid
<1> QED
  BY <1>5, <1>7, <1>8, <1>9, <1>10

\* The new entry goes into a copy c of the table in which the entries at both
\* sides of the region are cut, and takes the place of the entries f .. l.
LEMMA Assembled ==
    ASSUME Table(map), NEW r \in Region, NEW n \in Seq(Region), NEW c, Len(c) = Len(map),
           NEW f \in Nat, NEW l \in Nat,
           Len(n) = f + (Len(c) - l), n[f] = r,
           \A k \in 1 .. f - 1 : n[k] = c[k],
           \A k \in l + 1 .. Len(c) : n[k + (f - l)] = c[k],
           \A k \in 1 .. f - 2 : c[k] = map[k],
           \A k \in l + 2 .. Len(map) : c[k] = map[k],
           Low(map, r, f - 1), High(map, r, l + 1),
           f >= 2 => Lower(c[f - 1], map[f - 1], r),
           l + 1 <= Len(map) => Upper(c[l + 1], map[l + 1], r)
    PROVE  Defined(map, n, r)
<1> DEFINE q == l + 1
<1>1. Len(map) \in Nat /\ q \in Nat /\ f + 1 - q = f - l /\ q + 1 = l + 2 /\ q = l + 1
  BY TableFacts
<1> HIDE DEF q
<1>2. LowLaid(map, n, r, f)
  <2>1. \A k \in 1 .. f - 2 : k \in 1 .. f - 1
    OBVIOUS
  <2>2. f >= 2 => n[f - 1] = c[f - 1]
    OBVIOUS
  <2> QED
    BY <2>1, <2>2 DEF LowLaid
<1>3. HighLaid(map, n, r, f, q)
  <2>1. ASSUME NEW k \in q + 1 .. Len(map) PROVE n[k + (f + 1 - q)] = map[k]
    <3>1. k \in l + 1 .. Len(c) /\ k \in l + 2 .. Len(map) /\ k + (f + 1 - q) = k + (f - l)
      BY <1>1
    <3> QED
      BY <3>1
  <2>2. ASSUME q <= Len(map) PROVE Upper(n[f + 1], map[q], r)
    <3>1. q \in l + 1 .. Len(c) /\ q + (f - l) = f + 1
      BY <1>1, <2>2
    <3>2. n[f + 1] = c[q]
      BY <3>1
    <3> QED
      BY <1>1, <2>2, <3>2
  <2> QED
    BY <1>1, <2>1, <2>2 DEF HighLaid
<1>4. Len(n) = f + (Len(map) + 1 - q)
  BY <1>1
<1> QED
  BY <1>1, <1>2, <1>3, <1>4, Laid

\* The new entry, and the two at its sides, one of them cut or both.
LEMMA Assembly ==
    ASSUME Table(map), NEW r \in Region, NEW c \in Seq(Region), Len(c) = Len(map),
           NEW f \in 1 .. Len(map) + 1, NEW l \in f - 1 .. Len(map),
           \A k \in 1 .. f - 2 : c[k] = map[k],
           \A k \in l + 2 .. Len(map) : c[k] = map[k],
           Low(map, r, f - 1), High(map, r, l + 1),
           f >= 2 => Lower(c[f - 1], map[f - 1], r),
           l + 1 <= Len(map) => Upper(c[l + 1], map[l + 1], r)
    PROVE  /\ Defined(map, memmap_insert(memmap_remove(c, f, l), f, r), r)
           /\ l = f - 1 => Defined(map, memmap_insert(c, f, r), r)
<1>1. Len(map) \in Nat /\ f \in Nat /\ l \in Nat /\ f \in 1 .. Len(c) + 1 /\ l \in f - 1 .. Len(c)
  BY TableFacts
<1>2. Defined(map, memmap_insert(memmap_remove(c, f, l), f, r), r)
  <2> DEFINE n == memmap_insert(memmap_remove(c, f, l), f, r)
  <2>1. /\ n \in Seq(Region) /\ Len(n) = f + (Len(c) - l)
        /\ \A k \in 1 .. f - 1 : n[k] = c[k]
        /\ n[f] = r
        /\ \A k \in l + 1 .. Len(c) : n[k + (f - l)] = c[k]
    BY ZenonT(40), <1>1, Replaced
  <2> HIDE DEF n
  <2>2. Defined(map, n, r)
    BY <1>1, <2>1, Assembled
  <2> QED
    BY <2>2 DEF n
<1>3. ASSUME l = f - 1 PROVE Defined(map, memmap_insert(c, f, r), r)
  <2> DEFINE n == memmap_insert(c, f, r)
  <2>1. /\ n \in Seq(Region) /\ Len(n) = Len(c) + 1
        /\ \A k \in 1 .. f - 1 : n[k] = c[k]
        /\ n[f] = r
        /\ \A k \in f .. Len(c) : n[k + 1] = c[k]
    BY <1>1, Put
  <2> HIDE DEF n
  <2>2. l + 1 = f /\ f - l = 1 /\ Len(n) = f + (Len(c) - l)
    BY <1>1, <1>3, <2>1
  <2>3. \A k \in l + 1 .. Len(c) : n[k + (f - l)] = c[k]
    BY <2>1, <2>2
  <2>4. /\ n \in Seq(Region) /\ Len(n) = f + (Len(c) - l) /\ n[f] = r
        /\ \A k \in 1 .. f - 1 : n[k] = c[k]
        /\ \A k \in l + 1 .. Len(c) : n[k + (f - l)] = c[k]
    BY <2>1, <2>2, <2>3
  <2>5. f \in Nat /\ l \in Nat
    BY <1>1
  <2>6. Defined(map, n, r)
    BY <2>4, <2>5, Assembled
  <2> QED
    BY <2>6 DEF n
<1> QED
  BY <1>2, <1>3

\* The ends in two entries, the lower one first.
LEMMA AcrossDefines ==
    ASSUME Table(map), NEW r \in Region, DefineAcross(r)
    PROVE  Defined(map, map', r)
<1> DEFINE b == bin(r)
           t == tin(r)
           bottom == End(r) - map[t].base
           top == map[b].size - (r.base - map[b].base)
           clipped == memmap_cut_bottom(map, t, bottom)
<1>1. b # 0 /\ t # 0 /\ b # t
  BY DEF DefineAcross
<1>2. /\ map \in Seq(Region) /\ Len(map) \in Nat
      /\ r.base \in Nat /\ End(r) \in Nat /\ r.base < End(r)
  BY TableFacts, RegionFacts DEF Table
<1>3. /\ b \in 1 .. Len(map)
      /\ map[b].base <= r.base /\ r.base < End(map[b])
      /\ map[b].base = r.base => /\ Low(map, r, b - 1)
                                 /\ b - 1 >= 1 => End(map[b - 1]) <= r.base
      /\ map[b].base # r.base => Low(map, r, b)
  BY <1>1, LowWithin
<1>4. /\ t \in 1 .. Len(map)
      /\ map[t].base < End(r) /\ End(r) <= End(map[t])
      /\ End(map[t]) = End(r) => /\ High(map, r, t + 1)
                                 /\ t + 1 <= Len(map) => End(r) <= map[t + 1].base
      /\ End(map[t]) # End(r) => High(map, r, t)
  BY <1>1, HighWithin
<1>5. \/ map[b].base = r.base /\ End(map[t]) = End(r)
         /\ map' = memmap_insert(memmap_remove(map, b, t), b, r)
      \/ map[b].base = r.base /\ End(map[t]) # End(r)
         /\ map' = memmap_insert(memmap_remove(clipped, b, t - 1), b, r)
      \/ map[b].base # r.base /\ End(map[t]) = End(r)
         /\ map' = memmap_insert(memmap_remove(memmap_cut_top(map, b, top), b + 1, t), b + 1, r)
      \/ map[b].base # r.base /\ End(map[t]) # End(r)
         /\ map' = memmap_insert(IF b + 1 < t
                                 THEN memmap_remove(memmap_cut_top(clipped, b, top), b + 1, t - 1)
                                 ELSE memmap_cut_top(clipped, b, top), b + 1, r)
  BY DEF DefineAcross
<1> HIDE DEF b, t
<1>6. /\ map[b].base \in Nat /\ map[b].size \in Nat /\ End(map[b]) = map[b].base + map[b].size
      /\ map[t].base \in Nat /\ map[t].size \in Nat /\ End(map[t]) = map[t].base + map[t].size
      /\ b \in Nat /\ t \in Nat
  BY <1>3, <1>4, TableFacts
<1>7. b < t
  <2>1. ASSUME t < b PROVE FALSE
    <3>1. End(map[t]) <= map[b].base
      BY <1>3, <1>4, <2>1, TableFacts
    <3> QED
      BY <1>2, <1>3, <1>4, <1>6, <3>1
  <2> QED
    BY <1>1, <1>6, <2>1
\* The cut of the upper entry ...
<1>8. ASSUME End(map[t]) # End(r)
      PROVE  /\ clipped \in Seq(Region) /\ Len(clipped) = Len(map)
             /\ \A k \in 1 .. Len(map) : k # t => clipped[k] = map[k]
             /\ Upper(clipped[t], map[t], r)
  <2>1. bottom \in Nat /\ bottom < map[t].size /\ map[t].base + bottom = End(r)
    BY <1>2, <1>4, <1>6, <1>8
  <2>2. /\ clipped \in Seq(Region) /\ Len(clipped) = Len(map)
        /\ \A k \in 1 .. Len(map) : k # t => clipped[k] = map[k]
        /\ clipped[t].base = End(r) /\ End(clipped[t]) = End(map[t])
        /\ clipped[t].type = map[t].type
    <3> HIDE DEF bottom
    <3> QED
      BY <1>2, <1>4, <2>1, CutBottom
  <2> HIDE DEF clipped
  <2> QED
    BY <1>2, <1>4, <1>6, <2>2 DEF Upper
\* ... and of the lower one.
<1>9. ASSUME map[b].base # r.base, NEW m \in Seq(Region), Len(m) = Len(map), m[b] = map[b]
      PROVE  LET c == memmap_cut_top(m, b, top) IN
             /\ c \in Seq(Region) /\ Len(c) = Len(map)
             /\ \A k \in 1 .. Len(map) : k # b => c[k] = m[k]
             /\ Lower(c[b], map[b], r)
  <2> DEFINE c == memmap_cut_top(m, b, top)
  <2>1. top \in Nat /\ top < m[b].size /\ End(m[b]) - top = r.base
    BY <1>2, <1>3, <1>6, <1>9
  <2>2. /\ c \in Seq(Region) /\ Len(c) = Len(m)
        /\ \A k \in 1 .. Len(m) : k # b => c[k] = m[k]
        /\ c[b].base = m[b].base /\ End(c[b]) = r.base /\ c[b].type = m[b].type
    <3> HIDE DEF top
    <3>1. b \in 1 .. Len(m)
      BY <1>3, <1>9
    <3> QED
      BY <2>1, <3>1, CutTop
  <2> HIDE DEF c
  <2>3. Lower(c[b], map[b], r)
    BY <1>2, <1>3, <1>6, <1>9, <2>2 DEF Lower
  <2> QED
    BY <1>9, <2>2, <2>3 DEF c
<1> HIDE DEF bottom, top, clipped
<1>10. CASE map[b].base = r.base /\ End(map[t]) = End(r)
            /\ map' = memmap_insert(memmap_remove(map, b, t), b, r)
  <2>1. b \in 1 .. Len(map) + 1 /\ t \in b - 1 .. Len(map)
    BY <1>2, <1>3, <1>4, <1>7
  <2>2. b >= 2 => Lower(map[b - 1], map[b - 1], r)
    <3>1. b >= 2 => b - 1 \in 1 .. Len(map) /\ b - 1 >= 1
      BY <1>2, <1>3
    <3> QED
      BY <1>3, <1>10, <3>1, Whole
  <2>3. t + 1 <= Len(map) => Upper(map[t + 1], map[t + 1], r)
    <3>1. t + 1 <= Len(map) => t + 1 \in 1 .. Len(map)
      BY <1>2, <1>4
    <3> QED
      BY <1>4, <1>10, <3>1, Whole
  <2> QED
    BY <1>2, <1>3, <1>4, <1>10, <2>1, <2>2, <2>3, Assembly
<1>11. CASE map[b].base = r.base /\ End(map[t]) # End(r)
            /\ map' = memmap_insert(memmap_remove(clipped, b, t - 1), b, r)
  <2> DEFINE l == t - 1
  <2>1. b \in 1 .. Len(map) + 1 /\ l \in b - 1 .. Len(map) /\ l + 1 = t /\ l + 2 = t + 1
    BY <1>2, <1>3, <1>4, <1>6, <1>7
  <2> HIDE DEF l
  <2>2. b >= 2 => Lower(clipped[b - 1], map[b - 1], r)
    <3>1. b >= 2 => b - 1 \in 1 .. Len(map) /\ b - 1 >= 1 /\ b - 1 # t
      BY <1>2, <1>3, <1>7
    <3> QED
      BY <1>3, <1>8, <1>11, <3>1, Whole
  <2>3. /\ \A k \in 1 .. b - 2 : clipped[k] = map[k]
        /\ \A k \in l + 2 .. Len(map) : clipped[k] = map[k]
    <3>1. /\ \A k \in 1 .. b - 2 : k \in 1 .. Len(map) /\ k # t
          /\ \A k \in l + 2 .. Len(map) : k \in 1 .. Len(map) /\ k # t
      BY <1>2, <1>3, <1>4, <1>6, <1>7, <2>1
    <3> QED
      BY <1>8, <1>11, <3>1
  <2>4. /\ clipped \in Seq(Region) /\ Len(clipped) = Len(map)
        /\ Low(map, r, b - 1) /\ High(map, r, l + 1)
        /\ Upper(clipped[l + 1], map[l + 1], r)
    BY <1>3, <1>4, <1>8, <1>11, <2>1
  <2>5. b \in 1 .. Len(map) + 1 /\ l \in b - 1 .. Len(map)
    BY <2>1
  <2>6. Defined(map, memmap_insert(memmap_remove(clipped, b, l), b, r), r)
    BY <2>2, <2>3, <2>4, <2>5, Assembly
  <2> QED
    BY <1>11, <2>6 DEF l
<1>12. CASE map[b].base # r.base /\ End(map[t]) = End(r)
            /\ map' = memmap_insert(memmap_remove(memmap_cut_top(map, b, top), b + 1, t), b + 1, r)
  <2> DEFINE c == memmap_cut_top(map, b, top)
             f == b + 1
  <2>1. /\ c \in Seq(Region) /\ Len(c) = Len(map)
        /\ \A k \in 1 .. Len(map) : k # b => c[k] = map[k]
        /\ Lower(c[b], map[b], r)
    BY <1>2, <1>9, <1>12
  <2> HIDE DEF c
  <2>2. f \in 1 .. Len(map) + 1 /\ t \in f - 1 .. Len(map) /\ f - 1 = b
    BY <1>2, <1>3, <1>4, <1>7
  <2>3. /\ \A k \in 1 .. f - 2 : k \in 1 .. Len(map) /\ k # b
        /\ \A k \in t + 2 .. Len(map) : k \in 1 .. Len(map) /\ k # b
        /\ t + 1 <= Len(map) => t + 1 \in 1 .. Len(map) /\ t + 1 # b
    BY <1>2, <1>3, <1>4, <1>7
  <2>4. f - 1 = b
    BY <2>2
  <2> HIDE DEF f
  <2>5. /\ \A k \in 1 .. f - 2 : c[k] = map[k]
        /\ \A k \in t + 2 .. Len(map) : c[k] = map[k]
        /\ Low(map, r, f - 1) /\ High(map, r, t + 1)
        /\ Lower(c[f - 1], map[f - 1], r)
    BY <1>3, <1>4, <1>12, <2>1, <2>3, <2>4
  <2>6. t + 1 <= Len(map) => Upper(c[t + 1], map[t + 1], r)
    BY <1>4, <1>12, <2>1, <2>3, Whole
  <2>7. f \in 1 .. Len(map) + 1 /\ t \in f - 1 .. Len(map)
    BY <2>2
  <2>8. Defined(map, memmap_insert(memmap_remove(c, f, t), f, r), r)
    BY <2>1, <2>5, <2>6, <2>7, Assembly
  <2> QED
    BY <1>12, <2>8 DEF c, f
<1>13. CASE map[b].base # r.base /\ End(map[t]) # End(r)
            /\ map' = memmap_insert(IF b + 1 < t
                                    THEN memmap_remove(memmap_cut_top(clipped, b, top), b + 1, t - 1)
                                    ELSE memmap_cut_top(clipped, b, top), b + 1, r)
  <2> DEFINE c == memmap_cut_top(clipped, b, top)
             f == b + 1
             l == t - 1
  <2>1. clipped[b] = map[b]
    BY <1>1, <1>3, <1>8, <1>13
  <2>2. /\ c \in Seq(Region) /\ Len(c) = Len(map)
        /\ \A k \in 1 .. Len(map) : k # b => c[k] = clipped[k]
        /\ Lower(c[b], map[b], r)
    BY <1>8, <1>9, <1>13, <2>1
  <2> HIDE DEF c
  <2>3. f \in 1 .. Len(map) + 1 /\ l \in f - 1 .. Len(map)
    BY <1>2, <1>3, <1>4, <1>6, <1>7
  <2>4. f - 1 = b /\ l + 1 = t
    BY <1>6
  <2>5. /\ \A k \in 1 .. f - 2 : k \in 1 .. Len(map) /\ k # b /\ k # t
        /\ \A k \in l + 2 .. Len(map) : k \in 1 .. Len(map) /\ k # b /\ k # t
    BY <1>2, <1>3, <1>4, <1>6, <1>7
  <2>6. map' = memmap_insert(IF f <= l THEN memmap_remove(c, f, l) ELSE c, f, r)
               /\ (~(f <= l) => l = f - 1)
    <3>1. (b + 1 < t <=> f <= l) /\ (~(f <= l) => l = f - 1)
      BY <1>6, <1>7
    <3> QED
      BY <1>13, <3>1 DEF c
  <2> HIDE DEF f, l
  <2>7. /\ \A k \in 1 .. f - 2 : c[k] = map[k]
        /\ \A k \in l + 2 .. Len(map) : c[k] = map[k]
        /\ Low(map, r, f - 1) /\ High(map, r, l + 1)
        /\ Lower(c[f - 1], map[f - 1], r)
    BY <1>3, <1>4, <1>8, <1>13, <2>2, <2>4, <2>5
  <2>8. Upper(c[l + 1], map[l + 1], r)
    BY <1>1, <1>4, <1>8, <1>13, <2>2, <2>4
  <2>9. /\ Defined(map, memmap_insert(memmap_remove(c, f, l), f, r), r)
        /\ l = f - 1 => Defined(map, memmap_insert(c, f, r), r)
    BY <2>2, <2>3, <2>7, <2>8, Assembly
  <2> QED
    BY <2>6, <2>9
<1> QED
  BY <1>5, <1>10, <1>11, <1>12, <1>13

\* The entry the region begins in is the last one that ends below its upper end:
\* nothing is swallowed.
LEMMA FromWithinDefines ==
    ASSUME Table(map), NEW r \in Region, DefineFromWithin(r), ~Swallows(r)
    PROVE  Defined(map, map', r)
<1> DEFINE b == bin(r)
           q == b + 1
           top == map[b].size - (r.base - map[b].base)
<1>1. b # 0 /\ tin(r) = 0 /\ tbefore(r) = b
  BY DEF DefineFromWithin, Swallows
<1>2. /\ map \in Seq(Region) /\ Len(map) \in Nat
      /\ r.base \in Nat /\ End(r) \in Nat /\ r.base < End(r)
  BY TableFacts, RegionFacts DEF Table
<1>3. /\ b \in 1 .. Len(map)
      /\ map[b].base <= r.base /\ r.base < End(map[b])
      /\ map[b].base = r.base => /\ Low(map, r, b - 1)
                                 /\ b - 1 >= 1 => End(map[b - 1]) <= r.base
      /\ map[b].base # r.base => Low(map, r, b)
  BY <1>1, LowWithin
<1>4. High(map, r, q) /\ (q <= Len(map) => End(r) <= map[q].base)
  BY <1>1, HighOutside
<1>5. \/ map[b].base = r.base
         /\ map' = [map EXCEPT ![b] = [base |-> @.base, size |-> r.size, type |-> r.type]]
      \/ map[b].base # r.base
         /\ map' = memmap_insert(memmap_cut_top(map, b, top), b + 1, r)
  BY <1>1 DEF DefineFromWithin, Between
<1> HIDE DEF b
<1>6. /\ map[b].base \in Nat /\ map[b].size \in Nat /\ End(map[b]) = map[b].base + map[b].size
      /\ b \in Nat
  BY <1>3, TableFacts
<1>7. CASE map[b].base = r.base
           /\ map' = [map EXCEPT ![b] = [base |-> @.base, size |-> r.size, type |-> r.type]]
  <2> DEFINE n == [map EXCEPT ![b] = r]
  <2>1. r = [base |-> r.base, size |-> r.size, type |-> r.type]
    BY DEF Region
  <2>2. map' = [map EXCEPT ![b] = [base |-> map[b].base, size |-> r.size, type |-> r.type]]
    BY <1>3, <1>7
  <2>3. map' = n
    BY <1>7, <2>1, <2>2
  <2>4. n \in Seq(Region) /\ Len(n) = Len(map) /\ \A k \in 1 .. Len(map) : n[k] = IF k = b THEN r ELSE map[k]
    BY <1>2, <1>3, ExceptSeq
  <2> HIDE DEF n
  <2>5. /\ Len(n) = b + (Len(map) + 1 - q) /\ n[b] = r
        /\ \A k \in 1 .. b - 1 : n[k] = map[k]
        /\ \A k \in q .. Len(map) : n[k + (b + 1 - q)] = map[k]
    BY <1>2, <1>3, <1>6, <2>4
  <2> HIDE DEF q
  <2>6. LowLaid(map, n, r, b) /\ HighLaid(map, n, r, b, q)
    BY <1>3, <1>4, <1>6, <1>7, <2>5, LowWhole, HighWhole
  <2> QED
    BY <1>6, <2>3, <2>4, <2>5, <2>6, Laid
<1>8. CASE map[b].base # r.base
           /\ map' = memmap_insert(memmap_cut_top(map, b, top), b + 1, r)
  <2> DEFINE c == memmap_cut_top(map, b, top)
  <2>1. top \in Nat /\ top < map[b].size /\ End(map[b]) - top = r.base
    BY <1>2, <1>3, <1>6, <1>8
  <2>2. /\ c \in Seq(Region) /\ Len(c) = Len(map)
        /\ \A k \in 1 .. Len(map) : k # b => c[k] = map[k]
        /\ c[b].base = map[b].base /\ End(c[b]) = r.base /\ c[b].type = map[b].type
    <3> HIDE DEF top
    <3> QED
      BY <1>2, <1>3, <2>1, CutTop
  <2> HIDE DEF c, top
  <2>3. Lower(c[b], map[b], r)
    BY <1>2, <1>3, <1>6, <2>2 DEF Lower
  <2>10. q \in 1 .. Len(map) + 1 /\ b \in q - 1 .. Len(map)
    BY <1>2, <1>3, <1>6
  <2>11. q - 1 = b /\ b = q - 1 /\ b + 1 = q
    BY <1>6
  <2>12. \A k \in 1 .. q - 2 : k \in 1 .. Len(map) /\ k # b
    BY <1>2, <1>3, <1>6
  <2>13. \A k \in b + 2 .. Len(map) : k \in 1 .. Len(map) /\ k # b
    BY <1>2, <1>3, <1>6
  <2>4. b + 1 <= Len(map) => b + 1 \in 1 .. Len(map) /\ b + 1 # b
    BY <1>2, <1>3, <1>6
  <2>5. map' = memmap_insert(c, q, r)
    BY <1>8 DEF c
  <2> HIDE DEF q
  <2>6. /\ \A k \in 1 .. q - 2 : c[k] = map[k]
        /\ \A k \in b + 2 .. Len(map) : c[k] = map[k]
        /\ Low(map, r, q - 1) /\ High(map, r, b + 1)
        /\ Lower(c[q - 1], map[q - 1], r)
    BY <1>3, <1>4, <1>8, <2>2, <2>3, <2>4, <2>10, <2>11, <2>12, <2>13
  <2>7. b + 1 <= Len(map) => Upper(c[b + 1], map[b + 1], r)
    BY <1>4, <2>2, <2>4, <2>10, <2>11, <2>12, <2>13, Whole
  <2>8. b \in q - 1 .. Len(map) /\ q \in 1 .. Len(map) + 1 /\ b = q - 1
    BY <2>4, <2>10, <2>11, <2>12, <2>13
  <2>9. b = q - 1 => Defined(map, memmap_insert(c, q, r), r)
    <3>1. b \in q - 1 .. Len(map) /\ q \in 1 .. Len(map) + 1
      BY <2>4, <2>10, <2>11, <2>12, <2>13
    <3> QED
      BY <2>2, <2>6, <2>7, <3>1, Assembly
  <2> QED
    BY <2>5, <2>8, <2>9
<1> QED
  BY <1>5, <1>7, <1>8

\* The lower end outside of all, the upper one in an entry.
LEMMA IntoWithinDefines ==
    ASSUME Table(map), NEW r \in Region, DefineIntoWithin(r)
    PROVE  Defined(map, map', r)
<1> DEFINE ba == bafter(r)
           t == tin(r)
           d == t - ba
           m == IF ba # t THEN memmap_remove(map, ba, t - 1) ELSE map
           bottom == End(r) - map[t].base
<1>1. bin(r) = 0 /\ t # 0
  BY DEF DefineIntoWithin
<1>2. /\ map \in Seq(Region) /\ Len(map) \in Nat
      /\ r.base \in Nat /\ End(r) \in Nat /\ r.base < End(r)
  BY TableFacts, RegionFacts DEF Table
<1>3. /\ t \in 1 .. Len(map)
      /\ map[t].base < End(r) /\ End(r) <= End(map[t])
      /\ End(map[t]) = End(r) => /\ High(map, r, t + 1)
                                 /\ t + 1 <= Len(map) => End(r) <= map[t + 1].base
      /\ End(map[t]) # End(r) => High(map, r, t)
  BY <1>1, HighWithin
<1>4. /\ map[t].base \in Nat /\ map[t].size \in Nat /\ End(map[t]) = map[t].base + map[t].size
      /\ map[t] \in Region /\ t \in Nat
  BY <1>3, TableFacts
<1>5. r.base < map[t].base
  <2>1. ~Holds(map[t], r.base)
    BY <1>1, <1>2, <1>3, InFacts DEF bin
  <2> QED
    BY <1>2, <1>3, <1>4, <2>1 DEF Holds
<1>6. ba \in 1 .. Len(map) /\ ba <= t
  <2>1. IF ba = 0 THEN \A k \in 1 .. Len(map) : map[k].base <= r.base
        ELSE /\ ba \in 1 .. Len(map)
             /\ \A k \in 1 .. Len(map) : r.base < map[k].base => ba <= k
    BY <1>2, AfterFacts DEF bafter
  <2> QED
    BY <1>2, <1>3, <1>4, <1>5, <2>1
<1>7. Low(map, r, ba - 1) /\ (ba - 1 >= 1 => End(map[ba - 1]) <= r.base)
  BY <1>1, <1>6, LowOutside
<1>8. \/ End(map[t]) = End(r) /\ map' = [m EXCEPT ![ba] = r]
      \/ End(map[t]) # End(r)
         /\ map' = memmap_insert(memmap_cut_bottom(m, ba, bottom), ba, r)
  BY DEF DefineIntoWithin
<1> HIDE DEF ba, t, m
<1>9. ba \in Nat /\ d \in Nat
  BY <1>4, <1>6
<1>10. /\ m \in Seq(Region) /\ Len(m) = Len(map) - d
       /\ \A k \in 1 .. ba - 1 : m[k] = map[k]
       /\ \A k \in ba .. Len(map) - d : m[k] = map[k + d]
  <2>1. CASE ba = t
    BY <1>2, <1>4, <1>6, <2>1 DEF m
  <2>2. CASE ba # t
    <3> DEFINE l == t - 1
    <3>1. /\ ba \in 1 .. Len(map) + 1 /\ l \in ba - 1 .. Len(map) /\ l - ba + 1 = d
      BY <1>2, <1>3, <1>4, <1>6, <1>9, <2>2
    <3>2. m = memmap_remove(map, ba, l)
      BY <2>2 DEF m
    <3> HIDE DEF l
    <3>3. LET c == memmap_remove(map, ba, l) IN
             /\ c \in Seq(Region) /\ Len(c) = Len(map) - (l - ba + 1)
             /\ \A k \in 1 .. Len(map) - (l - ba + 1) :
                   c[k] = IF k < ba THEN map[k] ELSE map[k + (l - ba + 1)]
      BY ZenonT(40), <1>2, <3>1, Removed
    <3>4. /\ m \in Seq(Region) /\ Len(m) = Len(map) - d
          /\ \A k \in 1 .. Len(map) - d : m[k] = IF k < ba THEN map[k] ELSE map[k + d]
      BY <3>1, <3>2, <3>3
    <3>5. /\ \A k \in 1 .. ba - 1 : k \in 1 .. Len(map) - d /\ k < ba
          /\ \A k \in ba .. Len(map) - d : k \in 1 .. Len(map) - d /\ ~(k < ba)
      BY <1>2, <1>3, <1>4, <1>6, <1>9
    <3> HIDE DEF d
    <3> QED
      BY <3>4, <3>5
  <2> QED
    BY <2>1, <2>2
<1>11. ba \in 1 .. Len(m) /\ ba \in ba .. Len(map) - d /\ ba + d = t
  BY <1>2, <1>3, <1>4, <1>6, <1>9, <1>10
<1>12. m[ba] = map[t]
  BY <1>10, <1>11
<1>13. CASE End(map[t]) = End(r) /\ map' = [m EXCEPT ![ba] = r]
  <2> DEFINE n == [m EXCEPT ![ba] = r]
             q == t + 1
  <2>1. n \in Seq(Region) /\ Len(n) = Len(m) /\ \A k \in 1 .. Len(m) : n[k] = IF k = ba THEN r ELSE m[k]
    BY <1>10, <1>11, ExceptSeq
  <2> HIDE DEF n
  <2>2. /\ Len(n) = ba + (Len(map) + 1 - q) /\ n[ba] = r
        /\ \A k \in 1 .. ba - 1 : n[k] = map[k]
    <3>1. Len(map) - d = ba + (Len(map) + 1 - q)
      BY <1>2, <1>4, <1>9
    <3>2. \A k \in 1 .. ba - 1 : k \in 1 .. Len(m) /\ k # ba
      BY <1>2, <1>9, <1>10, <1>11
    <3> HIDE DEF d, q
    <3> QED
      BY <1>10, <1>11, <2>1, <3>1, <3>2
  <2>3. ASSUME NEW k \in q .. Len(map) PROVE n[k + (ba + 1 - q)] = map[k]
    <3> DEFINE j == k - d
    <3>0. Len(m) = Len(map) - d
      BY <1>10
    <3>1. /\ j \in ba .. Len(map) - d /\ j \in 1 .. Len(m) /\ j # ba /\ j + d = k
          /\ k + (ba + 1 - q) = j
      BY SMTT(30), <1>2, <1>3, <1>4, <1>6, <1>9, <3>0
    <3> HIDE DEF j, d, q
    <3>2. n[j] = m[j] /\ m[j] = map[j + d]
      BY <1>10, <2>1, <3>1
    <3> QED
      BY <3>1, <3>2
  <2>4. High(map, r, q) /\ (q <= Len(map) => End(r) <= map[q].base)
    BY <1>3, <1>13
  <2> HIDE DEF q
  <2>5. LowLaid(map, n, r, ba) /\ HighLaid(map, n, r, ba, q)
    BY <1>7, <1>9, <2>2, <2>3, <2>4, LowWhole, HighWhole
  <2>6. map' = n
    BY <1>13 DEF n
  <2> QED
    BY <1>9, <2>1, <2>2, <2>5, <2>6, Laid
<1>14. CASE End(map[t]) # End(r)
            /\ map' = memmap_insert(memmap_cut_bottom(m, ba, bottom), ba, r)
  <2> DEFINE c == memmap_cut_bottom(m, ba, bottom)
             n == memmap_insert(c, ba, r)
  <2>1. bottom \in Nat /\ bottom < m[ba].size /\ m[ba].base + bottom = End(r)
    BY <1>2, <1>3, <1>4, <1>12, <1>14
  <2>2. /\ c \in Seq(Region) /\ Len(c) = Len(m)
        /\ \A k \in 1 .. Len(m) : k # ba => c[k] = m[k]
        /\ c[ba].base = End(r) /\ End(c[ba]) = End(map[t]) /\ c[ba].type = map[t].type
    <3> HIDE DEF bottom, d
    <3>1. /\ c \in Seq(Region) /\ Len(c) = Len(m)
          /\ \A k \in 1 .. Len(m) : k # ba => c[k] = m[k]
          /\ c[ba].base = m[ba].base + bottom /\ End(c[ba]) = End(m[ba]) /\ c[ba].type = m[ba].type
      BY <1>10, <1>11, <2>1, CutBottom
    <3> QED
      BY <1>12, <2>1, <3>1
  <2> HIDE DEF c, bottom
  <2>3. ba \in 1 .. Len(c) + 1
    BY <1>2, <1>9, <1>10, <1>11, <2>2
  <2>4. /\ n \in Seq(Region) /\ Len(n) = Len(c) + 1
        /\ \A k \in 1 .. ba - 1 : n[k] = c[k]
        /\ n[ba] = r
        /\ \A k \in ba .. Len(c) : n[k + 1] = c[k]
    BY <2>2, <2>3, Put
  <2>5. map' = n
    BY <1>14 DEF c
  <2> HIDE DEF n
  <2>6. /\ Len(n) = ba + (Len(map) + 1 - t)
        /\ \A k \in 1 .. ba - 1 : n[k] = map[k]
        /\ n[ba + 1] = c[ba]
    <3>1. Len(n) = ba + (Len(map) + 1 - t)
      BY <1>2, <1>4, <1>9, <1>10, <1>11, <2>2, <2>4
    <3> HIDE DEF d
    <3>2. \A k \in 1 .. ba - 1 : k \in 1 .. Len(m) /\ k # ba
      BY <1>9, <1>11
    <3>3. ASSUME NEW k \in 1 .. ba - 1 PROVE n[k] = map[k]
      BY <1>10, <2>2, <2>4, <3>2
    <3>4. ba \in ba .. Len(c)
      BY <1>9, <1>11, <2>2
    <3> QED
      BY <2>4, <3>1, <3>3, <3>4
  <2>7. ASSUME NEW k \in t + 1 .. Len(map) PROVE n[k + (ba + 1 - t)] = map[k]
    <3> DEFINE j == k - d
    <3>1. /\ j \in ba .. Len(map) - d /\ j \in 1 .. Len(m) /\ j \in ba .. Len(c) /\ j # ba
          /\ j + d = k /\ k + (ba + 1 - t) = j + 1
      BY <1>2, <1>3, <1>4, <1>6, <1>9, <1>10, <1>11, <2>2
    <3> HIDE DEF j, d
    <3>2. n[j + 1] = c[j] /\ c[j] = m[j] /\ m[j] = map[j + d]
      BY <1>10, <2>2, <2>4, <3>1
    <3> QED
      BY <3>1, <3>2
  <2>8. HighLaid(map, n, r, ba, t)
    BY <1>3, <1>9, <1>14, <2>2, <2>6, <2>7, HighCut
  <2>9. LowLaid(map, n, r, ba)
    BY <1>7, <1>9, <2>6, LowWhole
  <2> QED
    BY <1>9, <2>4, <2>5, <2>6, <2>8, <2>9, Laid
<1> QED
  BY <1>8, <1>13, <1>14

\* Whatever its case, a definition keeps the table and paints its addresses.
LEMMA DefineFacts ==
    ASSUME Table(map), NEW r \in Region, memmap_define(r), ~(Swallowing /\ Swallows(r))
    PROVE  Defined(map, map', r)
<1>1. CASE DefineFromWithin(r)
  <2>1. ~Swallows(r)
    BY <1>1 DEF DefineFromWithin
  <2> QED
    BY <1>1, <2>1, FromWithinDefines
<1>2. CASE ~DefineFromWithin(r)
  BY <1>2, FirstDefines, OverDefines, InGapDefines, WithinDefines, AcrossDefines,
     IntoWithinDefines DEF memmap_define
<1> QED
  BY <1>1, <1>2

-----------------------------------------------------------------------------
(* memmap_agregate *)

\* RunEnd is the end of a run of joining entries, and the run cannot go on.
LEMMA RunEndFacts ==
    ASSUME Table(map), NEW f \in 1 .. Len(map)
    PROVE  /\ RunEnd(f) \in f .. Len(map)
           /\ \A j \in f .. RunEnd(f) - 1 : Joins(j)
           /\ RunEnd(f) < Len(map) => ~Joins(RunEnd(f))
<1> DEFINE S == {l \in f .. Len(map) : \A j \in f .. l - 1 : Joins(j)}
           l == RunEnd(f)
<1>1. Len(map) \in Nat /\ S \subseteq 0 .. Len(map) /\ f \in S
  BY TableFacts
<1>2. \E x \in S : \A y \in S : x >= y
  <2>1. \E x \in S : \A y \in S : y <= x
    <3> HIDE DEF S
    <3> QED
      BY <1>1, Largest
  <2> QED
    BY <1>1, <2>1
<1>3. l \in S /\ \A y \in S : l >= y
  BY <1>2 DEF RunEnd, Max
<1> HIDE DEF l
<1>4. ASSUME l < Len(map), Joins(l) PROVE FALSE
  <2>1. l + 1 \in f .. Len(map) /\ \A j \in f .. (l + 1) - 1 : j = l \/ j \in f .. l - 1
    BY <1>1, <1>3, <1>4
  <2>2. l + 1 \in S
    BY <1>3, <1>4, <2>1
  <2>3. l \in Nat /\ l >= l + 1
    BY <1>1, <1>3, <2>2
  <2> QED
    BY <2>3
<1> QED
  BY <1>3, <1>4 DEF l

\* The entries of a run have one type and leave no gap.
LEMMA RunFacts ==
    ASSUME Table(map), NEW f \in 1 .. Len(map), NEW l \in f .. Len(map),
           \A j \in f .. l - 1 : Joins(j)
    PROVE  \A k \in f .. l :
              /\ map[k].type = map[f].type
              /\ \A a \in Nat : map[f].base <= a /\ a < End(map[k]) =>
                                   \E j \in f .. k : Holds(map[j], a)
<1> DEFINE P(k) == /\ map[k].type = map[f].type
                   /\ \A a \in Nat : map[f].base <= a /\ a < End(map[k]) =>
                                        \E j \in f .. k : Holds(map[j], a)
           S == {k \in f .. l : ~P(k)}
<1>1. P(f)
  <2>1. f \in f .. f
    OBVIOUS
  <2> QED
    BY <2>1 DEF Holds
<1>2. ASSUME NEW k \in f .. l - 1, P(k) PROVE P(k + 1)
  <2>1. Joins(k)
    OBVIOUS
  <2>2. /\ k \in 1 .. Len(map) /\ k + 1 \in 1 .. Len(map) /\ k + 1 \in f .. k + 1
        /\ \A j \in f .. k : j \in f .. k + 1
    BY TableFacts
  <2>3. End(map[k]) \in Nat
    BY <2>2, TableFacts
  <2>4. ASSUME NEW a \in Nat, map[f].base <= a, a < End(map[k + 1])
        PROVE  \E j \in f .. k + 1 : Holds(map[j], a)
    <3>1. CASE a < End(map[k])
      BY <1>2, <2>2, <2>4, <3>1
    <3>2. CASE End(map[k]) <= a
      BY <2>1, <2>2, <2>4, <3>2 DEF Joins, Holds
    <3> QED
      BY <2>3, <3>1, <3>2
  <2>5. map[k + 1].type = map[f].type
    BY <1>2, <2>1 DEF Joins
  <2> QED
    BY <2>4, <2>5
<1> HIDE DEF P
<1>3. S = {}
  <2> SUFFICES ASSUME S # {} PROVE FALSE
    OBVIOUS
  <2>1. S \subseteq Nat
    BY TableFacts
  <2>2. PICK x \in S : \A y \in S : x <= y
    <3> HIDE DEF S
    <3> QED
      BY <2>1, Smallest
  <2>3. x # f
    BY <1>1, <2>2
  <2>4. x - 1 \in f .. l - 1 /\ x - 1 \in f .. l /\ (x - 1) + 1 = x /\ ~(x <= x - 1)
    BY <2>1, <2>2, <2>3
  <2>5. P(x - 1)
    BY <2>2, <2>4
  <2>6. P((x - 1) + 1)
    BY <1>2, <2>4, <2>5
  <2> QED
    BY <2>2, <2>4, <2>6
<1>4. \A k \in f .. l : P(k)
  BY <1>3
<1> QED
  BY <1>4 DEF P

\* Merging a run keeps the table and the type of every address.
LEMMA MergeFacts ==
    ASSUME Table(map), NEW f \in 1 .. Len(map), NEW l \in f .. Len(map),
           \A j \in f .. l - 1 : Joins(j)
    PROVE  LET n == memmap_merge(map, f, l) IN
           /\ Table(n)
           /\ \A a \in Nat : TypeIn(n, a) = TypeIn(map, a)
           /\ Len(n) = Len(map) - (l - f)
           /\ \A k \in 1 .. f - 1 : n[k] = map[k]
           /\ n[f].base = map[f].base /\ n[f].type = map[l].type /\ End(n[f]) = End(map[l])
           /\ n[f].type = map[f].type
           /\ \A k \in l + 1 .. Len(map) : n[k - (l - f)] = map[k]
<1> DEFINE z == End(map[l]) - map[f].base
           e == [base |-> map[f].base, size |-> z, type |-> map[f].type]
           n == memmap_insert(memmap_remove(map, f, l), f, e)
<1>1. /\ map \in Seq(Region) /\ Len(map) \in Nat /\ f \in Nat /\ l \in Nat
      /\ f \in 1 .. Len(map) + 1 /\ l \in f - 1 .. Len(map) /\ l \in 1 .. Len(map)
      /\ f \in f .. l /\ l \in f .. l
  BY TableFacts DEF Table
<1>2. /\ map[f] \in Region /\ map[f].base \in Nat /\ End(map[f]) \in Nat /\ map[f].type \in Types
      /\ map[f].base < End(map[f])
      /\ map[l].base \in Nat /\ End(map[l]) \in Nat /\ map[l].base < End(map[l])
      /\ End(map[l]) <= Top
      /\ (f < l => End(map[f]) <= map[l].base)
  BY <1>1, TableFacts
<1>3. End(map[f]) <= End(map[l]) /\ map[f].base < End(map[l]) /\ z \in Nat \ {0}
      /\ map[f].base + z = End(map[l])
  BY <1>1, <1>2
<1>4. e \in Region /\ e.base = map[f].base /\ e.type = map[f].type /\ End(e) = End(map[l])
  <2> HIDE DEF z
  <2>1. map[f].base \in 0 .. Top - 1 /\ z \in 1 .. Top /\ map[f].base + z <= Top
    BY <1>2, <1>3, TopAssumption
  <2> QED
    BY <1>2, <1>3, <2>1 DEF Region, End
<1>5. memmap_merge(map, f, l) = n
  BY DEF memmap_merge
<1> HIDE DEF e
<1>6. Low(map, e, f - 1)
  <2>1. f - 1 >= 1 => map[f - 1].base < map[f].base
    <3> SUFFICES ASSUME f - 1 >= 1 PROVE map[f - 1].base < map[f].base
      OBVIOUS
    <3>1. f - 1 \in 1 .. Len(map) /\ f - 1 < f
      BY <1>1
    <3>2. /\ map[f - 1].base \in Nat /\ End(map[f - 1]) \in Nat
          /\ map[f - 1].base < End(map[f - 1]) /\ End(map[f - 1]) <= map[f].base
      BY <3>1, TableFacts
    <3> QED
      BY <1>2, <3>2
  <2>2. f - 1 \in 0 .. Len(map) /\ (f - 1) + 1 = f /\ map[f].base <= map[f].base
    BY <1>1, <1>2
  <2> QED
    BY <1>4, <2>1, <2>2 DEF Low
<1>7. ASSUME l + 1 <= Len(map)
      PROVE  End(map[l]) <= map[l + 1].base /\ End(map[l]) < End(map[l + 1])
  <2>1. l + 1 \in 1 .. Len(map) /\ l < l + 1
    BY <1>1, <1>7
  <2>2. /\ map[l + 1].base \in Nat /\ End(map[l + 1]) \in Nat
        /\ map[l + 1].base < End(map[l + 1]) /\ End(map[l]) <= map[l + 1].base
    BY <1>1, <2>1, TableFacts
  <2> QED
    BY <1>2, <2>2
<1>8. High(map, e, l + 1)
  <2>1. l + 1 \in 1 .. Len(map) + 1 /\ (l + 1) - 1 = l /\ End(map[l]) <= End(map[l])
    BY <1>1, <1>2
  <2> QED
    BY <1>4, <1>7, <2>1 DEF High
<1>9. f >= 2 => Lower(map[f - 1], map[f - 1], e)
  <2> SUFFICES ASSUME f >= 2 PROVE Lower(map[f - 1], map[f - 1], e)
    OBVIOUS
  <2>1. f - 1 \in 1 .. Len(map) /\ f - 1 < f
    BY <1>1
  <2>2. End(map[f - 1]) <= map[f].base
    BY <2>1, TableFacts
  <2> QED
    BY <1>4, <2>1, <2>2, Whole
<1>10. l + 1 <= Len(map) => Upper(map[l + 1], map[l + 1], e)
  <2>1. l + 1 <= Len(map) => l + 1 \in 1 .. Len(map)
    BY <1>1
  <2> QED
    BY <1>4, <1>7, <2>1, Whole
<1>11. Defined(map, n, e)
  BY <1>1, <1>4, <1>6, <1>8, <1>9, <1>10, Assembly
<1>12. /\ n \in Seq(Region) /\ Len(n) = f + (Len(map) - l)
       /\ \A k \in 1 .. f - 1 : n[k] = map[k]
       /\ n[f] = e
       /\ \A k \in l + 1 .. Len(map) : n[k + (f - l)] = map[k]
  BY <1>1, <1>4, Replaced
<1>13. \A k \in f .. l :
          /\ map[k].type = map[f].type
          /\ \A a \in Nat : map[f].base <= a /\ a < End(map[k]) =>
                               \E j \in f .. k : Holds(map[j], a)
  BY RunFacts
<1>14. ASSUME NEW a \in Nat PROVE TypeIn(n, a) = TypeIn(map, a)
  <2>1. TypeIn(n, a) = IF Holds(e, a) THEN e.type ELSE TypeIn(map, a)
    <3> HIDE DEF n
    <3> QED
      BY <1>11 DEF Defined
  <2>2. ASSUME Holds(e, a) PROVE TypeIn(map, a) = e.type
    <3>1. map[f].base <= a /\ a < End(map[l])
      BY <1>4, <2>2 DEF Holds
    <3>2. PICK j \in f .. l : Holds(map[j], a)
      BY <1>1, <1>13, <3>1
    <3>3. j \in 1 .. Len(map)
      BY <1>1
    <3>4. TypeIn(map, a) = map[j].type
      BY <3>2, <3>3, TypeInFacts
    <3> QED
      BY <1>4, <1>13, <3>4
  <2> QED
    BY <2>1, <2>2
<1> HIDE DEF n
<1>15. Table(n)
  BY <1>11 DEF Defined
<1>16. map[l].type = map[f].type
  BY <1>1, <1>13
<1>17. Len(n) = Len(map) - (l - f)
  BY <1>1, <1>12
<1>18. ASSUME NEW k \in l + 1 .. Len(map) PROVE n[k - (l - f)] = map[k]
  <2>1. k - (l - f) = k + (f - l)
    BY <1>1
  <2> QED
    BY <1>12, <2>1
<1> QED
  BY <1>4, <1>5, <1>12, <1>14, <1>15, <1>16, <1>17, <1>18

-----------------------------------------------------------------------------
(* The invariant *)

\* While memmap_agregate runs, no two entries below its index could be one.
BelowAgregated == pc = "agregate" => /\ i >= 1
                                     /\ \A k \in 1 .. Len(map) - 1 : k < i => ~Joins(k)

\* The inductive invariant.
IInv ==
    /\ SortedDisjoint
    /\ pc = "define" => i = 0
    /\ BelowAgregated
    /\ Agregated

\* The invariant is about a table.
LEMMA TableOfInv ==
    ASSUME SortedDisjoint
    PROVE  Table(map)
BY DEF SortedDisjoint, TypeOK, Table

\* A definition.
LEMMA DefineInv ==
    ASSUME IInv, NEW r \in Region, memmap_define(r), ~Swallowing
    PROVE  IInv'
<1>1. Table(map)
  BY TableOfInv DEF IInv
<1>2. pc = "define" /\ pc' = pc /\ i' = i /\ i = 0
  BY DEF memmap_define, IInv
<1>3. Table(map')
  BY <1>1, DefineFacts DEF Defined
<1>4. Len(map') \in Nat /\ map' \in Seq(Region)
  BY <1>3, TableFacts DEF Table
<1>5. TypeOK'
  BY <1>2, <1>4 DEF TypeOK
<1>6. SortedDisjoint'
  BY <1>3, <1>5 DEF SortedDisjoint, Table
<1>7. (pc = "define" => i = 0)' /\ BelowAgregated' /\ Agregated'
  BY <1>2 DEF BelowAgregated, Agregated
<1> QED
  BY <1>6, <1>7 DEF IInv

\* What one iteration of memmap_agregate does.
LEMMA AgregateRunFacts ==
    ASSUME Table(map), i \in 1 .. Len(map), AgregateRun
    PROVE  \E l \in i .. Len(map) :
              /\ l < Len(map) => ~Joins(l)
              /\ Table(map')
              /\ \A a \in Nat : TypeIn(map', a) = TypeIn(map, a)
              /\ Len(map') = Len(map) - (l - i)
              /\ \A k \in 1 .. i - 1 : map'[k] = map[k]
              /\ map'[i].base = map[i].base /\ map'[i].type = map[i].type
              /\ map'[i].type = map[l].type /\ End(map'[i]) = End(map[l])
              /\ \A k \in l + 1 .. Len(map) : map'[k - (l - i)] = map[k]
<1> DEFINE l == RunEnd(i)
<1>1. /\ l \in i .. Len(map) /\ \A j \in i .. l - 1 : Joins(j)
      /\ l < Len(map) => ~Joins(l)
  BY RunEndFacts
<1>2. map' = IF l > i THEN memmap_merge(map, i, l) ELSE map
  BY DEF AgregateRun
<1> HIDE DEF l
<1>3. Len(map) \in Nat /\ i \in Nat /\ l \in Nat
  BY <1>1, TableFacts
<1>4. CASE l > i
  <2> DEFINE n == memmap_merge(map, i, l)
  <2>1. /\ Table(n)
        /\ \A a \in Nat : TypeIn(n, a) = TypeIn(map, a)
        /\ Len(n) = Len(map) - (l - i)
        /\ \A k \in 1 .. i - 1 : n[k] = map[k]
        /\ n[i].base = map[i].base /\ n[i].type = map[l].type /\ End(n[i]) = End(map[l])
        /\ n[i].type = map[i].type
        /\ \A k \in l + 1 .. Len(map) : n[k - (l - i)] = map[k]
    BY <1>1, MergeFacts
  <2>2. map' = n
    BY <1>2, <1>4
  <2> HIDE DEF n
  <2> QED
    BY <1>1, <2>1, <2>2
<1>5. CASE l = i
  <2>1. map' = map /\ l - i = 0 /\ \A k \in l + 1 .. Len(map) : k - (l - i) = k
    BY <1>2, <1>3, <1>5
  <2>2. Len(map') = Len(map) - (l - i) /\ \A k \in l + 1 .. Len(map) : map'[k - (l - i)] = map[k]
    BY <1>3, <2>1
  <2>3. /\ l < Len(map) => ~Joins(l)
        /\ Table(map')
        /\ \A a \in Nat : TypeIn(map', a) = TypeIn(map, a)
        /\ \A k \in 1 .. i - 1 : map'[k] = map[k]
        /\ map'[i].base = map[i].base /\ map'[i].type = map[i].type
        /\ map'[i].type = map[l].type /\ End(map'[i]) = End(map[l])
    BY <1>1, <1>5, <2>1
  <2> QED
    BY <1>1, <2>2, <2>3
<1> QED
  BY <1>1, <1>3, <1>4, <1>5

\* Merging at the index leaves all neighbours up to it apart.
LEMMA AgregateRunInv ==
    ASSUME IInv, AgregateRun
    PROVE  IInv'
<1>1. Table(map) /\ TypeOK
  BY TableOfInv DEF IInv, SortedDisjoint
<1>2. pc = "agregate" /\ pc' = pc /\ i' = i + 1 /\ i <= Len(map)
  BY DEF AgregateRun
<1>3. i >= 1 /\ \A k \in 1 .. Len(map) - 1 : k < i => ~Joins(k)
  BY <1>2 DEF IInv, BelowAgregated
<1>4. Len(map) \in Nat /\ i \in 1 .. Len(map) /\ i \in Nat
  BY <1>1, <1>2, <1>3, TableFacts DEF TypeOK
<1>5. PICK l \in i .. Len(map) :
              /\ l < Len(map) => ~Joins(l)
              /\ Table(map')
              /\ Len(map') = Len(map) - (l - i)
              /\ \A k \in 1 .. i - 1 : map'[k] = map[k]
              /\ map'[i].base = map[i].base /\ map'[i].type = map[i].type
              /\ map'[i].type = map[l].type /\ End(map'[i]) = End(map[l])
              /\ \A k \in l + 1 .. Len(map) : map'[k - (l - i)] = map[k]
  BY <1>1, <1>4, AgregateRunFacts
<1>6. map' \in Seq(Region) /\ Len(map') \in Nat /\ l \in Nat
  BY <1>4, <1>5, TableFacts DEF Table
<1>7. TypeOK'
  <2>1. i' \in 0 .. Len(map') + 1
    BY <1>2, <1>4, <1>5, <1>6
  <2> QED
    BY <1>1, <1>2, <1>6, <2>1 DEF TypeOK
<1>8. SortedDisjoint'
  BY <1>5, <1>7 DEF SortedDisjoint, Table
<1>9. ASSUME NEW k \in 1 .. Len(map') - 1, k < i' PROVE ~Joins(k)'
  <2>1. CASE k < i - 1
    <3>1. k \in 1 .. i - 1 /\ k + 1 \in 1 .. i - 1 /\ k \in 1 .. Len(map) - 1 /\ k < i
      BY <1>4, <2>1
    <3>2. map'[k] = map[k] /\ map'[k + 1] = map[k + 1]
      BY <1>5, <3>1
    <3> QED
      BY <1>3, <3>1, <3>2 DEF Joins
  <2>2. CASE k = i - 1
    <3>1. k \in 1 .. i - 1 /\ k + 1 = i /\ k \in 1 .. Len(map) - 1 /\ k < i
      BY <1>4, <2>2
    <3>2. map'[k] = map[k] /\ map'[k + 1].base = map[k + 1].base /\ map'[k + 1].type = map[k + 1].type
      BY <1>5, <3>1
    <3> QED
      BY <1>3, <3>1, <3>2 DEF Joins
  <2>3. CASE k = i
    <3>1. l + 1 \in l + 1 .. Len(map) /\ (l + 1) - (l - i) = k + 1 /\ l < Len(map)
      BY SMTT(30), <1>4, <1>5, <1>6, <2>3
    <3>3. map'[(l + 1) - (l - i)] = map[l + 1]
      BY <1>5, <3>1
    <3>2. map'[k + 1] = map[l + 1]
      BY <3>1, <3>3
    <3> QED
      BY <1>5, <2>3, <3>1, <3>2 DEF Joins
  <2>4. k < i + 1 /\ k \in Int
    BY <1>2, <1>9
  <2>5. k < i - 1 \/ k = i - 1 \/ k = i
    BY <1>4, <2>4
  <2> QED
    BY <2>1, <2>2, <2>3, <2>5
<1>10. BelowAgregated'
  BY <1>2, <1>4, <1>9 DEF BelowAgregated
<1> QED
  BY <1>2, <1>8, <1>10 DEF IInv, Agregated

\* The invariant is inductive as long as no region swallows an entry from inside
\* another one: memmap_define leaves one of the swallowed entries then.
LEMMA Invariance ==
    ASSUME ~Swallowing
    PROVE  Spec => []IInv
<1>1. Init => IInv
  <2> SUFFICES ASSUME Init PROVE IInv
    OBVIOUS
  <2>1. map = <<>> /\ Len(map) = 0 /\ DOMAIN map = {} /\ map \in Seq(Region)
    BY DEF Init
  <2> QED
    BY <2>1 DEF Init, IInv, SortedDisjoint, TypeOK, BelowAgregated, Agregated
<1>2. IInv /\ [Next]_vars => IInv'
  <2> SUFFICES ASSUME IInv, [Next]_vars PROVE IInv'
    OBVIOUS
  <2>1. ASSUME NEW r \in Region, memmap_define(r) PROVE IInv'
    BY <2>1, DefineInv
  <2>2. CASE AgregateStart
    <3>1. Table(map) /\ TypeOK /\ SortedDisjoint
      BY TableOfInv DEF IInv, SortedDisjoint
    <3>2. Len(map) \in Nat
      BY <3>1, TableFacts
    <3>3. map' = map /\ pc' = "agregate" /\ i' = 1
      BY <2>2 DEF AgregateStart
    <3>4. TypeOK'
      BY <3>1, <3>2, <3>3 DEF TypeOK
    <3>5. SortedDisjoint'
      BY <3>1, <3>3, <3>4 DEF SortedDisjoint
    <3>6. BelowAgregated' /\ Agregated'
      BY <3>2, <3>3 DEF BelowAgregated, Agregated
    <3> QED
      BY <3>3, <3>5, <3>6 DEF IInv
  <2>3. CASE AgregateRun
    BY <2>3, AgregateRunInv
  <2>4. CASE AgregateDone
    <3>1. Table(map) /\ TypeOK /\ SortedDisjoint
      BY TableOfInv DEF IInv, SortedDisjoint
    <3>2. Len(map) \in Nat /\ i \in Int
      BY <3>1, TableFacts DEF TypeOK
    <3>3. map' = map /\ pc' = "done" /\ i' = 0 /\ pc = "agregate" /\ i > Len(map)
      BY <2>4 DEF AgregateDone
    <3>4. SortedDisjoint'
      BY <3>1, <3>2, <3>3 DEF SortedDisjoint, TypeOK
    <3>5. ASSUME NEW k \in 1 .. Len(map) - 1 PROVE ~Joins(k)
      BY <3>2, <3>3 DEF IInv, BelowAgregated
    <3>6. Agregated' /\ BelowAgregated'
      BY <3>3, <3>5 DEF Agregated, BelowAgregated, Joins
    <3> QED
      BY <3>3, <3>4, <3>6 DEF IInv
  <2>5. CASE UNCHANGED vars
    BY <2>5 DEF vars, IInv, SortedDisjoint, TypeOK, BelowAgregated, Agregated, Joins
  <2> QED
    BY <2>1, <2>2, <2>3, <2>4, <2>5 DEF Next, memmap_agregate
<1> QED
  BY <1>1, <1>2, PTL DEF Spec
-----------------------------------------------------------------------------
(* Theorems *)

\* The table stays sorted and free of overlaps, for every address space, every
\* set of types and every order of definitions.
THEOREM TableSorted ==
    ASSUME ~Swallowing
    PROVE  Spec => []SortedDisjoint
<1>1. IInv => SortedDisjoint
  BY DEF IInv
<1> QED
  BY <1>1, Invariance, PTL

\* memmap_agregate leaves no two neighbours that could be one entry.
THEOREM TableAgregated ==
    ASSUME ~Swallowing
    PROVE  Spec => []Agregated
<1>1. IInv => Agregated
  BY DEF IInv
<1> QED
  BY <1>1, Invariance, PTL

\* The painted type of an address is the type of the entry that holds it.
LEMMA PaintFacts ==
    /\ \A a \in Nat : TypeAt(a) = TypeIn(map, a)
    /\ \A a \in Nat : TypeAt(a)' = TypeIn(map', a)
<1>1. \A a \in Nat : TypeAt(a) = TypeIn(map, a)
  BY DEF TypeAt, TypeIn, InInfo
<1>2. \A a \in Nat : TypeAt(a)' = TypeIn(map', a)
  BY DEF TypeAt, TypeIn, InInfo
<1> QED
  BY <1>1, <1>2

\* What the refinement needs besides IInv: the addresses of the region asked for
\* last have its type, so that asking for it once more changes nothing.
AskedPainted ==
    asked # <<>> =>
        /\ asked[1] \in Region
        /\ \A a \in 0 .. Top - 1 :
              asked[1].base <= a /\ a < asked[1].base + asked[1].size
                  => TypeAt(a) = asked[1].type

\* A call of memmap_define paints its region and nothing else.
LEMMA DefinePaints ==
    ASSUME ~Swallowing, IInv, NEW r \in Region, memmap_define(r),
           NEW a \in 0 .. Top - 1
    PROVE  TypeAt(a)' = IF r.base <= a /\ a < r.base + r.size THEN r.type ELSE TypeAt(a)
<1>1. Table(map) /\ TypeOK
  BY TableOfInv DEF IInv, SortedDisjoint
<1>2. Defined(map, map', r)
  BY <1>1, DefineFacts
<1>3. a \in Nat
  BY TopAssumption
<1> QED
  BY <1>2, <1>3, PaintFacts DEF Defined, Holds, End

\* No other step of the program changes the type of an address.
LEMMA RestPaintsNothing ==
    ASSUME IInv, AgregateStart \/ AgregateRun \/ AgregateDone \/ UNCHANGED map,
           NEW a \in 0 .. Top - 1
    PROVE  TypeAt(a)' = TypeAt(a)
<1>1. a \in Nat
  BY TopAssumption
<1>2. Table(map) /\ TypeOK
  BY TableOfInv DEF IInv, SortedDisjoint
<1>3. CASE AgregateRun
  <2>1. pc = "agregate" /\ i <= Len(map) /\ Len(map) \in Nat
    BY <1>2, <1>3, TableFacts DEF AgregateRun
  <2>2. i \in 1 .. Len(map)
    BY <1>2, <2>1 DEF IInv, BelowAgregated, TypeOK
  <2>3. \A b \in Nat : TypeIn(map', b) = TypeIn(map, b)
    BY <1>2, <1>3, <2>2, AgregateRunFacts
  <2> QED
    BY <1>1, <2>3, PaintFacts
<1>4. CASE AgregateStart \/ AgregateDone \/ UNCHANGED map
  <2>1. map' = map
    BY <1>4 DEF AgregateStart, AgregateDone
  <2> QED
    BY <1>1, <2>1, PaintFacts
<1> QED
  BY <1>3, <1>4

LEMMA AskedInvariance ==
    ASSUME ~Swallowing
    PROVE  Spec => []AskedPainted
<1>1. Init => AskedPainted
  BY DEF Init, AskedPainted
<1>2. IInv /\ AskedPainted /\ [Next]_vars => AskedPainted'
  <2> SUFFICES ASSUME IInv, AskedPainted, [Next]_vars PROVE AskedPainted'
    OBVIOUS
  <2>1. ASSUME NEW r \in Region, memmap_define(r), asked' = <<r>> PROVE AskedPainted'
    <3>1. asked'[1] = r
      BY <2>1
    <3>2. \A a \in 0 .. Top - 1 : r.base <= a /\ a < r.base + r.size => TypeAt(a)' = r.type
      BY <2>1, DefinePaints
    <3> QED
      BY <3>1, <3>2 DEF AskedPainted
  <2>2. CASE (AgregateStart \/ memmap_agregate \/ UNCHANGED vars) /\ asked' = asked
    <3>1. \A a \in 0 .. Top - 1 : TypeAt(a)' = TypeAt(a)
      BY <2>2, RestPaintsNothing DEF memmap_agregate, vars
    <3> QED
      BY <2>2, <3>1 DEF AskedPainted
  <2> QED
    BY <2>1, <2>2 DEF Next, memmap_agregate, vars
<1> QED
  BY <1>1, <1>2, Invariance, PTL DEF Spec

\* The kernel's table implements the painting of the address space: memmap_define
\* gives the addresses of the region it is asked for its type and changes no
\* other, and memmap_agregate changes the type of no address.
THEOREM Refinement ==
    ASSUME ~Swallowing
    PROVE  Spec => ImplementsMemPaint
<1> DEFINE paint == [a \in 0 .. Top - 1 |-> TypeAt(a)]
<1>0. \A a \in 0 .. Top - 1 : a \in Nat
  BY TopAssumption
<1>1. Init => MP!MPInit
  <2> SUFFICES ASSUME Init PROVE MP!MPInit
    OBVIOUS
  <2>1. map = <<>> /\ Len(map) = 0 /\ map \in Seq(Region) /\ DOMAIN map = {}
    BY DEF Init
  <2>2. Table(map)
    BY <2>1 DEF Table
  <2>3. ASSUME NEW a \in 0 .. Top - 1 PROVE TypeAt(a) = None
    BY <1>0, <2>1, <2>2, PaintFacts, TypeInFacts
  <2> QED
    BY <2>3 DEF MP!MPInit, MP!Addresses, Init
<1>2. IInv /\ AskedPainted /\ [Next]_vars => [MP!MPNext]_<<paint, asked>>
  <2> SUFFICES ASSUME IInv, AskedPainted, [Next]_vars
               PROVE  MP!MPNext \/ UNCHANGED <<paint, asked>>
    OBVIOUS
  <2>1. ASSUME NEW r \in Region, memmap_define(r), asked' = <<r>>
        PROVE  MP!MPNext \/ UNCHANGED <<paint, asked>>
    <3>1. ASSUME NEW a \in 0 .. Top - 1
          PROVE  TypeAt(a)' = IF r.base <= a /\ a < r.base + r.size THEN r.type ELSE TypeAt(a)
      BY <2>1, <3>1, DefinePaints
    <3>2. CASE asked # <<r>>
      <4>1. MP!Define(r)
        BY <2>1, <3>1 DEF MP!Define, MP!Addresses
      <4>2. r \in MP!Asks
        BY DEF Region, MP!Asks, MP!Addresses
      <4> QED
        BY <3>2, <4>1, <4>2 DEF MP!MPNext
    <3>3. CASE asked = <<r>>
      <4>1. asked # <<>> /\ asked[1] = r
        BY <3>3
      <4>2. ASSUME NEW a \in 0 .. Top - 1 PROVE TypeAt(a)' = TypeAt(a)
        BY <3>1, <4>1, <4>2 DEF AskedPainted
      <4> QED
        BY <2>1, <3>3, <4>2
    <3> QED
      BY <3>2, <3>3
  <2>2. CASE (AgregateStart \/ memmap_agregate \/ UNCHANGED vars) /\ asked' = asked
    <3>1. ASSUME NEW a \in 0 .. Top - 1 PROVE TypeAt(a)' = TypeAt(a)
      BY <2>2, <3>1, RestPaintsNothing DEF memmap_agregate, vars
    <3> QED
      BY <2>2, <3>1
  <2> QED
    BY <2>1, <2>2 DEF Next, memmap_agregate, vars
<1>3. Spec => MP!MPSpec
  BY <1>1, <1>2, Invariance, AskedInvariance, PTL DEF Spec, MP!MPSpec
<1> QED
  BY <1>3 DEF ImplementsMemPaint
=============================================================================
