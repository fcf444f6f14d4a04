---------------------------- MODULE HallocProof ----------------------------
(***************************************************************************)
(* Proofs about the kernel heap (kernel/src/memory/halloc.c).              *)
(*                                                                         *)
(* The invariant says of every block on the list that its table of chunks  *)
(* is a line from the block's header to its last byte, that the free list  *)
(* is the sorted listing of its free chunks and that no two of them are    *)
(* neighbours; of the heap, that the blocks on its list are those that     *)
(* something is allocated of; and of every allocation that it lies in a    *)
(* used chunk of its own.  Each of malloc's and free's steps on a table    *)
(* (split, the two joins, the insertion in the list) has a lemma of its    *)
(* own; a block that free holds half joined is described by Held and Half. *)
(***************************************************************************)
EXTENDS Halloc, FiniteSetTheorems, FunctionTheorems, SequenceTheorems, WellFoundedInduction, TLAPS

-----------------------------------------------------------------------------
(* Sequences *)

\* A set of numbers has a smallest one, and Min finds it.
LEMMA MinFacts ==
    ASSUME NEW S, S \subseteq Nat, S # {}
    PROVE  Min(S) \in S /\ \A y \in S : Min(S) <= y
<1>1. \E x \in S : \A y \in S : ~(<<y, x>> \in OpToRel(<, Nat))
  BY NatLessThanWellFounded, WFMin
<1>2. PICK x \in S : \A y \in S : ~(<<y, x>> \in OpToRel(<, Nat))
  BY <1>1
<1>3. \A y \in S : ~(y < x)
  BY <1>2 DEF OpToRel
<1>4. \E z \in S : \A y \in S : z <= y
  BY <1>3
<1> QED
  BY <1>4 DEF Min

\* InsertAt moves what is behind the place up by one.
LEMMA InsertAtFacts ==
    ASSUME NEW S, NEW q \in Seq(S), NEW j \in 1 .. Len(q) + 1, NEW e \in S
    PROVE  /\ InsertAt(q, j, e) \in Seq(S)
           /\ Len(InsertAt(q, j, e)) = Len(q) + 1
           /\ \A k \in 1 .. Len(q) + 1 : k < j => InsertAt(q, j, e)[k] = q[k]
           /\ InsertAt(q, j, e)[j] = e
           /\ \A k \in 1 .. Len(q) + 1 : k > j => InsertAt(q, j, e)[k] = q[k - 1]
<1> DEFINE f == SubSeq(q, 1, j - 1)
           h == SubSeq(q, j, Len(q))
           fg == f \o <<e>>
<1>1. Len(q) \in Nat /\ \A k \in 1 .. Len(q) : q[k] \in S
  BY LenProperties, ElementOfSeq
<1>2. f \in Seq(S) /\ Len(f) = j - 1 /\ \A k \in 1 .. j - 1 : f[k] = q[k]
  BY <1>1, SubSeqProperties
<1>3. h \in Seq(S) /\ Len(h) = Len(q) - j + 1 /\ \A k \in 1 .. Len(q) - j + 1 : h[k] = q[j + k - 1]
  BY <1>1, SubSeqProperties
<1>4. InsertAt(q, j, e) = fg \o h
  BY DEF InsertAt
<1> DEFINE g == <<e>>
<1>5. g \in Seq(S) /\ Len(g) = 1 /\ g[1] = e
  OBVIOUS
<1> HIDE DEF f, g, h
<1>6. /\ f \o g \in Seq(S) /\ Len(f \o g) = Len(f) + Len(g)
      /\ \A k \in 1 .. Len(f) + Len(g) : (f \o g)[k] = IF k <= Len(f) THEN f[k] ELSE g[k - Len(f)]
  BY <1>2, <1>5, ConcatProperties, Zenon
<1>7. fg = f \o g
  BY DEF g
<1> HIDE DEF fg
<1>8. fg \in Seq(S) /\ Len(fg) = j /\ \A k \in 1 .. j : fg[k] = IF k < j THEN q[k] ELSE e
  BY <1>1, <1>2, <1>5, <1>6, <1>7
<1>9. /\ fg \o h \in Seq(S) /\ Len(fg \o h) = Len(fg) + Len(h)
      /\ \A k \in 1 .. Len(fg) + Len(h) : (fg \o h)[k] = IF k <= Len(fg) THEN fg[k] ELSE h[k - Len(fg)]
  BY <1>3, <1>8, ConcatProperties, Zenon
<1>10. InsertAt(q, j, e) \in Seq(S) /\ Len(InsertAt(q, j, e)) = Len(q) + 1
  BY <1>1, <1>3, <1>4, <1>8, <1>9
<1>11. \A k \in 1 .. Len(q) + 1 : k < j => InsertAt(q, j, e)[k] = q[k]
  BY <1>1, <1>3, <1>4, <1>8, <1>9
<1>12. InsertAt(q, j, e)[j] = e
  BY <1>1, <1>3, <1>4, <1>8, <1>9
<1>13. \A k \in 1 .. Len(q) + 1 : k > j => InsertAt(q, j, e)[k] = q[k - 1]
  BY <1>1, <1>3, <1>4, <1>8, <1>9
<1> QED
  BY <1>10, <1>11, <1>12, <1>13

\* RemoveFirst moves what is behind the place of x down by one.
LEMMA RemoveFirstFacts ==
    ASSUME NEW S, NEW s \in Seq(S), IsInjective(s), NEW i \in 1 .. Len(s)
    PROVE  LET t == RemoveFirst(s, s[i]) IN
           /\ t \in Seq(S) /\ Len(t) = Len(s) - 1
           /\ \A k \in 1 .. Len(s) - 1 : t[k] = IF k < i THEN s[k] ELSE s[k + 1]
<1> DEFINE x == s[i]
           t == RemoveFirst(s, x)
           f == SubSeq(s, 1, i - 1)
           h == SubSeq(s, i + 1, Len(s))
           I == {j \in 1 .. Len(s) : s[j] = x}
<1>1. Len(s) \in Nat /\ \A k \in 1 .. Len(s) : s[k] \in S
  BY LenProperties, ElementOfSeq
<1>0. DOMAIN s = 1 .. Len(s)
  BY LenProperties
<1>2. I = {i}
  BY <1>0 DEF IsInjective
<1>3. Min(I) = i
  <2>1. I \subseteq Nat /\ I # {}
    BY <1>1, <1>2
  <2> QED
    BY <1>2, <2>1, MinFacts
<1>4. t = f \o h
  <2>1. SelectInSeq(s, LAMBDA v : v = x) = i
    BY <1>2, <1>3 DEF SelectInSeq
  <2> QED
    BY <2>1 DEF RemoveFirst, RemoveAt
<1>5. f \in Seq(S) /\ Len(f) = i - 1 /\ \A k \in 1 .. i - 1 : f[k] = s[k]
  BY <1>1, SubSeqProperties
<1>6. h \in Seq(S) /\ Len(h) = Len(s) - i /\ \A k \in 1 .. Len(s) - i : h[k] = s[i + k]
  BY <1>1, SubSeqProperties
<1> HIDE DEF f, h, t
<1>7. /\ f \o h \in Seq(S) /\ Len(f \o h) = Len(f) + Len(h)
      /\ \A k \in 1 .. Len(f) + Len(h) : (f \o h)[k] = IF k <= Len(f) THEN f[k] ELSE h[k - Len(f)]
  BY <1>5, <1>6, ConcatProperties, Zenon
<1>8. t \in Seq(S) /\ Len(t) = Len(s) - 1
      /\ \A k \in 1 .. Len(s) - 1 : t[k] = IF k < i THEN s[k] ELSE s[k + 1]
  BY <1>1, <1>4, <1>5, <1>6, <1>7
<1> QED
  BY <1>8 DEF t

\* Exactly x leaves the sequence.
LEMMA RemovedFacts ==
    ASSUME NEW S, NEW s \in Seq(S), IsInjective(s), NEW c \in ToSet(s)
    PROVE  LET t == RemoveFirst(s, c) IN
           t \in Seq(S) /\ IsInjective(t) /\ ToSet(t) = ToSet(s) \ {c}
<1>2. Len(s) \in Nat /\ DOMAIN s = 1 .. Len(s)
  BY LenProperties
<1>3. PICK i \in 1 .. Len(s) : s[i] = c
  BY <1>2 DEF ToSet
<1> DEFINE t == RemoveFirst(s, c)
<1>4. /\ t \in Seq(S) /\ Len(t) = Len(s) - 1
      /\ \A k \in 1 .. Len(s) - 1 : t[k] = IF k < i THEN s[k] ELSE s[k + 1]
  BY <1>3, RemoveFirstFacts
<1> HIDE DEF t
<1>5. DOMAIN t = 1 .. Len(s) - 1 /\ Len(t) = Len(s) - 1
  BY <1>4, LenProperties
<1>6. IsInjective(t)
  <2> SUFFICES ASSUME NEW k \in 1 .. Len(s) - 1, NEW l \in 1 .. Len(s) - 1, t[k] = t[l]
               PROVE  k = l
    BY <1>5 DEF IsInjective
  <2> DEFINE k2 == IF k < i THEN k ELSE k + 1
             l2 == IF l < i THEN l ELSE l + 1
  <2>1. k2 \in 1 .. Len(s) /\ t[k] = s[k2]
    BY <1>2, <1>4
  <2>3. l2 \in 1 .. Len(s) /\ t[l] = s[l2]
    BY <1>2, <1>4
  <2>2. k2 = l2
    BY <1>2, <2>1, <2>3 DEF IsInjective
  <2> QED
    BY <1>2, <2>2
<1>7. ToSet(t) = ToSet(s) \ {c}
  <2>2. ASSUME NEW k \in 1 .. Len(s) - 1 PROVE t[k] \in ToSet(s) \ {c}
    <3> DEFINE k2 == IF k < i THEN k ELSE k + 1
    <3>1. k2 \in 1 .. Len(s) /\ t[k] = s[k2] /\ k2 # i
      BY <1>2, <1>4
    <3>2. s[k2] # c
      BY <1>2, <1>3, <3>1 DEF IsInjective
    <3> QED
      BY <1>2, <3>1, <3>2 DEF ToSet
  <2>3. ASSUME NEW d \in ToSet(s) \ {c} PROVE \E k \in 1 .. Len(s) - 1 : t[k] = d
    <3>1. PICK j \in 1 .. Len(s) : s[j] = d
      BY <1>2 DEF ToSet
    <3>2. j # i
      BY <1>3, <3>1
    <3>3. CASE j < i
      <4>1. j \in 1 .. Len(s) - 1
        BY <1>2, <3>3
      <4> QED
        BY <1>4, <3>1, <3>3, <4>1
    <3>4. CASE j > i
      <4>1. j - 1 \in 1 .. Len(s) - 1 /\ ~(j - 1 < i) /\ (j - 1) + 1 = j
        BY <1>2, <3>4
      <4> QED
        BY <1>4, <3>1, <4>1
    <3> QED
      BY <3>2, <3>3, <3>4
  <2> QED
    BY <1>5, <2>2, <2>3 DEF ToSet
<1> QED
  BY <1>4, <1>6, <1>7 DEF t

\* t is s with e in front.
Prepends(t, e, s) == t = <<e>> \o s

\* A new element in front of a sequence without repetition.
LEMMA PrependFacts ==
    ASSUME NEW S, NEW s \in Seq(S), IsInjective(s), NEW e \in S, e \notin ToSet(s),
           NEW t, Prepends(t, e, s)
    PROVE  /\ t \in Seq(S) /\ IsInjective(t) /\ ToSet(t) = ToSet(s) \cup {e}
           /\ Len(t) = Len(s) + 1 /\ t[1] = e
<1> DEFINE g == <<e>>
<1>1. g \in Seq(S) /\ Len(g) = 1 /\ g[1] = e
  OBVIOUS
<1>2. t = g \o s
  BY DEF Prepends
<1> HIDE DEF g
<1>3. Len(s) \in Nat /\ DOMAIN s = 1 .. Len(s)
  BY LenProperties
<1>4. /\ g \o s \in Seq(S) /\ Len(g \o s) = Len(g) + Len(s)
      /\ \A k \in 1 .. Len(g) + Len(s) : (g \o s)[k] = IF k <= Len(g) THEN g[k] ELSE s[k - Len(g)]
  BY <1>1, ConcatProperties, Zenon
<1>5. t \in Seq(S) /\ Len(t) = Len(s) + 1 /\ DOMAIN t = 1 .. Len(s) + 1
  BY <1>1, <1>2, <1>3, <1>4, LenProperties
<1>6. t[1] = e /\ \A k \in 1 .. Len(s) + 1 : k > 1 => k - 1 \in 1 .. Len(s) /\ t[k] = s[k - 1]
  BY <1>1, <1>2, <1>3, <1>4
<1>7. \A k \in 1 .. Len(s) : k + 1 \in 1 .. Len(s) + 1 /\ t[k + 1] = s[k]
  BY <1>1, <1>2, <1>3, <1>4
<1>8. IsInjective(t)
  <2>1. \A k \in 1 .. Len(s) : s[k] # e
    BY <1>3 DEF ToSet
  <2>2. \A k, l \in 1 .. Len(s) : s[k] = s[l] => k = l
    BY <1>3 DEF IsInjective
  <2> SUFFICES ASSUME NEW k \in 1 .. Len(s) + 1, NEW l \in 1 .. Len(s) + 1, t[k] = t[l]
               PROVE  k = l
    BY <1>5 DEF IsInjective
  <2>3. k \in Nat /\ l \in Nat /\ (k = 1 \/ k > 1) /\ (l = 1 \/ l > 1)
    BY <1>3
  <2>4. k > 1 => k - 1 \in 1 .. Len(s) /\ t[k] = s[k - 1]
    BY <1>6
  <2>5. l > 1 => l - 1 \in 1 .. Len(s) /\ t[l] = s[l - 1]
    BY <1>6
  <2>6. CASE k = 1
    <3>1. ~(l > 1)
      BY <1>6, <2>1, <2>5, <2>6
    <3> QED
      BY <2>3, <2>6, <3>1
  <2>7. CASE k > 1
    <3>1. l > 1
      BY <1>6, <2>1, <2>3, <2>4, <2>7
    <3>2. k - 1 = l - 1
      BY <2>2, <2>4, <2>5, <2>7, <3>1
    <3> QED
      BY <2>3, <3>2
  <2> QED
    BY <2>3, <2>6, <2>7
<1>9. ToSet(t) = ToSet(s) \cup {e}
  <2>1. \A k \in 1 .. Len(s) + 1 : t[k] \in ToSet(s) \cup {e}
    BY <1>3, <1>6 DEF ToSet
  <2>2. \A d \in ToSet(s) : \E k \in 1 .. Len(s) + 1 : t[k] = d
    BY <1>3, <1>7 DEF ToSet
  <2>3. 1 \in 1 .. Len(s) + 1
    BY <1>3
  <2>4. ToSet(t) = {t[k] : k \in 1 .. Len(s) + 1}
    BY <1>5 DEF ToSet
  <2>5. ToSet(t) \subseteq ToSet(s) \cup {e}
    BY <2>1, <2>4
  <2>6. \A d \in ToSet(s) : d \in ToSet(t)
    BY <2>2, <2>4
  <2>7. e \in ToSet(t)
    BY <1>6, <2>3, <2>4
  <2> QED
    BY <2>5, <2>6, <2>7
<1> QED
  BY <1>5, <1>6, <1>8, <1>9

-----------------------------------------------------------------------------
(* The free list *)

\* The chunks of the table f that are not in use.
FreeOf(f) == {c \in DOMAIN f : ~f[c].used}

\* The list s holds the free chunks of f other than those of `out', each once,
\* the largest first.
Listing(f, s, out) ==
    /\ s \in Seq(Nat) /\ IsInjective(s)
    /\ ToSet(s) = FreeOf(f) \ out
    /\ \A k \in 1 .. Len(s) : k > 1 => f[s[k - 1]].size >= f[s[k]].size

\* A chunk is taken off the list.
LEMMA ListingTake ==
    ASSUME NEW f, NEW s, NEW out, Listing(f, s, out), NEW c \in FreeOf(f) \ out,
           \A d \in DOMAIN f : f[d].size \in Nat
    PROVE  Listing(f, RemoveFirst(s, c), out \cup {c})
<1>1. s \in Seq(Nat) /\ IsInjective(s) /\ ToSet(s) = FreeOf(f) \ out
  BY DEF Listing
<1>2. Len(s) \in Nat /\ DOMAIN s = 1 .. Len(s)
  BY <1>1, LenProperties
<1>3. PICK i \in 1 .. Len(s) : s[i] = c
  BY <1>1, <1>2 DEF ToSet
<1> DEFINE t == RemoveFirst(s, c)
<1>4. /\ t \in Seq(Nat) /\ Len(t) = Len(s) - 1
      /\ \A k \in 1 .. Len(s) - 1 : t[k] = IF k < i THEN s[k] ELSE s[k + 1]
  BY <1>1, <1>3, RemoveFirstFacts
<1> HIDE DEF t
<1>5. DOMAIN t = 1 .. Len(s) - 1 /\ Len(t) = Len(s) - 1
  BY <1>4, LenProperties
<1>6. IsInjective(t) /\ ToSet(t) = FreeOf(f) \ (out \cup {c})
  <2>1. c \in ToSet(s)
    BY <1>1
  <2>2. IsInjective(t) /\ ToSet(t) = ToSet(s) \ {c}
    BY <1>1, <2>1, RemovedFacts DEF t
  <2> QED
    BY <1>1, <2>2
<1>8. ASSUME NEW k \in 1 .. Len(t), k > 1 PROVE f[t[k - 1]].size >= f[t[k]].size
  <2>1. \A j \in 1 .. Len(s) : f[s[j]].size \in Nat
    BY <1>1, <1>2 DEF ToSet, FreeOf
  <2>2. \A j \in 1 .. Len(s) : j > 1 => f[s[j - 1]].size >= f[s[j]].size
    BY DEF Listing
  <2>3. k \in 1 .. Len(s) - 1 /\ k - 1 \in 1 .. Len(s) - 1
    BY <1>2, <1>5, <1>8
  <2>4. CASE k < i
    <3>1. t[k - 1] = s[k - 1] /\ t[k] = s[k]
      BY <1>2, <1>4, <2>3, <2>4
    <3>2. k \in 1 .. Len(s)
      BY <1>2, <2>3
    <3> QED
      BY <1>8, <2>2, <3>1, <3>2
  <2>5. CASE k = i
    <3>1. t[k - 1] = s[k - 1] /\ t[k] = s[k + 1]
      BY <1>2, <1>4, <2>3, <2>5
    <3>2. k \in 1 .. Len(s) /\ k + 1 \in 1 .. Len(s) /\ k + 1 > 1 /\ (k + 1) - 1 = k /\ k - 1 \in 1 .. Len(s)
      BY <1>2, <2>3
    <3>3. f[s[k]].size >= f[s[k + 1]].size
      BY <2>2, <3>2
    <3>4. f[s[k - 1]].size >= f[s[k]].size
      BY <1>8, <2>2, <3>2
    <3>5. f[s[k]].size \in Nat /\ f[s[k + 1]].size \in Nat /\ f[s[k - 1]].size \in Nat
      BY <2>1, <3>2
    <3> QED
      BY <3>1, <3>3, <3>4, <3>5
  <2>6. CASE k > i
    <3>1. t[k - 1] = s[(k - 1) + 1] /\ t[k] = s[k + 1] /\ (k - 1) + 1 = k
      BY <1>2, <1>4, <2>3, <2>6
    <3>2. k + 1 \in 1 .. Len(s) /\ k + 1 > 1 /\ (k + 1) - 1 = k
      BY <1>2, <2>3
    <3> QED
      BY <2>2, <3>1, <3>2
  <2>7. k < i \/ k = i \/ k > i
    <3>1. k \in Nat /\ i \in Nat
      BY <1>2, <2>3
    <3> QED
      BY <3>1
  <2> QED
    BY <2>7, <2>4, <2>5, <2>6, Zenon
<1> QED
  BY <1>4, <1>6, <1>8 DEF Listing, t

\* The same list serves another table when the same chunks are listed and have
\* their sizes.
LEMMA ListingSame ==
    ASSUME NEW f, NEW s, NEW out, Listing(f, s, out), NEW g, NEW outg,
           FreeOf(g) \ outg = FreeOf(f) \ out,
           \A c \in FreeOf(f) \ out : g[c].size = f[c].size
    PROVE  Listing(g, s, outg)
<1>1. s \in Seq(Nat) /\ IsInjective(s) /\ ToSet(s) = FreeOf(f) \ out
  BY DEF Listing
<1>2. Len(s) \in Nat /\ DOMAIN s = 1 .. Len(s)
  BY <1>1, LenProperties
<1>3. \A k \in 1 .. Len(s) : g[s[k]].size = f[s[k]].size
  BY <1>1, <1>2 DEF ToSet
<1>4. \A k \in 1 .. Len(s) : k > 1 => k - 1 \in 1 .. Len(s)
  BY <1>2
<1>5. \A k \in 1 .. Len(s) : k > 1 => f[s[k - 1]].size >= f[s[k]].size
  BY DEF Listing
<1>6. \A k \in 1 .. Len(s) : k > 1 => g[s[k - 1]].size >= g[s[k]].size
  BY <1>3, <1>4, <1>5
<1> QED
  BY <1>1, <1>6 DEF Listing

\* The chunk c goes before the first that is not larger.
LEMMA ListingAt ==
    ASSUME NEW f, NEW s, NEW out, Listing(f, s, out), NEW c \in FreeOf(f) \cap out, c \in Nat,
           \A d \in DOMAIN f : f[d].size \in Nat,
           NEW i \in 1 .. Len(s) + 1,
           \A k \in 1 .. Len(s) : k < i => f[c].size < f[s[k]].size,
           i \in 1 .. Len(s) => f[c].size >= f[s[i]].size
    PROVE  Listing(f, InsertAt(s, i, c), out \ {c})
<1> DEFINE t == InsertAt(s, i, c)
<1>1. s \in Seq(Nat) /\ IsInjective(s) /\ ToSet(s) = FreeOf(f) \ out
  BY DEF Listing
<1>2. Len(s) \in Nat
  BY <1>1, LenProperties
<1>3. DOMAIN s = 1 .. Len(s)
  BY <1>1, LenProperties
<1>5. \A k \in 1 .. Len(s) : s[k] \in DOMAIN f /\ s[k] # c
  BY <1>1, <1>3 DEF ToSet, FreeOf
<1>6. \A k \in 1 .. Len(s) : f[s[k]].size \in Nat
  BY <1>5
<1>8. /\ t \in Seq(Nat) /\ Len(t) = Len(s) + 1
      /\ \A k \in 1 .. Len(s) + 1 : k < i => t[k] = s[k]
      /\ t[i] = c
      /\ \A k \in 1 .. Len(s) + 1 : k > i => t[k] = s[k - 1]
  BY <1>1, InsertAtFacts
<1> HIDE DEF t
<1>9. DOMAIN t = 1 .. Len(s) + 1
  BY <1>8, LenProperties
\* Where the element k of the new list comes from.
<1>10. \A k \in 1 .. Len(s) + 1 :
          \/ k < i /\ k \in 1 .. Len(s) /\ t[k] = s[k]
          \/ k = i /\ t[k] = c
          \/ k > i /\ k - 1 \in 1 .. Len(s) /\ t[k] = s[k - 1]
  BY <1>2, <1>8
<1>11. IsInjective(t)
  <2> SUFFICES ASSUME NEW k \in 1 .. Len(s) + 1, NEW l \in 1 .. Len(s) + 1, t[k] = t[l]
               PROVE  k = l
    BY <1>9 DEF IsInjective
  <2>1. \A x, y \in 1 .. Len(s) : s[x] = s[y] => x = y
    BY <1>1, <1>3 DEF IsInjective
  <2>2. \A x \in 1 .. Len(s) : s[x] # c
    BY <1>5
  <2>3. i \in Nat /\ k \in Nat /\ l \in Nat
    BY <1>2
  <2>4. \/ k < i /\ k \in 1 .. Len(s) /\ t[k] = s[k]
        \/ k = i /\ t[k] = c
        \/ k > i /\ k - 1 \in 1 .. Len(s) /\ t[k] = s[k - 1]
    BY <1>10
  <2>5. \/ l < i /\ l \in 1 .. Len(s) /\ t[l] = s[l]
        \/ l = i /\ t[l] = c
        \/ l > i /\ l - 1 \in 1 .. Len(s) /\ t[l] = s[l - 1]
    BY <1>10
  <2> QED
    BY <2>1, <2>2, <2>3, <2>4, <2>5
<1>12. ToSet(t) = FreeOf(f) \ (out \ {c})
  <2>0. c \in FreeOf(f) /\ c \in out
    OBVIOUS
  <2>1. \A k \in 1 .. Len(s) : s[k] \in FreeOf(f) \ out
    BY <1>1, <1>3 DEF ToSet
  <2>2. \A k \in 1 .. Len(s) + 1 : t[k] \in FreeOf(f) \ (out \ {c})
    BY <1>10, <2>0, <2>1
  <2>3. ASSUME NEW d \in FreeOf(f) \ (out \ {c}) PROVE \E k \in 1 .. Len(s) + 1 : t[k] = d
    <3>1. CASE d = c
      BY <1>8, <3>1
    <3>2. CASE d # c
      <4>1. PICK j \in 1 .. Len(s) : s[j] = d
        BY <1>1, <1>3, <3>2 DEF ToSet
      <4>2. CASE j < i
        <5>1. j \in 1 .. Len(s) + 1
          BY <1>2
        <5> QED
          BY <1>8, <4>1, <4>2, <5>1
      <4>3. CASE j >= i
        <5>1. j + 1 \in 1 .. Len(s) + 1 /\ j + 1 > i /\ (j + 1) - 1 = j
          BY <1>2, <4>3
        <5>2. t[j + 1] = s[(j + 1) - 1]
          BY <1>8, <5>1
        <5> QED
          BY <4>1, <5>1, <5>2
      <4> QED
        BY <1>2, <4>2, <4>3
    <3> QED
      BY <3>1, <3>2
  <2> QED
    BY <1>9, <2>2, <2>3 DEF ToSet
<1>13. ASSUME NEW k \in 1 .. Len(t), k > 1 PROVE f[t[k - 1]].size >= f[t[k]].size
  <2>0. f[c].size \in Nat
    BY DEF FreeOf
  <2>1. \A j \in 1 .. Len(s) : j > 1 => f[s[j - 1]].size >= f[s[j]].size
    BY DEF Listing
  <2>2. k \in 1 .. Len(s) + 1 /\ k - 1 \in 1 .. Len(s) + 1 /\ k \in Nat /\ i \in Nat
    BY <1>2, <1>8, <1>13
  <2>3. CASE k < i
    <3>1. k \in 1 .. Len(s) /\ t[k] = s[k] /\ t[k - 1] = s[k - 1]
      BY <1>2, <1>8, <2>2, <2>3
    <3> QED
      BY <1>13, <2>1, <3>1
  <2>4. CASE k = i
    <3>1. k - 1 \in 1 .. Len(s) /\ k - 1 < i /\ t[k] = c /\ t[k - 1] = s[k - 1]
      BY <1>2, <1>8, <2>2, <2>4
    <3>2. f[c].size < f[s[k - 1]].size /\ f[s[k - 1]].size \in Nat
      BY <1>6, <3>1
    <3> QED
      BY <2>0, <3>1, <3>2
  <2>5. CASE k - 1 = i
    <3>1. i \in 1 .. Len(s) /\ t[k] = s[i] /\ t[k - 1] = c
      BY <1>2, <1>8, <2>2, <2>5
    <3> QED
      BY <3>1
  <2>6. CASE k - 1 > i
    <3>1. k > i /\ k - 1 \in 1 .. Len(s) /\ k - 1 > 1
      BY <1>2, <2>2, <2>6
    <3>2. \A j \in 1 .. Len(s) + 1 : j > i => t[j] = s[j - 1]
      BY <1>8
    <3>3. t[k] = s[k - 1] /\ t[k - 1] = s[(k - 1) - 1]
      BY <2>2, <2>6, <3>1, <3>2
    <3> QED
      BY <2>1, <3>1, <3>3
  <2>7. k < i \/ k = i \/ k - 1 = i \/ k - 1 > i
    BY <2>2
  <2> QED
    BY <2>3, <2>4, <2>5, <2>6, <2>7, Zenon
<1> QED
  BY <1>8, <1>11, <1>12, <1>13 DEF Listing, t

\* freelist_insert puts a chunk on the list.
LEMMA ListingPut ==
    ASSUME NEW b, NEW out, Listing(b.chunk, b.free, out), NEW c \in FreeOf(b.chunk) \cap out,
           c \in Nat, \A d \in DOMAIN b.chunk : b.chunk[d].size \in Nat
    PROVE  \E t : /\ freelist_insert(b, c) = [b EXCEPT !.free = t]
                  /\ Listing(b.chunk, t, out \ {c})
<1> DEFINE f == b.chunk
           s == b.free
           fits == {k \in DOMAIN s : f[c].size >= header(b, s[k]).size}
           i == IF fits = {} THEN Len(s) + 1 ELSE Min(fits)
           t == InsertAt(s, i, c)
<1>1. s \in Seq(Nat) /\ IsInjective(s) /\ ToSet(s) = FreeOf(f) \ out
  BY DEF Listing
<1>2. Len(s) \in Nat
  BY <1>1, LenProperties
<1>3. DOMAIN s = 1 .. Len(s)
  BY <1>1, LenProperties
<1>4. freelist_insert(b, c) = [b EXCEPT !.free = t]
  BY DEF freelist_insert
<1>5. \A k \in 1 .. Len(s) : s[k] \in DOMAIN f /\ s[k] # c /\ header(b, s[k]) = f[s[k]]
  BY <1>1, <1>3 DEF ToSet, FreeOf, header
<1>6. \A k \in 1 .. Len(s) : f[s[k]].size \in Nat
  BY <1>5
<1>7. /\ i \in 1 .. Len(s) + 1
      /\ \A k \in 1 .. Len(s) : k < i => f[c].size < f[s[k]].size
      /\ i \in 1 .. Len(s) => f[c].size >= f[s[i]].size
  <2>0. f[c].size \in Nat
    BY DEF FreeOf
  <2>1. CASE fits = {}
    <3>1. \A k \in 1 .. Len(s) : ~(f[c].size >= f[s[k]].size)
      BY <1>3, <1>5, <2>1
    <3>2. i = Len(s) + 1
      BY <2>1
    <3> HIDE DEF i, fits
    <3>3. \A k \in 1 .. Len(s) : f[c].size < f[s[k]].size
      BY <1>6, <2>0, <3>1
    <3>4. i \in 1 .. Len(s) + 1 /\ i \notin 1 .. Len(s)
      BY <1>2, <3>2
    <3> QED
      BY <3>3, <3>4, Zenon
  <2>2. CASE fits # {}
    <3>1. fits \subseteq Nat
      BY <1>3
    <3>2. i \in fits /\ \A k \in fits : i <= k
      BY <2>2, <3>1, MinFacts
    <3>3. i \in 1 .. Len(s) /\ f[c].size >= f[s[i]].size
      BY <1>3, <1>5, <3>2
    <3>4. \A k \in 1 .. Len(s) : k < i => ~(f[c].size >= f[s[k]].size)
      <4> SUFFICES ASSUME NEW k \in 1 .. Len(s), k < i, f[c].size >= f[s[k]].size
                   PROVE  FALSE
        OBVIOUS
      <4>1. k \in fits
        BY <1>3, <1>5
      <4>2. i <= k
        BY <3>2, <4>1
      <4>3. i \in Nat /\ k \in Nat
        BY <3>1, <3>2
      <4> HIDE DEF i, fits
      <4> QED
        BY <4>2, <4>3
    <3>5. \A k \in 1 .. Len(s) : k < i => f[c].size < f[s[k]].size
      <4> SUFFICES ASSUME NEW k \in 1 .. Len(s), k < i PROVE f[c].size < f[s[k]].size
        OBVIOUS
      <4>1. f[s[k]].size \in Nat /\ ~(f[c].size >= f[s[k]].size)
        BY <1>6, <3>4
      <4> QED
        BY <2>0, <4>1
    <3>6. i \in 1 .. Len(s) + 1
      <4> HIDE DEF i, fits
      <4> QED
        BY <1>2, <3>3
    <3> QED
      BY <3>3, <3>5, <3>6, Zenon
  <2> QED
    BY <2>1, <2>2
<1> QED
  BY <1>4, <1>7, ListingAt

-----------------------------------------------------------------------------
(* Tables of chunks *)

HeaderForm == [size : Nat, prev : Nat, used : BOOLEAN]
Headers(f) == f \in [DOMAIN f -> HeaderForm]

\* The chunks of the table f tile what lies between the block's header and the
\* block's last byte, e.
Line(f, e) ==
    /\ BlockHeader \in DOMAIN f
    /\ \A c \in DOMAIN f : c \in Nat /\ BlockHeader <= c /\ c + AllocHeader <= e
    /\ \A c \in DOMAIN f : f[c].size \in Nat /\ f[c].size > 0
    /\ \A c \in DOMAIN f : c + f[c].size \in DOMAIN f \cup {e}
    /\ \A c \in DOMAIN f : c # BlockHeader => \E d \in DOMAIN f : d + f[d].size = c
    /\ \E c \in DOMAIN f : c + f[c].size = e
    /\ \A c, d \in DOMAIN f : c < d => c + f[c].size <= d

\* A chunk ends before the block's last byte, which is no chunk.
LEMMA LineBounds ==
    ASSUME NEW f, NEW e \in Nat, Line(f, e)
    PROVE  /\ \A c \in DOMAIN f : c + f[c].size <= e
           /\ e \notin DOMAIN f
<1>1. AllocHeader \in Nat /\ AllocHeader > 0
  BY HallocAssumption
<1>2. \A c \in DOMAIN f : c \in Nat /\ c + AllocHeader <= e /\ c + f[c].size \in DOMAIN f \cup {e}
  BY DEF Line
<1> QED
  BY <1>1, <1>2

\* Two chunks never end at the same place.
LEMMA OneBefore ==
    ASSUME NEW f, NEW e \in Nat, Line(f, e), NEW c \in DOMAIN f, NEW d \in DOMAIN f,
           c + f[c].size = d + f[d].size
    PROVE  c = d
<1>1. /\ c \in Nat /\ d \in Nat /\ f[c].size \in Nat /\ f[d].size \in Nat
      /\ f[c].size > 0 /\ f[d].size > 0
      /\ c < d => c + f[c].size <= d
      /\ d < c => d + f[d].size <= c
  BY DEF Line
<1> QED
  BY <1>1

\* Chunk c, which is behind chunk p, was joined to it.
JoinedTo(f, g, p, c) ==
    /\ DOMAIN g = DOMAIN f \ {c}
    /\ g[p].size = f[p].size + f[c].size
    /\ \A d \in DOMAIN g : d # p => g[d].size = f[d].size

\* Joining a chunk with the one behind it leaves a line.
LEMMA LineJoined ==
    ASSUME NEW f, NEW e \in Nat, Line(f, e), NEW p \in DOMAIN f, NEW c \in DOMAIN f,
           p + f[p].size = c, NEW g, JoinedTo(f, g, p, c)
    PROVE  Line(g, e) /\ p \in DOMAIN g /\ p + g[p].size = c + f[c].size
<1>1. /\ p \in Nat /\ c \in Nat /\ f[p].size \in Nat /\ f[c].size \in Nat /\ p < c
      /\ f[p].size > 0 /\ f[c].size > 0 /\ BlockHeader <= p /\ BlockHeader \in Nat
  BY HallocAssumption DEF Line
<1>2. \A d \in DOMAIN f : d \in Nat /\ BlockHeader <= d /\ d + AllocHeader <= e
  BY DEF Line
<1>3. \A d \in DOMAIN f : f[d].size \in Nat /\ f[d].size > 0
  BY DEF Line
<1>4. /\ DOMAIN g = DOMAIN f \ {c} /\ p \in DOMAIN g
      /\ g[p].size = f[p].size + f[c].size
      /\ \A d \in DOMAIN g : d # p => g[d].size = f[d].size
  BY <1>1 DEF JoinedTo
<1>5. p + g[p].size = c + f[c].size
  BY <1>1, <1>4
<1>6. BlockHeader \in DOMAIN g
  BY <1>1, <1>4 DEF Line
<1>7. \A d \in DOMAIN g : g[d].size \in Nat /\ g[d].size > 0
  BY <1>1, <1>3, <1>4
<1>8. ASSUME NEW d \in DOMAIN g PROVE d + g[d].size \in DOMAIN g \cup {e}
  <2>1. CASE d = p
    <3>1. c + f[c].size \in DOMAIN f \cup {e}
      BY DEF Line
    <3>2. c + f[c].size # c
      BY <1>1
    <3> QED
      BY <1>4, <1>5, <2>1, <3>1, <3>2
  <2>2. CASE d # p
    <3>1. d + f[d].size \in DOMAIN f \cup {e} /\ d \in DOMAIN f
      BY <1>4 DEF Line
    <3>2. d + f[d].size # c
      BY <2>2, <3>1, OneBefore
    <3> QED
      BY <1>4, <2>2, <3>1, <3>2
  <2> QED
    BY <2>1, <2>2
<1>9. ASSUME NEW x \in (DOMAIN g \ {BlockHeader}) \cup {e}
      PROVE  \E d \in DOMAIN g : d + g[d].size = x
  <2>1. PICK d \in DOMAIN f : d + f[d].size = x
    BY <1>4, <1>9 DEF Line
  <2>2. CASE d = c
    BY <1>4, <1>5, <2>1, <2>2
  <2>3. CASE d = p
    <3>1. x = c
      BY <2>1, <2>3
    <3>2. c # e /\ c \notin DOMAIN g
      BY <1>4, LineBounds
    <3> QED
      BY <1>9, <3>1, <3>2
  <2>4. CASE d # c /\ d # p
    BY <1>4, <2>1, <2>4
  <2> QED
    BY <2>2, <2>3, <2>4
<1>10. ASSUME NEW x \in DOMAIN g, NEW y \in DOMAIN g, x < y PROVE x + g[x].size <= y
  <2>1. \A u, v \in DOMAIN f : u < v => u + f[u].size <= v
    BY DEF Line
  <2>2. CASE x = p
    <3>1. y \in DOMAIN f /\ y # c /\ y \in Nat
      BY <1>2, <1>4
    <3>2. c <= y
      BY <1>10, <2>1, <2>2, <3>1
    <3>3. c < y
      BY <1>1, <3>1, <3>2
    <3>4. c + f[c].size <= y
      BY <2>1, <3>1, <3>3
    <3> QED
      BY <1>5, <2>2, <3>4
  <2>3. CASE x # p
    BY <1>4, <1>10, <2>1, <2>3
  <2> QED
    BY <2>2, <2>3
<1>11. \A d \in DOMAIN g : d \in Nat /\ BlockHeader <= d /\ d + AllocHeader <= e
  BY <1>2, <1>4
<1>12. \E d \in DOMAIN g : d + g[d].size = e
  BY <1>9
<1>13. \A x \in DOMAIN g : x # BlockHeader => \E d \in DOMAIN g : d + g[d].size = x
  BY <1>9
<1> QED
  BY <1>4, <1>5, <1>6, <1>7, <1>8, <1>10, <1>11, <1>12, <1>13 DEF Line

\* What chunk c has more than z became a chunk of its own.
CutAt(f, g, c, z) ==
    /\ DOMAIN g = DOMAIN f \cup {c + z}
    /\ g[c].size = z
    /\ g[c + z].size = f[c].size - z
    /\ \A d \in DOMAIN f : d # c => g[d].size = f[d].size

\* Cutting a chunk in two leaves a line.
LEMMA LineCut ==
    ASSUME NEW f, NEW e \in Nat, Line(f, e), NEW c \in DOMAIN f, NEW z \in Nat, z > 0,
           f[c].size - z > AllocHeader, NEW g, CutAt(f, g, c, z)
    PROVE  Line(g, e) /\ c + z \notin DOMAIN f /\ c + z + g[c + z].size = c + f[c].size
<1>0. AllocHeader \in Nat /\ BlockHeader \in Nat
  BY HallocAssumption
<1>1. c \in Nat /\ f[c].size \in Nat /\ c + f[c].size <= e
  BY LineBounds DEF Line
<1>2. \A d \in DOMAIN f : d \in Nat /\ BlockHeader <= d /\ d + AllocHeader <= e
  BY DEF Line
<1>3. \A d \in DOMAIN f : f[d].size \in Nat /\ f[d].size > 0
  BY DEF Line
<1>4. \A u, v \in DOMAIN f : u < v => u + f[u].size <= v
  BY DEF Line
<1> DEFINE r == c + z
<1>5. r \in Nat /\ c < r /\ r < c + f[c].size
  BY <1>0, <1>1
<1>6. r \notin DOMAIN f
  <2> SUFFICES ASSUME r \in DOMAIN f PROVE FALSE
    OBVIOUS
  <2>1. c + f[c].size <= r
    BY <1>4, <1>5
  <2> QED
    BY <1>1, <1>5, <2>1
<1>7. /\ DOMAIN g = DOMAIN f \cup {r} /\ g[c].size = z /\ g[r].size = f[c].size - z
      /\ \A d \in DOMAIN f : d # c => g[d].size = f[d].size
  BY DEF CutAt
<1>8. r + g[r].size = c + f[c].size /\ c + g[c].size = r
  BY <1>0, <1>1, <1>7
<1>13. g[r].size \in Nat /\ g[r].size > 0 /\ r + AllocHeader <= e /\ BlockHeader <= r
  BY <1>0, <1>1, <1>2, <1>5, <1>7
<1> HIDE DEF r
<1>9. \A d \in DOMAIN g : d \in Nat /\ BlockHeader <= d /\ d + AllocHeader <= e
  BY <1>2, <1>5, <1>7, <1>13
<1>10. \A d \in DOMAIN g : g[d].size \in Nat /\ g[d].size > 0
  BY <1>3, <1>7, <1>13
<1>11. ASSUME NEW d \in DOMAIN g PROVE d + g[d].size \in DOMAIN g \cup {e}
  <2>1. \A u \in DOMAIN f : u + f[u].size \in DOMAIN f \cup {e}
    BY DEF Line
  <2>2. CASE d = r
    BY <1>7, <1>8, <2>1, <2>2
  <2>3. CASE d = c
    BY <1>7, <1>8, <2>3
  <2>4. CASE d # r /\ d # c
    BY <1>7, <2>1, <2>4
  <2> QED
    BY <2>2, <2>3, <2>4
<1>12. ASSUME NEW x \in (DOMAIN g \ {BlockHeader}) \cup {e}
       PROVE  \E d \in DOMAIN g : d + g[d].size = x
  <2>1. CASE x = r
    BY <1>7, <1>8, <2>1
  <2>2. CASE x # r
    <3>1. PICK d \in DOMAIN f : d + f[d].size = x
      BY <1>7, <1>12, <2>2 DEF Line
    <3>2. CASE d = c
      BY <1>7, <1>8, <3>1, <3>2
    <3>3. CASE d # c
      BY <1>7, <3>1, <3>3
    <3> QED
      BY <3>2, <3>3
  <2> QED
    BY <2>1, <2>2
<1>14. ASSUME NEW x \in DOMAIN g, NEW y \in DOMAIN g, x < y PROVE x + g[x].size <= y
  <2>1. x \in Nat /\ y \in Nat /\ g[x].size \in Nat
    BY <1>9, <1>10
  <2>2. CASE x = r
    <3>1. y \in DOMAIN f
      BY <1>7, <1>14, <2>1, <2>2
    <3>2. c < y
      BY <1>1, <1>5, <1>14, <2>1, <2>2
    <3>3. c + f[c].size <= y
      BY <1>4, <3>1, <3>2
    <3> QED
      BY <1>8, <2>2, <3>3
  <2>3. CASE x # r /\ y = r
    <3>1. x \in DOMAIN f
      BY <1>7, <2>3
    <3>2. CASE x = c
      BY <1>5, <1>8, <2>3, <3>2
    <3>3. CASE x < c
      <4>1. x + f[x].size <= c /\ g[x].size = f[x].size
        BY <1>1, <1>4, <1>7, <2>1, <3>1, <3>3
      <4> QED
        BY <1>1, <1>5, <2>1, <2>3, <4>1
    <3>4. CASE c < x
      <4>1. c + f[c].size <= x
        BY <1>4, <3>1, <3>4
      <4> QED
        BY <1>1, <1>5, <1>14, <2>1, <2>3, <4>1
    <3> QED
      BY <1>1, <2>1, <3>2, <3>3, <3>4
  <2>4. CASE x # r /\ y # r
    <3>1. x \in DOMAIN f /\ y \in DOMAIN f /\ x + f[x].size <= y
      BY <1>4, <1>7, <1>14, <2>4
    <3>2. CASE x = c
      BY <1>1, <1>5, <1>8, <2>1, <3>1, <3>2
    <3>3. CASE x # c
      BY <1>7, <3>1, <3>3
    <3> QED
      BY <3>2, <3>3
  <2> QED
    BY <2>2, <2>3, <2>4
<1>15. \E d \in DOMAIN g : d + g[d].size = e
  BY <1>12
<1>16. \A x \in DOMAIN g : x # BlockHeader => \E d \in DOMAIN g : d + g[d].size = x
  BY <1>12
<1>17. BlockHeader \in DOMAIN g
  BY <1>7 DEF Line
<1>18. Line(g, e)
  BY <1>9, <1>10, <1>11, <1>14, <1>15, <1>16, <1>17 DEF Line
<1> QED
  BY <1>6, <1>8, <1>18 DEF r

\* Only the sizes matter.
LEMMA LineSame ==
    ASSUME NEW f, NEW e \in Nat, Line(f, e), NEW g, DOMAIN g = DOMAIN f,
           \A c \in DOMAIN f : g[c].size = f[c].size
    PROVE  Line(g, e)
<1>1. \A c \in DOMAIN g : g[c].size \in Nat /\ g[c].size > 0 /\ c + g[c].size \in DOMAIN g \cup {e}
  BY DEF Line
<1>2. \A c \in DOMAIN g : c # BlockHeader => \E d \in DOMAIN g : d + g[d].size = c
  BY DEF Line
<1>3. \A c, d \in DOMAIN g : c < d => c + g[c].size <= d
  BY DEF Line
<1>4. \E c \in DOMAIN g : c + g[c].size = e
  BY DEF Line
<1> QED
  BY <1>1, <1>2, <1>3, <1>4 DEF Line

-----------------------------------------------------------------------------
(* Blocks *)

\* The last byte of a block.
End(b) == b.pages * BlockBytes - 1

\* No size before the first chunk, some size before every other one.
Backs(f, e) == \A c \in DOMAIN f : f[c].prev <= e /\ (f[c].prev = 0 <=> c = BlockHeader)

\* Two free chunks are never neighbours, those of `out' not counted.
Apart(f, out) ==
    \A c \in DOMAIN f \ out :
        ~f[c].used /\ c + f[c].size \in DOMAIN f \ out => f[c + f[c].size].used

\* `prev' is right behind every chunk but those of `out'.
PrevsOf(f, out) ==
    \A c \in DOMAIN f \ out :
        c + f[c].size \in DOMAIN f => f[c + f[c].size].prev = f[c].size

\* The same for every chunk but c.
PrevsBut(f, c) == PrevsOf(f, {c})

\* What is in use of f, but for chunk c, is in use in g.
Keeps(f, g, c) ==
    \A d \in DOMAIN f \ {c} :
        f[d].used => d \in DOMAIN g /\ g[d].used /\ g[d].size = f[d].size

Form(b) ==
    /\ b = [pages |-> b.pages, rc |-> b.rc, free |-> b.free, chunk |-> b.chunk]
    /\ b.pages \in Nat \ {0} /\ b.rc \in Nat
    /\ Headers(b.chunk)

\* A block between two calls.
Whole(b) ==
    /\ Form(b)
    /\ Line(b.chunk, End(b)) /\ Backs(b.chunk, End(b))
    /\ Listing(b.chunk, b.free, {})
    /\ Apart(b.chunk, {})

\* A block of which free holds chunk c in its hands, which is on no list ...
Held(b, c) ==
    /\ Form(b)
    /\ Line(b.chunk, End(b)) /\ Backs(b.chunk, End(b))
    /\ c \in DOMAIN b.chunk
    /\ Listing(b.chunk, b.free, {c})
    /\ Apart(b.chunk, {c})

\* ... and the chunk before it is in use.
Half(b, c) ==
    /\ Held(b, c)
    /\ \A d \in DOMAIN b.chunk : d + b.chunk[d].size = c => b.chunk[d].used

\* The last byte of a block is a number.
LEMMA EndIsNat ==
    ASSUME NEW b, b.pages \in Nat \ {0}
    PROVE  End(b) \in Nat /\ End(b) + 1 = b.pages * BlockBytes
<1>1. BlockBytes \in Nat /\ BlockBytes > 0
  BY HallocAssumption
<1>2. b.pages * BlockBytes \in Nat /\ b.pages * BlockBytes > 0
  BY <1>1
<1> QED
  BY <1>2 DEF End

\* A chunk behind chunk c is one that WITHIN_BLOCK finds.
LEMMA WithinFacts ==
    ASSUME NEW b, b.pages \in Nat \ {0}, Line(b.chunk, End(b)), NEW c \in DOMAIN b.chunk
    PROVE  /\ Next(b, c) = c + b.chunk[c].size
           /\ header(b, c) = b.chunk[c]
           /\ within_block(b, c) <=> c + b.chunk[c].size \in DOMAIN b.chunk
<1> DEFINE n == c + b.chunk[c].size
<1>1. Next(b, c) = n /\ header(b, c) = b.chunk[c]
  BY DEF Next, header
<1>2. AllocHeader \in Nat /\ AllocHeader >= 2
  BY HallocAssumption
<1>3. End(b) \in Nat /\ End(b) + 1 = b.pages * BlockBytes
  BY EndIsNat
<1>4. n \in Nat /\ n \in DOMAIN b.chunk \cup {End(b)}
  BY DEF Line
<1>5. within_block(b, c) <=> n <= (End(b) + 1) - AllocHeader
  BY <1>1, <1>3 DEF within_block
<1>6. n \in DOMAIN b.chunk => n + AllocHeader <= End(b)
  BY DEF Line
<1> HIDE DEF n
<1>7. n \in DOMAIN b.chunk => within_block(b, c)
  BY <1>2, <1>3, <1>4, <1>5, <1>6
<1>8. n = End(b) => ~within_block(b, c)
  BY <1>2, <1>3, <1>4, <1>5
<1> QED
  BY <1>1, <1>4, <1>7, <1>8 DEF n

\* Chunk c joined to chunk p, as a table.
LEMMA JoinFacts ==
    ASSUME NEW f, Headers(f), NEW p \in DOMAIN f, NEW c \in DOMAIN f, p # c,
           NEW v, v = f[c].size, NEW g, g = absorb(f, p, c, v)
    PROVE  /\ Headers(g)
           /\ JoinedTo(f, g, p, c)
           /\ \A d \in DOMAIN g : g[d].prev = f[d].prev /\ (g[d].used <=> f[d].used)
<1> DEFINE h == [f EXCEPT ![p].size = @ + v]
<1>1. f = [d \in DOMAIN f |-> f[d]] /\ \A d \in DOMAIN f : f[d] \in HeaderForm
  BY DEF Headers
<1>2. DOMAIN h = DOMAIN f /\ \A d \in DOMAIN f : d # p => h[d] = f[d]
  BY <1>1
<1>3. f[p].size + v \in Nat
  BY <1>1 DEF HeaderForm
<1>4. h[p] = [f[p] EXCEPT !.size = f[p].size + v]
  OBVIOUS
<1>5. h[p] \in HeaderForm /\ h[p].size = f[p].size + f[c].size /\ h[p].prev = f[p].prev
      /\ (h[p].used <=> f[p].used)
  BY <1>1, <1>3, <1>4 DEF HeaderForm
<1>20. g = Without(h, c)
  BY DEF absorb
<1> HIDE DEF h
<1>6. /\ DOMAIN g = DOMAIN f \ {c}
      /\ \A d \in DOMAIN f \ {c} : g[d] = h[d]
      /\ g = [d \in DOMAIN f \ {c} |-> h[d]]
  BY <1>2, <1>20 DEF Without
<1>7. \A d \in DOMAIN g : g[d] \in HeaderForm
  BY <1>1, <1>2, <1>5, <1>6
<1>8. Headers(g)
  BY <1>6, <1>7 DEF Headers
<1>9. JoinedTo(f, g, p, c)
  BY <1>2, <1>5, <1>6 DEF JoinedTo
<1>10. \A d \in DOMAIN g : g[d].prev = f[d].prev /\ (g[d].used <=> f[d].used)
  BY <1>2, <1>5, <1>6
<1> QED
  BY <1>8, <1>9, <1>10

\* Of the chunks p and c, x is one and h the other.
TheTwo(p, c, x, h) == (x = p /\ h = c) \/ (x = c /\ h = p)

\* free joins the chunk it holds, h, with its neighbour x, which is free: chunk c
\* of the two goes into the one before it, p.
LEMMA Joining ==
    ASSUME NEW b, NEW h, Held(b, h),
           NEW p \in DOMAIN b.chunk, NEW c \in DOMAIN b.chunk, p + b.chunk[p].size = c,
           NEW x, TheTwo(p, c, x, h), ~b.chunk[x].used,
           \A d \in DOMAIN b.chunk : d + b.chunk[d].size = p => b.chunk[d].used,
           NEW r, r = merged(b, p, c, x)
    PROVE  /\ Half(r, p) /\ r.pages = b.pages /\ r.rc = b.rc
           /\ p + r.chunk[p].size = c + b.chunk[c].size
           /\ DOMAIN r.chunk = DOMAIN b.chunk \ {c}
           /\ \A d \in DOMAIN r.chunk : r.chunk[d].used <=> b.chunk[d].used
           /\ Keeps(b.chunk, r.chunk, h)
           /\ PrevsBut(b.chunk, h) => PrevsBut(r.chunk, p)
<1> DEFINE f == b.chunk
           e == End(b)
           g == absorb(b.chunk, p, c, header(b, c).size)
           s == RemoveFirst(b.free, x)
<1>20. (x = p /\ h = c) \/ (x = c /\ h = p)
  BY DEF TheTwo
<1>0. /\ Form(b) /\ Line(f, e) /\ Backs(f, e) /\ Listing(f, b.free, {h}) /\ Apart(f, {h})
      /\ h \in DOMAIN f
  BY DEF Held
<1>1. /\ b = [pages |-> b.pages, rc |-> b.rc, free |-> b.free, chunk |-> b.chunk]
      /\ b.pages \in Nat \ {0} /\ b.rc \in Nat /\ Headers(f)
  BY <1>0 DEF Form
<1>2. e \in Nat
  BY <1>1, EndIsNat
<1>3. r = [pages |-> b.pages, rc |-> b.rc, free |-> s, chunk |-> g]
  <2>2. r = freelist_take([b EXCEPT !.chunk = g], x)
    BY DEF merged
  <2> HIDE DEF g
  <2>3. [b EXCEPT !.chunk = g] = [pages |-> b.pages, rc |-> b.rc, free |-> b.free, chunk |-> g]
    BY <1>1
  <2> QED
    BY <2>2, <2>3 DEF freelist_take
<1>4. p # c
  BY <1>0 DEF Line
<1>5. /\ Headers(g) /\ JoinedTo(f, g, p, c)
      /\ \A d \in DOMAIN g : g[d].prev = f[d].prev /\ (g[d].used <=> f[d].used)
  <2> DEFINE v == header(b, c).size
  <2>1. v = f[c].size
    BY DEF header
  <2>2. g = absorb(f, p, c, v) /\ p \in DOMAIN f /\ c \in DOMAIN f
    OBVIOUS
  <2>3. Headers(g)
    BY <1>1, <1>4, <2>1, <2>2, JoinFacts
  <2>4. JoinedTo(f, g, p, c)
    BY <1>1, <1>4, <2>1, <2>2, JoinFacts
  <2>5. \A d \in DOMAIN g : g[d].prev = f[d].prev /\ (g[d].used <=> f[d].used)
    BY <1>1, <1>4, <2>1, <2>2, JoinFacts
  <2> QED
    BY <2>3, <2>4, <2>5
<1> HIDE DEF g, s
<1>6. Line(g, e) /\ p \in DOMAIN g /\ p + g[p].size = c + f[c].size
  BY <1>0, <1>2, <1>5, LineJoined
<1>7. /\ DOMAIN g = DOMAIN f \ {c} /\ g[p].size = f[p].size + f[c].size
      /\ \A d \in DOMAIN g : d # p => g[d].size = f[d].size
  BY <1>5 DEF JoinedTo
<1>8. Backs(g, e)
  BY <1>0, <1>5, <1>7 DEF Backs
<1>9. \A d \in DOMAIN f : f[d].size \in Nat /\ f[d].size > 0 /\ d \in Nat
  BY <1>0 DEF Line
<1>10. Listing(g, s, {p})
  <2>1. x \in FreeOf(f) \ {h}
    BY <1>0, <1>4, <1>20 DEF FreeOf
  <2>2. Listing(f, s, {h} \cup {x})
    BY <1>0, <1>9, <2>1, ListingTake DEF s
  <2>3. {h} \cup {x} = {p, c}
    BY <1>20
  <2>4. FreeOf(g) \ {p} = FreeOf(f) \ {p, c}
    BY <1>5, <1>7 DEF FreeOf
  <2>5. \A d \in FreeOf(f) \ {p, c} : g[d].size = f[d].size
    BY <1>7 DEF FreeOf
  <2> QED
    BY <2>2, <2>3, <2>4, <2>5, ListingSame
<1>11. Apart(g, {p})
  <2> SUFFICES ASSUME NEW d \in DOMAIN g \ {p}, ~g[d].used, d + g[d].size \in DOMAIN g \ {p}
               PROVE  g[d + g[d].size].used
    BY DEF Apart
  <2>1. d \in DOMAIN f \ {h} /\ g[d].size = f[d].size /\ ~f[d].used
    BY <1>5, <1>7, <1>20
  <2>2. d + f[d].size \in DOMAIN f \ {h}
    BY <1>7, <1>20, <2>1
  <2>3. f[d + f[d].size].used
    BY <1>0, <2>1, <2>2 DEF Apart
  <2> QED
    BY <1>5, <2>1, <2>3
<1>12. ASSUME NEW d \in DOMAIN g, d + g[d].size = p PROVE g[d].used
  <2>1. d # p
    BY <1>6, <1>12, <1>9, <1>7
  <2>2. d \in DOMAIN f /\ d + f[d].size = p
    BY <1>7, <1>12, <2>1
  <2> QED
    BY <1>5, <2>2
<1>13. Half(r, p)
  <2>1. End(r) = e
    BY <1>3 DEF End
  <2> QED
    BY <1>1, <1>3, <1>5, <1>6, <1>8, <1>10, <1>11, <1>12, <2>1 DEF Half, Held, Form
<1>14. Keeps(f, g, h)
  <2>1. \A d \in DOMAIN f \ {h} : f[d].used => d # p /\ d # c
    BY <1>20
  <2> QED
    BY <1>5, <1>7, <2>1 DEF Keeps
<1>15. ASSUME PrevsBut(f, h) PROVE PrevsBut(g, p)
  <2> SUFFICES ASSUME NEW d \in DOMAIN g \ {p}, d + g[d].size \in DOMAIN g
               PROVE  g[d + g[d].size].prev = g[d].size
    BY DEF PrevsOf, PrevsBut
  <2>1. d \in DOMAIN f \ {h} /\ g[d].size = f[d].size
    BY <1>7, <1>20
  <2>2. d + f[d].size \in DOMAIN f
    BY <1>7, <2>1
  <2>3. f[d + f[d].size].prev = f[d].size
    BY <1>15, <2>1, <2>2 DEF PrevsOf, PrevsBut
  <2> QED
    BY <1>5, <2>1, <2>3
<1>16. r.chunk = g /\ r.pages = b.pages /\ r.rc = b.rc
  BY <1>3
<1>17. /\ p + r.chunk[p].size = c + f[c].size
       /\ DOMAIN r.chunk = DOMAIN f \ {c}
       /\ \A d \in DOMAIN r.chunk : r.chunk[d].used <=> f[d].used
  BY <1>5, <1>6, <1>7, <1>16
<1>18. Keeps(f, r.chunk, h) /\ (PrevsBut(f, h) => PrevsBut(r.chunk, p))
  BY <1>14, <1>15, <1>16
<1> QED
  BY <1>13, <1>16, <1>17, <1>18

\* free before and after it joined chunk c with the chunk before it.
LEMMA JoinBack ==
    ASSUME NEW b, Whole(b), NEW c \in DOMAIN b.chunk, b.chunk[c].used,
           b.chunk[c].prev # 0 =>
              /\ c - b.chunk[c].prev \in DOMAIN b.chunk
              /\ Next(b, c - b.chunk[c].prev) = c,
           NEW j, j = joinBack(b, c)
    PROVE  /\ Half(j.b, j.at) /\ j.b.pages = b.pages /\ j.b.rc = b.rc
           /\ j.at = c \/ ~b.chunk[j.at].used
           /\ Keeps(b.chunk, j.b.chunk, c)
           /\ PrevsOf(b.chunk, {}) => PrevsBut(j.b.chunk, j.at)
<1> DEFINE f == b.chunk
           p == c - f[c].prev
           r == merged(b, p, c, p)
<1>1. Form(b) /\ Line(f, End(b)) /\ Backs(f, End(b)) /\ Listing(f, b.free, {}) /\ Apart(f, {})
  BY DEF Whole
<1>2. End(b) \in Nat
  BY <1>1, EndIsNat DEF Form
<1>3. header(b, c) = f[c]
  BY DEF header
<1>4. \A d \in DOMAIN f : d \in Nat /\ f[d].size \in Nat /\ f[d].size > 0 /\ BlockHeader <= d
  BY <1>1 DEF Line
<1>5. Listing(f, b.free, {c})
  <2>1. FreeOf(f) \ {c} = FreeOf(f) \ {}
    BY DEF FreeOf
  <2> QED
    BY <1>1, <2>1, ListingSame
<1>6. Apart(f, {c})
  BY <1>1 DEF Apart
<1>7. PrevsOf(f, {}) => PrevsBut(f, c)
  BY DEF PrevsOf, PrevsBut
<1>10. Held(b, c)
  BY <1>1, <1>5, <1>6 DEF Held
<1>8. CASE f[c].prev # 0 /\ ~header(b, p).used
  <2>1. p \in DOMAIN f /\ p + f[p].size = c /\ ~f[p].used
    BY <1>8 DEF Next, header
  <2>3. \A d \in DOMAIN f : d + f[d].size = p => f[d].used
    BY <1>1, <2>1 DEF Apart
  <2>4. j = [at |-> p, b |-> r]
    BY <1>3, <1>8 DEF joinBack
  <2>6. /\ Half(r, p) /\ r.pages = b.pages /\ r.rc = b.rc /\ Keeps(f, r.chunk, c)
        /\ PrevsBut(f, c) => PrevsBut(r.chunk, p)
    <3>1. r = merged(b, p, c, p) /\ c \in DOMAIN b.chunk 
      OBVIOUS
    <3> HIDE DEF p, r
    <3>2. TheTwo(p, c, p, c)
      BY Zenon DEF TheTwo
    <3> QED
      BY <1>10, <2>1, <2>3, <3>1, <3>2, Joining
  <2> QED
    BY <1>7, <2>1, <2>4, <2>6
<1>9. CASE ~(f[c].prev # 0 /\ ~header(b, p).used)
  <2>1. j = [at |-> c, b |-> b]
    BY <1>3, <1>9 DEF joinBack
  <2>2. ASSUME NEW d \in DOMAIN f, d + f[d].size = c PROVE f[d].used
    <3>1. c # BlockHeader
      BY <1>4, <2>2, HallocAssumption
    <3>2. f[c].prev # 0
      BY <1>1, <3>1 DEF Backs
    <3>3. p \in DOMAIN f /\ p + f[p].size = c
      BY <3>2 DEF Next, header
    <3>4. d = p
      <4> HIDE DEF p
      <4> QED
        BY <1>1, <1>2, <2>2, <3>3, OneBefore
    <3> QED
      BY <1>9, <3>2, <3>3, <3>4 DEF header
  <2>3. Half(b, c)
    BY <1>10, <2>2 DEF Half
  <2>4. Keeps(f, f, c)
    BY DEF Keeps
  <2> QED
    BY <1>7, <2>1, <2>3, <2>4
<1> QED
  BY <1>8, <1>9

\* The chunk behind chunk c is in use.
AfterUsed(f, c) == c + f[c].size \in DOMAIN f => f[c + f[c].size].used

\* `prev' of chunk n is written.
LEMMA PrevWritten ==
    ASSUME NEW b, NEW c, Held(b, c), NEW n \in DOMAIN b.chunk, n # BlockHeader,
           NEW v \in Nat, v > 0, v <= End(b), NEW r, r = [b EXCEPT !.chunk[n].prev = v]
    PROVE  /\ Held(r, c) /\ r.pages = b.pages /\ r.rc = b.rc
           /\ DOMAIN r.chunk = DOMAIN b.chunk
           /\ \A d \in DOMAIN b.chunk :
                 r.chunk[d].size = b.chunk[d].size /\ (r.chunk[d].used <=> b.chunk[d].used)
           /\ r.chunk[n].prev = v
           /\ \A d \in DOMAIN b.chunk : d # n => r.chunk[d].prev = b.chunk[d].prev
<1> DEFINE f == b.chunk
           g == [f EXCEPT ![n].prev = v]
<1>1. /\ Form(b) /\ Line(f, End(b)) /\ Backs(f, End(b)) /\ Listing(f, b.free, {c}) /\ Apart(f, {c})
      /\ c \in DOMAIN f
  BY DEF Held
<1>2. /\ b = [pages |-> b.pages, rc |-> b.rc, free |-> b.free, chunk |-> b.chunk]
      /\ b.pages \in Nat \ {0} /\ b.rc \in Nat
      /\ f = [d \in DOMAIN f |-> f[d]] /\ \A d \in DOMAIN f : f[d] \in HeaderForm
  BY <1>1 DEF Form, Headers
<1>3. r = [pages |-> b.pages, rc |-> b.rc, free |-> b.free, chunk |-> g]
  BY <1>2
<1>4. DOMAIN g = DOMAIN f /\ \A d \in DOMAIN f : d # n => g[d] = f[d]
  BY <1>2
<1>5. g[n] = [f[n] EXCEPT !.prev = v]
  BY <1>2
<1>6. g[n] \in HeaderForm /\ g[n].size = f[n].size /\ (g[n].used <=> f[n].used) /\ g[n].prev = v
  BY <1>2, <1>5 DEF HeaderForm
<1>14. g = [d \in DOMAIN f |-> g[d]]
  BY <1>2
<1> HIDE DEF g
<1>7. Headers(g)
  BY <1>2, <1>4, <1>6, <1>14 DEF Headers
<1>8. \A d \in DOMAIN f : g[d].size = f[d].size /\ (g[d].used <=> f[d].used)
  BY <1>4, <1>6
<1>9. End(b) \in Nat
  BY <1>2, EndIsNat
<1>10. Line(g, End(b))
  BY <1>1, <1>4, <1>8, <1>9, LineSame
<1>11. Backs(g, End(b))
  <2>1. \A d \in DOMAIN f : d # n => g[d].prev = f[d].prev
    BY <1>4
  <2> QED
    BY <1>1, <1>4, <1>6, <2>1 DEF Backs
<1>12. Listing(g, b.free, {c})
  <2>1. FreeOf(g) \ {c} = FreeOf(f) \ {c}
    BY <1>4, <1>8 DEF FreeOf
  <2>2. \A d \in FreeOf(f) \ {c} : g[d].size = f[d].size
    BY <1>8 DEF FreeOf
  <2> QED
    BY <1>1, <2>1, <2>2, ListingSame
<1>13. Apart(g, {c})
  <2> SUFFICES ASSUME NEW d \in DOMAIN g \ {c}, ~g[d].used, d + g[d].size \in DOMAIN g \ {c}
               PROVE  g[d + g[d].size].used
    BY DEF Apart
  <2>1. d \in DOMAIN f \ {c} /\ g[d].size = f[d].size /\ ~f[d].used
    BY <1>4, <1>8
  <2>2. d + f[d].size \in DOMAIN f \ {c}
    BY <1>4, <2>1
  <2>3. f[d + f[d].size].used
    BY <1>1, <2>1, <2>2 DEF Apart
  <2> QED
    BY <1>8, <2>1, <2>2, <2>3
<1>15. r.pages = b.pages /\ r.rc = b.rc /\ r.free = b.free /\ r.chunk = g
  BY <1>3
<1>16. End(r) = End(b)
  BY <1>15 DEF End
<1>17. Held(r, c)
  <2>1. Form(r)
    BY <1>2, <1>3, <1>7, <1>15 DEF Form
  <2> QED
    BY <1>1, <1>4, <1>10, <1>11, <1>12, <1>13, <1>15, <1>16, <2>1 DEF Held
<1> QED
  BY <1>4, <1>6, <1>8, <1>15, <1>17

\* free before and after it joined what it holds with the chunk behind it.
LEMMA JoinFront ==
    ASSUME NEW b, NEW c, Half(b, c), NEW r, r = joinFront(b, c)
    PROVE  /\ Half(r, c) /\ AfterUsed(r.chunk, c) /\ r.pages = b.pages /\ r.rc = b.rc
           /\ Keeps(b.chunk, r.chunk, c)
           /\ PrevsBut(b.chunk, c) => PrevsOf(r.chunk, {})
<1> DEFINE f == b.chunk
           n == Next(b, c)
<1>1. /\ Form(b) /\ Line(f, End(b)) /\ Backs(f, End(b)) /\ Apart(f, {c})
      /\ c \in DOMAIN f /\ Held(b, c)
      /\ \A d \in DOMAIN f : d + f[d].size = c => f[d].used
  BY DEF Held, Half
<1>2. End(b) \in Nat /\ b.pages \in Nat \ {0}
  BY <1>1, EndIsNat DEF Form
<1>3. n = c + f[c].size /\ header(b, c) = f[c] /\ (within_block(b, c) <=> n \in DOMAIN f)
  BY <1>1, <1>2, WithinFacts
<1>4. \A d \in DOMAIN f : d \in Nat /\ f[d].size \in Nat /\ f[d].size > 0 /\ BlockHeader <= d
  BY <1>1 DEF Line
<1>5. \A d \in DOMAIN f : d + f[d].size <= End(b)
  BY <1>1, <1>2, LineBounds
<1>6. BlockHeader \in Nat
  BY HallocAssumption
<1> HIDE DEF n
<1>7. c < n /\ n # BlockHeader
  BY <1>1, <1>3, <1>4, <1>6
<1>8. f[c].size > 0 /\ f[c].size <= End(b) /\ f[c].size \in Nat
  BY <1>1, <1>2, <1>4, <1>5
<1>10. CASE ~within_block(b, c)
  <2>1. r = b
    BY <1>10 DEF joinFront
  <2>2. n \notin DOMAIN f
    BY <1>3, <1>10
  <2>3. AfterUsed(f, c)
    BY <1>3, <2>2 DEF AfterUsed
  <2>4. PrevsBut(f, c) => PrevsOf(f, {})
    BY <1>3, <2>2 DEF PrevsBut, PrevsOf
  <2>5. Keeps(f, f, c)
    BY DEF Keeps
  <2> QED
    BY <2>1, <2>3, <2>4, <2>5
<1>20. CASE within_block(b, c) /\ header(b, n).used
  <2>1. n \in DOMAIN f /\ f[n].used
    BY <1>3, <1>20 DEF header
  <2>2. r = [b EXCEPT !.chunk[n].prev = f[c].size]
    BY <1>20 DEF joinFront, n
  <2> DEFINE g == r.chunk
  <2>3. /\ Held(r, c) /\ r.pages = b.pages /\ r.rc = b.rc
        /\ DOMAIN g = DOMAIN f
        /\ \A d \in DOMAIN f : g[d].size = f[d].size /\ (g[d].used <=> f[d].used)
        /\ g[n].prev = f[c].size
        /\ \A d \in DOMAIN f : d # n => g[d].prev = f[d].prev
    BY <1>1, <1>7, <1>8, <2>1, <2>2, PrevWritten
  <2> HIDE DEF g
  <2>4. \A d \in DOMAIN g : d + g[d].size = c => g[d].used
    BY <1>1, <2>3
  <2>5. AfterUsed(g, c)
    BY <1>1, <1>3, <2>1, <2>3 DEF AfterUsed
  <2>6. Keeps(f, g, c)
    BY <2>3 DEF Keeps
  <2>7. ASSUME PrevsBut(f, c) PROVE PrevsOf(g, {})
    <3> SUFFICES ASSUME NEW d \in DOMAIN f, d + f[d].size \in DOMAIN f
                 PROVE  g[d + f[d].size].prev = f[d].size
      BY <2>3 DEF PrevsOf
    <3>1. CASE d = c
      BY <1>3, <2>3, <3>1
    <3>2. CASE d # c
      <4>1. d + f[d].size # n
        BY <1>1, <1>2, <1>3, <3>2, OneBefore
      <4>2. f[d + f[d].size].prev = f[d].size
        BY <2>7, <3>2 DEF PrevsBut, PrevsOf
      <4> QED
        BY <2>3, <4>1, <4>2
    <3> QED
      BY <3>1, <3>2
  <2>8. Half(r, c)
    BY <2>3, <2>4 DEF Half, g
  <2> QED
    BY <2>3, <2>5, <2>6, <2>7, <2>8 DEF g
<1>30. CASE within_block(b, c) /\ ~header(b, n).used
  <2> DEFINE j == merged(b, c, n, n)
             h == j.chunk
             m == Next(b, n)
  <2>1. n \in DOMAIN f /\ ~f[n].used
    BY <1>3, <1>30 DEF header
  <2>2. m = n + f[n].size /\ (within_block(b, n) <=> m \in DOMAIN f)
    BY <1>1, <1>2, <2>1, WithinFacts
  <2>3. TheTwo(c, n, n, c)
    BY DEF TheTwo
  <2>4. /\ Half(j, c) /\ j.pages = b.pages /\ j.rc = b.rc
        /\ c + h[c].size = n + f[n].size
        /\ DOMAIN h = DOMAIN f \ {n}
        /\ \A d \in DOMAIN h : h[d].used <=> f[d].used
        /\ Keeps(f, h, c)
        /\ PrevsBut(f, c) => PrevsBut(h, c)
    BY <1>1, <1>3, <2>1, <2>3, Joining
  <2> HIDE DEF j, h, m
  <2>5. r = IF within_block(b, n) THEN [j EXCEPT !.chunk[m].prev = h[c].size] ELSE j
    BY <1>30 DEF joinFront, j, h, m, n
  <2>6. c + h[c].size = m /\ c \in DOMAIN h /\ n < m
    BY <1>1, <1>4, <1>7, <2>1, <2>2, <2>4
  <2>10. CASE ~within_block(b, n)
    <3>1. r = j /\ m \notin DOMAIN h
      BY <2>2, <2>4, <2>5, <2>10
    <3>2. AfterUsed(h, c)
      BY <2>6, <3>1 DEF AfterUsed
    <3>3. PrevsBut(h, c) => PrevsOf(h, {})
      BY <2>6, <3>1 DEF PrevsBut, PrevsOf
    <3> QED
      BY <2>4, <3>1, <3>2, <3>3 DEF h
  <2>20. CASE within_block(b, n)
    <3>1. m \in DOMAIN f /\ m \in DOMAIN h /\ m # BlockHeader
      <4>1. m # n /\ BlockHeader <= n
        BY <1>4, <2>1, <2>2, <2>6
      <4> QED
        BY <1>4, <1>6, <2>1, <2>2, <2>4, <2>6, <2>20, <4>1
    <3>2. f[m].used
      <4>1. n # c /\ m # c
        BY <1>1, <1>4, <1>7, <2>1, <2>6, <3>1
      <4> QED
        BY <1>1, <2>1, <2>2, <3>1, <4>1 DEF Apart
    <3>3. r = [j EXCEPT !.chunk[m].prev = h[c].size]
      BY <2>5, <2>20
    <3> DEFINE g == r.chunk
    <3>4. /\ Held(j, c) /\ End(j) = End(b) /\ Line(h, End(b))
          /\ \A d \in DOMAIN h : d + h[d].size = c => h[d].used
      BY <2>4 DEF Half, Held, End, h
    <3>5. h[c].size \in Nat /\ h[c].size > 0 /\ h[c].size <= End(b)
      <4>1. c + h[c].size <= End(b)
        BY <1>2, <2>6, <3>4, LineBounds
      <4>2. h[c].size \in Nat /\ h[c].size > 0 /\ c \in Nat
        BY <2>6, <3>4 DEF Line
      <4> QED
        BY <1>2, <4>1, <4>2
    <3>6. /\ Held(r, c) /\ r.pages = j.pages /\ r.rc = j.rc
          /\ DOMAIN g = DOMAIN h
          /\ \A d \in DOMAIN h : g[d].size = h[d].size /\ (g[d].used <=> h[d].used)
          /\ g[m].prev = h[c].size
          /\ \A d \in DOMAIN h : d # m => g[d].prev = h[d].prev
      BY <3>1, <3>3, <3>4, <3>5, PrevWritten DEF h
    <3> HIDE DEF g
    <3>7. \A d \in DOMAIN g : d + g[d].size = c => g[d].used
      BY <3>4, <3>6
    <3>8. AfterUsed(g, c)
      BY <2>4, <2>6, <3>1, <3>2, <3>6 DEF AfterUsed
    <3>9. Keeps(f, g, c)
      BY <2>4, <3>6 DEF Keeps
    <3>10. ASSUME PrevsBut(f, c) PROVE PrevsOf(g, {})
      <4> SUFFICES ASSUME NEW d \in DOMAIN h, d + h[d].size \in DOMAIN h
                   PROVE  g[d + h[d].size].prev = h[d].size
        BY <3>6 DEF PrevsOf
      <4>1. CASE d = c
        BY <2>6, <3>6, <4>1
      <4>2. CASE d # c
        <5>1. d + h[d].size # m
          BY <1>2, <2>6, <3>4, <4>2, OneBefore
        <5>2. h[d + h[d].size].prev = h[d].size
          BY <2>4, <3>10, <4>2 DEF PrevsBut, PrevsOf
        <5> QED
          BY <3>6, <5>1, <5>2
      <4> QED
        BY <4>1, <4>2
    <3>11. Half(r, c)
      BY <3>6, <3>7 DEF Half, g
    <3> QED
      BY <2>4, <3>6, <3>8, <3>9, <3>10, <3>11 DEF g
  <2> QED
    BY <2>10, <2>20
<1> QED
  BY <1>10, <1>20, <1>30

\* Chunk c of f marked free.
Unuse(f, c) == [f EXCEPT ![c].used = FALSE]

\* Chunk c, on no list between neighbours in use, is marked free and put on one.
LEMMA Freed ==
    ASSUME NEW b, NEW c, Half(b, c), AfterUsed(b.chunk, c), b.rc > 0,
           NEW g, g = Unuse(b.chunk, c), NEW t, Listing(g, t, {}),
           NEW r, r = [pages |-> b.pages, rc |-> b.rc - 1, free |-> t, chunk |-> g]
    PROVE  /\ Whole(r)
           /\ Keeps(b.chunk, g, c)
           /\ PrevsOf(b.chunk, {}) => PrevsOf(g, {})
<1> DEFINE f == b.chunk
<1>1. /\ Form(b) /\ Line(f, End(b)) /\ Backs(f, End(b)) /\ Apart(f, {c}) /\ c \in DOMAIN f
      /\ \A d \in DOMAIN f : d + f[d].size = c => f[d].used
  BY DEF Half, Held
<1>2. /\ b.pages \in Nat \ {0} /\ b.rc \in Nat
      /\ f = [d \in DOMAIN f |-> f[d]] /\ \A d \in DOMAIN f : f[d] \in HeaderForm
  BY <1>1 DEF Form, Headers
<1>3. /\ DOMAIN g = DOMAIN f /\ g[c] = [f[c] EXCEPT !.used = FALSE]
      /\ \A d \in DOMAIN f : d # c => g[d] = f[d]
  BY <1>1, <1>2 DEF Unuse
<1>4. g[c] \in HeaderForm /\ g[c].size = f[c].size /\ g[c].prev = f[c].prev /\ ~g[c].used
  BY <1>1, <1>2, <1>3 DEF HeaderForm
<1>5. \A d \in DOMAIN f : g[d].size = f[d].size /\ g[d].prev = f[d].prev
  BY <1>3, <1>4
<1>6. Headers(g)
  <2>1. g = [d \in DOMAIN f |-> g[d]]
    BY <1>2 DEF Unuse
  <2> QED
    BY <1>2, <1>3, <1>4, <2>1 DEF Headers
<1>7. End(b) \in Nat /\ r.pages = b.pages /\ r.rc = b.rc - 1 /\ r.free = t /\ r.chunk = g
  BY <1>2, EndIsNat
<1>8. End(r) = End(b)
  BY <1>7 DEF End
<1>9. Line(g, End(b))
  BY <1>1, <1>3, <1>5, <1>7, LineSame
<1>10. Backs(g, End(b))
  BY <1>1, <1>3, <1>5 DEF Backs
<1>11. Form(r)
  BY <1>2, <1>6, <1>7 DEF Form
<1>12. Apart(g, {})
  <2> SUFFICES ASSUME NEW d \in DOMAIN f, ~g[d].used, d + f[d].size \in DOMAIN f
               PROVE  g[d + f[d].size].used
    BY <1>3, <1>5 DEF Apart
  <2>1. f[d].size > 0 /\ f[d].size \in Nat /\ d \in Nat
    BY <1>1 DEF Line
  <2>2. CASE d = c
    <3>1. d + f[d].size # c /\ f[d + f[d].size].used
      BY <2>1, <2>2 DEF AfterUsed
    <3> QED
      BY <1>3, <3>1
  <2>3. CASE d # c
    <3>1. ~f[d].used
      BY <1>3, <2>3
    <3>2. d + f[d].size # c
      BY <1>1, <3>1
    <3>3. f[d + f[d].size].used
      BY <1>1, <2>3, <3>1, <3>2 DEF Apart
    <3> QED
      BY <1>3, <3>2, <3>3
  <2> QED
    BY <2>2, <2>3
<1>13. Whole(r)
  BY <1>7, <1>8, <1>9, <1>10, <1>11, <1>12 DEF Whole
<1>14. Keeps(f, g, c)
  BY <1>3 DEF Keeps
<1>15. PrevsOf(f, {}) => PrevsOf(g, {})
  BY <1>3, <1>5 DEF PrevsOf
<1> QED
  BY <1>13, <1>14, <1>15

\* Two fields of a block are written.
LEMMA TwoFields ==
    ASSUME NEW w, w = [pages |-> w.pages, rc |-> w.rc, free |-> w.free, chunk |-> w.chunk],
           NEW g, NEW r, NEW q, q = [w EXCEPT !.chunk = g, !.rc = r]
    PROVE  q = [pages |-> w.pages, rc |-> r, free |-> w.free, chunk |-> g]
<1>1. q = [x \in DOMAIN q |-> q[x]]
  OBVIOUS
<1>2. DOMAIN q = {"pages", "rc", "free", "chunk"}
  OBVIOUS
<1>3. q = [pages |-> q.pages, rc |-> q.rc, free |-> q.free, chunk |-> q.chunk]
  BY <1>1, <1>2
<1>4. q.chunk = g /\ q.rc = r /\ q.pages = w.pages /\ q.free = w.free
  OBVIOUS
<1> QED
  BY <1>3, <1>4

\* A chunk is marked and counted.
LEMMA Marked ==
    ASSUME NEW w, w = [pages |-> w.pages, rc |-> w.rc, free |-> w.free, chunk |-> w.chunk],
           NEW k, NEW u, NEW r, NEW q, q = [w EXCEPT !.chunk[k].used = u, !.rc = r]
    PROVE  q = [pages |-> w.pages, rc |-> r, free |-> w.free,
                chunk |-> [w.chunk EXCEPT ![k].used = u]]
<1> DEFINE g == [w.chunk EXCEPT ![k].used = u]
<1>1. q = [w EXCEPT !.chunk = g, !.rc = r]
  OBVIOUS
<1> HIDE DEF g
<1>2. q = [pages |-> w.pages, rc |-> r, free |-> w.free, chunk |-> g]
  BY <1>1, TwoFields
<1> QED
  BY <1>2 DEF g

\* free, the part inside the block.
LEMMA Released ==
    ASSUME NEW b, Whole(b), NEW c \in DOMAIN b.chunk, b.chunk[c].used, b.rc > 0,
           b.chunk[c].prev # 0 =>
              /\ c - b.chunk[c].prev \in DOMAIN b.chunk
              /\ Next(b, c - b.chunk[c].prev) = c,
           NEW r, r = release(b, c)
    PROVE  /\ Whole(r) /\ r.pages = b.pages /\ r.rc = b.rc - 1
           /\ Keeps(b.chunk, r.chunk, c)
           /\ PrevsOf(b.chunk, {}) => PrevsOf(r.chunk, {})
<1>1. CASE b.free = <<>>
  <2> DEFINE f == b.chunk
             g == [b.chunk EXCEPT ![c].used = FALSE]
             t == <<c>>
  <2>1. Form(b) /\ Line(f, End(b)) /\ Backs(f, End(b)) /\ Listing(f, b.free, {})
    BY DEF Whole
  <2>2. \A d \in DOMAIN f : f[d].used
    <3>1. ToSet(b.free) = {}
      BY <1>1 DEF ToSet
    <3>2. FreeOf(f) = {}
      BY <2>1, <3>1 DEF Listing
    <3> QED
      BY <3>2 DEF FreeOf
  <2>3. Listing(f, b.free, {c})
    <3>1. FreeOf(f) \ {c} = FreeOf(f) \ {}
      BY <2>2 DEF FreeOf
    <3> QED
      BY <2>1, <3>1, ListingSame
  <2>4. Half(b, c)
    BY <2>1, <2>2, <2>3 DEF Half, Held, Apart
  <2>5. AfterUsed(f, c)
    BY <2>2 DEF AfterUsed
  <2>6. c \in Nat
    BY <2>1 DEF Line
  <2>7. /\ b = [pages |-> b.pages, rc |-> b.rc, free |-> b.free, chunk |-> b.chunk]
        /\ f = [d \in DOMAIN f |-> f[d]] /\ \A d \in DOMAIN f : f[d] \in HeaderForm
    BY <2>1 DEF Form, Headers
  <2>8. r = [pages |-> b.pages, rc |-> b.rc - 1, free |-> t, chunk |-> g]
    BY <1>1, <2>7 DEF release
  <2>9. FreeOf(g) = {c}
    <3>1. DOMAIN g = DOMAIN f /\ ~g[c].used /\ \A d \in DOMAIN f : d # c => g[d].used
      BY <2>2, <2>7 DEF HeaderForm
    <3> QED
      BY <3>1 DEF FreeOf
  <2>10. t \in Seq(Nat) /\ Len(t) = 1 /\ DOMAIN t = {1} /\ t[1] = c
    BY <2>6
  <2>11. IsInjective(t) /\ ToSet(t) = {c}
    BY <2>10 DEF IsInjective, ToSet
  <2> HIDE DEF t
  <2>12. Listing(g, t, {})
    <3>1. ToSet(t) = FreeOf(g) \ {}
      BY <2>9, <2>11
    <3>2. \A k \in 1 .. Len(t) : ~(k > 1)
      BY <2>10
    <3> HIDE DEF g
    <3> QED
      BY <2>10, <2>11, <3>1, <3>2 DEF Listing
  <2> HIDE DEF g
  <2>13. /\ Whole(r) /\ Keeps(f, g, c) /\ (PrevsOf(f, {}) => PrevsOf(g, {}))
    BY <2>4, <2>5, <2>8, <2>12, Freed DEF g, Unuse
  <2>14. r.chunk = g /\ r.pages = b.pages /\ r.rc = b.rc - 1
    BY <2>8
  <2> QED
    BY <2>13, <2>14
<1>2. CASE b.free # <<>>
  <2> DEFINE j == joinBack(b, c)
             k == j.at
             w == joinFront(j.b, k)
             f == w.chunk
             g == [w.chunk EXCEPT ![k].used = FALSE]
             q == [w EXCEPT !.chunk[k].used = FALSE, !.rc = @ - 1]
  <2>1. /\ Half(j.b, k) /\ j.b.pages = b.pages /\ j.b.rc = b.rc
        /\ k = c \/ ~b.chunk[k].used
        /\ Keeps(b.chunk, j.b.chunk, c)
        /\ PrevsOf(b.chunk, {}) => PrevsBut(j.b.chunk, k)
    BY JoinBack
  <2> HIDE DEF j, k
  <2>2. /\ Half(w, k) /\ AfterUsed(f, k) /\ w.pages = j.b.pages /\ w.rc = j.b.rc
        /\ Keeps(j.b.chunk, f, k)
        /\ PrevsBut(j.b.chunk, k) => PrevsOf(f, {})
    BY <2>1, JoinFront
  <2>3. r = freelist_insert(q, k)
    BY <1>2 DEF release, j, k
  <2> HIDE DEF w
  <2>4. /\ Form(w) /\ k \in DOMAIN f /\ Listing(f, w.free, {k}) /\ Line(f, End(w))
    BY <2>2 DEF Half, Held
  <2>5. /\ w = [pages |-> w.pages, rc |-> w.rc, free |-> w.free, chunk |-> f]
        /\ f = [d \in DOMAIN f |-> f[d]] /\ \A d \in DOMAIN f : f[d] \in HeaderForm
    BY <2>4 DEF Form, Headers
  <2>6. q = [pages |-> w.pages, rc |-> w.rc - 1, free |-> w.free, chunk |-> g]
    <3>1. q = [w EXCEPT !.chunk[k].used = FALSE, !.rc = w.rc - 1]
      OBVIOUS
    <3> HIDE DEF q
    <3> QED
      BY <2>5, <3>1, Marked
  <2>7. /\ DOMAIN g = DOMAIN f /\ g[k] = [f[k] EXCEPT !.used = FALSE]
        /\ \A d \in DOMAIN f : d # k => g[d] = f[d]
    BY <2>4, <2>5
  <2>8. ~g[k].used /\ \A d \in DOMAIN f : g[d].size = f[d].size
    BY <2>4, <2>5, <2>7 DEF HeaderForm
  <2> HIDE DEF q
  <2>9. Listing(g, w.free, {k})
    <3>1. FreeOf(g) \ {k} = FreeOf(f) \ {k}
      BY <2>7 DEF FreeOf
    <3>2. \A d \in FreeOf(f) \ {k} : g[d].size = f[d].size
      BY <2>8 DEF FreeOf
    <3> HIDE DEF g
    <3> QED
      BY <2>4, <3>1, <3>2, ListingSame
  <2>10. k \in FreeOf(g) \cap {k} /\ k \in Nat /\ \A d \in DOMAIN g : g[d].size \in Nat
    BY <2>4, <2>7, <2>8 DEF FreeOf, Line
  <2>11. q.chunk = g /\ q.free = w.free
    BY <2>6
  <2>12. PICK t : r = [q EXCEPT !.free = t] /\ Listing(g, t, {k} \ {k})
    <3> HIDE DEF g
    <3>1. Listing(q.chunk, q.free, {k})
      BY <2>9, <2>11
    <3>2. k \in FreeOf(q.chunk) \cap {k} /\ k \in Nat /\ \A d \in DOMAIN q.chunk : q.chunk[d].size \in Nat
      BY <2>10, <2>11
    <3>3. \E t : freelist_insert(q, k) = [q EXCEPT !.free = t] /\ Listing(q.chunk, t, {k} \ {k})
      BY <3>1, <3>2, ListingPut
    <3> QED
      BY <2>3, <2>11, <3>3
  <2>13. {k} \ {k} = {}
    OBVIOUS
  <2>14. Listing(g, t, {})
    BY <2>12, <2>13
  <2>15. r = [pages |-> w.pages, rc |-> w.rc - 1, free |-> t, chunk |-> g]
    <3> HIDE DEF g
    <3> QED
      BY <2>6, <2>12
  <2>16. w.rc > 0
    BY <2>1, <2>2
  <2>17. Whole(r) /\ Keeps(f, g, k) /\ (PrevsOf(f, {}) => PrevsOf(g, {}))
    <3>1. g = [w.chunk EXCEPT ![k].used = FALSE]
      OBVIOUS
    <3> HIDE DEF g
    <3> QED
      BY <2>2, <2>14, <2>15, <2>16, <3>1, Freed DEF Unuse
  <2>18. r.chunk = g /\ r.pages = b.pages /\ r.rc = b.rc - 1
    BY <2>1, <2>2, <2>15
  <2>19. Keeps(b.chunk, g, c)
    <3> SUFFICES ASSUME NEW d \in DOMAIN b.chunk \ {c}, b.chunk[d].used
                 PROVE  d \in DOMAIN g /\ g[d].used /\ g[d].size = b.chunk[d].size
      BY DEF Keeps
    <3>1. d \in DOMAIN j.b.chunk /\ j.b.chunk[d].used /\ j.b.chunk[d].size = b.chunk[d].size /\ d # k
      BY <2>1 DEF Keeps
    <3>2. d \in DOMAIN f /\ f[d].used /\ f[d].size = b.chunk[d].size
      BY <2>2, <3>1 DEF Keeps
    <3> QED
      BY <2>17, <3>1, <3>2 DEF Keeps
  <2> QED
    BY <2>1, <2>2, <2>17, <2>18, <2>19
<1> QED
  BY <1>1, <1>2

\* The table f with chunk c marked used, and with another size of it.
Use(f, c)     == [f EXCEPT ![c].used = TRUE]
Sized(f, c, z) == [f EXCEPT ![c].size = z]

\* Chunk c, which is on no list, is marked used.
LEMMA Taken ==
    ASSUME NEW b, NEW c, Held(b, c), NEW g, g = Use(b.chunk, c),
           NEW r, r = [pages |-> b.pages, rc |-> b.rc + 1, free |-> b.free, chunk |-> g]
    PROVE  /\ Whole(r)
           /\ c \in DOMAIN g /\ g[c].used /\ g[c].size = b.chunk[c].size
           /\ Keeps(b.chunk, g, c)
           /\ PrevsOf(b.chunk, {}) => PrevsOf(g, {})
<1> DEFINE f == b.chunk
<1>1. /\ Form(b) /\ Line(f, End(b)) /\ Backs(f, End(b)) /\ Apart(f, {c}) /\ c \in DOMAIN f
      /\ Listing(f, b.free, {c})
  BY DEF Held
<1>2. /\ b.pages \in Nat \ {0} /\ b.rc \in Nat
      /\ f = [d \in DOMAIN f |-> f[d]] /\ \A d \in DOMAIN f : f[d] \in HeaderForm
  BY <1>1 DEF Form, Headers
<1>3. /\ DOMAIN g = DOMAIN f /\ g[c] = [f[c] EXCEPT !.used = TRUE]
      /\ \A d \in DOMAIN f : d # c => g[d] = f[d]
  BY <1>1, <1>2 DEF Use
<1>4. g[c] \in HeaderForm /\ g[c].size = f[c].size /\ g[c].prev = f[c].prev /\ g[c].used
  BY <1>1, <1>2, <1>3 DEF HeaderForm
<1>5. \A d \in DOMAIN f : g[d].size = f[d].size /\ g[d].prev = f[d].prev
  BY <1>3, <1>4
<1>6. Headers(g)
  <2>1. g = [d \in DOMAIN f |-> g[d]]
    BY <1>2 DEF Use
  <2> QED
    BY <1>2, <1>3, <1>4, <2>1 DEF Headers
<1>7. End(b) \in Nat /\ r.pages = b.pages /\ r.rc = b.rc + 1 /\ r.free = b.free /\ r.chunk = g
  BY <1>2, EndIsNat
<1>8. End(r) = End(b)
  BY <1>7 DEF End
<1>9. Line(g, End(b))
  BY <1>1, <1>3, <1>5, <1>7, LineSame
<1>10. Backs(g, End(b))
  BY <1>1, <1>3, <1>5 DEF Backs
<1>11. Form(r)
  BY <1>2, <1>6, <1>7 DEF Form
<1>12. Apart(g, {})
  <2> SUFFICES ASSUME NEW d \in DOMAIN f, ~g[d].used, d + f[d].size \in DOMAIN f
               PROVE  g[d + f[d].size].used
    BY <1>3, <1>5 DEF Apart
  <2>1. d # c /\ ~f[d].used
    BY <1>3, <1>4
  <2>2. CASE d + f[d].size = c
    BY <1>4, <2>2
  <2>3. CASE d + f[d].size # c
    <3>1. f[d + f[d].size].used
      BY <1>1, <2>1, <2>3 DEF Apart
    <3> QED
      BY <1>3, <2>3, <3>1
  <2> QED
    BY <2>2, <2>3
<1>13. Listing(g, b.free, {})
  <2>1. FreeOf(g) \ {} = FreeOf(f) \ {c}
    BY <1>3, <1>4 DEF FreeOf
  <2>2. \A d \in FreeOf(f) \ {c} : g[d].size = f[d].size
    BY <1>5 DEF FreeOf
  <2> QED
    BY <1>1, <2>1, <2>2, ListingSame
<1>14. Whole(r)
  BY <1>7, <1>8, <1>9, <1>10, <1>11, <1>12, <1>13 DEF Whole
<1>15. Keeps(f, g, c)
  BY <1>3 DEF Keeps
<1>16. PrevsOf(f, {}) => PrevsOf(g, {})
  BY <1>3, <1>5 DEF PrevsOf
<1> QED
  BY <1>1, <1>3, <1>4, <1>14, <1>15, <1>16

\* The header of what chunk c has more than z.
Remains(f, c, z) == [size |-> f[c].size - z, prev |-> z, used |-> FALSE]

\* h is f with what chunk c has more than z as chunk x; in g chunk c is smaller.
Cuts(f, h, g, c, x, z) == h = With(f, x, Remains(f, c, z)) /\ g = Sized(h, c, z)

\* What chunk c has more than z became a chunk of its own, as a table.
LEMMA CutFacts ==
    ASSUME NEW f, NEW h, NEW g, NEW c, NEW x, NEW z, Cuts(f, h, g, c, x, z),
           Headers(f), c \in DOMAIN f, z \in Nat, f[c].size - z \in Nat, x \notin DOMAIN f
    PROVE  /\ Headers(h) /\ DOMAIN h = DOMAIN f \cup {x}
           /\ \A d \in DOMAIN f : h[d] = f[d]
           /\ h[x].size = f[c].size - z /\ ~h[x].used
           /\ Headers(g) /\ DOMAIN g = DOMAIN h /\ g[c].size = z /\ g[x].size = f[c].size - z
           /\ \A d \in DOMAIN f : d # c => g[d].size = f[d].size
           /\ \A d \in DOMAIN f : g[d].prev = f[d].prev /\ (g[d].used <=> f[d].used)
           /\ g[x].prev = z /\ ~g[x].used
<1> DEFINE rest == Remains(f, c, z)
<1>1. f = [d \in DOMAIN f |-> f[d]] /\ \A d \in DOMAIN f : f[d] \in HeaderForm
  BY DEF Headers
<1>2. h = With(f, x, Remains(f, c, z)) /\ g = Sized(h, c, z)
  BY DEF Cuts
<1>3. h = [y \in DOMAIN f \cup {x} |-> IF y = x THEN rest ELSE f[y]]
  BY <1>2 DEF With
<1>17. rest = [size |-> f[c].size - z, prev |-> z, used |-> FALSE]
  BY DEF Remains
<1> HIDE DEF rest
<1>4. DOMAIN h = DOMAIN f \cup {x} /\ h[x] = rest /\ \A d \in DOMAIN f : h[d] = f[d]
  BY <1>3
<1>5. rest \in HeaderForm
  BY <1>17 DEF HeaderForm
<1>6. h = [d \in DOMAIN h |-> h[d]] /\ \A d \in DOMAIN h : h[d] \in HeaderForm
  BY <1>1, <1>3, <1>4, <1>5
<1>7. Headers(h)
  BY <1>6 DEF Headers
<1>8. /\ DOMAIN g = DOMAIN h /\ g[c] = [f[c] EXCEPT !.size = z]
      /\ \A d \in DOMAIN h : d # c => g[d] = h[d]
  BY <1>2, <1>4, <1>6 DEF Sized
<1>9. g[c] \in HeaderForm /\ g[c].size = z /\ g[c].prev = f[c].prev /\ (g[c].used <=> f[c].used)
  <2>1. f[c] \in HeaderForm
    BY <1>1
  <2>2. g[c] = [f[c] EXCEPT !.size = z]
    BY <1>8
  <2> QED
    BY <2>1, <2>2 DEF HeaderForm
<1>10. g = [d \in DOMAIN h |-> g[d]]
  BY <1>2, <1>6 DEF Sized
<1>11. \A d \in DOMAIN h : g[d] \in HeaderForm
  BY <1>6, <1>8, <1>9
<1>12. Headers(g)
  BY <1>8, <1>10, <1>11 DEF Headers
<1>13. h[x].size = f[c].size - z /\ ~h[x].used /\ h[x].prev = z
  BY <1>4, <1>17
<1>14. g[x] = h[x] /\ \A d \in DOMAIN f : d # c => g[d] = f[d]
  BY <1>4, <1>8
<1>15. \A d \in DOMAIN f : d # c => g[d].size = f[d].size
  BY <1>14
<1>16. \A d \in DOMAIN f : g[d].prev = f[d].prev /\ (g[d].used <=> f[d].used)
  BY <1>9, <1>14
<1> QED
  BY <1>4, <1>7, <1>8, <1>9, <1>12, <1>13, <1>14, <1>15, <1>16

\* split before it marks chunk c.
LEMMA CutOff ==
    ASSUME NEW b, Form(b), Line(b.chunk, End(b)), Backs(b.chunk, End(b)), Apart(b.chunk, {}),
           NEW c \in FreeOf(b.chunk), Listing(b.chunk, b.free, {c}),
           NEW z \in Nat, z > 0, b.chunk[c].size - z > AllocHeader,
           NEW r, r = cut_off(b, c, z)
    PROVE  /\ Held(r, c) /\ r.pages = b.pages /\ r.rc = b.rc
           /\ r.chunk[c].size = z
           /\ Keeps(b.chunk, r.chunk, c)
           /\ PrevsOf(b.chunk, {}) /\ ~within_block(b, c) => PrevsOf(r.chunk, {})
<1> DEFINE f == b.chunk
           x == c + z
           h == With(f, x, Remains(f, c, z))
           g == Sized(h, c, z)
           w == [b EXCEPT !.chunk = h]
<1>1. /\ b = [pages |-> b.pages, rc |-> b.rc, free |-> b.free, chunk |-> b.chunk]
      /\ b.pages \in Nat \ {0} /\ b.rc \in Nat /\ Headers(f) /\ c \in DOMAIN f /\ ~f[c].used
  BY DEF Form, FreeOf
<1>2. End(b) \in Nat /\ AllocHeader \in Nat /\ AllocHeader > 0 /\ BlockHeader \in Nat
  BY <1>1, EndIsNat, HallocAssumption
<1>3. \A d \in DOMAIN f : d \in Nat /\ f[d].size \in Nat /\ f[d].size > 0 /\ BlockHeader <= d
  BY DEF Line
<1>4. c \in Nat /\ x \in Nat /\ c < x /\ x < c + f[c].size /\ f[c].size - z \in Nat
  BY <1>1, <1>2, <1>3
<1>5. x \notin DOMAIN f
  <2> SUFFICES ASSUME x \in DOMAIN f PROVE FALSE
    OBVIOUS
  <2>1. c + f[c].size <= x
    BY <1>1, <1>4 DEF Line
  <2> QED
    BY <1>1, <1>3, <1>4, <2>1
<1>8. r = [freelist_insert(w, x) EXCEPT !.chunk[c].size = z]
  BY DEF cut_off, Remains
<1> HIDE DEF g, h, w
<1>6. /\ Headers(h) /\ DOMAIN h = DOMAIN f \cup {x}
      /\ \A d \in DOMAIN f : h[d] = f[d]
      /\ h[x].size = f[c].size - z /\ ~h[x].used
      /\ Headers(g) /\ DOMAIN g = DOMAIN h /\ g[c].size = z /\ g[x].size = f[c].size - z
      /\ \A d \in DOMAIN f : d # c => g[d].size = f[d].size
      /\ \A d \in DOMAIN f : g[d].prev = f[d].prev /\ (g[d].used <=> f[d].used)
      /\ g[x].prev = z /\ ~g[x].used
  <2>1. Cuts(f, h, g, c, x, z)
    BY DEF Cuts, h, g
  <2>2. Headers(f) /\ c \in DOMAIN f /\ z \in Nat /\ f[c].size - z \in Nat /\ x \notin DOMAIN f
    BY <1>1, <1>4, <1>5
  <2> HIDE DEF x, f
  <2> QED
    BY <2>1, <2>2, CutFacts
<1>7. w = [pages |-> b.pages, rc |-> b.rc, free |-> b.free, chunk |-> h]
  BY <1>1 DEF w
<1>9. w.chunk = h /\ w.free = b.free
  BY <1>7
<1> HIDE DEF x
<1>10. DOMAIN g = DOMAIN f \cup {x} /\ CutAt(f, g, c, z)
  BY <1>6 DEF CutAt, x
<1>11. Line(g, End(b))
  BY <1>1, <1>2, <1>10, LineCut
<1>12. Listing(h, b.free, {c, x})
  <2>1. FreeOf(h) \ {c, x} = FreeOf(f) \ {c}
    BY <1>5, <1>6 DEF FreeOf
  <2>2. \A d \in FreeOf(f) \ {c} : h[d].size = f[d].size
    BY <1>6 DEF FreeOf
  <2> QED
    BY <2>1, <2>2, ListingSame
<1>13. PICK t : freelist_insert(w, x) = [w EXCEPT !.free = t] /\ Listing(h, t, {c, x} \ {x})
  <2>1. x \in FreeOf(w.chunk) \cap {c, x} /\ x \in Nat
    BY <1>4, <1>6, <1>9 DEF FreeOf
  <2>2. \A d \in DOMAIN w.chunk : w.chunk[d].size \in Nat
    BY <1>3, <1>4, <1>6, <1>9
  <2>3. Listing(w.chunk, w.free, {c, x})
    BY <1>9, <1>12
  <2>4. \E t : freelist_insert(w, x) = [w EXCEPT !.free = t] /\ Listing(w.chunk, t, {c, x} \ {x})
    BY <2>1, <2>2, <2>3, ListingPut
  <2> QED
    BY <1>9, <2>4
<1>14. r = [pages |-> b.pages, rc |-> b.rc, free |-> t, chunk |-> g]
  <2> DEFINE v == [w EXCEPT !.free = t]
  <2>1. v = [pages |-> b.pages, rc |-> b.rc, free |-> t, chunk |-> h]
    BY <1>7
  <2>2. r = [v EXCEPT !.chunk[c].size = z]
    BY <1>8, <1>13
  <2> HIDE DEF v
  <2>3. v.chunk = h
    BY <2>1
  <2>4. r = [v EXCEPT !.chunk = g]
    BY <2>2, <2>3 DEF g, Sized
  <2> QED
    BY <2>1, <2>4
<1>15. Listing(g, t, {c})
  <2>1. FreeOf(g) \ {c} = FreeOf(h) \ ({c, x} \ {x})
    BY <1>4, <1>6 DEF FreeOf
  <2>2. \A d \in FreeOf(h) \ ({c, x} \ {x}) : g[d].size = h[d].size
    BY <1>4, <1>6 DEF FreeOf
  <2> QED
    BY <1>13, <2>1, <2>2, ListingSame
<1>16. c + f[c].size <= End(b)
  BY <1>1, <1>2, LineBounds
<1>17. Backs(g, End(b))
  <2>1. z <= End(b) /\ z # 0 /\ x # BlockHeader
    BY <1>1, <1>2, <1>3, <1>4, <1>16
  <2> QED
    BY <1>6, <2>1 DEF Backs
\* The chunk that was cut off ends where c ended.
<1>18. x + g[x].size = c + f[c].size /\ c + g[c].size = x
  BY <1>1, <1>3, <1>4, <1>6 DEF x
<1>19. \A d \in DOMAIN f : d # c => d + g[d].size = d + f[d].size /\ d + f[d].size # x
  <2>1. \A d \in DOMAIN f : d + f[d].size \in DOMAIN f \cup {End(b)}
    BY DEF Line
  <2>2. x # End(b)
    BY <1>2, <1>4, <1>6, <1>11, LineBounds
  <2> QED
    BY <1>5, <1>6, <2>1, <2>2
<1>20. Apart(g, {c})
  <2> SUFFICES ASSUME NEW d \in DOMAIN g \ {c}, ~g[d].used, d + g[d].size \in DOMAIN g \ {c}
               PROVE  g[d + g[d].size].used
    BY DEF Apart
  <2>1. CASE d = x
    <3>1. c + f[c].size \in DOMAIN f
      BY <1>1, <1>3, <1>4, <1>6, <1>18, <2>1
    <3>2. f[c + f[c].size].used
      BY <1>1, <3>1 DEF Apart
    <3> QED
      BY <1>6, <1>18, <2>1, <3>1, <3>2
  <2>2. CASE d # x
    <3>1. d \in DOMAIN f /\ ~f[d].used
      BY <1>6, <2>2
    <3>2. d + g[d].size = d + f[d].size /\ d + f[d].size \in DOMAIN f
      BY <1>6, <1>19, <3>1
    <3>3. f[d + f[d].size].used
      BY <3>1, <3>2 DEF Apart
    <3> QED
      BY <1>6, <3>2, <3>3
  <2> QED
    BY <2>1, <2>2
<1>21. Held(r, c)
  <2>1. End(r) = End(b)
    BY <1>14 DEF End
  <2>2. r.chunk = g /\ r.free = t /\ r.pages = b.pages /\ r.rc = b.rc
    BY <1>14
  <2>3. Form(r)
    BY <1>1, <1>6, <1>14, <2>2 DEF Form
  <2> QED
    BY <1>1, <1>6, <1>11, <1>15, <1>17, <1>20, <2>1, <2>2, <2>3 DEF Held
<1>22. Keeps(f, g, c)
  BY <1>6 DEF Keeps
<1>23. ASSUME PrevsOf(f, {}), ~within_block(b, c) PROVE PrevsOf(g, {})
  <2>1. c + f[c].size \notin DOMAIN f
    BY <1>1, <1>23, WithinFacts
  <2>2. c + f[c].size # x
    BY <1>1, <1>3, <1>4
  <2> SUFFICES ASSUME NEW d \in DOMAIN g, d + g[d].size \in DOMAIN g
               PROVE  g[d + g[d].size].prev = g[d].size
    BY DEF PrevsOf
  <2>3. CASE d = c
    BY <1>6, <1>18, <2>3
  <2>4. CASE d = x
    BY <1>6, <1>18, <2>1, <2>2, <2>4
  <2>5. CASE d # c /\ d # x
    <3>1. d \in DOMAIN f /\ d + g[d].size = d + f[d].size /\ d + f[d].size \in DOMAIN f
      BY <1>6, <1>19, <2>5
    <3>2. f[d + f[d].size].prev = f[d].size
      BY <1>23, <3>1 DEF PrevsOf
    <3> QED
      BY <1>6, <2>5, <3>1, <3>2
  <2> QED
    BY <2>3, <2>4, <2>5
<1>24. r.chunk = g /\ r.pages = b.pages /\ r.rc = b.rc
  BY <1>14
<1> QED
  BY <1>6, <1>21, <1>22, <1>23, <1>24

\* What split makes of a block, when malloc asks it for z bytes of the free chunk c.
LEMMA Split ==
    ASSUME NEW b, Whole(b), NEW c \in FreeOf(b.chunk), NEW z \in Nat, z > 0,
           b.chunk[c].size >= z, NEW r, r = split(b, c, z)
    PROVE  /\ Whole(r) /\ r.pages = b.pages /\ r.rc = b.rc + 1
           /\ c \in DOMAIN r.chunk /\ r.chunk[c].used /\ r.chunk[c].size >= z
           /\ Keeps(b.chunk, r.chunk, c)
           /\ /\ PrevsOf(b.chunk, {})
              /\ b.chunk[c].size - z <= AllocHeader \/ ~within_block(b, c)
              => PrevsOf(r.chunk, {})
<1> DEFINE f == b.chunk
           w == freelist_take(b, c)
<1>1. Form(b) /\ Line(f, End(b)) /\ Backs(f, End(b)) /\ Listing(f, b.free, {}) /\ Apart(f, {})
  BY DEF Whole
<1>2. /\ b = [pages |-> b.pages, rc |-> b.rc, free |-> b.free, chunk |-> b.chunk]
      /\ b.pages \in Nat \ {0} /\ b.rc \in Nat /\ Headers(f)
  BY <1>1 DEF Form
<1>3. c \in DOMAIN f /\ ~f[c].used /\ \A d \in DOMAIN f : f[d].size \in Nat
  BY <1>1 DEF FreeOf, Line
<1>4. w = [pages |-> b.pages, rc |-> b.rc, free |-> RemoveFirst(b.free, c), chunk |-> b.chunk]
  BY <1>2 DEF freelist_take
<1>5. Listing(f, RemoveFirst(b.free, c), {c})
  <2>1. c \in FreeOf(f) \ {}
    OBVIOUS
  <2>2. Listing(f, RemoveFirst(b.free, c), {} \cup {c})
    BY <1>1, <1>3, <2>1, ListingTake
  <2>3. {} \cup {c} = {c}
    OBVIOUS
  <2> QED
    BY <2>2, <2>3
<1> HIDE DEF w
<1>6. /\ w.chunk = f /\ w.pages = b.pages /\ w.rc = b.rc /\ End(w) = End(b)
      /\ w.free = RemoveFirst(b.free, c)
  BY <1>4 DEF End
<1>7. Form(w) /\ Line(w.chunk, End(w)) /\ Backs(w.chunk, End(w)) /\ Listing(w.chunk, w.free, {c})
  BY <1>1, <1>2, <1>4, <1>5, <1>6 DEF Form
<1>8. Apart(w.chunk, {}) /\ Apart(w.chunk, {c})
  BY <1>1, <1>6 DEF Apart
<1>10. CASE f[c].size - z <= AllocHeader
  <2> DEFINE g == Use(f, c)
  <2>1. Held(w, c)
    BY <1>3, <1>6, <1>7, <1>8 DEF Held
  <2>2. r = [w EXCEPT !.chunk[c].used = TRUE, !.rc = w.rc + 1]
    BY <1>10 DEF split, w
  <2>3. r = [pages |-> w.pages, rc |-> w.rc + 1, free |-> w.free, chunk |-> g]
    <3>1. w = [pages |-> w.pages, rc |-> w.rc, free |-> w.free, chunk |-> w.chunk]
      BY <1>4
    <3>2. r = [pages |-> w.pages, rc |-> w.rc + 1, free |-> w.free,
               chunk |-> [w.chunk EXCEPT ![c].used = TRUE]]
      BY <2>2, <3>1, Marked
    <3> QED
      BY <1>6, <3>2 DEF Use
  <2>4. g = Use(w.chunk, c)
    BY <1>6
  <2> HIDE DEF g
  <2>5. /\ Whole(r) /\ c \in DOMAIN g /\ g[c].used /\ g[c].size = w.chunk[c].size
        /\ Keeps(w.chunk, g, c) /\ (PrevsOf(w.chunk, {}) => PrevsOf(g, {}))
    BY <2>1, <2>3, <2>4, Taken
  <2>6. r.chunk = g /\ r.pages = w.pages /\ r.rc = w.rc + 1
    BY <2>3
  <2> QED
    BY <1>6, <2>5, <2>6
<1>20. CASE ~(f[c].size - z <= AllocHeader)
  <2> DEFINE y == cut_off(w, c, z)
             g == Use(y.chunk, c)
  <2>0. AllocHeader \in Nat /\ f[c].size \in Nat
    BY <1>3, HallocAssumption
  <2>1. w.chunk[c].size - z > AllocHeader /\ c \in FreeOf(w.chunk)
    BY <1>6, <1>20, <2>0
  <2>2. r = [y EXCEPT !.chunk[c].used = TRUE, !.rc = y.rc + 1]
    BY <1>20 DEF split, w
  <2>3. y = cut_off(w, c, z)
    OBVIOUS
  <2> HIDE DEF y
  <2>4. /\ Held(y, c) /\ y.pages = w.pages /\ y.rc = w.rc
        /\ y.chunk[c].size = z
        /\ Keeps(w.chunk, y.chunk, c)
        /\ PrevsOf(w.chunk, {}) /\ ~within_block(w, c) => PrevsOf(y.chunk, {})
    <3>1. Form(w) /\ Line(w.chunk, End(w)) /\ Backs(w.chunk, End(w)) /\ Apart(w.chunk, {})
      BY <1>7, <1>8
    <3>2. Listing(w.chunk, w.free, {c}) /\ c \in FreeOf(w.chunk) /\ w.chunk[c].size - z > AllocHeader
      BY <1>7, <2>1
    <3>3. Held(y, c)
      BY <2>3, <3>1, <3>2, CutOff
    <3>4. y.pages = w.pages /\ y.rc = w.rc /\ y.chunk[c].size = z
      BY <2>3, <3>1, <3>2, CutOff
    <3>5. Keeps(w.chunk, y.chunk, c)
      BY <2>3, <3>1, <3>2, CutOff
    <3>6. PrevsOf(w.chunk, {}) /\ ~within_block(w, c) => PrevsOf(y.chunk, {})
      BY <2>3, <3>1, <3>2, CutOff
    <3> QED
      BY <3>3, <3>4, <3>5, <3>6
  <2>5. r = [pages |-> y.pages, rc |-> y.rc + 1, free |-> y.free, chunk |-> g]
    <3>1. y = [pages |-> y.pages, rc |-> y.rc, free |-> y.free, chunk |-> y.chunk]
      BY <2>4 DEF Held, Form
    <3>2. r = [pages |-> y.pages, rc |-> y.rc + 1, free |-> y.free,
               chunk |-> [y.chunk EXCEPT ![c].used = TRUE]]
      BY <2>2, <3>1, Marked
    <3> QED
      BY <3>2 DEF Use
  <2>6. g = Use(y.chunk, c)
    OBVIOUS
  <2> HIDE DEF g
  <2>7. /\ Whole(r) /\ c \in DOMAIN g /\ g[c].used /\ g[c].size = y.chunk[c].size
        /\ Keeps(y.chunk, g, c) /\ (PrevsOf(y.chunk, {}) => PrevsOf(g, {}))
    BY <2>4, <2>5, <2>6, Taken
  <2>8. r.chunk = g /\ r.pages = y.pages /\ r.rc = y.rc + 1
    BY <2>5
  <2>9. Keeps(f, g, c)
    <3>1. Keeps(f, y.chunk, c) /\ Keeps(y.chunk, g, c)
      BY <1>6, <2>4, <2>7
    <3> QED
      BY <3>1 DEF Keeps
  <2>10. within_block(w, c) <=> within_block(b, c)
    BY <1>6 DEF within_block, Next, header
  <2>11. g[c].size >= z
    BY <2>4, <2>7
  <2> QED
    BY <1>6, <1>20, <2>4, <2>7, <2>8, <2>9, <2>10, <2>11
<1> QED
  BY <1>10, <1>20

\* A block of pages for a request of z bytes: one free chunk, large enough.
LEMMA NewBlock ==
    ASSUME NEW z \in Nat, z > 0, NEW b, b = init_block(BlockPages(z))
    PROVE  /\ Whole(b) /\ b.rc = 0
           /\ b.free # <<>> /\ Head(b.free) = BlockHeader
           /\ FreeOf(b.chunk) = {BlockHeader} /\ DOMAIN b.chunk = {BlockHeader}
           /\ b.chunk[BlockHeader].size >= z
           /\ PrevsOf(b.chunk, {}) /\ ~within_block(b, BlockHeader)
<1> DEFINE n == BlockPages(z)
           hd == [size |-> n * BlockBytes - BlockHeader - 1, prev |-> 0, used |-> FALSE]
           f == [c \in {BlockHeader} |-> hd]
           s == <<BlockHeader>>
<1>0. /\ BlockBytes \in Nat /\ BlockBytes > 0 /\ BlockHeader \in Nat /\ BlockHeader > 0
      /\ AllocHeader \in Nat /\ AllocHeader >= 2 /\ BlockHeader + 1 + AllocHeader < BlockBytes
  BY HallocAssumption
<1>1. b = [pages |-> n, rc |-> 0, free |-> s, chunk |-> f]
  BY DEF init_block
<1>2. n \in Nat /\ n > 0 /\ n * BlockBytes \in Nat /\ n * BlockBytes > z + BlockHeader
      /\ n * BlockBytes >= BlockBytes
  <2> DEFINE x == z + BlockHeader
             q == x \div BlockBytes
  <2>1. x \in Nat /\ n = q + 1
    BY <1>0 DEF BlockPages
  <2> HIDE DEF x
  <2>2. /\ q \in Nat /\ x = (q * BlockBytes) + (x % BlockBytes)
        /\ x % BlockBytes \in Nat /\ x % BlockBytes < BlockBytes
    BY <1>0, <2>1
  <2> HIDE DEF q
  <2>3. q * BlockBytes \in Nat /\ (q + 1) * BlockBytes = q * BlockBytes + BlockBytes
    BY <1>0, <2>2
  <2>4. n \in Nat /\ n > 0 /\ n * BlockBytes = q * BlockBytes + BlockBytes
    BY <2>1, <2>2, <2>3
  <2> HIDE DEF n
  <2>5. n * BlockBytes \in Nat /\ n * BlockBytes > x /\ n * BlockBytes >= BlockBytes
    <3> DEFINE m == q * BlockBytes
               k == n * BlockBytes
               u == x % BlockBytes
    <3>1. m \in Nat /\ k = m + BlockBytes /\ x = m + u /\ u \in Nat /\ u < BlockBytes
      BY <2>2, <2>3, <2>4
    <3> HIDE DEF m, k, u
    <3>2. k \in Nat /\ k > x /\ k >= BlockBytes
      BY <1>0, <3>1
    <3> QED
      BY <3>2 DEF k
  <2> QED
    BY <2>4, <2>5 DEF x
<1> HIDE DEF n
<1>3. /\ hd \in HeaderForm /\ hd.size = n * BlockBytes - BlockHeader - 1 /\ hd.size >= z
      /\ hd.prev = 0 /\ ~hd.used
  BY <1>0, <1>2 DEF HeaderForm
<1> HIDE DEF hd
<1>4. DOMAIN f = {BlockHeader} /\ f[BlockHeader] = hd /\ f = [c \in DOMAIN f |-> f[c]]
  OBVIOUS
<1> HIDE DEF f, s
<1>5. Headers(f) /\ FreeOf(f) = {BlockHeader}
  BY <1>3, <1>4 DEF Headers, FreeOf
<1>6. /\ b.pages = n /\ b.rc = 0 /\ b.free = s /\ b.chunk = f
      /\ End(b) = n * BlockBytes - 1
  BY <1>1 DEF End
<1>7. BlockHeader + f[BlockHeader].size = End(b)
  BY <1>0, <1>2, <1>3, <1>4, <1>6
<1>8. f[BlockHeader].size \in Nat /\ f[BlockHeader].size > 0 /\ BlockHeader + AllocHeader <= End(b)
  BY <1>0, <1>2, <1>3, <1>4, <1>6 DEF HeaderForm
<1>16. End(b) \in Nat /\ BlockHeader # End(b)
  BY <1>0, <1>2, <1>6
<1>9. Line(f, End(b))
  BY <1>0, <1>4, <1>7, <1>8, <1>16 DEF Line
<1>10. Backs(f, End(b))
  BY <1>3, <1>4, <1>16 DEF Backs
<1>11. Apart(f, {}) /\ PrevsOf(f, {})
  BY <1>4, <1>7, <1>16 DEF Apart, PrevsOf
<1>12. Listing(f, s, {})
  <2>1. s \in Seq(Nat) /\ Len(s) = 1 /\ DOMAIN s = {1} /\ s[1] = BlockHeader
    BY <1>0 DEF s
  <2>2. IsInjective(s) /\ ToSet(s) = {BlockHeader}
    BY <2>1 DEF IsInjective, ToSet
  <2>3. ToSet(s) = FreeOf(f) \ {}
    BY <1>5, <2>2
  <2>4. \A k \in 1 .. Len(s) : ~(k > 1)
    BY <2>1
  <2> QED
    BY <2>1, <2>2, <2>3, <2>4 DEF Listing
<1>13. Whole(b)
  BY <1>1, <1>2, <1>5, <1>6, <1>9, <1>10, <1>11, <1>12 DEF Whole, Form
<1>14. ~within_block(b, BlockHeader)
  BY <1>2, <1>4, <1>6, <1>7, <1>9, <1>16, WithinFacts
<1>15. s # <<>> /\ Head(s) = BlockHeader
  BY DEF s
<1> QED
  BY <1>3, <1>4, <1>5, <1>6, <1>11, <1>13, <1>14, <1>15

-----------------------------------------------------------------------------
(* The heap *)

\* The blocks of a workload, and the allocations of a block.
Ids(w)   == 1 .. w.blocks
Of(L, id) == {a \in L : a.blk = id}

HeapForm(h, w) ==
    /\ h = [list |-> h.list, blk |-> h.blk]
    /\ h.list \in Seq(Ids(w)) /\ IsInjective(h.list)
    /\ h.blk = [id \in Ids(w) |-> h.blk[id]]

AllocForm(a, w) == a \in [blk : Ids(w), off : Nat, size : w.sizes]

\* Nothing of L begins where a does.
Fresh(L, a) == \A o \in L : ~(o.blk = a.blk /\ o.off = a.off)

\* Allocations are finitely many, and no two begin at the same place.
LiveForm(L, w) ==
    /\ IsFiniteSet(L)
    /\ \A a \in L : AllocForm(a, w)
    /\ \A a, o \in L : a.blk = o.blk /\ a.off = o.off => a = o

\* A block on the list.
Kept(h, L, w, id) ==
    /\ Whole(h.blk[id]) /\ (w.splitsInside \/ PrevsOf(h.blk[id].chunk, {}))
    /\ Of(L, id) # {} /\ h.blk[id].rc = Cardinality(Of(L, id))

BlockOk(h, L, w, id) ==
    /\ Listed(h, id) => Kept(h, L, w, id)
    /\ ~Listed(h, id) => h.blk[id] = NoBlock /\ Of(L, id) = {}

\* The chunk of an allocation in the table f.
InUse(f, a) == a.off \in DOMAIN f /\ f[a.off].used /\ RealSize(a.size) <= f[a.off].size

HeapInv(h, L, w) ==
    /\ HeapForm(h, w) /\ LiveForm(L, w)
    /\ \A id \in Ids(w) : BlockOk(h, L, w, id)
    /\ \A a \in L : InUse(h.blk[a.blk].chunk, a)

\* The inductive invariant.
IInv == load \in Workloads /\ HeapInv(heap, live, load)

\* The list is a set of blocks.
LEMMA ListedIs ==
    ASSUME NEW h, NEW w, HeapForm(h, w), NEW id
    PROVE  /\ Listed(h, id) <=> id \in ToSet(h.list)
           /\ Listed(h, id) => id \in Ids(w)
<1>1. h.list \in Seq(Ids(w))
  BY DEF HeapForm
<1>2. DOMAIN h.list = 1 .. Len(h.list) /\ \A k \in 1 .. Len(h.list) : h.list[k] \in Ids(w)
  BY <1>1, LenProperties, ElementOfSeq
<1> QED
  BY <1>2 DEF Listed, ToSet

\* g differs from h only in block id and what is allocated of it.
OnlyAt(h, g, L, M, w, id) ==
    \A x \in Ids(w) \ {id} :
        (Listed(g, x) <=> Listed(h, x)) /\ g.blk[x] = h.blk[x] /\ Of(M, x) = Of(L, x)

\* A step that changes one block.
LEMMA OneBlock ==
    ASSUME NEW h, NEW L, NEW w, HeapInv(h, L, w), NEW g, NEW M, NEW id,
           HeapForm(g, w), LiveForm(M, w), OnlyAt(h, g, L, M, w, id), id \in Ids(w),
           BlockOk(g, M, w, id),
           \A a \in Of(M, id) : InUse(g.blk[id].chunk, a)
    PROVE  HeapInv(g, M, w)
<1>1. ASSUME NEW x \in Ids(w) PROVE BlockOk(g, M, w, x)
  <2>1. CASE x = id
    BY <2>1
  <2>2. CASE x # id
    <3>1. BlockOk(h, L, w, x)
      BY DEF HeapInv
    <3>2. (Listed(g, x) <=> Listed(h, x)) /\ g.blk[x] = h.blk[x] /\ Of(M, x) = Of(L, x)
      BY <2>2 DEF OnlyAt
    <3> QED
      BY <3>1, <3>2 DEF BlockOk, Kept
  <2> QED
    BY <2>1, <2>2
<1>2. ASSUME NEW a \in M PROVE InUse(g.blk[a.blk].chunk, a)
  <2>1. a.blk \in Ids(w)
    BY DEF LiveForm, AllocForm
  <2>2. CASE a.blk = id
    BY <2>2 DEF Of
  <2>3. CASE a.blk # id
    <3>1. g.blk[a.blk] = h.blk[a.blk] /\ Of(M, a.blk) = Of(L, a.blk)
      BY <2>1, <2>3 DEF OnlyAt
    <3>2. a \in L
      BY <3>1 DEF Of
    <3> QED
      BY <3>1, <3>2 DEF HeapInv
  <2> QED
    BY <2>2, <2>3
<1> QED
  BY <1>1, <1>2 DEF HeapInv

\* What a workload is.
LEMMA LoadFacts ==
    ASSUME NEW w \in Workloads, NEW n \in w.sizes
    PROVE  n \in Nat /\ n > 0 /\ RealSize(n) \in Nat /\ RealSize(n) > n /\ RealSize(n) > 0
  BY HallocAssumption DEF RealSize

\* An allocation comes.
LEMMA LiveAdded ==
    ASSUME NEW L, NEW w, LiveForm(L, w), NEW a, AllocForm(a, w), Fresh(L, a)
    PROVE  LiveForm(L \cup {a}, w)
<1>1. IsFiniteSet(L \cup {a})
  BY FS_AddElement DEF LiveForm
<1>2. \A b, o \in L \cup {a} : b.blk = o.blk /\ b.off = o.off => b = o
  BY DEF LiveForm, Fresh
<1> QED
  BY <1>1, <1>2 DEF LiveForm

\* An allocation goes.
LEMMA LiveRemoved ==
    ASSUME NEW L, NEW w, LiveForm(L, w), NEW a \in L
    PROVE  /\ LiveForm(L \ {a}, w) /\ a.blk \in Ids(w)
           /\ Of(L \ {a}, a.blk) = Of(L, a.blk) \ {a} /\ a \in Of(L, a.blk)
           /\ \A x \in Ids(w) : x # a.blk => Of(L \ {a}, x) = Of(L, x)
<1>1. IsFiniteSet(L \ {a})
  BY FS_RemoveElement DEF LiveForm
<1>2. LiveForm(L \ {a}, w)
  BY <1>1 DEF LiveForm
<1>3. a.blk \in Ids(w)
  BY DEF LiveForm, AllocForm
<1> QED
  BY <1>2, <1>3 DEF Of

\* The allocations of a block are finitely many.
LEMMA OfFinite ==
    ASSUME NEW L, NEW w, LiveForm(L, w), NEW id
    PROVE  IsFiniteSet(Of(L, id)) /\ Cardinality(Of(L, id)) \in Nat
<1>1. Of(L, id) \subseteq L /\ IsFiniteSet(L)
  BY DEF Of, LiveForm
<1> QED
  BY <1>1, FS_Subset, FS_CardinalityType

\* The lists and the blocks of h and g differ at most at id.
SameBut(h, g, w, id) ==
    \A x \in Ids(w) \ {id} : (Listed(g, x) <=> Listed(h, x)) /\ g.blk[x] = h.blk[x]

\* The block b can serve z bytes with chunk c ...
Serves(b, c, z, w) ==
    /\ Whole(b) /\ (w.splitsInside \/ PrevsOf(b.chunk, {}))
    /\ c \in FreeOf(b.chunk) /\ b.chunk[c].size >= z
    /\ \/ w.splitsInside
       \/ b.chunk[c].size - z <= AllocHeader
       \/ ~within_block(b, c)

\* ... and its count and its used chunks are those of the allocations L of block id.
Counts(b, L, id) ==
    /\ b.rc = Cardinality(Of(L, id))
    /\ \A o \in Of(L, id) : InUse(b.chunk, o)

\* malloc, once it has found a block or made one.
LEMMA Served ==
    ASSUME NEW w \in Workloads, NEW h, NEW L, HeapInv(h, L, w), NEW n \in w.sizes,
           NEW id \in Ids(w), NEW b, NEW c, Serves(b, c, RealSize(n), w), Counts(b, L, id),
           NEW g, HeapForm(g, w), Listed(g, id), g.blk[id] = split(b, c, RealSize(n)),
           SameBut(h, g, w, id),
           NEW a, a = [blk |-> id, off |-> c, size |-> n]
    PROVE  a \notin L /\ HeapInv(g, L \cup {a}, w)
<1> DEFINE z == RealSize(n)
           r == g.blk[id]
           M == L \cup {a}
<1>1. z \in Nat /\ z > 0
  BY LoadFacts
<1>2. /\ Whole(b) /\ c \in FreeOf(b.chunk) /\ b.chunk[c].size >= z
      /\ b.rc = Cardinality(Of(L, id)) /\ \A o \in Of(L, id) : InUse(b.chunk, o)
  BY DEF Serves, Counts
<1>3. LiveForm(L, w)
  BY DEF HeapInv
<1>4. a.blk = id /\ a.off = c /\ a.size = n
  OBVIOUS
<1> HIDE DEF z, r
<1>5. /\ Whole(r) /\ r.rc = b.rc + 1
      /\ c \in DOMAIN r.chunk /\ r.chunk[c].used /\ r.chunk[c].size >= z
      /\ Keeps(b.chunk, r.chunk, c)
  BY <1>1, <1>2, Split DEF z, r
<1>6. w.splitsInside \/ PrevsOf(r.chunk, {})
  <2>1. /\ PrevsOf(b.chunk, {})
        /\ b.chunk[c].size - z <= AllocHeader \/ ~within_block(b, c)
        => PrevsOf(r.chunk, {})
    BY <1>1, <1>2, Split DEF z, r
  <2> QED
    BY <2>1 DEF Serves, z
<1>7. ASSUME NEW o \in Of(L, id) PROVE o.off # c /\ InUse(r.chunk, o)
  <2>1. o.off \in DOMAIN b.chunk /\ b.chunk[o.off].used /\ RealSize(o.size) <= b.chunk[o.off].size
    BY <1>2, <1>7 DEF InUse
  <2>2. o.off # c
    BY <1>2, <2>1 DEF FreeOf
  <2> QED
    BY <1>5, <2>1, <2>2 DEF Keeps, InUse
<1>8. AllocForm(a, w)
  <2>1. c \in Nat
    BY <1>2 DEF Whole, Line, FreeOf
  <2> QED
    BY <2>1 DEF AllocForm
<1>9. /\ LiveForm(M, w) /\ a \notin L
      /\ Of(M, id) = Of(L, id) \cup {a} /\ a \notin Of(L, id)
      /\ \A x \in Ids(w) : x # id => Of(M, x) = Of(L, x)
  <2>1. Fresh(L, a)
    BY <1>4, <1>7 DEF Fresh, Of
  <2>2. LiveForm(M, w)
    BY <1>3, <1>8, <2>1, LiveAdded
  <2>3. Of(M, id) = Of(L, id) \cup {a} /\ a \notin L /\ a \notin Of(L, id)
    BY <1>4, <2>1 DEF Of, Fresh
  <2>4. \A x \in Ids(w) : x # id => Of(M, x) = Of(L, x)
    BY <1>4 DEF Of
  <2> QED
    BY <2>2, <2>3, <2>4
<1>10. Cardinality(Of(M, id)) = Cardinality(Of(L, id)) + 1
  <2>1. IsFiniteSet(Of(L, id))
    BY <1>3, OfFinite
  <2> QED
    BY <1>9, <2>1, FS_AddElement
<1> HIDE DEF M
<1>11. Kept(g, M, w, id)
  BY <1>2, <1>5, <1>6, <1>9, <1>10 DEF Kept, r
<1>12. BlockOk(g, M, w, id)
  BY <1>11 DEF BlockOk
<1>13. \A o \in Of(M, id) : InUse(g.blk[id].chunk, o)
  <2>1. InUse(r.chunk, a)
    BY <1>4, <1>5 DEF InUse, z
  <2> QED
    BY <1>7, <1>9, <2>1 DEF r
<1>14. OnlyAt(h, g, L, M, w, id)
  BY <1>9 DEF OnlyAt, SameBut
<1>15. HeapInv(g, M, w)
  BY <1>9, <1>12, <1>13, <1>14, OneBlock
<1> QED
  BY <1>9, <1>15 DEF M

\* malloc on a heap.
LEMMA Marched ==
    ASSUME NEW h, NEW L, load \in Workloads, HeapInv(h, L, load), NEW n \in load.sizes,
           Roomy(h, RealSize(n)), load.splitsInside \/ ~SplitsInside(h, RealSize(n)),
           NEW m, m = march(h, RealSize(n)), NEW a, a = Allocation(m, n)
    PROVE  a \notin L /\ HeapInv(m.heap, L \cup {a}, load)
<1> DEFINE w == load
           z == RealSize(n)
           g == m.heap
<1>1. /\ HeapForm(h, w) /\ LiveForm(L, w)
      /\ \A id \in Ids(w) : BlockOk(h, L, w, id)
      /\ \A o \in L : InUse(h.blk[o.blk].chunk, o)
  BY DEF HeapInv
<1>2. /\ h = [list |-> h.list, blk |-> h.blk] /\ h.list \in Seq(Ids(w)) /\ IsInjective(h.list)
      /\ h.blk = [id \in Ids(w) |-> h.blk[id]]
  BY <1>1 DEF HeapForm
<1>3. DOMAIN h.list = 1 .. Len(h.list) /\ Len(h.list) \in Nat
      /\ \A k \in 1 .. Len(h.list) : h.list[k] \in Ids(w)
  BY <1>2, LenProperties, ElementOfSeq
<1>4. z \in Nat /\ z > 0
  BY LoadFacts
<1>5. Ids(w) = BlockIds /\ Ids(w) \subseteq Nat
  BY DEF Ids, BlockIds
<1>10. CASE Fits(h, z) # {}
  <2> DEFINE k == Min(Fits(h, z))
             id == h.list[k]
             b == h.blk[id]
             c == Head(b.free)
  <2>1. k \in Fits(h, z)
    <3>1. Fits(h, z) \subseteq Nat
      BY <1>3 DEF Fits
    <3> QED
      BY <1>10, <3>1, MinFacts
  <2>2. k \in DOMAIN h.list /\ HeadFits(h.blk[h.list[k]], z)
    BY <2>1 DEF Fits
  <2>3. id = Serving(h, z)
    BY <1>10 DEF Serving
  <2>4. m = [heap |-> [list |-> h.list, blk |-> [h.blk EXCEPT ![id] = split(b, c, z)]],
             blk  |-> id, off |-> c]
    BY <1>10, <2>3 DEF march
  <2>5. id \in Ids(w) /\ Listed(h, id)
    BY <1>3, <2>2 DEF Listed
  <2> HIDE DEF k
  <2>6. b.free # <<>> /\ b.chunk[c].size >= z
    BY <2>2 DEF HeadFits
  <2>7. Kept(h, L, w, id)
    BY <1>1, <2>5 DEF BlockOk
  <2>8. Whole(b) /\ (w.splitsInside \/ PrevsOf(b.chunk, {})) /\ b.rc = Cardinality(Of(L, id))
    BY <2>7 DEF Kept
  <2>9. c \in FreeOf(b.chunk)
    <3>1. b.free \in Seq(Nat) /\ ToSet(b.free) = FreeOf(b.chunk) \ {}
      BY <2>8 DEF Whole, Listing
    <3>2. 1 \in DOMAIN b.free /\ c = b.free[1]
      BY <2>6, <3>1
    <3> QED
      BY <3>1, <3>2 DEF ToSet
  <2>10. SplitsInside(h, z) <=> b.chunk[c].size - z > AllocHeader /\ within_block(b, c)
    BY <1>10, <2>3 DEF SplitsInside
  <2>11. b.chunk[c].size \in Nat /\ AllocHeader \in Nat
    BY <2>8, <2>9, HallocAssumption DEF Whole, Line, FreeOf
  <2> HIDE DEF b, c, id
  <2>12. Serves(b, c, z, w)
    BY <1>4, <2>6, <2>8, <2>9, <2>10, <2>11 DEF Serves
  <2>13. Counts(b, L, id)
    BY <1>1, <2>8 DEF Counts, Of, b
  <2>14. /\ g.list = h.list /\ g = [list |-> g.list, blk |-> g.blk]
         /\ g.blk = [h.blk EXCEPT ![id] = split(b, c, z)]
         /\ m.blk = id /\ m.off = c
    BY <2>4
  <2> HIDE DEF g
  <2>15. /\ g.blk = [x \in Ids(w) |-> g.blk[x]] /\ g.blk[id] = split(b, c, z)
         /\ \A x \in Ids(w) \ {id} : g.blk[x] = h.blk[x]
    BY <1>2, <2>5, <2>14
  <2>16. HeapForm(g, w) /\ Listed(g, id) /\ SameBut(h, g, w, id)
    BY <1>2, <2>5, <2>14, <2>15 DEF HeapForm, Listed, SameBut
  <2>17. a = [blk |-> id, off |-> c, size |-> n]
    BY <2>14 DEF Allocation
  <2> QED
    BY <2>5, <2>12, <2>13, <2>15, <2>16, <2>17, Served DEF g
<1>20. CASE Fits(h, z) = {}
  <2> DEFINE id == Min(Unused(h))
             b == init_block(BlockPages(z))
             c == Head(b.free)
  <2>1. id \in Unused(h)
    <3>1. Unused(h) # {} /\ Unused(h) \subseteq Nat
      BY <1>5, <1>20 DEF Roomy, Unused
    <3> QED
      BY <3>1, MinFacts
  <2>2. id \in Ids(w) /\ h.blk[id] = NoBlock
    BY <1>5, <2>1 DEF Unused
  <2>3. id = Serving(h, z)
    BY <1>20 DEF Serving
  <2>4. m = [heap |-> [list |-> <<id>> \o h.list, blk |-> [h.blk EXCEPT ![id] = split(b, c, z)]],
             blk  |-> id, off |-> c]
    BY <1>20, <2>3 DEF march
  <2> HIDE DEF id
  <2>5. ~Listed(h, id) /\ Of(L, id) = {}
    <3>1. h.blk[id].pages = 0
      BY <2>2 DEF NoBlock
    <3>2. ~Whole(h.blk[id])
      BY <3>1 DEF Whole, Form
    <3>3. BlockOk(h, L, w, id)
      BY <1>1, <2>2
    <3> QED
      BY <3>2, <3>3 DEF BlockOk, Kept
  <2>6. b = init_block(BlockPages(z))
    OBVIOUS
  <2> HIDE DEF b
  <2>7. /\ Whole(b) /\ b.rc = 0 /\ c = BlockHeader /\ c \in FreeOf(b.chunk)
        /\ b.chunk[c].size >= z /\ PrevsOf(b.chunk, {}) /\ ~within_block(b, c)
    BY <1>4, <2>6, NewBlock
  <2> HIDE DEF c
  <2>8. Serves(b, c, z, w)
    BY <2>7 DEF Serves
  <2>9. Counts(b, L, id)
    BY <2>5, <2>7, FS_EmptySet DEF Counts
  <2>10. id \notin ToSet(h.list)
    BY <1>1, <2>5, ListedIs
  <2> DEFINE t == <<id>> \o h.list
  <2>12. Prepends(t, id, h.list)
    BY DEF Prepends
  <2>13. m = [heap |-> [list |-> t, blk |-> [h.blk EXCEPT ![id] = split(b, c, z)]],
              blk  |-> id, off |-> c]
    BY <2>4
  <2> HIDE DEF t
  <2>11. t \in Seq(Ids(w)) /\ IsInjective(t) /\ ToSet(t) = ToSet(h.list) \cup {id}
    BY <1>2, <2>2, <2>10, <2>12, PrependFacts
  <2>14. /\ g.list = t /\ g = [list |-> g.list, blk |-> g.blk]
         /\ g.blk = [h.blk EXCEPT ![id] = split(b, c, z)]
         /\ m.blk = id /\ m.off = c
    BY <2>13
  <2> HIDE DEF g
  <2>15. /\ g.blk = [x \in Ids(w) |-> g.blk[x]] /\ g.blk[id] = split(b, c, z)
         /\ \A x \in Ids(w) \ {id} : g.blk[x] = h.blk[x]
    BY <1>2, <2>2, <2>14
  <2>16. HeapForm(g, w)
    BY <2>11, <2>14, <2>15 DEF HeapForm
  <2>17. Listed(g, id) /\ SameBut(h, g, w, id)
    <3>1. \A x : Listed(g, x) <=> x \in ToSet(t)
      BY <2>14, <2>16, ListedIs
    <3>2. \A x : Listed(h, x) <=> x \in ToSet(h.list)
      BY <1>1, ListedIs
    <3> QED
      BY <2>11, <2>15, <3>1, <3>2 DEF SameBut
  <2>18. a = [blk |-> id, off |-> c, size |-> n]
    BY <2>14 DEF Allocation
  <2> QED
    BY <2>2, <2>8, <2>9, <2>15, <2>16, <2>17, <2>18, Served DEF g
<1> QED
  BY <1>10, <1>20

\* Where a chunk's `prev' is not 0 it leads to the chunk before it.
PrevRight(b, c) ==
    b.chunk[c].prev # 0 =>
        c - b.chunk[c].prev \in DOMAIN b.chunk /\ Next(b, c - b.chunk[c].prev) = c

\* That is so as long as every `prev' is the size of the chunk before.
LEMMA PrevLeads ==
    ASSUME NEW b, Whole(b), PrevsOf(b.chunk, {}), NEW c \in DOMAIN b.chunk
    PROVE  PrevRight(b, c)
<1> DEFINE f == b.chunk
<1>1. Line(f, End(b)) /\ Backs(f, End(b))
  BY DEF Whole
<1> SUFFICES ASSUME f[c].prev # 0
             PROVE  c - f[c].prev \in DOMAIN f /\ Next(b, c - f[c].prev) = c
  BY DEF PrevRight
<1>2. c # BlockHeader
  BY <1>1 DEF Backs
<1>3. PICK d \in DOMAIN f : d + f[d].size = c
  BY <1>1, <1>2 DEF Line
<1>4. f[c].prev = f[d].size
  BY <1>3 DEF PrevsOf
<1>5. d \in Nat /\ f[d].size \in Nat /\ c \in Nat
  BY <1>1 DEF Line
<1>6. c - f[c].prev = d
  BY <1>3, <1>4, <1>5
<1>7. Next(b, d) = c
  BY <1>3 DEF Next, header
<1> QED
  BY <1>6, <1>7

\* free, of an allocation whose `prev' leads where it should.
LEMMA FreeKeeps ==
    ASSUME NEW w \in Workloads, NEW h, NEW L, HeapInv(h, L, w), NEW a \in L,
           PrevRight(h.blk[a.blk], a.off), ~DropsFirst(h, a),
           NEW g, g = free(h, a)
    PROVE  HeapInv(g, L \ {a}, w)
<1> DEFINE id == a.blk
           c == a.off
           b == h.blk[id]
           r == release(b, c)
           M == L \ {a}
<1>1. /\ HeapForm(h, w) /\ LiveForm(L, w) /\ BlockOk(h, L, w, id) /\ InUse(b.chunk, a)
      /\ \A o \in Of(L, id) : InUse(b.chunk, o)
  BY DEF HeapInv, LiveForm, AllocForm, Of
<1>2. /\ LiveForm(M, w) /\ id \in Ids(w)
      /\ Of(M, id) = Of(L, id) \ {a} /\ a \in Of(L, id)
      /\ \A x \in Ids(w) : x # id => Of(M, x) = Of(L, x)
  BY <1>1, LiveRemoved
<1>3. Listed(h, id) /\ Kept(h, L, w, id)
  BY <1>1, <1>2 DEF BlockOk
<1>4. /\ Whole(b) /\ (w.splitsInside \/ PrevsOf(b.chunk, {})) /\ b.rc = Cardinality(Of(L, id))
  BY <1>3 DEF Kept
<1>5. IsFiniteSet(Of(L, id)) /\ IsFiniteSet(Of(M, id)) /\ b.rc \in Nat /\ Cardinality(Of(M, id)) \in Nat
  BY <1>1, <1>2, <1>4, OfFinite
<1>6. Cardinality(Of(M, id)) = b.rc - 1
  BY <1>2, <1>4, <1>5, FS_RemoveElement
<1>7. b.rc > 0
  BY <1>5, <1>6
<1> HIDE DEF b, M
<1>8. /\ Whole(r) /\ r.pages = b.pages /\ r.rc = b.rc - 1
      /\ Keeps(b.chunk, r.chunk, c)
      /\ PrevsOf(b.chunk, {}) => PrevsOf(r.chunk, {})
  <2>1. c \in DOMAIN b.chunk /\ b.chunk[c].used
    BY <1>1 DEF InUse
  <2>2. b.chunk[c].prev # 0 =>
          c - b.chunk[c].prev \in DOMAIN b.chunk /\ Next(b, c - b.chunk[c].prev) = c
    BY DEF PrevRight, b
  <2> HIDE DEF c
  <2> QED
    BY <1>4, <1>7, <2>1, <2>2, Released
<1> HIDE DEF r
<1>9. \A o \in Of(M, id) : InUse(r.chunk, o)
  <2> SUFFICES ASSUME NEW o \in Of(M, id) PROVE InUse(r.chunk, o)
    OBVIOUS
  <2>1. o \in Of(L, id) /\ o # a
    BY <1>2
  <2>2. o.off # c
    BY <1>1, <2>1 DEF LiveForm, Of
  <2>3. InUse(b.chunk, o)
    BY <1>1, <2>1
  <2> QED
    BY <1>8, <2>2, <2>3 DEF InUse, Keeps
<1>10. /\ h = [list |-> h.list, blk |-> h.blk] /\ h.list \in Seq(Ids(w)) /\ IsInjective(h.list)
       /\ h.blk = [x \in Ids(w) |-> h.blk[x]]
  BY <1>1 DEF HeapForm
<1>11. h.blk[id] = b
  BY DEF b
<1>20. CASE r.rc > 0
  <2>1. g = [h EXCEPT !.blk[id] = r]
    BY <1>3, <1>20 DEF free, r, b
  <2>2. g.list = h.list /\ g = [list |-> g.list, blk |-> g.blk] /\ g.blk = [h.blk EXCEPT ![id] = r]
    BY <1>10, <2>1
  <2>3. /\ g.blk = [x \in Ids(w) |-> g.blk[x]] /\ g.blk[id] = r
        /\ \A x \in Ids(w) \ {id} : g.blk[x] = h.blk[x]
    BY <1>2, <1>10, <2>2
  <2>4. HeapForm(g, w)
    BY <1>10, <2>2, <2>3 DEF HeapForm
  <2>5. \A x : Listed(g, x) <=> Listed(h, x)
    BY <2>2 DEF Listed
  <2>6. OnlyAt(h, g, L, M, w, id)
    BY <1>2, <2>3, <2>5 DEF OnlyAt
  <2>7. Of(M, id) # {}
    BY <1>6, <1>8, <1>20, FS_EmptySet
  <2>8. Kept(g, M, w, id)
    BY <1>4, <1>6, <1>8, <2>3, <2>7 DEF Kept
  <2>9. BlockOk(g, M, w, id)
    BY <1>3, <2>5, <2>8 DEF BlockOk
  <2>10. \A o \in Of(M, id) : InUse(g.blk[id].chunk, o)
    BY <1>9, <2>3
  <2>11. HeapInv(g, M, w)
    BY <1>2, <2>4, <2>6, <2>9, <2>10, OneBlock
  <2> QED
    BY <2>11 DEF M
<1>30. CASE ~(r.rc > 0)
  <2> DEFINE s == IF id = h.list[1] THEN <<>> ELSE RemoveFirst(h.list, id)
  <2>1. b.rc = 1 /\ Of(M, id) = {}
    BY <1>5, <1>6, <1>7, <1>8, <1>30, FS_EmptySet
  <2>2. g = [list |-> s, blk |-> [h.blk EXCEPT ![id] = NoBlock]]
    BY <1>3, <1>30 DEF free, r, b
  <2>3. id \in ToSet(h.list)
    BY <1>1, <1>3, ListedIs
  <2>4. DOMAIN h.list = 1 .. Len(h.list) /\ Len(h.list) \in Nat
    BY <1>10, LenProperties
  <2>5. s \in Seq(Ids(w)) /\ IsInjective(s) /\ ToSet(s) = ToSet(h.list) \ {id}
    <3>1. CASE id = h.list[1]
      <4>1. ~(Len(h.list) > 1)
        BY <1>11, <2>1, <3>1 DEF DropsFirst
      <4>2. \A k \in DOMAIN h.list : k = 1
        BY <2>4, <4>1
      <4>3. ToSet(h.list) \ {id} = {}
        BY <3>1, <4>2 DEF ToSet
      <4>4. s = <<>>
        BY <3>1
      <4> HIDE DEF s
      <4>5. s \in Seq(Ids(w)) /\ DOMAIN s = {}
        BY <4>4
      <4>6. IsInjective(s) /\ ToSet(s) = {}
        BY <4>5 DEF IsInjective, ToSet
      <4> QED
        BY <4>3, <4>5, <4>6
    <3>2. CASE id # h.list[1]
      <4>1. s = RemoveFirst(h.list, id)
        BY <3>2
      <4> QED
        BY <1>10, <2>3, <4>1, RemovedFacts
    <3> QED
      BY <3>1, <3>2
  <2> HIDE DEF s
  <2>6. g.list = s /\ g = [list |-> g.list, blk |-> g.blk] /\ g.blk = [h.blk EXCEPT ![id] = NoBlock]
    BY <2>2
  <2>7. /\ g.blk = [x \in Ids(w) |-> g.blk[x]] /\ g.blk[id] = NoBlock
        /\ \A x \in Ids(w) \ {id} : g.blk[x] = h.blk[x]
    BY <1>2, <1>10, <2>6
  <2>8. HeapForm(g, w)
    BY <2>5, <2>6, <2>7 DEF HeapForm
  <2>9. \A x : Listed(g, x) <=> Listed(h, x) /\ x # id
    <3>1. \A x : Listed(g, x) <=> x \in ToSet(s)
      BY <2>6, <2>8, ListedIs
    <3>2. \A x : Listed(h, x) <=> x \in ToSet(h.list)
      BY <1>1, ListedIs
    <3> QED
      BY <2>5, <3>1, <3>2
  <2>10. OnlyAt(h, g, L, M, w, id)
    BY <1>2, <2>7, <2>9 DEF OnlyAt
  <2>11. BlockOk(g, M, w, id)
    BY <2>1, <2>7, <2>9 DEF BlockOk
  <2>12. HeapInv(g, M, w)
    BY <1>2, <2>1, <2>8, <2>10, <2>11, OneBlock
  <2> QED
    BY <2>12 DEF M
<1> QED
  BY <1>20, <1>30

\* What the guard PrevIsRight leaves of the frees.
LEMMA GuardedPrev ==
    ASSUME NEW w \in Workloads, NEW h, NEW L, HeapInv(h, L, w), NEW a \in L,
           PrevIsRight(h, a), FollowStale => ~w.splitsInside
    PROVE  PrevRight(h.blk[a.blk], a.off)
<1> DEFINE b == h.blk[a.blk]
<1>1. InUse(b.chunk, a) /\ BlockOk(h, L, w, a.blk) /\ Of(L, a.blk) # {}
  BY DEF HeapInv, LiveForm, AllocForm, Of
<1>2. a.off \in DOMAIN b.chunk /\ header(b, a.off) = b.chunk[a.off]
  BY <1>1 DEF InUse, header
<1>3. Whole(b) /\ (w.splitsInside \/ PrevsOf(b.chunk, {}))
  BY <1>1 DEF BlockOk, Kept
<1>4. CASE ~FollowStale
  BY <1>2, <1>4 DEF PrevIsRight, PrevRight
<1>5. CASE FollowStale
  BY <1>2, <1>3, <1>5, PrevLeads
<1> QED
  BY <1>4, <1>5

-----------------------------------------------------------------------------
(* The invariant *)

\* What the two findings about free leave: it empties no first block of several,
\* and it follows a `prev' without looking only where no split makes one stale.
Careful == ~DropFirst /\ (FollowStale => \A w \in Workloads : ~w.splitsInside)

\* The empty heap satisfies the invariant.
LEMMA InitInv ==
    Init => IInv
<1> SUFFICES ASSUME Init PROVE IInv
  OBVIOUS
<1>1. /\ load \in Workloads /\ live = {}
      /\ heap = [list |-> <<>>, blk |-> [id \in BlockIds |-> NoBlock]]
  BY DEF Init
<1>2. BlockIds = Ids(load)
  BY DEF BlockIds, Ids
<1>3. /\ heap.list = <<>> /\ heap.blk = [id \in Ids(load) |-> NoBlock]
      /\ heap = [list |-> heap.list, blk |-> heap.blk]
  BY <1>1, <1>2
<1>4. heap.list \in Seq(Ids(load)) /\ DOMAIN heap.list = {}
  BY <1>3
<1>5. HeapForm(heap, load)
  BY <1>3, <1>4 DEF HeapForm, IsInjective
<1>6. LiveForm(live, load) /\ \A id : Of(live, id) = {}
  BY <1>1, FS_EmptySet DEF LiveForm, Of
<1>7. \A id \in Ids(load) : BlockOk(heap, live, load, id)
  BY <1>3, <1>4, <1>6 DEF BlockOk, Listed
<1>8. \A a \in live : InUse(heap.blk[a.blk].chunk, a)
  BY <1>1
<1> QED
  BY <1>1, <1>5, <1>6, <1>7, <1>8 DEF IInv, HeapInv

\* malloc keeps it,
LEMMA MallocInv ==
    ASSUME IInv, NEW n \in load.sizes, Malloc(n)
    PROVE  IInv'
<1> DEFINE m == march(heap, RealSize(n))
           a == Allocation(m, n)
<1>1. /\ Roomy(heap, RealSize(n)) /\ (load.splitsInside \/ ~SplitsInside(heap, RealSize(n)))
      /\ heap' = m.heap /\ live' = live \cup {a} /\ load' = load
  BY DEF Malloc
<1>2. load \in Workloads /\ HeapInv(heap, live, load)
  BY DEF IInv
<1>3. HeapInv(m.heap, live \cup {a}, load)
  BY <1>1, <1>2, Marched
<1> HIDE DEF m, a
<1> QED
  BY <1>1, <1>2, <1>3 DEF IInv

\* free keeps it,
LEMMA FreeInv ==
    ASSUME Careful, IInv, NEW a \in live, Free(a)
    PROVE  IInv'
<1>1. /\ ~DropsFirst(heap, a) /\ PrevIsRight(heap, a)
      /\ heap' = free(heap, a) /\ live' = live \ {a} /\ load' = load
  BY DEF Free, Careful
<1>2. load \in Workloads /\ HeapInv(heap, live, load) /\ (FollowStale => ~load.splitsInside)
  BY DEF IInv, Careful
<1>3. PrevRight(heap.blk[a.blk], a.off)
  BY <1>1, <1>2, GuardedPrev
<1>4. HeapInv(free(heap, a), live \ {a}, load)
  BY <1>1, <1>2, <1>3, FreeKeeps
<1> QED
  BY <1>1, <1>2, <1>4 DEF IInv

\* realloc keeps it where the size does not change,
LEMMA ReallocInPlaceInv ==
    ASSUME IInv, NEW a \in live, NEW n \in load.sizes, ReallocInPlace(a, n)
    PROVE  IInv'
<1> DEFINE b == [a EXCEPT !.size = n]
           id == a.blk
           K == live \ {a}
           M == K \cup {b}
           f == heap.blk[id].chunk
<1>1. /\ header(heap.blk[id], a.off).size = RealSize(n)
      /\ live' = M /\ heap' = heap /\ load' = load
  BY DEF ReallocInPlace
<1>2. load \in Workloads /\ HeapInv(heap, live, load)
  BY DEF IInv
<1>3. /\ HeapForm(heap, load) /\ LiveForm(live, load) /\ BlockOk(heap, live, load, id)
      /\ \A o \in live : InUse(heap.blk[o.blk].chunk, o)
      /\ a \in [blk : Ids(load), off : Nat, size : load.sizes]
      /\ \A o \in live : o.blk = a.blk /\ o.off = a.off => o = a
  BY <1>2 DEF HeapInv, LiveForm, AllocForm
<1>4. AllocForm(b, load) /\ b.blk = id /\ b.off = a.off /\ b.size = n
  BY <1>3 DEF AllocForm
<1>5. /\ LiveForm(K, load) /\ id \in Ids(load)
      /\ Of(K, id) = Of(live, id) \ {a} /\ a \in Of(live, id)
      /\ \A x \in Ids(load) : x # id => Of(K, x) = Of(live, x)
  <2>1. LiveForm(live, load) /\ a \in live
    BY <1>3
  <2>2. LiveForm(K, load) /\ id \in Ids(load)
    BY <2>1, LiveRemoved
  <2>3. Of(K, id) = Of(live, id) \ {a} /\ a \in Of(live, id)
    BY <2>1, LiveRemoved
  <2>4. \A x \in Ids(load) : x # id => Of(K, x) = Of(live, x)
    BY DEF Of
  <2> QED
    BY <2>2, <2>3, <2>4
<1> HIDE DEF b, K
<1>6. /\ LiveForm(M, load) /\ b \notin K
      /\ Of(M, id) = Of(K, id) \cup {b} /\ b \notin Of(K, id)
      /\ \A x \in Ids(load) : x # id => Of(M, x) = Of(K, x)
  <2>1. Fresh(K, b)
    BY <1>3, <1>4 DEF Fresh, K
  <2>2. LiveForm(K, load) /\ AllocForm(b, load)
    BY <1>4, <1>5
  <2>3. LiveForm(M, load)
    BY <2>1, <2>2, LiveAdded
  <2>4. Of(M, id) = Of(K, id) \cup {b} /\ b \notin K /\ b \notin Of(K, id)
    BY <1>4, <2>1 DEF Of, Fresh
  <2>5. \A x \in Ids(load) : x # id => Of(M, x) = Of(K, x)
    BY <1>4 DEF Of
  <2> QED
    BY <2>3, <2>4, <2>5
<1> HIDE DEF M
<1>7. OnlyAt(heap, heap, live, M, load, id)
  BY <1>5, <1>6 DEF OnlyAt
<1>8. Cardinality(Of(M, id)) = Cardinality(Of(live, id)) /\ Of(M, id) # {}
  <2>1. IsFiniteSet(Of(live, id)) /\ IsFiniteSet(Of(K, id)) /\ Cardinality(Of(live, id)) \in Nat
    BY <1>3, <1>5, OfFinite
  <2>2. Cardinality(Of(K, id)) = Cardinality(Of(live, id)) - 1
    BY <1>5, <2>1, FS_RemoveElement
  <2>3. Cardinality(Of(M, id)) = Cardinality(Of(K, id)) + 1
    BY <1>6, <2>1, FS_AddElement
  <2> QED
    BY <1>6, <2>1, <2>2, <2>3
<1>9. BlockOk(heap, M, load, id)
  <2>1. Listed(heap, id)
    BY <1>3, <1>5 DEF BlockOk
  <2> QED
    BY <1>3, <1>8, <2>1 DEF BlockOk, Kept
<1>10. \A o \in Of(M, id) : InUse(f, o)
  <2>1. a.off \in DOMAIN f /\ f[a.off].used
    BY <1>3 DEF InUse
  <2>2. f[a.off].size = RealSize(n)
    BY <1>1, <2>1 DEF header
  <2>3. RealSize(n) \in Nat
    BY <1>2, LoadFacts
  <2>4. InUse(f, b)
    BY <1>4, <2>1, <2>2, <2>3 DEF InUse
  <2>5. \A o \in Of(K, id) : InUse(f, o)
    BY <1>3, <1>5 DEF Of
  <2> QED
    BY <1>6, <2>4, <2>5
<1>11. HeapInv(heap, M, load)
  BY <1>2, <1>3, <1>5, <1>6, <1>7, <1>9, <1>10, OneBlock
<1> QED
  BY <1>1, <1>2, <1>11 DEF IInv

\* and where it is a malloc and a free.
LEMMA ReallocByCopyInv ==
    ASSUME Careful, IInv, NEW a \in live, NEW n \in load.sizes, ReallocByCopy(a, n)
    PROVE  IInv'
<1> DEFINE m == march(heap, RealSize(n))
           b == Allocation(m, n)
           h == m.heap
           M == live \cup {b}
<1>1. /\ Roomy(heap, RealSize(n)) /\ (load.splitsInside \/ ~SplitsInside(heap, RealSize(n)))
      /\ ~DropsFirst(h, a) /\ PrevIsRight(h, a)
      /\ heap' = free(h, a) /\ live' = (live \ {a}) \cup {b} /\ load' = load
  BY DEF ReallocByCopy, Careful
<1>2. load \in Workloads /\ HeapInv(heap, live, load) /\ (FollowStale => ~load.splitsInside)
  BY DEF IInv, Careful
<1>3. b \notin live /\ HeapInv(h, M, load)
  BY <1>1, <1>2, Marched
<1> HIDE DEF m, b, h
<1>4. a \in M /\ (live \ {a}) \cup {b} = M \ {a}
  BY <1>3
<1> HIDE DEF M
<1>5. PrevRight(h.blk[a.blk], a.off)
  BY <1>1, <1>2, <1>3, <1>4, GuardedPrev
<1>6. HeapInv(free(h, a), M \ {a}, load)
  BY <1>1, <1>2, <1>3, <1>4, <1>5, FreeKeeps
<1> QED
  BY <1>1, <1>2, <1>4, <1>6 DEF IInv

\* Every step keeps the invariant.
LEMMA Inductive ==
    ASSUME Careful, IInv, [HallocNext]_vars
    PROVE  IInv'
<1>1. CASE \E n \in load.sizes : Malloc(n)
  BY <1>1, MallocInv
<1>2. CASE \E a \in live : Free(a)
  BY <1>2, FreeInv
<1>3. CASE \E a \in live : \E n \in load.sizes : ReallocInPlace(a, n)
  BY <1>3, ReallocInPlaceInv
<1>4. CASE \E a \in live : \E n \in load.sizes : ReallocByCopy(a, n)
  BY <1>4, ReallocByCopyInv
<1>5. CASE UNCHANGED vars
  BY <1>5 DEF vars, IInv
<1> QED
  BY <1>1, <1>2, <1>3, <1>4, <1>5 DEF HallocNext, Realloc

\* The inductive invariant holds in every state.
THEOREM Invariant ==
    ASSUME Careful
    PROVE  Spec => []IInv
<1>1. Init => IInv
  BY InitInv
<1>2. IInv /\ [HallocNext]_vars => IInv'
  BY Inductive
<1> QED
  BY <1>1, <1>2, PTL DEF Spec

-----------------------------------------------------------------------------
(* What follows from it *)

\* A block of the list, of the invariant.
LEMMA OnListFacts ==
    ASSUME IInv, NEW k \in DOMAIN heap.list
    PROVE  /\ Whole(heap.blk[heap.list[k]])
           /\ load.splitsInside \/ PrevsOf(heap.blk[heap.list[k]].chunk, {})
<1> DEFINE id == heap.list[k]
<1>1. Listed(heap, id)
  BY DEF Listed
<1>2. id \in Ids(load)
  BY <1>1, ListedIs DEF IInv, HeapInv
<1>3. Kept(heap, live, load, id)
  BY <1>1, <1>2 DEF IInv, HeapInv, BlockOk
<1> QED
  BY <1>3 DEF Kept

\* A whole block is tiled,
LEMMA TiledWhole ==
    ASSUME NEW b, Whole(b)
    PROVE  TiledBlock(b)
<1> DEFINE f == b.chunk
           e == End(b)
           starts == {BlockHeader} \cup {Next(b, c) : c \in DOMAIN f}
<1>1. Line(f, e) /\ b.pages \in Nat \ {0}
  BY DEF Whole, Form
<1>2. e \in Nat /\ e \notin DOMAIN f
  BY <1>1, EndIsNat, LineBounds
<1>3. \A c \in DOMAIN f : Next(b, c) = c + f[c].size
  BY DEF Next, header
<1>4. \A x \in starts : x \in DOMAIN f \cup {e}
  BY <1>1, <1>3 DEF Line
<1>5. \A x \in DOMAIN f \cup {e} : x \in starts
  BY <1>1, <1>3 DEF Line
<1>6. starts = DOMAIN f \cup {e}
  BY <1>4, <1>5
<1> QED
  BY <1>2, <1>6 DEF TiledBlock, End

\* its free chunks are joined,
LEMMA JoinedWhole ==
    ASSUME NEW b, Whole(b)
    PROVE  JoinedBlock(b)
  BY DEF Whole, Apart, JoinedBlock, Next, header

\* its `prev' fields lead back,
LEMMA PrevWhole ==
    ASSUME NEW b, Whole(b), PrevsOf(b.chunk, {})
    PROVE  PrevOf(b)
<1>1. BlockHeader \in DOMAIN b.chunk /\ b.chunk[BlockHeader].prev = 0
  BY DEF Whole, Line, Backs
<1>2. \A c \in DOMAIN b.chunk :
         c + b.chunk[c].size \in DOMAIN b.chunk => b.chunk[c + b.chunk[c].size].prev = b.chunk[c].size
  BY DEF PrevsOf
<1> QED
  BY <1>1, <1>2 DEF PrevOf, Next, header

\* it has its type,
LEMMA TypeWhole ==
    ASSUME NEW b, Whole(b)
    PROVE  /\ b.pages \in Nat \ {0} /\ b.rc \in Nat
           /\ b.free \in Seq(Offsets(b))
           /\ DOMAIN b.chunk \subseteq Offsets(b)
           /\ b.chunk \in [DOMAIN b.chunk -> HeaderType(b)]
<1> DEFINE f == b.chunk
           e == End(b)
<1>1. /\ Form(b) /\ Line(f, e) /\ Backs(f, e) /\ Listing(f, b.free, {})
  BY DEF Whole
<1>2. /\ b.pages \in Nat \ {0} /\ b.rc \in Nat
      /\ f = [d \in DOMAIN f |-> f[d]] /\ \A d \in DOMAIN f : f[d] \in HeaderForm
  BY <1>1 DEF Form, Headers
<1>3. e \in Nat /\ e + 1 = b.pages * BlockBytes
  BY <1>2, EndIsNat
<1>4. Bytes(b) = 0 .. e /\ Offsets(b) = BlockHeader .. e - AllocHeader
  <2>1. b.pages * BlockBytes - 1 = e /\ b.pages * BlockBytes - AllocHeader - 1 = e - AllocHeader
    BY <1>3, HallocAssumption
  <2> QED
    BY <2>1 DEF Bytes, Offsets
<1>5. DOMAIN f \subseteq Offsets(b)
  <2>1. \A c \in DOMAIN f : c \in Nat /\ BlockHeader <= c /\ c + AllocHeader <= e
    BY <1>1 DEF Line
  <2> QED
    BY <1>3, <1>4, <2>1, HallocAssumption
<1>6. ASSUME NEW c \in DOMAIN f PROVE f[c] \in HeaderType(b)
  <2>1. f[c] \in HeaderForm /\ f[c].prev <= e
    BY <1>1, <1>2 DEF Backs
  <2>2. c \in Nat /\ c + f[c].size <= e
    BY <1>1, <1>3, LineBounds DEF Line
  <2>3. f[c].size \in Nat /\ f[c].prev \in Nat /\ f[c].used \in BOOLEAN
        /\ f[c] = [size |-> f[c].size, prev |-> f[c].prev, used |-> f[c].used]
    BY <2>1 DEF HeaderForm
  <2>4. f[c].size \in Bytes(b) /\ f[c].prev \in Bytes(b)
    BY <1>3, <1>4, <2>1, <2>2, <2>3
  <2> QED
    BY <2>3, <2>4 DEF HeaderType
<1>7. f \in [DOMAIN f -> HeaderType(b)]
  BY <1>2, <1>6
<1>8. b.free \in Seq(Offsets(b))
  <2>1. b.free \in Seq(Nat) /\ ToSet(b.free) = FreeOf(f) \ {}
    BY <1>1 DEF Listing
  <2>2. DOMAIN b.free = 1 .. Len(b.free) /\ Len(b.free) \in Nat
    BY <2>1, LenProperties
  <2>3. \A k \in 1 .. Len(b.free) : b.free[k] \in Offsets(b)
    BY <1>5, <2>1, <2>2 DEF ToSet, FreeOf
  <2>4. b.free = [k \in 1 .. Len(b.free) |-> b.free[k]]
    BY <2>1, <2>2
  <2>5. b.free \in [1 .. Len(b.free) -> Offsets(b)]
    BY <2>3, <2>4
  <2> QED
    BY <2>2, <2>5, SeqDef
<1> QED
  BY <1>2, <1>5, <1>7, <1>8

\* and its free list is exact.
LEMMA FreeListWhole ==
    ASSUME NEW b, Whole(b)
    PROVE  FreeListOf(b)
<1> DEFINE f == b.chunk
           s == b.free
<1>1. /\ s \in Seq(Nat) /\ IsInjective(s) /\ ToSet(s) = FreeOf(f) \ {}
      /\ \A k \in 1 .. Len(s) : k > 1 => f[s[k - 1]].size >= f[s[k]].size
  BY DEF Whole, Listing
<1>2. DOMAIN s = 1 .. Len(s) /\ Len(s) \in Nat
  BY <1>1, LenProperties
<1>3. ToSet(s) = {c \in DOMAIN f : ~f[c].used}
  BY <1>1 DEF FreeOf
<1>4. Cardinality(ToSet(s)) = Len(s)
  <2>1. s \in Bijection(1 .. Len(s), ToSet(s))
    <3>1. s \in [1 .. Len(s) -> ToSet(s)]
      <4>1. s = [k \in 1 .. Len(s) |-> s[k]]
        BY <1>1, <1>2
      <4>2. \A k \in 1 .. Len(s) : s[k] \in ToSet(s)
        BY <1>2 DEF ToSet
      <4> QED
        BY <4>1, <4>2
    <3>2. \A x, y \in 1 .. Len(s) : s[x] = s[y] => x = y
      BY <1>1, <1>2 DEF IsInjective
    <3>3. \A d \in ToSet(s) : \E k \in 1 .. Len(s) : s[k] = d
      BY <1>2 DEF ToSet
    <3> QED
      BY <3>1, <3>2, <3>3, Fun_IsBij
  <2>2. IsFiniteSet(1 .. Len(s)) /\ Cardinality(1 .. Len(s)) = Len(s)
    BY <1>2, FS_Interval
  <2> QED
    BY <2>1, <2>2, FS_Bijection DEF ExistsBijection
<1> QED
  BY <1>1, <1>2, <1>3, <1>4 DEF FreeListOf

\* A live allocation lies in its chunk.
LEMMA LiveFacts ==
    ASSUME IInv, NEW a \in live
    PROVE  LET b == heap.blk[a.blk] IN
           /\ Whole(b) /\ InUse(b.chunk, a) /\ load \in Workloads
           /\ a.blk \in Ids(load) /\ a.off \in Nat /\ a.size \in load.sizes
           /\ \A o \in live : o.blk = a.blk /\ o.off = a.off => o = a
           /\ load.splitsInside \/ PrevsOf(b.chunk, {})
<1>1. HeapInv(heap, live, load) /\ load \in Workloads
  BY DEF IInv
<1>2. LiveForm(live, load) /\ InUse(heap.blk[a.blk].chunk, a)
  BY <1>1 DEF HeapInv
<1>3. /\ a.blk \in Ids(load) /\ a.off \in Nat /\ a.size \in load.sizes
      /\ \A o \in live : o.blk = a.blk /\ o.off = a.off => o = a
  BY <1>2 DEF LiveForm, AllocForm
<1>4. Of(live, a.blk) # {}
  BY DEF Of
<1>5. Kept(heap, live, load, a.blk)
  BY <1>1, <1>3, <1>4 DEF HeapInv, BlockOk
<1> QED
  BY <1>1, <1>2, <1>3, <1>5 DEF Kept

\* The properties of the runs follow from the invariant: the types,
LEMMA TypeFromInv ==
    IInv => TypeOK
<1> SUFFICES ASSUME IInv PROVE TypeOK
  OBVIOUS
<1>1. Ids(load) = BlockIds
  BY DEF Ids, BlockIds
<1>2. heap.list \in Seq(BlockIds)
  BY <1>1 DEF IInv, HeapInv, HeapForm
<1>3. ASSUME NEW id \in BlockIds, Listed(heap, id)
      PROVE  LET b == heap.blk[id] IN
             /\ b.pages \in Nat \ {0} /\ b.rc \in Nat
             /\ b.free \in Seq(Offsets(b))
             /\ DOMAIN b.chunk \subseteq Offsets(b)
             /\ b.chunk \in [DOMAIN b.chunk -> HeaderType(b)]
  <2>1. Whole(heap.blk[id])
    BY <1>3, OnListFacts DEF Listed
  <2> QED
    BY <2>1, TypeWhole
<1>4. \A a \in live : a.blk \in BlockIds /\ a.off \in Nat /\ a.size \in load.sizes
  BY <1>1, LiveFacts
<1> QED
  BY <1>2, <1>3, <1>4 DEF TypeOK

\* the tiling,
LEMMA TiledFromInv ==
    IInv => Tiled
<1> SUFFICES ASSUME IInv PROVE Tiled
  OBVIOUS
<1>1. TypeOK
  BY TypeFromInv
<1>2. OnList(TiledBlock)
  BY OnListFacts, TiledWhole DEF OnList
<1>3. OnList(JoinedBlock)
  BY OnListFacts, JoinedWhole DEF OnList
<1>4. ~load.splitsInside => OnList(PrevOf)
  BY OnListFacts, PrevWhole DEF OnList
<1> QED
  BY <1>1, <1>2, <1>3, <1>4 DEF Tiled

\* the free lists,
LEMMA FreeListFromInv ==
    IInv => FreeListExact
  BY OnListFacts, FreeListWhole DEF FreeListExact, OnList

\* the counts
LEMMA HeldFromInv ==
    IInv => BlocksHeld
<1> SUFFICES ASSUME IInv, NEW id \in BlockIds
             PROVE  /\ Listed(heap, id) <=> Of(live, id) # {}
                    /\ heap.blk[id] # NoBlock <=> Of(live, id) # {}
                    /\ Of(live, id) # {} => heap.blk[id].rc = Cardinality(Of(live, id))
  BY DEF BlocksHeld, Of
<1>1. BlockOk(heap, live, load, id)
  BY DEF IInv, HeapInv, Ids, BlockIds
<1>2. CASE Listed(heap, id)
  <2>1. Kept(heap, live, load, id)
    BY <1>1, <1>2 DEF BlockOk
  <2>2. heap.blk[id] # NoBlock
    BY <2>1 DEF Kept, Whole, Form, NoBlock
  <2> QED
    BY <1>2, <2>1, <2>2 DEF Kept
<1>3. CASE ~Listed(heap, id)
  BY <1>1, <1>3 DEF BlockOk
<1> QED
  BY <1>2, <1>3

\* and the disjoint allocations.
LEMMA DisjointFromInv ==
    IInv => LiveDisjoint
<1> SUFFICES ASSUME IInv, NEW a \in live
             PROVE  /\ BlockHeader <= a.off
                    /\ a.off + RealSize(a.size) < heap.blk[a.blk].pages * BlockBytes
                    /\ \A o \in live \ {a} : o.blk = a.blk => Extent(o) \cap Extent(a) = {}
  BY DEF LiveDisjoint
<1> DEFINE b == heap.blk[a.blk]
           f == b.chunk
           e == End(b)
<1>1. /\ Whole(b) /\ InUse(f, a) /\ load \in Workloads /\ a.off \in Nat /\ a.size \in load.sizes
      /\ \A o \in live : o.blk = a.blk /\ o.off = a.off => o = a
  BY LiveFacts
<1>2. Line(f, e) /\ e \in Nat /\ e + 1 = b.pages * BlockBytes
  BY <1>1, EndIsNat DEF Whole, Form
<1>3. a.off \in DOMAIN f /\ RealSize(a.size) <= f[a.off].size
  BY <1>1 DEF InUse
<1>4. RealSize(a.size) \in Nat
  BY <1>1, LoadFacts
<1>5. f[a.off].size \in Nat /\ BlockHeader <= a.off /\ a.off + f[a.off].size <= e
  BY <1>2, <1>3, LineBounds DEF Line
<1>6. a.off + RealSize(a.size) < b.pages * BlockBytes
  <2> DEFINE x == b.pages * BlockBytes
  <2>1. e + 1 = x
    BY <1>2
  <2> HIDE DEF x, e
  <2>2. a.off + RealSize(a.size) < x
    BY <1>1, <1>2, <1>3, <1>4, <1>5, <2>1
  <2> QED
    BY <2>2 DEF x
<1>7. ASSUME NEW o \in live \ {a}, o.blk = a.blk PROVE Extent(o) \cap Extent(a) = {}
  <2>1. InUse(f, o) /\ o.off \in Nat /\ o.size \in load.sizes
    BY <1>7, LiveFacts
  <2>2. o.off \in DOMAIN f /\ RealSize(o.size) <= f[o.off].size
    BY <2>1 DEF InUse
  <2>3. RealSize(o.size) \in Nat /\ f[o.off].size \in Nat
    BY <1>1, <1>2, <2>1, <2>2, LoadFacts DEF Line
  <2>4. o.off # a.off
    BY <1>1, <1>7
  <2>5. CASE o.off < a.off
    <3>1. o.off + f[o.off].size <= a.off
      BY <1>2, <1>3, <2>2, <2>5 DEF Line
    <3>2. o.off + RealSize(o.size) <= a.off
      BY <1>1, <2>1, <2>2, <2>3, <3>1
    <3> QED
      BY <1>1, <1>4, <2>1, <2>3, <3>2 DEF Extent
  <2>6. CASE a.off < o.off
    <3>1. a.off + f[a.off].size <= o.off
      BY <1>2, <1>3, <2>2, <2>6 DEF Line
    <3>2. a.off + RealSize(a.size) <= o.off
      BY <1>1, <1>3, <1>4, <1>5, <2>1, <3>1
    <3> QED
      BY <1>1, <1>4, <2>1, <2>3, <3>2 DEF Extent
  <2> QED
    BY <1>1, <2>1, <2>4, <2>5, <2>6
<1> QED
  BY <1>5, <1>6, <1>7

\* A free chunk is on its block's list, once, and the list is sorted: march looks
\* at its head only.
THEOREM FreeListIsExact ==
    ASSUME Careful
    PROVE  Spec => []FreeListExact
  BY Invariant, FreeListFromInv, PTL

\* Blocks are tiled by their chunks without a gap, free chunks are joined, and
\* `prev' leads back where malloc splits no chunk that another one follows.
THEOREM BlocksAreTiled ==
    ASSUME Careful
    PROVE  Spec => []Tiled
  BY Invariant, TiledFromInv, PTL

\* Allocations do not overlap and stay inside their blocks.
THEOREM AllocationsAreDisjoint ==
    ASSUME Careful
    PROVE  Spec => []LiveDisjoint
  BY Invariant, DisjointFromInv, PTL

\* A block counts what is live in it and exists as long as that is not nothing.
THEOREM BlocksAreHeld ==
    ASSUME Careful
    PROVE  Spec => []BlocksHeld
  BY Invariant, HeldFromInv, PTL

\* The guard that keeps free from following a stale `prev' refuses nothing ...
PrevFollowed ==
    ~load.splitsInside => \A a \in live : PrevIsRight(heap, a)

\* ... as long as malloc splits no chunk that another one follows: `prev' of every
\* allocation leads to the chunk before it.
THEOREM PrevIsFollowed ==
    ASSUME Careful
    PROVE  Spec => []PrevFollowed
<1>1. IInv => PrevFollowed
  <2> SUFFICES ASSUME IInv, ~load.splitsInside, NEW a \in live PROVE PrevIsRight(heap, a)
    BY DEF PrevFollowed
  <2>1. LET b == heap.blk[a.blk] IN Whole(b) /\ InUse(b.chunk, a) /\ PrevsOf(b.chunk, {})
    BY LiveFacts
  <2>2. PrevRight(heap.blk[a.blk], a.off)
    BY <2>1, PrevLeads DEF InUse
  <2>3. header(heap.blk[a.blk], a.off) = heap.blk[a.blk].chunk[a.off]
    BY <2>1 DEF InUse, header
  <2> QED
    BY <2>2, <2>3 DEF PrevIsRight, PrevRight
<1> QED
  BY <1>1, Invariant, PTL
=============================================================================
