---------------------------- MODULE BootMapProof ----------------------------
(***************************************************************************)
(* Proofs about the start of the kernel (kernel/src/main.c) with the page  *)
(* allocator (kernel/src/memory/palloc.c) and the memory map.              *)
(***************************************************************************)
EXTENDS BootMap, FiniteSetTheorems, SequenceTheorems, WellFoundedInduction, TLAPS
LOCAL INSTANCE FiniteSetsExt

\* The proofs about the memory map, of the table that kmain fills.
MMP == INSTANCE MemMapProof
        WITH map <- k_mem_map, pc <- mpc, i <- mi, asked <- <<>>, Swallowing <- TRUE, None <- "none",
             Types <- {Free, Allocatable, "reserved", "acpi", "dead", "bios", "software"}

\* What the module MemMap assumes of its constants is true of them here.
LEMMA MapAssumptions ==
    /\ Top \in Nat \ {0}
    /\ "none" \notin {Free, Allocatable, "reserved", "acpi", "dead", "bios", "software"}
    /\ TRUE \in BOOLEAN
BY BootMapAssumption DEF Free, Allocatable

-----------------------------------------------------------------------------
(* Numbers *)

\* A set of numbers has a smallest one, and Min finds it.
LEMMA MinFacts ==
    ASSUME NEW S, S \subseteq Nat, S # {}
    PROVE  Min(S) \in S /\ \A y \in S : Min(S) <= y
<1>1. \E x \in S : \A y \in S : ~(<<y, x>> \in OpToRel(<, Nat))
  BY NatLessThanWellFounded, WFMin
<1>2. PICK x \in S : \A y \in S : ~(<<y, x>> \in OpToRel(<, Nat))
  BY <1>1
<1>3. \A y \in S : ~(y < x)
  BY <1>2 DEF OpToRel
<1>4. \E z \in S : \A y \in S : z <= y
  BY <1>3
<1> QED
  BY <1>4 DEF Min

\* A quotient, rounded down.
LEMMA Quotient ==
    ASSUME NEW a \in Nat, NEW d \in Nat \ {0}
    PROVE  a \div d \in Nat /\ (a \div d) * d <= a /\ a < ((a \div d) + 1) * d
OBVIOUS

\* A quotient, rounded up.
LEMMA RoundedUp ==
    ASSUME NEW a \in Nat \ {0}, NEW d \in Nat \ {0}
    PROVE  /\ ((a - 1) \div d) + 1 \in Nat \ {0}
           /\ a <= (((a - 1) \div d) + 1) * d
           /\ ((a - 1) \div d) * d < a
<1>1. a - 1 \in Nat
  OBVIOUS
<1>2. /\ (a - 1) \div d \in Nat /\ ((a - 1) \div d) * d <= a - 1
      /\ a - 1 < (((a - 1) \div d) + 1) * d
  BY <1>1, Quotient
<1> DEFINE q == (a - 1) \div d
<1>3. q * d \in Nat /\ (q + 1) * d \in Nat
  BY <1>2
<1> QED
  BY <1>2, <1>3

\* Quotients compare as what is divided.
LEMMA QuotientMonotonic ==
    ASSUME NEW a \in Nat, NEW b \in Nat, NEW d \in Nat \ {0}, a <= b
    PROVE  a \div d <= b \div d
<1> DEFINE p == a \div d
           q == b \div d
<1>1. p \in Nat /\ q \in Nat /\ p * d <= a /\ b < (q + 1) * d
  BY Quotient
<1> HIDE DEF p, q
<1>2. ASSUME q < p PROVE FALSE
  <2>1. q + 1 <= p
    BY <1>1, <1>2
  <2>2. (q + 1) * d <= p * d
    BY <1>1, <2>1
  <2>3. (q + 1) * d \in Nat /\ p * d \in Nat
    BY <1>1
  <2> QED
    BY <1>1, <2>2, <2>3
<1>3. p <= q
  BY <1>1, <1>2
<1> QED
  BY <1>3 DEF p, q

\* Products compare as their factors.
LEMMA ProductMonotonic ==
    ASSUME NEW a \in Nat, NEW b \in Nat, NEW d \in Nat, a <= b
    PROVE  a * d <= b * d
OBVIOUS

LEMMA ProductCancel ==
    ASSUME NEW a \in Int, NEW b \in Int, NEW d \in Nat \ {0}, a * d < b * d
    PROVE  a < b
OBVIOUS

\* A multiple divides by its factor.
LEMMA MultipleOf ==
    ASSUME NEW a \in Nat, NEW d \in Nat \ {0}
    PROVE  (a * d) % d = 0 /\ (a * d) \div d = a
<1> DEFINE q == (a * d) \div d
<1>1. a * d \in Nat
  OBVIOUS
<1>2. q \in Nat /\ q * d <= a * d /\ a * d < (q + 1) * d
  BY <1>1, Quotient
<1> HIDE DEF q
<1>3. ASSUME a < q PROVE FALSE
  <2>1. a + 1 <= q /\ (a + 1) * d <= q * d
    BY <1>2, <1>3
  <2>2. (a + 1) * d = a * d + d
    OBVIOUS
  <2> QED
    BY <1>1, <1>2, <2>1, <2>2
<1>4. ~(q < a)
  <2> SUFFICES ASSUME q < a PROVE FALSE
    OBVIOUS
  <2>1. (q + 1) * d <= a * d
    BY <1>2
  <2>2. (q + 1) * d \in Nat
    BY <1>2
  <2> QED
    BY <1>1, <1>2, <2>1, <2>2
<1>5. q = a
  BY <1>2, <1>3, <1>4
<1>6. (a * d) % d = a * d - d * q
  BY <1>1 DEF q
<1>7. d * q = a * d
  BY <1>5
<1> QED
  BY <1>1, <1>5, <1>6, <1>7 DEF q

\* A number that a factor divides.
LEMMA MultipleBy ==
    ASSUME NEW x \in Nat, NEW d \in Nat \ {0}, x % d = 0
    PROVE  x \div d \in Nat /\ x = (x \div d) * d
<1>1. x \div d \in Nat
  OBVIOUS
<1>2. x = d * (x \div d)
  OBVIOUS
<1> QED
  BY <1>1, <1>2

-----------------------------------------------------------------------------
(* Powers of two and orders *)

\* The table of powers of two is one: each entry is twice the one before.
LEMMA Pow2Facts ==
    /\ Pow2(0) = 1
    /\ \A k \in 0 .. 15 : Pow2(k) \in Nat \ {0}
    /\ \A k \in 1 .. 15 : Pow2(k) = 2 * Pow2(k - 1)
  BY DEF Pow2, Pow2Table

LEMMA Pow2Monotonic ==
    ASSUME NEW k \in 0 .. 15, NEW l \in 0 .. 15, k <= l
    PROVE  Pow2(k) <= Pow2(l)
  BY SMTT(60) DEF Pow2, Pow2Table

\* Some order satisfies the definition of OrderOf: climbing from order 0, the
\* first that is MaxOrder or whose double is larger than the count.
LEMMA OrderFacts ==
    ASSUME NEW n \in Nat
    PROVE  /\ OrderOf(n) \in 0 .. MaxOrder
           /\ OrderOf(n) \in 0 .. 15
           /\ Pow2(OrderOf(n)) <= n \/ OrderOf(n) = 0
           /\ OrderOf(n) = MaxOrder \/ n < Pow2(OrderOf(n) + 1)
<1> DEFINE Fits(k) == (Pow2(k) <= n \/ k = 0) /\ (k = MaxOrder \/ n < Pow2(k + 1))
<1>0. MaxOrder \in 0 .. 15
  BY PallocAssumption
<1>1. \E k \in 0 .. MaxOrder : Fits(k)
  <2> SUFFICES ASSUME \A k \in 0 .. MaxOrder : ~Fits(k) PROVE FALSE
    OBVIOUS
  <2> DEFINE G(k) == k <= MaxOrder => Pow2(k) <= n \/ k = 0
  <2>1. G(0)
    OBVIOUS
  <2>2. \A k \in 0 .. 14 : G(k) => G(k + 1)
    BY <1>0, Pow2Facts
  <2> HIDE DEF G
  <2>3. G(1) /\ G(2) /\ G(3) /\ G(4) /\ G(5) /\ G(6) /\ G(7)
    BY <2>1, <2>2
  <2>4. G(8) /\ G(9) /\ G(10) /\ G(11) /\ G(12) /\ G(13) /\ G(14) /\ G(15)
    BY <2>2, <2>3
  <2>5. G(MaxOrder)
    BY <1>0, <2>1, <2>3, <2>4
  <2> QED
    BY <1>0, <2>5 DEF G
<1>2. OrderOf(n) \in 0 .. MaxOrder /\ Fits(OrderOf(n))
  BY <1>1 DEF OrderOf
<1> QED
  BY <1>0, <1>2

\* More pages have at least the same order.
LEMMA OrderMonotonic ==
    ASSUME NEW m \in Nat, NEW n \in Nat, m <= n
    PROVE  OrderOf(m) <= OrderOf(n)
<1> SUFFICES ASSUME OrderOf(n) < OrderOf(m) PROVE FALSE
  BY OrderFacts
<1> DEFINE a == OrderOf(m)
           b == OrderOf(n)
<1>1. a \in 0 .. 15 /\ b \in 0 .. 15 /\ b + 1 \in 0 .. 15 /\ b + 1 <= a /\ a # 0 /\ b # MaxOrder
  BY OrderFacts, PallocAssumption
<1>2. Pow2(a) <= m /\ n < Pow2(b + 1)
  BY <1>1, OrderFacts
<1>3. Pow2(b + 1) <= Pow2(a)
  BY <1>1, Pow2Monotonic
<1>4. Pow2(a) \in Nat /\ Pow2(b + 1) \in Nat
  BY <1>1, Pow2Facts
<1> QED
  BY <1>2, <1>3, <1>4

\* The bitmap of an order of n pages, which has whole blocks of that order.
LEMMA BitmapFacts ==
    ASSUME NEW n \in Nat \ {0}, NEW k \in 0 .. 15
    PROVE  BitmapBytes(n, k) \in Nat
<1>1. CASE k <= OrderOf(n)
  <2>1. Pow2(k) \in Nat \ {0} /\ Pow2(k) <= n
    <3>1. Pow2(k) <= Pow2(OrderOf(n)) /\ Pow2(k) \in Nat \ {0} /\ Pow2(OrderOf(n)) \in Nat
      BY <1>1, Pow2Monotonic, Pow2Facts, OrderFacts
    <3>2. CASE OrderOf(n) = 0
      BY <1>1, <3>1, <3>2, Pow2Facts
    <3>3. CASE Pow2(OrderOf(n)) <= n
      BY <3>1, <3>3
    <3> QED
      BY <3>2, <3>3, OrderFacts
  <2>2. n \div Pow2(k) \in Nat /\ n < ((n \div Pow2(k)) + 1) * Pow2(k)
    BY <2>1, Quotient
  <2>3. n \div Pow2(k) # 0
    BY <2>1, <2>2
  <2>4. (n \div Pow2(k)) - 1 \in Nat
    BY <2>2, <2>3
  <2>5. (((n \div Pow2(k)) - 1) \div 8) \in Nat
    BY <2>4, Quotient
  <2> QED
    BY <1>1, <2>5 DEF BitmapBytes
<1>2. CASE ~(k <= OrderOf(n))
  BY <1>2 DEF BitmapBytes
<1> QED
  BY <1>1, <1>2

\* More pages have larger bitmaps.
LEMMA BitmapMonotonic ==
    ASSUME NEW m \in Nat \ {0}, NEW n \in Nat \ {0}, m <= n, NEW k \in 0 .. 15
    PROVE  BitmapBytes(m, k) <= BitmapBytes(n, k)
<1>1. OrderOf(m) <= OrderOf(n) /\ OrderOf(m) \in Nat /\ OrderOf(n) \in Nat
  BY OrderMonotonic, OrderFacts
<1>2. BitmapBytes(n, k) \in Nat
  BY BitmapFacts
<1>3. CASE k <= OrderOf(m)
  <2> DEFINE a == m \div Pow2(k)
             b == n \div Pow2(k)
  <2>1. Pow2(k) \in Nat \ {0} /\ k <= OrderOf(n)
    BY <1>1, <1>3, Pow2Facts
  <2>2. a \in Nat /\ b \in Nat /\ a <= b
    BY <2>1, Quotient, QuotientMonotonic
  <2>3. /\ BitmapBytes(m, k) = ((a - 1) \div 8) + 1
        /\ BitmapBytes(n, k) = ((b - 1) \div 8) + 1
    BY <1>3, <2>1 DEF BitmapBytes
  <2> HIDE DEF a, b
  <2> QED
    BY <2>2, <2>3
<1>4. CASE ~(k <= OrderOf(m))
  BY <1>2, <1>4 DEF BitmapBytes
<1> QED
  BY <1>3, <1>4

\* The descriptor and the bitmaps take some bytes, more for more pages.
LEMMA SizeFacts ==
    ASSUME NEW n \in Nat \ {0}
    PROVE  /\ buddy_get_size(n) \in Nat \ {0}
           /\ \A m \in Nat \ {0} : m <= n => buddy_get_size(m) <= buddy_get_size(n)
<1>1. ASSUME NEW m \in Nat \ {0}
      PROVE  AllBitmapBytes(m) \in Nat /\ (OrderOf(m) + 1) * DescBytes \in Nat
  <2>1. \A k \in 0 .. 15 : BitmapBytes(m, k) \in Nat
    BY BitmapFacts
  <2>2. OrderOf(m) \in Nat /\ DescBytes \in Nat
    BY OrderFacts, PallocAssumption
  <2>3. AllBitmapBytes(m) \in Nat
    <3>1. /\ BitmapBytes(m, 0) \in Nat /\ BitmapBytes(m, 1) \in Nat
          /\ BitmapBytes(m, 2) \in Nat /\ BitmapBytes(m, 3) \in Nat
          /\ BitmapBytes(m, 4) \in Nat /\ BitmapBytes(m, 5) \in Nat
          /\ BitmapBytes(m, 6) \in Nat /\ BitmapBytes(m, 7) \in Nat
      BY <2>1
    <3>2. /\ BitmapBytes(m, 8) \in Nat /\ BitmapBytes(m, 9) \in Nat
          /\ BitmapBytes(m, 10) \in Nat /\ BitmapBytes(m, 11) \in Nat
          /\ BitmapBytes(m, 12) \in Nat /\ BitmapBytes(m, 13) \in Nat
          /\ BitmapBytes(m, 14) \in Nat /\ BitmapBytes(m, 15) \in Nat
      BY <2>1
    <3> DEFINE low == BitmapBytes(m, 0) + BitmapBytes(m, 1) + BitmapBytes(m, 2)
                      + BitmapBytes(m, 3) + BitmapBytes(m, 4) + BitmapBytes(m, 5)
                      + BitmapBytes(m, 6) + BitmapBytes(m, 7)
    <3>3. low \in Nat
      BY <3>1
    <3>4. AllBitmapBytes(m) = low + BitmapBytes(m, 8) + BitmapBytes(m, 9) + BitmapBytes(m, 10)
                              + BitmapBytes(m, 11) + BitmapBytes(m, 12) + BitmapBytes(m, 13)
                              + BitmapBytes(m, 14) + BitmapBytes(m, 15)
      BY DEF AllBitmapBytes
    <3> HIDE DEF low
    <3> QED
      BY <3>2, <3>3, <3>4
  <2> QED
    BY <2>2, <2>3
<1>2. buddy_get_size(n) \in Nat \ {0}
  BY <1>1, PallocAssumption DEF buddy_get_size
<1>3. ASSUME NEW m \in Nat \ {0}, m <= n
      PROVE  buddy_get_size(m) <= buddy_get_size(n)
  <2>1. \A k \in 0 .. 15 : /\ BitmapBytes(m, k) \in Nat /\ BitmapBytes(n, k) \in Nat
                           /\ BitmapBytes(m, k) <= BitmapBytes(n, k)
    BY <1>3, BitmapFacts, BitmapMonotonic
  <2>2. AllBitmapBytes(m) <= AllBitmapBytes(n)
    BY <2>1 DEF AllBitmapBytes
  <2>3. (OrderOf(m) + 1) * DescBytes <= (OrderOf(n) + 1) * DescBytes
    <3>1. OrderOf(m) + 1 \in Nat /\ OrderOf(n) + 1 \in Nat /\ OrderOf(m) + 1 <= OrderOf(n) + 1
      BY <1>3, OrderMonotonic, OrderFacts
    <3>2. DescBytes \in Nat
      BY PallocAssumption
    <3> QED
      BY <3>1, <3>2, ProductMonotonic
  <2>4. HeaderBytes \in Nat
    BY PallocAssumption
  <2> QED
    BY <1>1, <2>2, <2>3, <2>4 DEF buddy_get_size
<1> QED
  BY <1>2, <1>3
-----------------------------------------------------------------------------
(* The layout of a region *)

\* An entry of the map, of any type.
Entry(e) == e.base \in Nat /\ e.size \in Nat \ {0}

\* The first page is rounded up, the count down.
LEMMA PagesFacts ==
    ASSUME NEW e, Entry(e)
    PROVE  /\ EndOf(e) \in Nat /\ e.base < EndOf(e)
           /\ first_page(e) \in Nat /\ first_page(e) % PageBytes = 0
           /\ e.base <= first_page(e)
           /\ first_page(e) < EndOf(e) =>
                /\ page_count(e) \in Nat
                /\ first_page(e) + page_count(e) * PageBytes <= EndOf(e)
<1>1. PageBytes \in Nat \ {0}
  BY PallocAssumption
<1>2. EndOf(e) \in Nat /\ e.base < EndOf(e)
  BY DEF Entry, EndOf
<1>3. first_page(e) \in Nat /\ first_page(e) % PageBytes = 0 /\ e.base <= first_page(e)
  <2>1. CASE e.base = 0
    BY <1>1, <2>1 DEF first_page
  <2>2. CASE e.base # 0
    <3> DEFINE q == ((e.base - 1) \div PageBytes) + 1
    <3>1. e.base \in Nat \ {0}
      BY <2>2 DEF Entry
    <3>2. q \in Nat /\ e.base <= q * PageBytes
      BY <1>1, <3>1, RoundedUp
    <3>3. first_page(e) = q * PageBytes
      BY <2>2 DEF first_page
    <3> HIDE DEF q
    <3>4. q * PageBytes \in Nat /\ (q * PageBytes) % PageBytes = 0
      BY <1>1, <3>2, MultipleOf
    <3> QED
      BY <3>2, <3>3, <3>4
  <2> QED
    BY <2>1, <2>2
<1>4. ASSUME first_page(e) < EndOf(e)
      PROVE  page_count(e) \in Nat /\ first_page(e) + page_count(e) * PageBytes <= EndOf(e)
  <2>1. EndOf(e) - first_page(e) \in Nat
    BY <1>2, <1>3, <1>4
  <2> DEFINE d == EndOf(e) - first_page(e)
             q == d \div PageBytes
  <2>2. q \in Nat /\ q * PageBytes <= d
    BY <1>1, <2>1, Quotient
  <2>3. page_count(e) = q
    BY DEF page_count
  <2> HIDE DEF q
  <2>4. q * PageBytes \in Nat
    BY <1>1, <2>2
  <2> QED
    BY <1>2, <1>3, <2>2, <2>3, <2>4
<1> QED
  BY <1>2, <1>3, <1>4

\* The region e can have an allocator: its bitmaps leave a page.
Roomy(e) == first_page(e) < EndOf(e) /\ page_count(e) > 0 /\ bud_page_count(e) < page_count(e)

\* The bitmaps come first, then the pages that are handed out.
LEMMA BuddyFacts ==
    ASSUME NEW e, Entry(e), Roomy(e)
    PROVE  LET b == NewBuddy(e) IN
           /\ b = [data |-> b.data, count |-> b.count, used |-> {}]
           /\ b.data \in Nat /\ b.count \in Nat \ {0}
           /\ b.data % PageBytes = 0
           /\ e.base <= first_page(e)
           /\ first_page(e) + buddy_get_size(b.count) <= b.data
           /\ b.data = first_page(e) + bud_page_count(e) * PageBytes
           /\ first_page(e) < b.data
           /\ b.data + b.count * PageBytes <= EndOf(e)
<1> DEFINE n == page_count(e)
           s == buddy_get_size(n)
           m == bud_page_count(e)
<1>1. PageBytes \in Nat \ {0}
  BY PallocAssumption
<1>2. /\ EndOf(e) \in Nat /\ first_page(e) \in Nat /\ first_page(e) % PageBytes = 0
      /\ e.base <= first_page(e)
      /\ n \in Nat \ {0} /\ first_page(e) + n * PageBytes <= EndOf(e)
  BY PagesFacts DEF Roomy
<1>3. s \in Nat \ {0}
  BY <1>2, SizeFacts
<1>4. m \in Nat \ {0} /\ s <= m * PageBytes
  <2>1. m = ((s - 1) \div PageBytes) + 1
    BY DEF bud_page_count
  <2> HIDE DEF s, m
  <2> QED
    BY <1>1, <1>3, <2>1, RoundedUp
<1>5. m < n
  BY DEF Roomy
<1> DEFINE b == NewBuddy(e)
<1>6. b = [data |-> first_page(e) + m * PageBytes, count |-> n - m, used |-> {}]
  BY DEF NewBuddy
<1>7. buddy_get_size(n - m) <= s
  <2>1. n - m \in Nat \ {0} /\ n - m <= n
    BY <1>2, <1>4, <1>5
  <2> HIDE DEF n, m
  <2> QED
    BY <1>2, <2>1, SizeFacts
<1>8. buddy_get_size(n - m) \in Nat
  <2>1. n - m \in Nat \ {0}
    BY <1>2, <1>4, <1>5
  <2> QED
    BY <2>1, SizeFacts
<1> HIDE DEF b, n, m, s
<1>9. b.data = first_page(e) + m * PageBytes /\ b.count = n - m /\ b.used = {}
  BY <1>6
<1>10. m * PageBytes \in Nat /\ n * PageBytes = m * PageBytes + (n - m) * PageBytes
  BY <1>1, <1>2, <1>4
<1>11. (n - m) * PageBytes \in Nat
  BY <1>1, <1>2, <1>4, <1>5
<1>12. (first_page(e) + m * PageBytes) % PageBytes = 0
  <2>1. first_page(e) = PageBytes * (first_page(e) \div PageBytes)
    BY <1>1, <1>2
  <2>2. first_page(e) \div PageBytes \in Nat
    BY <1>1, <1>2
  <2>3. first_page(e) + m * PageBytes = (first_page(e) \div PageBytes + m) * PageBytes
    BY <1>1, <1>2, <1>4, <2>1, <2>2
  <2>4. (first_page(e) \div PageBytes) + m \in Nat
    BY <1>4, <2>2
  <2> QED
    BY <1>1, <2>3, <2>4, MultipleOf
<1>13. m * PageBytes >= PageBytes /\ m * PageBytes > 0
  BY <1>1, <1>3, <1>4, <1>10
<1> QED
  BY <1>1, <1>2, <1>3, <1>4, <1>5, <1>6, <1>7, <1>8, <1>9, <1>10, <1>11, <1>12, <1>13 DEF b, m
-----------------------------------------------------------------------------
(* The allocations *)

Act(m) == {k \in DOMAIN m : m[k].type = Allocatable}

\* The allocator of a region with the entry e.
Serves(b, e) ==
    /\ Roomy(e)
    /\ b = [data |-> b.data, count |-> b.count, used |-> b.used]
    /\ b.data = NewBuddy(e).data /\ b.count = NewBuddy(e).count
    /\ b.used \subseteq 0 .. b.count - 1

\* The page of the allocator b where the allocation a begins, its pages, and
\* whether b can have granted it.
IdxOf(a, b) == (a.addr - b.data) \div PageBytes
PagesOf(a, b) == Run(IdxOf(a, b), a.count)
In(a, b) ==
    /\ IdxOf(a, b) \in Nat /\ a.count \in Nat \ {0} /\ IdxOf(a, b) + a.count <= b.count
    /\ a.addr = b.data + IdxOf(a, b) * PageBytes

\* Of the map m, the allocators bs and the allocations L: each allocation comes
\* from an allocator, none shares a page with another one, and what an allocator
\* takes for used is what was allocated of it.
Granted(m, bs, L) ==
    /\ \A a \in L : \E k \in Act(m) : In(a, bs[k])
    /\ \A k \in Act(m) : \A a, o \in L :
          In(a, bs[k]) /\ In(o, bs[k]) /\ a # o => PagesOf(a, bs[k]) \cap PagesOf(o, bs[k]) = {}
    /\ \A k \in Act(m) : \A p \in Nat :
          p \in bs[k].used <=> \E a \in L : In(a, bs[k]) /\ p \in PagesOf(a, bs[k])

AllocInv(m, bs, L) ==
    /\ MMP!Table(m)
    /\ Act(m) \subseteq DOMAIN bs
    /\ \A k \in Act(m) : Serves(bs[k], m[k])
    /\ Granted(m, bs, L)

\* What is known of the entries of the map.
LEMMA MapFacts ==
    ASSUME NEW m, MMP!Table(m)
    PROVE  /\ Len(m) \in Nat /\ DOMAIN m = 1 .. Len(m)
           /\ \A k \in DOMAIN m :
                 /\ Entry(m[k]) /\ EndOf(m[k]) <= Top
                 /\ m[k] = [base |-> m[k].base, size |-> m[k].size, type |-> m[k].type]
           /\ \A k, l \in DOMAIN m : k < l => EndOf(m[k]) <= m[l].base
<1>1. /\ Len(m) \in Nat /\ DOMAIN m = 1 .. Len(m)
      /\ \A k \in 1 .. Len(m) :
            /\ m[k] \in MMP!Region
            /\ m[k].base \in Nat /\ MMP!End(m[k]) \in Nat /\ m[k].size \in Nat
            /\ m[k].base < MMP!End(m[k]) /\ MMP!End(m[k]) <= Top
            /\ MMP!End(m[k]) = m[k].base + m[k].size
      /\ \A k, l \in 1 .. Len(m) : k < l => MMP!End(m[k]) <= m[l].base
  BY MapAssumptions, MMP!TableFacts
<1>2. \A e : MMP!End(e) = EndOf(e)
  BY DEF MMP!End, EndOf
<1>3. ASSUME NEW k \in 1 .. Len(m) PROVE m[k].size # 0
  BY <1>1
<1>4. ASSUME NEW k \in 1 .. Len(m)
      PROVE  m[k] = [base |-> m[k].base, size |-> m[k].size, type |-> m[k].type]
  BY <1>1 DEF MMP!Region
<1> QED
  BY <1>1, <1>2, <1>3, <1>4 DEF Entry

\* Where the pages of a region lie.
LEMMA ServesFacts ==
    ASSUME NEW e, Entry(e), NEW b, Serves(b, e)
    PROVE  /\ b.data \in Nat /\ b.count \in Nat \ {0}
           /\ b.data % PageBytes = 0
           /\ e.base <= first_page(e)
           /\ first_page(e) + buddy_get_size(b.count) <= b.data
           /\ b.data = first_page(e) + bud_page_count(e) * PageBytes
           /\ e.base < b.data
           /\ b.data + b.count * PageBytes <= EndOf(e)
<1> DEFINE n == NewBuddy(e)
<1>1. /\ n.data \in Nat /\ n.count \in Nat \ {0} /\ n.data % PageBytes = 0
      /\ e.base <= first_page(e) /\ first_page(e) + buddy_get_size(n.count) <= n.data
      /\ n.data = first_page(e) + bud_page_count(e) * PageBytes
      /\ first_page(e) < n.data
      /\ n.data + n.count * PageBytes <= EndOf(e)
  BY BuddyFacts DEF Serves
<1>2. b.data = n.data /\ b.count = n.count
  BY DEF Serves
<1>3. first_page(e) \in Nat /\ e.base \in Nat
  BY PagesFacts DEF Entry
<1> HIDE DEF n
<1> QED
  BY <1>1, <1>2, <1>3

\* How long the pages of an allocator's bitmaps are.
LEMMA BitmapLength ==
    ASSUME NEW e, Entry(e), NEW b, Serves(b, e)
    PROVE  bud_page_count(e) * PageBytes \in Nat
<1>1. PageBytes \in Nat \ {0} /\ Roomy(e)
  BY PallocAssumption DEF Serves
<1>2. page_count(e) \in Nat \ {0}
  BY <1>1, PagesFacts DEF Roomy
<1>3. buddy_get_size(page_count(e)) \in Nat \ {0}
  BY <1>2, SizeFacts
<1>4. bud_page_count(e) \in Nat
  BY <1>1, <1>3, RoundedUp DEF bud_page_count
<1> QED
  BY <1>1, <1>4

\* Where an allocation lies.
LEMMA InFacts ==
    ASSUME NEW e, Entry(e), NEW b, Serves(b, e), NEW a, In(a, b)
    PROVE  /\ a.addr \in Nat /\ a.addr % PageBytes = 0
           /\ LastByte(a) \in Nat /\ a.addr <= LastByte(a)
           /\ b.data <= a.addr /\ LastByte(a) < EndOf(e)
           /\ LastByte(a) = b.data + (IdxOf(a, b) + a.count) * PageBytes - 1
<1> DEFINE p == IdxOf(a, b)
           n == a.count
<1>1. p \in Nat /\ n \in Nat \ {0} /\ p + n <= b.count /\ a.addr = b.data + p * PageBytes
  BY DEF In
<1>2. /\ b.data \in Nat /\ b.count \in Nat \ {0} /\ b.data % PageBytes = 0
      /\ b.data + b.count * PageBytes <= EndOf(e)
  BY ServesFacts
<1>3. PageBytes \in Nat \ {0} /\ EndOf(e) \in Nat
  BY PallocAssumption, PagesFacts
<1>4. LastByte(a) = a.addr + n * PageBytes - 1
  BY DEF LastByte
<1> HIDE DEF p, n
<1>5. /\ p * PageBytes \in Nat /\ n * PageBytes \in Nat /\ n * PageBytes >= PageBytes
      /\ (p + n) * PageBytes = p * PageBytes + n * PageBytes
      /\ (p + n) * PageBytes <= b.count * PageBytes
      /\ b.count * PageBytes \in Nat
  BY <1>1, <1>2, <1>3
<1>6. a.addr % PageBytes = 0
  <2> DEFINE q == b.data \div PageBytes
  <2>1. q \in Nat /\ b.data = q * PageBytes
    BY <1>2, <1>3, MultipleBy
  <2> HIDE DEF q
  <2>2. a.addr = (q + p) * PageBytes /\ q + p \in Nat
    BY <1>1, <1>3, <2>1
  <2> QED
    BY <1>3, <2>2, MultipleOf
<1>7. /\ a.addr \in Nat /\ LastByte(a) \in Nat /\ a.addr <= LastByte(a) /\ b.data <= a.addr
      /\ LastByte(a) < EndOf(e)
      /\ LastByte(a) = b.data + (p + n) * PageBytes - 1
  <2> DEFINE x == p * PageBytes
             y == n * PageBytes
             z == b.count * PageBytes
             w == (p + n) * PageBytes
  <2>1. /\ x \in Nat /\ y \in Nat /\ y > 0 /\ w = x + y /\ w <= z /\ z \in Nat
        /\ a.addr = b.data + x /\ LastByte(a) = a.addr + y - 1 /\ b.data + z <= EndOf(e)
    BY <1>1, <1>2, <1>3, <1>4, <1>5
  <2> HIDE DEF x, y, z
  <2>2. LastByte(a) = b.data + w - 1
    BY <1>2, <2>1
  <2> HIDE DEF w
  <2>3. /\ a.addr \in Nat /\ LastByte(a) \in Nat /\ a.addr <= LastByte(a) /\ b.data <= a.addr
        /\ LastByte(a) < EndOf(e)
    BY <1>2, <1>3, <2>1
  <2> QED
    BY <2>2, <2>3 DEF w
<1> QED
  BY <1>6, <1>7 DEF p, n

\* An allocation comes from one region.
LEMMA OneRegion ==
    ASSUME NEW m, NEW bs, MMP!Table(m), \A k \in Act(m) : Serves(bs[k], m[k]),
           NEW k \in Act(m), NEW l \in Act(m), NEW a, In(a, bs[k]), NEW o, In(o, bs[l]), k # l
    PROVE  LastByte(a) < o.addr \/ LastByte(o) < a.addr
<1>1. /\ k \in DOMAIN m /\ l \in DOMAIN m /\ k \in Nat /\ l \in Nat /\ Entry(m[k]) /\ Entry(m[l])
      /\ k < l => EndOf(m[k]) <= m[l].base
      /\ l < k => EndOf(m[l]) <= m[k].base
  BY MapFacts DEF Act
<1>2. /\ LastByte(a) \in Nat /\ LastByte(a) < EndOf(m[k]) /\ bs[k].data <= a.addr /\ a.addr \in Nat
  BY <1>1, InFacts
<1>3. /\ LastByte(o) \in Nat /\ LastByte(o) < EndOf(m[l]) /\ bs[l].data <= o.addr /\ o.addr \in Nat
  BY <1>1, InFacts
<1>4. m[k].base < bs[k].data /\ m[l].base < bs[l].data /\ bs[k].data \in Nat /\ bs[l].data \in Nat
  BY <1>1, ServesFacts
<1>5. m[k].base \in Nat /\ m[l].base \in Nat /\ EndOf(m[k]) \in Nat /\ EndOf(m[l]) \in Nat
  BY <1>1, PagesFacts DEF Entry
<1> QED
  BY <1>1, <1>2, <1>3, <1>4, <1>5

LEMMA NotInTwo ==
    ASSUME NEW m, NEW bs, MMP!Table(m), \A k \in Act(m) : Serves(bs[k], m[k])
    PROVE  \A k, l \in Act(m) : \A a : In(a, bs[k]) /\ In(a, bs[l]) => k = l
<1> SUFFICES ASSUME NEW k \in Act(m), NEW l \in Act(m), NEW a, In(a, bs[k]), In(a, bs[l]), k # l
             PROVE  FALSE
  OBVIOUS
<1>1. LastByte(a) < a.addr
  BY OneRegion
<1>2. k \in DOMAIN m /\ Entry(m[k])
  BY MapFacts DEF Act
<1>3. a.addr \in Nat /\ LastByte(a) \in Nat /\ a.addr <= LastByte(a)
  BY <1>2, InFacts
<1> QED
  BY <1>1, <1>3

\* The allocators cs are bs with other pages in use.
Alike(b, c) ==
    /\ c = [data |-> c.data, count |-> c.count, used |-> c.used]
    /\ c.data = b.data /\ c.count = b.count /\ c.used \subseteq 0 .. c.count - 1

LEMMA AlikeFacts ==
    ASSUME NEW b, NEW c, Alike(b, c), NEW a
    PROVE  /\ In(a, c) <=> In(a, b)
           /\ PagesOf(a, c) = PagesOf(a, b)
           /\ \A e : Serves(b, e) => Serves(c, e)
<1>1. c.data = b.data /\ c.count = b.count
  BY DEF Alike
<1>2. IdxOf(a, c) = IdxOf(a, b)
  BY <1>1 DEF IdxOf
<1>3. In(a, c) <=> In(a, b)
  BY <1>1, <1>2 DEF In
<1>4. PagesOf(a, c) = PagesOf(a, b)
  BY <1>2 DEF PagesOf
<1>5. \A e : Serves(b, e) => Serves(c, e)
  BY DEF Serves, Alike
<1> QED
  BY <1>3, <1>4, <1>5

\* Allocations N, none of a page in use, are added.
LEMMA GrantMore ==
    ASSUME NEW m, NEW bs, NEW L, AllocInv(m, bs, L), NEW cs, DOMAIN cs = DOMAIN bs,
           \A k \in Act(m) : Alike(bs[k], cs[k]),
           NEW N,
           \A a \in N : \E k \in Act(m) : In(a, bs[k]),
           \A k \in Act(m) : \A a \in N :
              In(a, bs[k]) => PagesOf(a, bs[k]) \cap bs[k].used = {},
           \A k \in Act(m) : \A a, o \in N :
              In(a, bs[k]) /\ In(o, bs[k]) /\ a # o => PagesOf(a, bs[k]) \cap PagesOf(o, bs[k]) = {},
           \A k \in Act(m) : \A p \in Nat :
              p \in cs[k].used <=> \/ p \in bs[k].used
                                   \/ \E a \in N : In(a, bs[k]) /\ p \in PagesOf(a, bs[k])
    PROVE  AllocInv(m, cs, L \cup N)
<1>1. MMP!Table(m) /\ Act(m) \subseteq DOMAIN cs /\ Granted(m, bs, L)
  BY DEF AllocInv
<1>2. ASSUME NEW k \in Act(m), NEW a
      PROVE  (In(a, cs[k]) <=> In(a, bs[k])) /\ PagesOf(a, cs[k]) = PagesOf(a, bs[k])
  BY AlikeFacts
<1>3. \A k \in Act(m) : Serves(cs[k], m[k])
  BY AlikeFacts DEF AllocInv
<1>4. ASSUME NEW a \in L \cup N PROVE \E k \in Act(m) : In(a, cs[k])
  <2>1. \E k \in Act(m) : In(a, bs[k])
    BY <1>1 DEF Granted
  <2> QED
    BY <1>2, <2>1
<1>5. ASSUME NEW k \in Act(m), NEW a \in L, In(a, bs[k]), NEW p \in PagesOf(a, bs[k])
      PROVE  p \in Nat /\ p \in bs[k].used
  <2>1. p \in Nat
    BY <1>5 DEF PagesOf, Run, In
  <2> QED
    BY <1>1, <1>5, <2>1 DEF Granted
<1>6. ASSUME NEW k \in Act(m), NEW a \in L \cup N, NEW o \in L \cup N,
             In(a, cs[k]), In(o, cs[k]), a # o
      PROVE  PagesOf(a, cs[k]) \cap PagesOf(o, cs[k]) = {}
  <2>1. In(a, bs[k]) /\ In(o, bs[k])
    BY <1>2, <1>6
  <2>2. PagesOf(a, bs[k]) \cap PagesOf(o, bs[k]) = {}
    <3>1. CASE a \in L /\ o \in L
      BY <1>1, <1>6, <2>1, <3>1 DEF Granted
    <3>2. CASE a \in N /\ o \in N
      BY <1>6, <2>1, <3>2
    <3>3. CASE a \in L /\ o \in N
      <4>1. PagesOf(o, bs[k]) \cap bs[k].used = {}
        BY <2>1, <3>3
      <4> QED
        BY <1>5, <2>1, <3>3, <4>1
    <3>4. CASE a \in N /\ o \in L
      <4>1. PagesOf(a, bs[k]) \cap bs[k].used = {}
        BY <2>1, <3>4
      <4> QED
        BY <1>5, <2>1, <3>4, <4>1
    <3> QED
      BY <3>1, <3>2, <3>3, <3>4
  <2> QED
    BY <1>2, <2>2
<1>7. ASSUME NEW k \in Act(m), NEW p \in Nat
      PROVE  p \in cs[k].used <=> \E a \in L \cup N : In(a, cs[k]) /\ p \in PagesOf(a, cs[k])
  <2>1. p \in bs[k].used <=> \E a \in L : In(a, bs[k]) /\ p \in PagesOf(a, bs[k])
    BY <1>1 DEF Granted
  <2>2. p \in cs[k].used <=> \E a \in L \cup N : In(a, bs[k]) /\ p \in PagesOf(a, bs[k])
    BY <2>1
  <2> QED
    BY <1>2, <2>2
<1>8. Granted(m, cs, L \cup N)
  BY <1>4, <1>6, <1>7 DEF Granted
<1> QED
  BY <1>1, <1>3, <1>8 DEF AllocInv

\* The allocation x of region r is given back.
LEMMA GiveBack ==
    ASSUME NEW m, NEW bs, NEW L, AllocInv(m, bs, L), NEW cs, DOMAIN cs = DOMAIN bs,
           \A k \in Act(m) : Alike(bs[k], cs[k]),
           NEW x \in L, NEW r \in Act(m), In(x, bs[r]),
           \A k \in Act(m) : k # r => cs[k].used = bs[k].used,
           cs[r].used = bs[r].used \ PagesOf(x, bs[r])
    PROVE  AllocInv(m, cs, L \ {x})
<1>1. MMP!Table(m) /\ Act(m) \subseteq DOMAIN cs /\ Granted(m, bs, L)
  BY DEF AllocInv
<1>2. ASSUME NEW k \in Act(m), NEW a
      PROVE  (In(a, cs[k]) <=> In(a, bs[k])) /\ PagesOf(a, cs[k]) = PagesOf(a, bs[k])
  BY AlikeFacts
<1>3. \A k \in Act(m) : Serves(cs[k], m[k]) /\ Serves(bs[k], m[k])
  BY AlikeFacts DEF AllocInv
<1>4. ASSUME NEW a \in L \ {x} PROVE \E k \in Act(m) : In(a, cs[k])
  <2>1. \E k \in Act(m) : In(a, bs[k])
    BY <1>1 DEF Granted
  <2> QED
    BY <1>2, <2>1
<1>5. ASSUME NEW k \in Act(m), NEW a \in L \ {x}, NEW o \in L \ {x},
             In(a, cs[k]), In(o, cs[k]), a # o
      PROVE  PagesOf(a, cs[k]) \cap PagesOf(o, cs[k]) = {}
  <2>1. In(a, bs[k]) /\ In(o, bs[k])
    BY <1>2, <1>5
  <2>2. PagesOf(a, bs[k]) \cap PagesOf(o, bs[k]) = {}
    BY <1>1, <1>5, <2>1 DEF Granted
  <2> QED
    BY <1>2, <2>2
<1>6. ASSUME NEW k \in Act(m), NEW p \in Nat
      PROVE  p \in cs[k].used <=> \E a \in L \ {x} : In(a, cs[k]) /\ p \in PagesOf(a, cs[k])
  <2>1. p \in bs[k].used <=> \E a \in L : In(a, bs[k]) /\ p \in PagesOf(a, bs[k])
    BY <1>1 DEF Granted
  <2>2. CASE k = r
    <3>1. \A a \in L \ {x} : In(a, bs[r]) => PagesOf(a, bs[r]) \cap PagesOf(x, bs[r]) = {}
      BY <1>1 DEF Granted
    <3>2. p \in cs[r].used <=> p \in bs[r].used /\ p \notin PagesOf(x, bs[r])
      OBVIOUS
    <3>3. p \in cs[r].used <=> \E a \in L \ {x} : In(a, bs[r]) /\ p \in PagesOf(a, bs[r])
      BY <2>1, <2>2, <3>1, <3>2
    <3> QED
      BY <1>2, <2>2, <3>3
  <2>3. CASE k # r
    <3>1. ~In(x, bs[k])
      BY <1>1, <1>3, <2>3, NotInTwo
    <3>2. p \in cs[k].used <=> \E a \in L \ {x} : In(a, bs[k]) /\ p \in PagesOf(a, bs[k])
      BY <2>1, <2>3, <3>1
    <3> QED
      BY <1>2, <3>2
  <2> QED
    BY <2>2, <2>3
<1>7. Granted(m, cs, L \ {x})
  BY <1>4, <1>5, <1>6 DEF Granted
<1> QED
  BY <1>1, <1>3, <1>7 DEF AllocInv

\* The map m with region r taken.
Retyped(m, n, r) == n = [m EXCEPT ![r].type = Allocatable]

\* The free region r gets an allocator.
LEMMA AddRegion ==
    ASSUME NEW m, NEW bs, NEW L, AllocInv(m, bs, L),
           NEW r \in DOMAIN m, m[r].type = Free, Roomy(m[r]), r \in DOMAIN bs,
           NEW n, Retyped(m, n, r),
           NEW cs, DOMAIN cs = DOMAIN bs, cs[r] = NewBuddy(m[r]),
           \A k \in Act(m) : cs[k] = bs[k]
    PROVE  AllocInv(n, cs, L) /\ Act(n) = Act(m) \cup {r}
<1>1. /\ MMP!Table(m) /\ Act(m) \subseteq DOMAIN bs /\ Granted(m, bs, L)
      /\ \A k \in Act(m) : Serves(bs[k], m[k])
  BY DEF AllocInv
<1>2. /\ Len(m) \in Nat /\ DOMAIN m = 1 .. Len(m)
      /\ \A k \in DOMAIN m : /\ Entry(m[k])
                             /\ m[k] = [base |-> m[k].base, size |-> m[k].size, type |-> m[k].type]
  BY <1>1, MapFacts
<1>3. /\ DOMAIN n = DOMAIN m
      /\ n[r] = [base |-> m[r].base, size |-> m[r].size, type |-> Allocatable]
      /\ \A k \in DOMAIN m : k # r => n[k] = m[k]
  BY <1>2 DEF Retyped
<1>4. MMP!Table(n)
  <2>1. m \in Seq(MMP!Region) /\ \A k, l \in DOMAIN m : k < l => MMP!End(m[k]) <= m[l].base
    BY <1>1 DEF MMP!Table
  <2>2. m[r] \in MMP!Region
    BY <1>2, <2>1, ElementOfSeq
  <2>3. n[r] \in MMP!Region
    BY <1>3, <2>2 DEF MMP!Region
  <2>4. n \in Seq(MMP!Region)
    <3>1. n = [m EXCEPT ![r] = n[r]]
      BY <1>2, <1>3 DEF Retyped
    <3> QED
      BY <1>2, <2>1, <2>3, <3>1, ExceptSeq
  <2>5. \A k \in DOMAIN m : n[k].base = m[k].base /\ MMP!End(n[k]) = MMP!End(m[k])
    BY <1>3 DEF MMP!End
  <2> QED
    BY <1>3, <2>1, <2>4, <2>5 DEF MMP!Table
<1>5. Act(n) = Act(m) \cup {r} /\ r \notin Act(m)
  <2>1. Free # Allocatable
    BY DEF Free, Allocatable
  <2> QED
    BY <1>3, <2>1 DEF Act
<1>6. first_page(n[r]) = first_page(m[r]) /\ EndOf(n[r]) = EndOf(m[r])
  BY <1>3 DEF first_page, EndOf
<1>7. page_count(n[r]) = page_count(m[r])
  BY <1>6 DEF page_count
<1>8. bud_page_count(n[r]) = bud_page_count(m[r])
  BY <1>7 DEF bud_page_count
<1>9. NewBuddy(n[r]) = NewBuddy(m[r]) /\ Roomy(n[r])
  BY <1>6, <1>7, <1>8 DEF NewBuddy, Roomy
<1>10. cs[r].used = {}
  BY DEF NewBuddy
<1>11. Serves(cs[r], n[r])
  <2> DEFINE b == NewBuddy(m[r])
  <2>1. b = [data |-> b.data, count |-> b.count, used |-> {}] /\ b.used = {}
    BY DEF NewBuddy
  <2> HIDE DEF b
  <2> QED
    BY <1>9, <2>1 DEF Serves, b
<1>12. ASSUME NEW k \in Act(n) PROVE Serves(cs[k], n[k])
  <2>1. CASE k = r
    BY <1>11, <2>1
  <2>2. CASE k # r
    <3>1. k \in Act(m) /\ cs[k] = bs[k] /\ n[k] = m[k]
      BY <1>3, <1>5, <2>2 DEF Act
    <3> QED
      BY <1>1, <3>1
  <2> QED
    BY <2>1, <2>2
<1>13. ASSUME NEW a \in L PROVE ~In(a, cs[r])
  <2>1. PICK k \in Act(m) : In(a, bs[k])
    BY <1>1 DEF Granted
  <2>2. k \in Act(n) /\ r \in Act(n) /\ k # r /\ In(a, cs[k])
    BY <1>5, <2>1
  <2> SUFFICES ASSUME In(a, cs[r]) PROVE FALSE
    OBVIOUS
  <2> QED
    BY <1>4, <1>12, <2>2, NotInTwo
<1>14. Granted(n, cs, L)
  <2>1. \A a \in L : \E k \in Act(n) : In(a, cs[k])
    BY <1>1, <1>5 DEF Granted
  <2>2. ASSUME NEW k \in Act(n), NEW a \in L, NEW o \in L, In(a, cs[k]), In(o, cs[k]), a # o
        PROVE  PagesOf(a, cs[k]) \cap PagesOf(o, cs[k]) = {}
    <3>1. k \in Act(m) /\ cs[k] = bs[k]
      BY <1>5, <1>13, <2>2
    <3> QED
      BY <1>1, <2>2, <3>1 DEF Granted
  <2>3. ASSUME NEW k \in Act(n), NEW p \in Nat
        PROVE  p \in cs[k].used <=> \E a \in L : In(a, cs[k]) /\ p \in PagesOf(a, cs[k])
    <3>1. CASE k = r
      BY <1>10, <1>13, <3>1
    <3>2. CASE k # r
      BY <1>1, <1>5, <3>2 DEF Granted
    <3> QED
      BY <3>1, <3>2
  <2> QED
    BY <2>1, <2>2, <2>3 DEF Granted
<1> QED
  BY <1>4, <1>5, <1>12, <1>14 DEF AllocInv
-----------------------------------------------------------------------------
(* The calls of the page allocator *)

\* What buddy_find looks for is long enough.
LEMMA WantedFacts ==
    ASSUME NEW b, b.count \in Nat \ {0}, NEW n \in Nat \ {0}
    PROVE  Wanted(b, n).len \in Nat /\ n <= Wanted(b, n).len
<1> DEFINE order == OrderOf(b.count)
           fits == {k \in 0 .. order : n <= Pow2(k)}
<1>1. order \in 0 .. 15
  BY OrderFacts
<1>2. CASE fits # {}
  <2>1. fits \subseteq Nat
    BY <1>1
  <2>2. Min(fits) \in fits
    BY <1>2, <2>1, MinFacts
  <2>3. Min(fits) \in 0 .. 15 /\ n <= Pow2(Min(fits))
    BY <1>1, <2>2
  <2>4. Wanted(b, n).len = Pow2(Min(fits))
    BY <1>2 DEF Wanted
  <2> QED
    BY <2>3, <2>4, Pow2Facts
<1>3. CASE fits = {}
  <2> DEFINE q == ((n - 1) \div Pow2(order)) + 1
  <2>1. Pow2(order) \in Nat \ {0}
    BY <1>1, Pow2Facts
  <2>2. q \in Nat /\ n <= q * Pow2(order)
    <3> HIDE DEF order
    <3> QED
      BY <2>1, RoundedUp
  <2>3. Wanted(b, n).len = q * Pow2(order)
    BY <1>3 DEF Wanted
  <2> HIDE DEF q, order
  <2>4. q * Pow2(order) \in Nat
    BY <2>1, <2>2
  <2> QED
    BY <2>2, <2>3, <2>4
<1> QED
  BY <1>2, <1>3

\* A place has as many free pages as are asked for.
LEMMA PlacesFacts ==
    ASSUME NEW b, b.count \in Nat \ {0}, NEW n \in Nat \ {0}, NEW p \in Places(b, n)
    PROVE  /\ p \in Nat /\ p + n <= b.count
           /\ Run(p, n) \cap b.used = {}
           /\ Run(p, n) \subseteq 0 .. b.count - 1
<1> DEFINE len == Wanted(b, n).len
<1>1. len \in Nat /\ n <= len
  BY WantedFacts
<1>2. p \in 0 .. b.count - 1 /\ p + len <= b.count /\ Run(p, len) \cap b.used = {}
  BY DEF Places
<1> HIDE DEF len
<1>3. p \in Nat /\ p + n <= b.count
  BY <1>1, <1>2
<1>4. Run(p, n) \subseteq Run(p, len) /\ Run(p, n) \subseteq 0 .. b.count - 1
  BY <1>1, <1>2, <1>3 DEF Run
<1> QED
  BY <1>2, <1>3, <1>4

\* The allocation that begins at page p of b.
LEMMA InAt ==
    ASSUME NEW b, b.data \in Nat, b.count \in Nat \ {0}, NEW p \in Nat, NEW n \in Nat \ {0},
           p + n <= b.count, NEW a, a.addr = b.data + p * PageBytes, a.count = n
    PROVE  In(a, b) /\ IdxOf(a, b) = p /\ PagesOf(a, b) = Run(p, n)
<1>1. PageBytes \in Nat \ {0}
  BY PallocAssumption
<1>2. p * PageBytes \in Nat
  BY <1>1
<1>3. a.addr - b.data = p * PageBytes
  BY <1>2
<1>4. IdxOf(a, b) = p
  BY <1>1, <1>3, MultipleOf DEF IdxOf
<1> QED
  BY <1>4 DEF In, PagesOf

\* Pages of one allocator at one address are one page.
LEMMA SamePage ==
    ASSUME NEW x \in Nat, NEW p \in Nat, NEW q \in Nat,
           x + p * PageBytes = x + q * PageBytes
    PROVE  p = q
<1>1. PageBytes \in Nat \ {0}
  BY PallocAssumption
<1>2. p * PageBytes \in Nat /\ q * PageBytes \in Nat
  BY <1>1
<1>3. p * PageBytes = q * PageBytes
  BY <1>2
<1> QED
  BY <1>1, <1>3, MultipleOf

\* The entries of pages taken for page tables.
AsTables(taken) == {[addr |-> a, count |-> 1] : a \in taken}

\* What palloc_alloc(1) finds is taken, for page tables.
LEMMA TablesTaken ==
    ASSUME AllocInv(k_mem_map, buddy, live), NEW taken, taken \subseteq FreeAddresses
    PROVE  AllocInv(k_mem_map, MarkTables(taken), live \cup AsTables(taken))
<1> DEFINE m == k_mem_map
           cs == MarkTables(taken)
           N == AsTables(taken)
           X(k) == {p \in 0 .. buddy[k].count - 1 : buddy[k].data + p * PageBytes \in taken}
<1>1. /\ MMP!Table(m) /\ Act(m) \subseteq DOMAIN buddy
      /\ \A k \in Act(m) : Serves(buddy[k], m[k])
  BY DEF AllocInv
<1>2. ASSUME NEW k \in Act(m)
      PROVE  /\ buddy[k] = [data |-> buddy[k].data, count |-> buddy[k].count, used |-> buddy[k].used]
             /\ buddy[k].data \in Nat /\ buddy[k].count \in Nat \ {0}
             /\ buddy[k].used \subseteq 0 .. buddy[k].count - 1
             /\ cs[k] = [data |-> buddy[k].data, count |-> buddy[k].count,
                         used |-> buddy[k].used \cup X(k)]
  <2>1. k \in DOMAIN m /\ Entry(m[k]) /\ Serves(buddy[k], m[k]) /\ k \in DOMAIN buddy
    BY <1>1, MapFacts DEF Act
  <2>2. /\ buddy[k] = [data |-> buddy[k].data, count |-> buddy[k].count, used |-> buddy[k].used]
        /\ buddy[k].used \subseteq 0 .. buddy[k].count - 1
    BY <2>1 DEF Serves
  <2>3. buddy[k].data \in Nat /\ buddy[k].count \in Nat \ {0}
    BY <2>1, ServesFacts
  <2>4. cs[k] = [buddy[k] EXCEPT !.used = buddy[k].used \cup X(k)]
    BY <2>1 DEF MarkTables
  <2> QED
    BY <2>2, <2>3, <2>4
<1>20. ASSUME NEW k, NEW p
       PROVE  p \in X(k) <=> p \in 0 .. buddy[k].count - 1 /\ buddy[k].data + p * PageBytes \in taken
  OBVIOUS
<1>4. DOMAIN cs = DOMAIN buddy
  BY DEF MarkTables
<1> HIDE DEF X, cs
<1>21. ASSUME NEW k \in Act(m)
       PROVE  /\ cs[k] = [data |-> cs[k].data, count |-> cs[k].count, used |-> cs[k].used]
              /\ cs[k].data = buddy[k].data /\ cs[k].count = buddy[k].count
              /\ cs[k].used = buddy[k].used \cup X(k)
  <2> DEFINE d == buddy[k].data
             c == buddy[k].count
             u == buddy[k].used \cup X(k)
  <2>1. cs[k] = [data |-> d, count |-> c, used |-> u]
    BY <1>2
  <2> HIDE DEF d, c, u
  <2>2. /\ cs[k] = [data |-> cs[k].data, count |-> cs[k].count, used |-> cs[k].used]
        /\ cs[k].data = d /\ cs[k].count = c /\ cs[k].used = u
    BY <2>1
  <2> QED
    BY <2>2 DEF d, c, u
<1>3. ASSUME NEW k \in Act(m) PROVE Alike(buddy[k], cs[k])
  <2>1. X(k) \subseteq 0 .. buddy[k].count - 1
    BY <1>20
  <2> QED
    BY <1>2, <1>21, <2>1 DEF Alike
<1>5. Active = Act(m)
  BY DEF Active, Act
\* Where a table's page is.
<1>6. ASSUME NEW t \in N
      PROVE  \E k \in Act(m) : \E p \in Places(buddy[k], 1) :
                t.addr \in taken /\ t.addr = buddy[k].data + p * PageBytes /\ t.count = 1
  <2>1. t.addr \in taken /\ t.count = 1
    BY DEF AsTables
  <2>2. t.addr \in FreeAddresses
    BY <2>1
  <2> QED
    BY <1>5, <2>1, <2>2 DEF FreeAddresses
<1>7. ASSUME NEW k \in Act(m), NEW p \in Places(buddy[k], 1)
      PROVE  /\ p \in Nat /\ p + 1 <= buddy[k].count /\ p \notin buddy[k].used
             /\ p \in 0 .. buddy[k].count - 1
  <2> DEFINE b == buddy[k]
  <2>1. b.count \in Nat \ {0} /\ p \in Places(b, 1)
    BY <1>2
  <2> HIDE DEF b
  <2>2. p \in Nat /\ p + 1 <= b.count /\ Run(p, 1) \cap b.used = {}
    BY <2>1, PlacesFacts
  <2>3. p \in Run(p, 1)
    BY <2>2 DEF Run
  <2>4. p \in Nat /\ p + 1 <= b.count /\ p \notin b.used /\ p \in 0 .. b.count - 1
    BY <2>1, <2>2, <2>3
  <2> QED
    BY <2>4 DEF b
<1>8. ASSUME NEW t \in N, NEW k \in Act(m), NEW p \in Nat, p + 1 <= buddy[k].count,
             t.addr = buddy[k].data + p * PageBytes
      PROVE  In(t, buddy[k]) /\ IdxOf(t, buddy[k]) = p /\ PagesOf(t, buddy[k]) = {p}
  <2>1. t.count = 1
    BY DEF AsTables
  <2>2. Run(p, 1) = {p}
    BY DEF Run
  <2> DEFINE b == buddy[k]
  <2>3. b.data \in Nat /\ b.count \in Nat \ {0} /\ p + 1 <= b.count /\ t.addr = b.data + p * PageBytes
    BY <1>2, <1>8
  <2> HIDE DEF b
  <2>4. In(t, b) /\ IdxOf(t, b) = p /\ PagesOf(t, b) = Run(p, 1)
    BY <2>1, <2>3, InAt
  <2> QED
    BY <2>2, <2>4 DEF b
<1>9. ASSUME NEW t \in N PROVE \E k \in Act(m) : In(t, buddy[k])
  <2>1. PICK k \in Act(m) :
           \E p \in Places(buddy[k], 1) : t.addr = buddy[k].data + p * PageBytes
    BY <1>6
  <2>2. PICK p \in Places(buddy[k], 1) : t.addr = buddy[k].data + p * PageBytes
    BY <2>1
  <2> QED
    BY <1>7, <1>8, <2>2
\* A table that is in a region is at one of its places.
<1>10. ASSUME NEW t \in N, NEW k \in Act(m), In(t, buddy[k])
       PROVE  \E p \in Places(buddy[k], 1) :
                 /\ t.addr = buddy[k].data + p * PageBytes /\ t.addr \in taken
                 /\ PagesOf(t, buddy[k]) = {p}
  <2> DEFINE At(l, p) == t.addr \in taken /\ t.addr = buddy[l].data + p * PageBytes
  <2>00. \E l \in Act(m) : \E p \in Places(buddy[l], 1) : At(l, p) /\ t.count = 1
    BY <1>6
  <2>0. PICK l \in Act(m) : \E p \in Places(buddy[l], 1) : At(l, p)
    <3> HIDE DEF At
    <3> QED
      BY <2>00
  <2>1. PICK p \in Places(buddy[l], 1) :
           t.addr \in taken /\ t.addr = buddy[l].data + p * PageBytes
    BY <2>0
  <2>2. In(t, buddy[l]) /\ PagesOf(t, buddy[l]) = {p}
    BY <1>7, <1>8, <2>1
  <2>3. k = l
    BY <1>1, <1>10, <2>2, NotInTwo
  <2>4. /\ p \in Places(buddy[k], 1) /\ t.addr = buddy[k].data + p * PageBytes /\ t.addr \in taken
        /\ PagesOf(t, buddy[k]) = {p}
    <3> DEFINE x == p * PageBytes
    <3>1. /\ p \in Places(buddy[l], 1) /\ t.addr = buddy[l].data + x /\ t.addr \in taken
          /\ PagesOf(t, buddy[l]) = {p}
      BY <2>1, <2>2
    <3> HIDE DEF x
    <3>2. /\ p \in Places(buddy[k], 1) /\ t.addr = buddy[k].data + x /\ t.addr \in taken
          /\ PagesOf(t, buddy[k]) = {p}
      BY ONLY <2>3, <3>1
    <3> QED
      BY <3>2 DEF x
  <2> QED
    BY <2>4
<1> HIDE DEF N
<1>11. \A k \in Act(m) : \A t \in N :
          In(t, buddy[k]) => PagesOf(t, buddy[k]) \cap buddy[k].used = {}
  <2> SUFFICES ASSUME NEW k \in Act(m), NEW t \in N, In(t, buddy[k])
               PROVE  PagesOf(t, buddy[k]) \cap buddy[k].used = {}
    OBVIOUS
  <2>1. PICK p \in Places(buddy[k], 1) : PagesOf(t, buddy[k]) = {p}
    BY <1>10
  <2>2. p \notin buddy[k].used
    BY <1>7
  <2> QED
    BY <2>1, <2>2
<1>12. ASSUME NEW k \in Act(m), NEW t \in N, NEW o \in N, In(t, buddy[k]), In(o, buddy[k]), t # o
       PROVE  PagesOf(t, buddy[k]) \cap PagesOf(o, buddy[k]) = {}
  <2>1. PICK p \in Places(buddy[k], 1) : t.addr = buddy[k].data + p * PageBytes
                                         /\ PagesOf(t, buddy[k]) = {p}
    BY <1>10, <1>12
  <2>2. PICK q \in Places(buddy[k], 1) : o.addr = buddy[k].data + q * PageBytes
                                         /\ PagesOf(o, buddy[k]) = {q}
    BY <1>10, <1>12
  <2>3. t.addr # o.addr
    BY <1>12 DEF N, AsTables
  <2> QED
    BY <2>1, <2>2, <2>3
<1>13. ASSUME NEW k \in Act(m), NEW p \in Nat
       PROVE  p \in cs[k].used <=> \/ p \in buddy[k].used
                                   \/ \E t \in N : In(t, buddy[k]) /\ p \in PagesOf(t, buddy[k])
  <2>1. p \in cs[k].used <=> p \in buddy[k].used \/ p \in X(k)
    BY <1>21
  <2>2. ASSUME p \in X(k) PROVE \E t \in N : In(t, buddy[k]) /\ p \in PagesOf(t, buddy[k])
    <3> DEFINE t == [addr |-> buddy[k].data + p * PageBytes, count |-> 1]
    <3>1. t \in N /\ t.addr = buddy[k].data + p * PageBytes
      BY <1>20, <2>2 DEF N, AsTables
    <3>2. p + 1 <= buddy[k].count
      <4>1. p \in 0 .. buddy[k].count - 1 /\ buddy[k].count \in Nat
        BY <1>2, <1>20, <2>2
      <4> QED
        BY <4>1
    <3> HIDE DEF t
    <3> QED
      BY <1>8, <3>1, <3>2
  <2>3. ASSUME NEW t \in N, In(t, buddy[k]), p \in PagesOf(t, buddy[k]) PROVE p \in X(k)
    BY <1>7, <1>10, <1>20, <2>3
  <2> QED
    BY <2>1, <2>2, <2>3
<1>14. AllocInv(m, cs, live \cup N)
  <2> HIDE DEF m
  <2>1. AllocInv(m, buddy, live)
    BY DEF m
  <2> QED
    BY <1>3, <1>4, <1>9, <1>11, <1>12, <1>13, <2>1, GrantMore
<1> QED
  BY <1>14 DEF cs, N
-----------------------------------------------------------------------------
(* The memory map's module has two instances here: kmain's and that of its    *)
(* proofs.  Their definitions are the same.                                   *)

LEMMA SameOperators ==
    /\ \A S : MM!Min(S) = MMP!Min(S)
    /\ \A S : MM!Max(S) = MMP!Max(S)
    /\ \A m, id, e : MM!InsertAt(m, id, e) = MMP!InsertAt(m, id, e)
<1>1. ASSUME NEW S PROVE MM!Min(S) = MMP!Min(S)
  BY DEF MM!Min, MMP!Min
<1>2. ASSUME NEW S PROVE MM!Max(S) = MMP!Max(S)
  BY DEF MM!Max, MMP!Max
<1>3. ASSUME NEW m, NEW id, NEW e PROVE MM!InsertAt(m, id, e) = MMP!InsertAt(m, id, e)
  BY DEF MM!InsertAt, MMP!InsertAt
<1> QED
  BY <1>1, <1>2, <1>3

LEMMA SameTable ==
    /\ \A e : MM!End(e) = MMP!End(e)
    /\ \A e, a : MM!Holds(e, a) = MMP!Holds(e, a)
    /\ \A m, id, e : MM!memmap_insert(m, id, e) = MMP!memmap_insert(m, id, e)
    /\ \A m, f, l : MM!memmap_remove(m, f, l) = MMP!memmap_remove(m, f, l)
<1>1. ASSUME NEW e PROVE MM!End(e) = MMP!End(e)
  BY DEF MM!End, MMP!End
<1>2. ASSUME NEW e, NEW a PROVE MM!Holds(e, a) = MMP!Holds(e, a)
  BY <1>1 DEF MM!Holds, MMP!Holds
<1>3. ASSUME NEW m, NEW id, NEW e PROVE MM!memmap_insert(m, id, e) = MMP!memmap_insert(m, id, e)
  BY SameOperators DEF MM!memmap_insert, MMP!memmap_insert
<1>4. ASSUME NEW m, NEW f, NEW l PROVE MM!memmap_remove(m, f, l) = MMP!memmap_remove(m, f, l)
  BY DEF MM!memmap_remove, MMP!memmap_remove
<1> QED
  BY <1>1, <1>2, <1>3, <1>4

LEMMA SameCuts ==
    /\ \A m, id, c : MM!memmap_cut_bottom(m, id, c) = MMP!memmap_cut_bottom(m, id, c)
    /\ \A m, id, c : MM!memmap_cut_top(m, id, c) = MMP!memmap_cut_top(m, id, c)
    /\ \A m, id, o, s : MM!memmap_split(m, id, o, s) = MMP!memmap_split(m, id, o, s)
    /\ \A m, f, l : MM!memmap_merge(m, f, l) = MMP!memmap_merge(m, f, l)
<1>1. ASSUME NEW m, NEW id, NEW c
      PROVE  MM!memmap_cut_bottom(m, id, c) = MMP!memmap_cut_bottom(m, id, c)
  BY SameTable DEF MM!memmap_cut_bottom, MMP!memmap_cut_bottom
<1>2. ASSUME NEW m, NEW id, NEW c
      PROVE  MM!memmap_cut_top(m, id, c) = MMP!memmap_cut_top(m, id, c)
  BY SameTable DEF MM!memmap_cut_top, MMP!memmap_cut_top
<1>3. ASSUME NEW m, NEW id, NEW o, NEW s
      PROVE  MM!memmap_split(m, id, o, s) = MMP!memmap_split(m, id, o, s)
  BY SameTable DEF MM!memmap_split, MMP!memmap_split
<1>4. ASSUME NEW m, NEW f, NEW l PROVE MM!memmap_merge(m, f, l) = MMP!memmap_merge(m, f, l)
  BY SameTable DEF MM!memmap_merge, MMP!memmap_merge
<1> QED
  BY <1>1, <1>2, <1>3, <1>4

LEMMA SameInfo ==
    /\ \A a : MM!InInfo(a) = MMP!InInfo(a)
    /\ \A a : MM!BeforeInfo(a) = MMP!BeforeInfo(a)
    /\ \A a : MM!AfterInfo(a) = MMP!AfterInfo(a)
    /\ \A r : MM!bin(r) = MMP!bin(r)
    /\ \A r : MM!tin(r) = MMP!tin(r)
    /\ \A r : MM!bbefore(r) = MMP!bbefore(r)
    /\ \A r : MM!tbefore(r) = MMP!tbefore(r)
    /\ \A r : MM!bafter(r) = MMP!bafter(r)
    /\ \A r : MM!Swallows(r) = MMP!Swallows(r)
<1>1. \A S : MM!FirstOf(S) = MMP!FirstOf(S)
  BY SameOperators DEF MM!FirstOf, MMP!FirstOf
<1>2. \A S : MM!LastOf(S) = MMP!LastOf(S)
  BY SameOperators DEF MM!LastOf, MMP!LastOf
<1>3. ASSUME NEW a PROVE MM!InInfo(a) = MMP!InInfo(a)
  <2>1. {k \in DOMAIN k_mem_map : MM!Holds(k_mem_map[k], a)}
          = {k \in DOMAIN k_mem_map : MMP!Holds(k_mem_map[k], a)}
    BY SameTable
  <2> QED
    BY <1>1, <2>1 DEF MM!InInfo, MMP!InInfo
<1>4. ASSUME NEW a PROVE MM!BeforeInfo(a) = MMP!BeforeInfo(a)
  <2>1. {k \in DOMAIN k_mem_map : k_mem_map[k].base < a /\ MM!End(k_mem_map[k]) <= a}
          = {k \in DOMAIN k_mem_map : k_mem_map[k].base < a /\ MMP!End(k_mem_map[k]) <= a}
    BY SameTable
  <2> QED
    BY <1>2, <2>1 DEF MM!BeforeInfo, MMP!BeforeInfo
<1>5. ASSUME NEW a PROVE MM!AfterInfo(a) = MMP!AfterInfo(a)
  BY <1>1 DEF MM!AfterInfo, MMP!AfterInfo
<1>6. \A r : MM!LastByte(r) = MMP!LastByte(r)
  BY SameTable DEF MM!LastByte, MMP!LastByte
<1>7. /\ \A r : MM!bin(r) = MMP!bin(r)
      /\ \A r : MM!tin(r) = MMP!tin(r)
      /\ \A r : MM!bbefore(r) = MMP!bbefore(r)
      /\ \A r : MM!tbefore(r) = MMP!tbefore(r)
      /\ \A r : MM!bafter(r) = MMP!bafter(r)
  BY <1>3, <1>4, <1>5, <1>6 DEF MM!bin, MMP!bin, MM!tin, MMP!tin, MM!bbefore, MMP!bbefore,
     MM!tbefore, MMP!tbefore, MM!bafter, MMP!bafter
<1>8. ASSUME NEW r PROVE MM!Swallows(r) = MMP!Swallows(r)
  BY <1>7 DEF MM!Swallows, MMP!Swallows
<1> QED
  BY <1>3, <1>4, <1>5, <1>7, <1>8

LEMMA SameDefine ==
    ASSUME NEW r
    PROVE  MM!memmap_define(r) <=> MMP!memmap_define(r)
<1>1. MM!DefineFirst(r) <=> MMP!DefineFirst(r)
  BY SameTable DEF MM!DefineFirst, MMP!DefineFirst
<1>2. MM!DefineOver(r) <=> MMP!DefineOver(r)
  BY SameTable, SameInfo DEF MM!DefineOver, MMP!DefineOver
<1>3. MM!DefineInGap(r) <=> MMP!DefineInGap(r)
  BY SameTable, SameInfo DEF MM!DefineInGap, MMP!DefineInGap
<1>4. MM!DefineWithin(r) <=> MMP!DefineWithin(r)
  BY SameTable, SameCuts, SameInfo DEF MM!DefineWithin, MMP!DefineWithin
<1>5. MM!DefineAcross(r) <=> MMP!DefineAcross(r)
  BY SameTable, SameCuts, SameInfo DEF MM!DefineAcross, MMP!DefineAcross
<1>6. MM!DefineFromWithin(r) <=> MMP!DefineFromWithin(r)
  BY SameTable, SameCuts, SameInfo DEF MM!DefineFromWithin, MMP!DefineFromWithin,
     MM!Between, MMP!Between
<1>7. MM!DefineIntoWithin(r) <=> MMP!DefineIntoWithin(r)
  BY SameTable, SameCuts, SameInfo DEF MM!DefineIntoWithin, MMP!DefineIntoWithin
<1> QED
  BY <1>1, <1>2, <1>3, <1>4, <1>5, <1>6, <1>7 DEF MM!memmap_define, MMP!memmap_define

LEMMA SameAgregate ==
    /\ MM!AgregateStart <=> MMP!AgregateStart
    /\ MM!AgregateRun <=> MMP!AgregateRun
    /\ MM!AgregateDone <=> MMP!AgregateDone
    /\ \A a : MM!TypeAt(a) = MMP!TypeAt(a)
<1>1. \A k : MM!Joins(k) <=> MMP!Joins(k)
  BY SameTable DEF MM!Joins, MMP!Joins
<1>2. ASSUME NEW k PROVE MM!RunEnd(k) = MMP!RunEnd(k)
  <2>1. {l \in k .. Len(k_mem_map) : \A jj \in k .. l - 1 : MM!Joins(jj)}
          = {l \in k .. Len(k_mem_map) : \A jj \in k .. l - 1 : MMP!Joins(jj)}
    BY <1>1
  <2> QED
    BY <2>1, SameOperators DEF MM!RunEnd, MMP!RunEnd
<1>3. MM!AgregateRun <=> MMP!AgregateRun
  BY <1>2, SameCuts DEF MM!AgregateRun, MMP!AgregateRun
<1>4. \A a : MM!TypeAt(a) = MMP!TypeAt(a)
  BY SameInfo DEF MM!TypeAt, MMP!TypeAt
<1> QED
  BY <1>3, <1>4 DEF MM!AgregateStart, MMP!AgregateStart, MM!AgregateDone, MMP!AgregateDone
-----------------------------------------------------------------------------
(* The actions of the page allocator *)

\* A record with another set of used pages.
Used(b, u) == [b EXCEPT !.used = u]

LEMMA UsedFacts ==
    ASSUME NEW e, Entry(e), NEW b, Serves(b, e), NEW u, u \subseteq 0 .. b.count - 1
    PROVE  Alike(b, Used(b, u)) /\ Used(b, u).used = u
<1>1. b = [data |-> b.data, count |-> b.count, used |-> b.used]
  BY DEF Serves
<1> DEFINE d == b.data
           c == b.count
           w == b.used
<1>2. Used(b, u) = [data |-> d, count |-> c, used |-> u]
  BY <1>1 DEF Used
<1> HIDE DEF d, c, w
<1>3. /\ Used(b, u) = [data |-> Used(b, u).data, count |-> Used(b, u).count, used |-> Used(b, u).used]
      /\ Used(b, u).data = d /\ Used(b, u).count = c /\ Used(b, u).used = u
  BY <1>2
<1> QED
  BY <1>3 DEF d, c, Alike

\* Allocations outside of other regions keep to themselves.
LEMMA AlikeSelf ==
    ASSUME NEW e, NEW b, Serves(b, e)
    PROVE  Alike(b, b)
BY DEF Serves, Alike

\* palloc_alloc takes pages that are nobody's.
LEMMA AllocStep ==
    ASSUME AllocInv(k_mem_map, buddy, live), NEW n \in Nat \ {0}, Alloc(n)
    PROVE  AllocInv(k_mem_map, buddy', live') /\ DOMAIN buddy' = DOMAIN buddy
<1> DEFINE m == k_mem_map
           R == RoomFor(buddy, n)
           r == Min(R)
           P == Places(buddy[r], n)
           p == Min(P)
           a == [addr |-> buddy[r].data + p * PageBytes, count |-> n]
           u == buddy[r].used \cup Run(p, n)
<1>1. /\ MMP!Table(m) /\ Act(m) \subseteq DOMAIN buddy
      /\ \A k \in Act(m) : Serves(buddy[k], m[k])
  BY DEF AllocInv
<1>2. Active = Act(m) /\ Act(m) \subseteq Nat
  BY <1>1, MapFacts DEF Active, Act
<1>3. r \in R /\ R \subseteq Act(m)
  <2>1. R # {} /\ R \subseteq Act(m)
    BY <1>2 DEF Alloc, RoomFor
  <2> HIDE DEF R
  <2> QED
    BY <1>2, <2>1, MinFacts
<1>4. r \in Act(m) /\ P # {}
  BY <1>3 DEF RoomFor
<1>5. Serves(buddy[r], m[r]) /\ Entry(m[r]) /\ r \in DOMAIN buddy
  BY <1>1, <1>4, MapFacts DEF Act
<1>6. buddy[r].data \in Nat /\ buddy[r].count \in Nat \ {0}
  BY <1>5, ServesFacts
<1>7. p \in P
  <2>1. P \subseteq Nat
    BY <1>6 DEF Places
  <2> HIDE DEF P
  <2> QED
    BY <1>4, <2>1, MinFacts
<1>8. /\ buddy' = [buddy EXCEPT ![r].used = @ \cup Run(p, n)]
      /\ live' = live \cup {a}
  BY DEF Alloc, PlaceIn, Mark, Address
<1>9. DOMAIN buddy' = DOMAIN buddy
  BY <1>8
<1>10. /\ buddy'[r] = Used(buddy[r], u)
       /\ \A k \in DOMAIN buddy : k # r => buddy'[k] = buddy[k]
  BY <1>5, <1>8 DEF Used
<1> DEFINE b == buddy[r]
<1>11. b.data \in Nat /\ b.count \in Nat \ {0} /\ p \in Places(b, n) /\ Serves(b, m[r])
  BY <1>5, <1>6, <1>7
<1>12. a.addr = b.data + p * PageBytes /\ a.count = n
  OBVIOUS
<1>13. u = b.used \cup Run(p, n)
  OBVIOUS
<1> HIDE DEF p, P, a, r, R, u
<1>14. b.used \subseteq 0 .. b.count - 1
  BY <1>11 DEF Serves
<1> HIDE DEF b
<1>15. /\ p \in Nat /\ p + n <= b.count /\ Run(p, n) \cap b.used = {}
       /\ Run(p, n) \subseteq 0 .. b.count - 1
  BY <1>11, PlacesFacts
<1>16. In(a, b) /\ PagesOf(a, b) = Run(p, n)
  BY <1>11, <1>12, <1>15, InAt
<1>17. u \subseteq 0 .. b.count - 1
  BY <1>13, <1>14, <1>15
<1>18. Alike(b, buddy'[r]) /\ buddy'[r].used = u
  <2> DEFINE e == m[r]
  <2>1. Entry(e) /\ Serves(b, e)
    BY <1>5, <1>11
  <2> HIDE DEF e
  <2>2. Alike(b, Used(b, u)) /\ Used(b, u).used = u
    BY <1>17, <2>1, UsedFacts
  <2> QED
    BY <1>10, <2>2 DEF b
<1>19. \A k \in Act(m) : Alike(buddy[k], buddy'[k])
  <2> SUFFICES ASSUME NEW k \in Act(m) PROVE Alike(buddy[k], buddy'[k])
    OBVIOUS
  <2>1. CASE k = r
    BY <1>18, <2>1 DEF b
  <2>2. CASE k # r
    BY <1>1, <1>10, <2>2, AlikeSelf
  <2> QED
    BY <2>1, <2>2
<1>20. \A o \in {a} : \E k \in Act(m) : In(o, buddy[k])
  BY <1>4, <1>16 DEF b
<1>21. \A k \in Act(m) : \A o \in {a} : In(o, buddy[k]) => k = r
  BY <1>1, <1>4, <1>16, NotInTwo DEF b
<1>22. \A k \in Act(m) : \A o \in {a} :
          In(o, buddy[k]) => PagesOf(o, buddy[k]) \cap buddy[k].used = {}
  BY <1>15, <1>16, <1>21 DEF b
<1>23. \A k \in Act(m) : \A q \in Nat :
          q \in buddy'[k].used <=> \/ q \in buddy[k].used
                                   \/ \E o \in {a} : In(o, buddy[k]) /\ q \in PagesOf(o, buddy[k])
  <2> SUFFICES ASSUME NEW k \in Act(m), NEW q \in Nat
               PROVE  q \in buddy'[k].used <=> \/ q \in buddy[k].used
                                               \/ In(a, buddy[k]) /\ q \in PagesOf(a, buddy[k])
    OBVIOUS
  <2>1. CASE k = r
    BY <1>13, <1>16, <1>18, <2>1 DEF b
  <2>2. CASE k # r
    BY <1>1, <1>10, <1>21, <2>2
  <2> QED
    BY <2>1, <2>2
<1>24. \A k \in Act(m) : \A x, o \in {a} :
          In(x, buddy[k]) /\ In(o, buddy[k]) /\ x # o => PagesOf(x, buddy[k]) \cap PagesOf(o, buddy[k]) = {}
  OBVIOUS
<1>25. AllocInv(m, buddy', live \cup {a})
  <2> HIDE DEF m
  <2>1. AllocInv(m, buddy, live)
    BY DEF m
  <2> QED
    BY <1>9, <1>19, <1>20, <1>22, <1>23, <1>24, <2>1, GrantMore
<1> QED
  BY <1>8, <1>9, <1>25

\* An allocation lies in the region that it comes from, and in no other.
LEMMA ContainingFacts ==
    ASSUME MMP!Table(k_mem_map), NEW r \in Act(k_mem_map), NEW b, Serves(b, k_mem_map[r]),
           NEW a, In(a, b)
    PROVE  Containing(a.addr) = {r}
<1> DEFINE m == k_mem_map
<1>1. /\ \A k \in DOMAIN m : Entry(m[k])
      /\ \A k, l \in DOMAIN m : k < l => EndOf(m[k]) <= m[l].base
      /\ DOMAIN m = 1 .. Len(m) /\ Len(m) \in Nat /\ r \in DOMAIN m
  BY MapFacts DEF Act
<1>2. /\ a.addr \in Nat /\ LastByte(a) \in Nat /\ a.addr <= LastByte(a)
      /\ b.data <= a.addr /\ LastByte(a) < EndOf(m[r])
  BY <1>1, InFacts
<1>3. m[r].base < b.data /\ b.data \in Nat
  BY <1>1, ServesFacts
<1>4. \A k \in DOMAIN m : m[k].base \in Nat /\ EndOf(m[k]) \in Nat
  BY <1>1, PagesFacts DEF Entry
<1>5. m[r].base <= a.addr /\ a.addr < EndOf(m[r])
  BY <1>1, <1>2, <1>3, <1>4
<1>6. ASSUME NEW k \in DOMAIN m, m[k].base <= a.addr, a.addr < EndOf(m[k]) PROVE k = r
  <2>1. ~(k < r)
    BY <1>1, <1>2, <1>4, <1>5, <1>6
  <2>2. ~(r < k)
    BY <1>1, <1>2, <1>4, <1>5, <1>6
  <2> QED
    BY <1>1, <2>1, <2>2
<1>7. Active = Act(m) /\ Act(m) \subseteq DOMAIN m
  BY DEF Active, Act
<1> QED
  BY <1>5, <1>6, <1>7 DEF Containing

\* palloc_free gives back the pages of that allocation.
LEMMA FreeStep ==
    ASSUME AllocInv(k_mem_map, buddy, live), NEW a \in live, FreePages(a)
    PROVE  AllocInv(k_mem_map, buddy', live') /\ DOMAIN buddy' = DOMAIN buddy
<1> DEFINE m == k_mem_map
<1>1. /\ MMP!Table(m) /\ Act(m) \subseteq DOMAIN buddy
      /\ \A k \in Act(m) : Serves(buddy[k], m[k])
      /\ Granted(m, buddy, live)
  BY DEF AllocInv
<1>2. PICK r \in Act(m) : In(a, buddy[r])
  BY <1>1 DEF Granted
<1>3. Containing(a.addr) = {r}
  BY <1>1, <1>2, ContainingFacts
<1> DEFINE u == buddy[r].used \ PagesOf(a, buddy[r])
<1>4. /\ DOMAIN buddy' = DOMAIN buddy /\ live' = live \ {a}
      /\ buddy'[r] = Used(buddy[r], u)
      /\ \A k \in DOMAIN buddy : k # r => buddy'[k] = buddy[k]
  BY <1>1, <1>2, <1>3 DEF FreePages, Used, PagesOf, IdxOf
<1>5. Serves(buddy[r], m[r]) /\ Entry(m[r])
  BY <1>1, <1>2, MapFacts DEF Act
<1>6. u \subseteq 0 .. buddy[r].count - 1
  BY <1>5 DEF Serves
<1>7. Alike(buddy[r], buddy'[r]) /\ buddy'[r].used = u
  <2> DEFINE e == m[r]
             b == buddy[r]
  <2>1. Entry(e) /\ Serves(b, e) /\ u \subseteq 0 .. b.count - 1
    BY <1>5, <1>6
  <2> HIDE DEF e, b, u
  <2>2. Alike(b, Used(b, u)) /\ Used(b, u).used = u
    BY <2>1, UsedFacts
  <2> QED
    BY <1>4, <2>2 DEF b
<1>8. \A k \in Act(m) : Alike(buddy[k], buddy'[k])
  BY <1>1, <1>4, <1>7, AlikeSelf
<1>9. \A k \in Act(m) : k # r => buddy'[k].used = buddy[k].used
  BY <1>1, <1>4
<1>10. AllocInv(m, buddy', live \ {a})
  <2> HIDE DEF m
  <2>1. AllocInv(m, buddy, live)
    BY DEF m
  <2> QED
    BY <1>2, <1>4, <1>7, <1>8, <1>9, <2>1, GiveBack
<1> QED
  BY <1>4, <1>10

\* Taking page tables.
LEMMA TakeFacts ==
    ASSUME AllocInv(k_mem_map, buddy, live), NEW n, NEW regions, TakeTables(n, regions)
    PROVE  /\ DOMAIN buddy' = DOMAIN buddy
           /\ \E bs : /\ AllocInv(k_mem_map, bs, live') /\ DOMAIN bs = DOMAIN buddy
                      /\ \A k \in DOMAIN buddy :
                            buddy'[k] = IF k \in regions THEN NewBuddy(k_mem_map[k]) ELSE bs[k]
<1> DEFINE taken == FirstFree(n)
           bs == MarkTables(taken)
<1>1. /\ buddy' = WithNew(bs, regions)
      /\ live' = live \cup AsTables(taken)
  BY DEF TakeTables, AsTables
<1>2. taken \subseteq FreeAddresses
  BY DEF FirstFree
<1>3. DOMAIN bs = DOMAIN buddy
  BY DEF MarkTables
<1> HIDE DEF taken
<1>4. AllocInv(k_mem_map, bs, live')
  BY <1>1, <1>2, TablesTaken
<1> HIDE DEF bs
<1>5. /\ DOMAIN buddy' = DOMAIN buddy
      /\ \A k \in DOMAIN buddy :
            buddy'[k] = IF k \in regions THEN NewBuddy(k_mem_map[k]) ELSE bs[k]
  BY <1>1, <1>3 DEF WithNew
<1> QED
  BY <1>3, <1>4, <1>5

\* Allocators that agree are as good.
LEMMA SameAllocators ==
    ASSUME NEW m, NEW bs, NEW cs, NEW L, AllocInv(m, bs, L),
           Act(m) \subseteq DOMAIN cs, \A k \in Act(m) : cs[k] = bs[k]
    PROVE  AllocInv(m, cs, L)
BY DEF AllocInv, Granted

LEMMA TakeStep ==
    ASSUME AllocInv(k_mem_map, buddy, live), NEW n, TakeTables(n, {})
    PROVE  AllocInv(k_mem_map, buddy', live') /\ DOMAIN buddy' = DOMAIN buddy
<1>1. PICK bs : /\ AllocInv(k_mem_map, bs, live') /\ DOMAIN bs = DOMAIN buddy
                /\ \A k \in DOMAIN buddy : buddy'[k] = bs[k]
  <2>1. \E bs : /\ AllocInv(k_mem_map, bs, live') /\ DOMAIN bs = DOMAIN buddy
                /\ \A k \in DOMAIN buddy :
                      buddy'[k] = IF k \in {} THEN NewBuddy(k_mem_map[k]) ELSE bs[k]
    BY TakeFacts
  <2> QED
    BY <2>1
<1>2. DOMAIN buddy' = DOMAIN buddy
  BY TakeFacts
<1>3. Act(k_mem_map) \subseteq DOMAIN buddy
  BY DEF AllocInv
<1> QED
  BY <1>1, <1>2, <1>3, SameAllocators

\* A region that palloc_init takes gets an allocator.
LEMMA InitEntryStep ==
    ASSUME AllocInv(k_mem_map, buddy, live), DOMAIN buddy = DOMAIN k_mem_map, i \in Nat \ {0},
           NEW n, InitEntry(n)
    PROVE  /\ i \in DOMAIN k_mem_map /\ Takes(k_mem_map[i], max_addr)
           /\ Retyped(k_mem_map, k_mem_map', i)
           /\ DOMAIN k_mem_map' = DOMAIN k_mem_map
           /\ Act(k_mem_map') = Act(k_mem_map) \cup {i}
           /\ AllocInv(k_mem_map', buddy', live') /\ DOMAIN buddy' = DOMAIN k_mem_map'
<1> DEFINE m == k_mem_map
<1>1. MMP!Table(m) /\ Act(m) \subseteq DOMAIN buddy
  BY DEF AllocInv
<1>2. DOMAIN m = 1 .. Len(m) /\ Len(m) \in Nat
  BY <1>1, MapFacts
<1>3. i \in DOMAIN m
  BY <1>2 DEF InitEntry, InCall
<1>4. Takes(m[i], max_addr) /\ TakeTables(n, {i})
  BY DEF InitEntry
<1>5. Roomy(m[i]) /\ m[i].type = Free
  BY <1>4 DEF Takes, Roomy
<1>6. Retyped(m, k_mem_map', i) /\ DOMAIN k_mem_map' = DOMAIN m
  BY DEF InitEntry, Retyped
<1>7. PICK bs : /\ AllocInv(m, bs, live') /\ DOMAIN bs = DOMAIN buddy
                /\ \A k \in DOMAIN buddy :
                      buddy'[k] = IF k \in {i} THEN NewBuddy(m[k]) ELSE bs[k]
  BY <1>4, TakeFacts
<1>8. DOMAIN buddy' = DOMAIN buddy
  BY <1>4, TakeFacts
<1>9. i \notin Act(m)
  BY <1>5 DEF Act, Free, Allocatable
<1>10. buddy'[i] = NewBuddy(m[i]) /\ \A k \in Act(m) : buddy'[k] = bs[k]
  BY <1>1, <1>3, <1>7, <1>9
<1>11. AllocInv(k_mem_map', buddy', live') /\ Act(k_mem_map') = Act(m) \cup {i}
  <2> DEFINE o == k_mem_map'
             cs == buddy'
             L == live'
             f == i
  <2>1. /\ f \in DOMAIN m /\ m[f].type = Free /\ Roomy(m[f]) /\ f \in DOMAIN bs
        /\ Retyped(m, o, f) /\ DOMAIN cs = DOMAIN bs /\ cs[f] = NewBuddy(m[f])
        /\ \A k \in Act(m) : cs[k] = bs[k]
        /\ AllocInv(m, bs, L)
    BY <1>3, <1>5, <1>6, <1>7, <1>8, <1>10
  <2> HIDE DEF m, o, cs, L, f
  <2>2. AllocInv(o, cs, L) /\ Act(o) = Act(m) \cup {f}
    BY <2>1, AddRegion
  <2> QED
    BY <2>2 DEF o, cs, L, f
<1> QED
  BY <1>3, <1>4, <1>6, <1>8, <1>11
-----------------------------------------------------------------------------
(* What the definitions make of the map *)

\* An address's type comes from an entry; no entry is Allocatable when no address is.
LEMMA TypesFacts ==
    ASSUME NEW m, MMP!Table(m)
    PROVE  /\ \A k \in DOMAIN m : \A a \in Nat : MMP!Holds(m[k], a) => MMP!TypeIn(m, a) = m[k].type
           /\ \A a \in Nat : (\A k \in DOMAIN m : ~MMP!Holds(m[k], a)) => MMP!TypeIn(m, a) = "none"
           /\ (\A a \in Nat : MMP!TypeIn(m, a) # Allocatable) <=> Act(m) = {}
<1>1. ASSUME NEW a \in Nat
      PROVE  /\ \A k \in 1 .. Len(m) : MMP!Holds(m[k], a) => MMP!TypeIn(m, a) = m[k].type
             /\ (\A k \in 1 .. Len(m) : ~MMP!Holds(m[k], a)) => MMP!TypeIn(m, a) = "none"
  BY MapAssumptions, MMP!TypeInFacts
<1>2. DOMAIN m = 1 .. Len(m) /\ \A k \in DOMAIN m : Entry(m[k])
  BY MapFacts
<1>3. ASSUME NEW k \in DOMAIN m PROVE MMP!Holds(m[k], m[k].base) /\ m[k].base \in Nat
  BY <1>2 DEF Entry, MMP!Holds, MMP!End
<1>4. ASSUME NEW a \in Nat, MMP!TypeIn(m, a) = Allocatable PROVE Act(m) # {}
  <2>1. "none" # Allocatable
    BY DEF Allocatable
  <2>2. PICK k \in DOMAIN m : MMP!Holds(m[k], a)
    BY <1>1, <1>2, <1>4, <2>1
  <2> QED
    BY <1>1, <1>2, <1>4, <2>2 DEF Act
<1>5. ASSUME NEW k \in Act(m) PROVE \E a \in Nat : MMP!TypeIn(m, a) = Allocatable
  BY <1>1, <1>2, <1>3 DEF Act
<1> QED
  BY <1>1, <1>2, <1>4, <1>5

\* Before the first palloc_init there is nothing to keep.
LEMMA NothingYet ==
    ASSUME NEW m, MMP!Table(m), Act(m) = {}, NEW bs
    PROVE  AllocInv(m, bs, {})
BY DEF AllocInv, Granted

\* The firmware's entries that the iterations before this one have defined.
Done(m, l, n) ==
    {k \in DOMAIN m.firmware : \/ \E o \in 1 .. l - 1 : Loops[o] = m.firmware[k].type
                               \/ Loops[l] = m.firmware[k].type /\ k < n}

\* The firmware's entries F of machine m and its pieces P are defined in the map:
\* memory is free, or was before it got an allocator, where entries of F hold it
\* that are all usable, and no piece of P.
Ours == {Free, Allocatable}
Claimed(m, F, a) ==
    /\ \E k \in F : MMP!Holds(m.firmware[k], a)
    /\ \A k \in F : MMP!Holds(m.firmware[k], a) => m.firmware[k].type = "usable"
Pieced(m, P, a) == \E k \in P : MMP!Holds(PiecesOf(m)[k], a)
Painted(m, F, P, map) ==
    \A a \in Nat :
       /\ MMP!TypeIn(map, a) \in Ours <=> Claimed(m, F, a) /\ ~Pieced(m, P, a)
       /\ Pieced(m, P, a) => MMP!TypeIn(map, a) \in {"bios", "software"}

\* An iteration of a loop defines the entry, if it is of the loop's type.
LEMMA DoneNext ==
    ASSUME NEW m \in Machines, NEW l \in 1 .. 6, NEW n \in Nat \ {0}, n \in DOMAIN m.firmware
    PROVE  /\ m.firmware[n].type = Loops[l] => Done(m, l, n + 1) = Done(m, l, n) \cup {n}
           /\ m.firmware[n].type # Loops[l] => Done(m, l, n + 1) = Done(m, l, n)
<1> DEFINE D == DOMAIN m.firmware
           typ(k) == m.firmware[k].type
           before(k) == \E o \in 1 .. l - 1 : Loops[o] = typ(k)
<1>1. D \subseteq Nat
  <2>1. m.firmware \in Seq([base : Nat, size : Nat, type : DOMAIN Becomes])
    BY BootMapAssumption
  <2>2. DOMAIN m.firmware = 1 .. Len(m.firmware) /\ Len(m.firmware) \in Nat
    BY <2>1, LenProperties
  <2> QED
    BY <2>2
<1>2. ASSUME NEW x PROVE Done(m, l, x) = {k \in D : before(k) \/ (Loops[l] = typ(k) /\ k < x)}
  BY DEF Done
<1>3. n \in D /\ (m.firmware[n].type = Loops[l] <=> Loops[l] = typ(n))
  OBVIOUS
<1> HIDE DEF D, typ, before
<1>4. ASSUME NEW k \in D PROVE k < n + 1 <=> k < n \/ k = n
  <2>1. k \in Nat /\ n \in Nat
    BY <1>1
  <2> QED
    BY ONLY <2>1
<1>5. \A k \in D : k \in Done(m, l, n + 1)
                      <=> k \in Done(m, l, n) \/ (Loops[l] = typ(n) /\ k = n)
  BY <1>2, <1>4
<1>6. Done(m, l, n + 1) \subseteq D /\ Done(m, l, n) \subseteq D
  BY <1>2
<1> QED
  BY ONLY <1>3, <1>5, <1>6

\* How the loops go through the entries.
LEMMA DoneFacts ==
    ASSUME NEW m \in Machines, NEW l \in 1 .. 6, NEW n \in Nat \ {0}
    PROVE  /\ Done(m, 1, 1) = {}
           /\ n \in DOMAIN m.firmware /\ m.firmware[n].type = Loops[l] =>
                 Done(m, l, n + 1) = Done(m, l, n) \cup {n}
           /\ n \in DOMAIN m.firmware /\ m.firmware[n].type # Loops[l] =>
                 Done(m, l, n + 1) = Done(m, l, n)
           /\ n > Len(m.firmware) /\ l < 6 => Done(m, l, n) = Done(m, l + 1, 1)
           /\ n > Len(m.firmware) /\ l = 6 => Done(m, l, n) = DOMAIN m.firmware
           /\ Loops[l] = "usable" =>
                 \A k \in Done(m, l, n) : m.firmware[k].type = "usable"
<1>1. /\ m.firmware \in Seq([base : Nat, size : Nat, type : DOMAIN Becomes])
      /\ DOMAIN m.firmware = 1 .. Len(m.firmware) /\ Len(m.firmware) \in Nat
  BY BootMapAssumption, LenProperties
<1>2. \A k \in DOMAIN m.firmware : m.firmware[k].type \in DOMAIN Becomes
  <2> DEFINE S == [base : Nat, size : Nat, type : DOMAIN Becomes]
  <2>1. \A e \in S : e.type \in DOMAIN Becomes
    OBVIOUS
  <2> HIDE DEF S
  <2>2. \A k \in 1 .. Len(m.firmware) : m.firmware[k] \in S
    <3>1. m.firmware \in Seq(S)
      BY <1>1 DEF S
    <3> QED
      BY <3>1, ElementOfSeq
  <2> QED
    BY <1>1, <2>1, <2>2
<1>3. DOMAIN Becomes = {"usable", "rsvd", "acpi_rec", "nvs", "bad_mem", "other"}
  BY DEF Becomes
<1>4. /\ Loops[1] = "usable" /\ Loops[2] = "rsvd" /\ Loops[3] = "acpi_rec" /\ Loops[4] = "nvs"
      /\ Loops[5] = "bad_mem" /\ Loops[6] = "other"
  BY DEF Loops
<1> DEFINE fw == m.firmware
<1>5. Done(m, 1, 1) = {}
  BY <1>1 DEF Done
<1>6. ASSUME n \in DOMAIN fw, fw[n].type = Loops[l] PROVE Done(m, l, n + 1) = Done(m, l, n) \cup {n}
  BY <1>6, DoneNext
<1>7. ASSUME n \in DOMAIN fw, fw[n].type # Loops[l] PROVE Done(m, l, n + 1) = Done(m, l, n)
  BY <1>7, DoneNext
<1>8. ASSUME n > Len(fw), l < 6 PROVE Done(m, l, n) = Done(m, l + 1, 1)
  BY <1>1, <1>8 DEF Done
<1>9. ASSUME n > Len(fw), l = 6 PROVE Done(m, l, n) = DOMAIN fw
  <2>1. ASSUME NEW k \in DOMAIN fw
        PROVE  (\E o \in 1 .. l - 1 : Loops[o] = fw[k].type) \/ Loops[l] = fw[k].type
    BY <1>2, <1>3, <1>4, <1>9
  <2>2. \A k \in DOMAIN fw : k < n
    BY <1>1, <1>9
  <2> QED
    BY <2>1, <2>2 DEF Done
<1>10. ASSUME Loops[l] = "usable", NEW k \in Done(m, l, n) PROVE fw[k].type = "usable"
  <2>1. l = 1
    BY <1>4, <1>10
  <2> QED
    BY <1>10, <2>1 DEF Done
<1> QED
  BY <1>5, <1>6, <1>7, <1>8, <1>9, <1>10

\* A firmware's entry is defined.
LEMMA PaintFirmware ==
    ASSUME NEW m, NEW F, NEW map, NEW new, Painted(m, F, {}, map), NEW n,
           NEW t, MMP!Defined(map, new, region(m.firmware[n], t)),
           \/ t = Free /\ m.firmware[n].type = "usable" /\ \A k \in F : m.firmware[k].type = "usable"
           \/ t \notin Ours /\ m.firmware[n].type # "usable"
    PROVE  Painted(m, F \cup {n}, {}, new)
<1> DEFINE r == region(m.firmware[n], t)
<1>1. \A a \in Nat : MMP!TypeIn(new, a) = IF MMP!Holds(r, a) THEN r.type ELSE MMP!TypeIn(map, a)
  BY DEF MMP!Defined
<1>2. r.type = t /\ \A a : MMP!Holds(r, a) <=> MMP!Holds(m.firmware[n], a)
  BY DEF region, MMP!Holds, MMP!End
<1> HIDE DEF r
<1>3. \A a : ~Pieced(m, {}, a)
  BY DEF Pieced
<1> SUFFICES ASSUME NEW a \in Nat
             PROVE  MMP!TypeIn(new, a) \in Ours <=> Claimed(m, F \cup {n}, a)
  BY <1>3 DEF Painted
<1>4. MMP!TypeIn(map, a) \in Ours <=> Claimed(m, F, a)
  BY <1>3 DEF Painted
<1>5. CASE MMP!Holds(m.firmware[n], a)
  <2>1. MMP!TypeIn(new, a) = t
    BY <1>1, <1>2, <1>5
  <2>2. CASE t = Free /\ m.firmware[n].type = "usable" /\ \A k \in F : m.firmware[k].type = "usable"
    BY <1>5, <2>1, <2>2 DEF Claimed, Ours
  <2>3. CASE t \notin Ours /\ m.firmware[n].type # "usable"
    BY <1>5, <2>1, <2>3 DEF Claimed
  <2> QED
    BY <2>2, <2>3
<1>6. CASE ~MMP!Holds(m.firmware[n], a)
  <2>1. MMP!TypeIn(new, a) = MMP!TypeIn(map, a)
    BY <1>1, <1>2, <1>6
  <2>2. Claimed(m, F \cup {n}, a) <=> Claimed(m, F, a)
    BY <1>6 DEF Claimed
  <2> QED
    BY <1>4, <2>1, <2>2
<1> QED
  BY <1>5, <1>6

\* An empty entry of the firmware's is left out.
LEMMA PaintEmpty ==
    ASSUME NEW m, NEW F, NEW map, Painted(m, F, {}, map), NEW n,
           m.firmware[n].base \in Nat, m.firmware[n].size = 0
    PROVE  Painted(m, F \cup {n}, {}, map)
<1>1. \A a \in Nat : ~MMP!Holds(m.firmware[n], a)
  BY DEF MMP!Holds, MMP!End
<1>2. \A a \in Nat : Claimed(m, F \cup {n}, a) <=> Claimed(m, F, a)
  BY <1>1 DEF Claimed
<1> QED
  BY <1>2 DEF Painted

\* A piece is defined.
LEMMA PaintPiece ==
    ASSUME NEW m, NEW F, NEW P, NEW map, NEW new, Painted(m, F, P, map), NEW n,
           MMP!Defined(map, new, PiecesOf(m)[n]),
           PiecesOf(m)[n].type \in {"bios", "software"}
    PROVE  Painted(m, F, P \cup {n}, new)
<1> DEFINE r == PiecesOf(m)[n]
<1>1. \A a \in Nat : MMP!TypeIn(new, a) = IF MMP!Holds(r, a) THEN r.type ELSE MMP!TypeIn(map, a)
  BY DEF MMP!Defined
<1>2. r.type \notin Ours
  BY DEF Ours, Free, Allocatable
<1> SUFFICES ASSUME NEW a \in Nat
             PROVE  /\ MMP!TypeIn(new, a) \in Ours <=> Claimed(m, F, a) /\ ~Pieced(m, P \cup {n}, a)
                    /\ Pieced(m, P \cup {n}, a) => MMP!TypeIn(new, a) \in {"bios", "software"}
  BY DEF Painted
<1>3. Pieced(m, P \cup {n}, a) <=> Pieced(m, P, a) \/ MMP!Holds(r, a)
  BY DEF Pieced
<1>4. r.type \in {"bios", "software"}
  OBVIOUS
<1> HIDE DEF r
<1>5. CASE MMP!Holds(r, a)
  BY <1>1, <1>2, <1>3, <1>4, <1>5
<1>6. CASE ~MMP!Holds(r, a)
  BY <1>1, <1>3, <1>6 DEF Painted
<1> QED
  BY <1>5, <1>6

\* Merging entries and giving a free one an allocator paint nothing anew.
LEMMA PaintSame ==
    ASSUME NEW m, NEW F, NEW P, NEW map, NEW new, Painted(m, F, P, map),
           \A a \in Nat : \/ MMP!TypeIn(new, a) = MMP!TypeIn(map, a)
                          \/ MMP!TypeIn(new, a) \in Ours /\ MMP!TypeIn(map, a) \in Ours
    PROVE  Painted(m, F, P, new)
<1>1. \A t \in Ours : t \notin {"bios", "software"}
  BY DEF Ours, Free, Allocatable
<1> QED
  BY <1>1 DEF Painted
-----------------------------------------------------------------------------
(* What kmain defines *)

\* The pieces by address and size.
LEMMA PiecesFacts ==
    ASSUME NEW m \in Machines
    PROVE  /\ DOMAIN PiecesOf(m) = 1 .. 7 /\ Len(PiecesOf(m)) = 7
           /\ \A k \in 1 .. 7 : PiecesOf(m)[k] \in MMP!Region /\ PiecesOf(m)[k].type \in Soft
<1> DEFINE b == InfoOf(m)
           n == Len(m.firmware)
<1>1. /\ m.kernel_size \in Nat \ {0} /\ m.initrd_size \in Nat \ {0} /\ m.cmdlen \in Nat
      /\ n \in Nat \ {0}
      /\ \A k \in DOMAIN PiecesOf(m) : EndOf(PiecesOf(m)[k]) <= Top
  <2>1. m.firmware \in Seq([base : Nat, size : Nat, type : DOMAIN Becomes]) /\ m.firmware # <<>>
    BY BootMapAssumption
  <2>2. n \in Nat \ {0}
    BY <2>1, LenProperties, EmptySeq
  <2> QED
    BY <2>2, BootMapAssumption
<1>2. /\ KernelBase \in Nat /\ LoaderBase \in Nat /\ LoaderSize \in Nat \ {0}
      /\ BiosEnd \in Nat \ {0} /\ Ebda \in [base : Nat, size : Nat \ {0}]
      /\ EntryBytes \in Nat \ {0} /\ InfoBytes \in Nat \ {0} /\ Top \in Nat \ {0}
  <2>1. {Top, Fan, BiosEnd, LoaderSize} \subseteq Nat \ {0}
    BY BootMapAssumption
  <2>2. {LoaderBase, KernelBase, ScreenPages} \subseteq Nat
    BY BootMapAssumption
  <2>3. {Ebda, Screen} \subseteq [base : Nat, size : Nat \ {0}]
    BY BootMapAssumption
  <2> QED
    BY <2>1, <2>2, <2>3, BootInfoAssumption
<1>3. n * EntryBytes \in Nat /\ n * InfoBytes \in Nat \ {0}
  BY <1>1, <1>2
<1>4. /\ b.kernel.base = KernelBase /\ b.kernel.size = m.kernel_size
      /\ b.initrd.base = KernelBase + m.kernel_size /\ b.initrd.size = m.initrd_size
      /\ b.cmdline.base = KernelBase + m.kernel_size + m.initrd_size
      /\ b.cmdline.size = m.cmdlen + 1
      /\ b.mmap.base = KernelBase + m.kernel_size + m.initrd_size + m.cmdlen + 1
  <2> DEFINE k == m.kernel_size
             i0 == m.initrd_size
             c == m.cmdlen
  <2>1. KernelBase \in Nat /\ k \in Nat /\ i0 \in Nat /\ c \in Nat
    BY <1>1, <1>2
  <2>2. b = Placed(KernelBase, KernelBase + k, i0, c, n)
    BY DEF InfoOf
  <2> HIDE DEF b, n, k, i0, c
  <2>3. /\ b.kernel = [base |-> KernelBase, size |-> (KernelBase + k) - KernelBase]
        /\ b.initrd = [base |-> KernelBase + k, size |-> i0]
        /\ b.cmdline = [base |-> KernelBase + k + i0, size |-> c + 1]
        /\ b.mmap.base = KernelBase + k + i0 + (c + 1)
    BY <2>2 DEF Placed, piece, EndOf
  <2>4. /\ b.kernel.base = KernelBase /\ b.kernel.size = k
        /\ b.initrd.base = KernelBase + k /\ b.initrd.size = i0
        /\ b.cmdline.base = KernelBase + k + i0 /\ b.cmdline.size = c + 1
        /\ b.mmap.base = KernelBase + k + i0 + c + 1
    BY ONLY <2>1, <2>3
  <2> QED
    BY <2>4 DEF k, i0, c
<1> HIDE DEF b, n
<1>5. ASSUME NEW p, p.base \in Nat, p.size \in Nat \ {0}, NEW t \in Soft, EndOf(region(p, t)) <= Top
      PROVE  region(p, t) \in MMP!Region /\ region(p, t).type \in Soft
  <2>1. p.base + p.size <= Top
    BY <1>5 DEF region, EndOf
  <2>2. p.base \in 0 .. Top - 1 /\ p.size \in 1 .. Top
    BY <1>2, <1>5, <2>1
  <2> QED
    BY <2>1, <2>2 DEF region, MMP!Region, Soft
<1> DEFINE p6 == piece(b.cmdline.base, b.kernel.size)
           p7 == piece(b.mmap.base, n * InfoBytes)
<1>6. PiecesOf(m) = << region(piece(0, BiosEnd), "bios"), region(Ebda, "bios"),
                       region(loader, "software"), region(b.kernel, "software"),
                       region(b.initrd, "software"), region(p6, "software"),
                       region(p7, "software") >>
  BY DEF PiecesOf, b, n
<1>7. /\ p6.base \in Nat /\ p6.size \in Nat \ {0} /\ p7.base \in Nat /\ p7.size \in Nat \ {0}
      /\ b.kernel.base \in Nat /\ b.kernel.size \in Nat \ {0}
      /\ b.initrd.base \in Nat /\ b.initrd.size \in Nat \ {0}
      /\ loader.base \in Nat /\ loader.size \in Nat \ {0}
      /\ piece(0, BiosEnd).base \in Nat /\ piece(0, BiosEnd).size \in Nat \ {0}
      /\ Ebda.base \in Nat /\ Ebda.size \in Nat \ {0}
  BY <1>1, <1>2, <1>3, <1>4 DEF piece, loader
<1> HIDE DEF p6, p7
<1>8. DOMAIN PiecesOf(m) = 1 .. 7 /\ Len(PiecesOf(m)) = 7
  BY <1>6
<1>9. /\ PiecesOf(m)[1] = region(piece(0, BiosEnd), "bios") /\ PiecesOf(m)[2] = region(Ebda, "bios")
      /\ PiecesOf(m)[3] = region(loader, "software") /\ PiecesOf(m)[4] = region(b.kernel, "software")
      /\ PiecesOf(m)[5] = region(b.initrd, "software") /\ PiecesOf(m)[6] = region(p6, "software")
      /\ PiecesOf(m)[7] = region(p7, "software")
  BY <1>6
<1>10. ASSUME NEW k \in 1 .. 7
       PROVE  PiecesOf(m)[k] \in MMP!Region /\ PiecesOf(m)[k].type \in Soft
  <2>1. EndOf(PiecesOf(m)[k]) <= Top /\ "bios" \in Soft /\ "software" \in Soft
    BY <1>1, <1>8 DEF Soft
  <2>2. CASE k = 1
    BY <1>5, <1>7, <1>9, <2>1, <2>2
  <2>3. CASE k = 2
    BY <1>5, <1>7, <1>9, <2>1, <2>3
  <2>4. CASE k = 3
    BY <1>5, <1>7, <1>9, <2>1, <2>4
  <2>5. CASE k = 4
    BY <1>5, <1>7, <1>9, <2>1, <2>5
  <2>6. CASE k = 5
    BY <1>5, <1>7, <1>9, <2>1, <2>6
  <2>7. CASE k = 6
    BY <1>5, <1>7, <1>9, <2>1, <2>7
  <2>8. CASE k = 7
    BY <1>5, <1>7, <1>9, <2>1, <2>8
  <2> QED
    BY <2>2, <2>3, <2>4, <2>5, <2>6, <2>7, <2>8
<1> QED
  BY <1>8, <1>10

\* The firmware's entries that are not empty.
LEMMA FirmwareFacts ==
    ASSUME NEW m \in Machines
    PROVE  /\ DOMAIN m.firmware = 1 .. Len(m.firmware) /\ Len(m.firmware) \in Nat \ {0}
           /\ \A k \in DOMAIN m.firmware :
                 LET e == m.firmware[k] IN
                 /\ e.base \in Nat /\ e.size \in Nat
                 /\ e.size # 0 => region(e, Becomes[e.type]) \in MMP!Region
                 /\ Becomes[e.type] \notin Soft \cup {Allocatable}
                 /\ Becomes[e.type] = Free <=> e.type = "usable"
<1> DEFINE S == [base : Nat, size : Nat, type : DOMAIN Becomes]
<1>1. m.firmware \in Seq(S) /\ m.firmware # <<>>
  BY BootMapAssumption
<1>2. DOMAIN m.firmware = 1 .. Len(m.firmware) /\ Len(m.firmware) \in Nat \ {0}
  <2> HIDE DEF S
  <2> QED
    BY <1>1, LenProperties, EmptySeq
<1>3. \A k \in DOMAIN m.firmware : m.firmware[k] \in S /\ EndOf(m.firmware[k]) <= Top
  <2> HIDE DEF S
  <2>1. \A k \in 1 .. Len(m.firmware) : m.firmware[k] \in S
    BY <1>1, ElementOfSeq
  <2> QED
    BY <1>2, <2>1, BootMapAssumption
<1>4. ASSUME NEW e \in S, EndOf(e) <= Top
      PROVE  /\ e.base \in Nat /\ e.size \in Nat
             /\ e.size # 0 => region(e, Becomes[e.type]) \in MMP!Region
             /\ Becomes[e.type] \notin Soft \cup {Allocatable}
             /\ Becomes[e.type] = Free <=> e.type = "usable"
  <2>1. /\ e.base \in Nat /\ e.size \in Nat
        /\ e.type \in {"usable", "rsvd", "acpi_rec", "nvs", "bad_mem", "other"}
    BY DEF Becomes
  <2>2. Becomes[e.type] \in {Free, "reserved", "acpi", "dead"}
    BY <2>1 DEF Becomes
  <2>3. Becomes[e.type] = Free <=> e.type = "usable"
    BY <2>1 DEF Becomes, Free
  <2>4. Becomes[e.type] \notin Soft \cup {Allocatable}
    BY <2>2 DEF Soft, Free, Allocatable
  <2> DEFINE t == Becomes[e.type]
  <2> HIDE DEF t
  <2>5. ASSUME e.size # 0 PROVE region(e, t) \in MMP!Region
    <3>1. e.base + e.size <= Top /\ Top \in Nat
      BY <1>4, BootMapAssumption DEF EndOf
    <3>2. e.base \in 0 .. Top - 1 /\ e.size \in 1 .. Top
      BY <2>1, <2>5, <3>1
    <3> QED
      BY <2>2, <3>1, <3>2 DEF region, MMP!Region, t
  <2> QED
    BY <2>1, <2>3, <2>4, <2>5 DEF t
<1> HIDE DEF S
<1> QED
  BY <1>2, <1>3, <1>4

\* A definition that swallows nothing.
LEMMA DefineStep ==
    ASSUME MMP!Table(k_mem_map), Act(k_mem_map) = {},
           NEW r \in MMP!Region, r.type # Allocatable, MM!memmap_define(r), ~MM!Swallows(r)
    PROVE  /\ MMP!Defined(k_mem_map, k_mem_map', r)
           /\ MMP!Table(k_mem_map') /\ Act(k_mem_map') = {}
<1>1. MMP!memmap_define(r) /\ ~MMP!Swallows(r)
  BY SameDefine, SameInfo
<1>2. MMP!Defined(k_mem_map, k_mem_map', r)
  BY <1>1, MapAssumptions, MMP!DefineFacts
<1>3. /\ MMP!Table(k_mem_map')
      /\ \A a \in Nat : MMP!TypeIn(k_mem_map', a)
                           = IF MMP!Holds(r, a) THEN r.type ELSE MMP!TypeIn(k_mem_map, a)
  BY <1>2 DEF MMP!Defined
<1>4. \A a \in Nat : MMP!TypeIn(k_mem_map, a) # Allocatable
  BY TypesFacts
<1>5. \A a \in Nat : MMP!TypeIn(k_mem_map', a) # Allocatable
  BY <1>3, <1>4
<1>6. Act(k_mem_map') = {}
  <2> DEFINE n == k_mem_map'
  <2>1. MMP!Table(n) /\ \A a \in Nat : MMP!TypeIn(n, a) # Allocatable
    BY <1>3, <1>5
  <2> HIDE DEF n
  <2>2. Act(n) = {}
    BY <2>1, TypesFacts
  <2> QED
    BY <2>2 DEF n
<1> QED
  BY <1>2, <1>3, <1>6

\* Merging changes no address's type.
LEMMA MergeStep ==
    ASSUME MMP!Table(k_mem_map), Act(k_mem_map) = {}, mi \in Nat \ {0}, MM!AgregateRun
    PROVE  /\ MMP!Table(k_mem_map') /\ Act(k_mem_map') = {} /\ mi' = mi + 1
           /\ \A a \in Nat : MMP!TypeIn(k_mem_map', a) = MMP!TypeIn(k_mem_map, a)
<1>1. MMP!AgregateRun
  BY SameAgregate
<1>2. mi \in 1 .. Len(k_mem_map) /\ mi' = mi + 1
  <2>1. Len(k_mem_map) \in Nat
    BY MapFacts
  <2> QED
    BY <1>1, <2>1 DEF MMP!AgregateRun
<1>3. /\ MMP!Table(k_mem_map')
      /\ \A a \in Nat : MMP!TypeIn(k_mem_map', a) = MMP!TypeIn(k_mem_map, a)
  BY <1>1, <1>2, MapAssumptions, MMP!AgregateRunFacts
<1>4. \A a \in Nat : MMP!TypeIn(k_mem_map', a) # Allocatable
  BY <1>3, TypesFacts
<1>5. Act(k_mem_map') = {}
  <2> DEFINE n == k_mem_map'
  <2>1. MMP!Table(n) /\ \A a \in Nat : MMP!TypeIn(n, a) # Allocatable
    BY <1>3, <1>4
  <2> HIDE DEF n
  <2>2. Act(n) = {}
    BY <2>1, TypesFacts
  <2> QED
    BY <2>2 DEF n
<1> QED
  BY <1>2, <1>3, <1>5

\* A free entry becomes allocatable.
LEMMA RetypedFacts ==
    ASSUME NEW m, MMP!Table(m), NEW n, MMP!Table(n), NEW r \in DOMAIN m, m[r].type = Free,
           Retyped(m, n, r)
    PROVE  /\ DOMAIN n = DOMAIN m
           /\ n[r].type = Allocatable
           /\ \A k \in DOMAIN m : /\ n[k].base = m[k].base /\ n[k].size = m[k].size
                                  /\ k # r => n[k].type = m[k].type
           /\ \A a \in Nat : \/ MMP!TypeIn(n, a) = MMP!TypeIn(m, a)
                             \/ MMP!TypeIn(n, a) \in Ours /\ MMP!TypeIn(m, a) \in Ours
<1>1. \A k \in DOMAIN m : m[k] = [base |-> m[k].base, size |-> m[k].size, type |-> m[k].type]
  BY MapFacts
<1>2. /\ DOMAIN n = DOMAIN m
      /\ n[r] = [base |-> m[r].base, size |-> m[r].size, type |-> Allocatable]
      /\ \A k \in DOMAIN m : k # r => n[k] = m[k]
  BY <1>1 DEF Retyped
<1>3. \A k \in DOMAIN m : /\ n[k].base = m[k].base /\ n[k].size = m[k].size
                          /\ k # r => n[k].type = m[k].type
  BY <1>2
<1>4. \A k \in DOMAIN m : \A a : MMP!Holds(n[k], a) <=> MMP!Holds(m[k], a)
  BY <1>3 DEF MMP!Holds, MMP!End
<1>5. ASSUME NEW a \in Nat
      PROVE  \/ MMP!TypeIn(n, a) = MMP!TypeIn(m, a)
             \/ MMP!TypeIn(n, a) \in Ours /\ MMP!TypeIn(m, a) \in Ours
  <2>1. CASE \E k \in DOMAIN m : MMP!Holds(m[k], a)
    <3>1. PICK k \in DOMAIN m : MMP!Holds(m[k], a)
      BY <2>1
    <3>2. MMP!TypeIn(m, a) = m[k].type /\ MMP!TypeIn(n, a) = n[k].type
      BY <1>2, <1>4, <3>1, TypesFacts
    <3>3. CASE k = r
      BY <1>2, <3>2, <3>3 DEF Ours
    <3>4. CASE k # r
      BY <1>3, <3>2, <3>4
    <3> QED
      BY <3>3, <3>4
  <2>2. CASE ~\E k \in DOMAIN m : MMP!Holds(m[k], a)
    BY <1>2, <1>4, <2>2, TypesFacts
  <2> QED
    BY <2>1, <2>2
<1> QED
  BY <1>2, <1>3, <1>5
-----------------------------------------------------------------------------
(* The invariant *)

LEMMA NotSwallowed ==
    ASSUME SwallowsNone, stage = "firmware", j <= Len(machine.firmware),
           NEW e, e = machine.firmware[j], e.type = Loops[loop], e.size # 0
    PROVE  ~MM!Swallows(region(e, Becomes[e.type]))
<1>1. LET x == machine.firmware[j] IN
      x.type = Loops[loop] /\ x.size # 0 => ~MM!Swallows(region(x, Becomes[x.type]))
  BY DEF SwallowsNone
<1> QED
  BY <1>1

Early == {"firmware", "pieces", "agregate"}
Enabled == {"high", "run"}
Stages == Early \cup {"low", "map", "bitmaps"} \cup Enabled

\* What is defined by now.
FirmwareBy(m, st, l, n) == IF st = "firmware" THEN Done(m, l, n) ELSE DOMAIN m.firmware
PiecesBy(m, st, n) == IF st = "firmware" THEN {} ELSE
                      IF st = "pieces" THEN {k \in DOMAIN PiecesOf(m) : k < n}
                      ELSE DOMAIN PiecesOf(m)

\* How far kmain is, and what that makes of the map.
MapInv ==
    /\ machine \in Machines
    /\ stage \in Stages
    /\ loop \in 1 .. 6 /\ j \in Nat \ {0}
    /\ pass \in 0 .. 2 /\ i \in Nat \ {0}
    /\ stage \in Early => pass = 0
    /\ stage \in {"map", "bitmaps"} => pass = 1
    /\ stage = "low" => pass <= 1
    /\ stage \in Enabled => pass >= 1
    /\ stage = "agregate" => mi \in Nat \ {0}
    /\ Painted(machine, FirmwareBy(machine, stage, loop, j), PiecesBy(machine, stage, j),
               k_mem_map)

\* What the allocators keep.
KeptInv ==
    /\ pass = 0 => live = {} /\ Act(k_mem_map) = {}
    /\ pass > 0 => DOMAIN buddy = DOMAIN k_mem_map
    /\ AllocInv(k_mem_map, buddy, live)

BootInv == MapInv /\ KeptInv

LEMMA InitInv ==
    ASSUME Init
    PROVE  BootInv
<1> DEFINE m == k_mem_map
<1>1. /\ machine \in Machines /\ m = <<>> /\ stage = "firmware" /\ loop = 1 /\ j = 1
      /\ pass = 0 /\ i = 1 /\ live = {}
  BY DEF Init, PallocInit
<1>2. DOMAIN m = {} /\ m \in Seq(MMP!Region) /\ Len(m) = 0
  BY <1>1
<1>3. MMP!Table(m) /\ Act(m) = {}
  BY <1>2 DEF MMP!Table, Act
<1> HIDE DEF m
<1>4. \A a \in Nat : MMP!TypeIn(m, a) = "none"
  BY <1>2, <1>3, TypesFacts
<1>5. Done(machine, 1, 1) = {}
  BY <1>1, DoneFacts
<1>6. Painted(machine, {}, {}, m)
  BY <1>4 DEF Painted, Claimed, Pieced, Ours, Free, Allocatable
<1>7. Painted(machine, FirmwareBy(machine, stage, loop, j), PiecesBy(machine, stage, j), m)
  BY <1>1, <1>5, <1>6 DEF FirmwareBy, PiecesBy
<1>8. AllocInv(m, buddy, live)
  BY <1>1, <1>3, NothingYet
<1> QED
  BY <1>1, <1>3, <1>7, <1>8 DEF BootInv, MapInv, KeptInv, Stages, Early, Enabled, m

\* Until the first palloc_init, the allocators keep nothing.
LEMMA KeptEarly ==
    ASSUME MMP!Table(k_mem_map'), Act(k_mem_map') = {}, live' = {}, pass' = 0
    PROVE  KeptInv'
<1> DEFINE n == k_mem_map'
           bs == buddy'
<1>1. MMP!Table(n) /\ Act(n) = {}
  OBVIOUS
<1> HIDE DEF n, bs
<1>2. AllocInv(n, bs, {})
  BY <1>1, NothingYet
<1>3. AllocInv(k_mem_map', buddy', live')
  BY <1>2 DEF n, bs
<1> QED
  BY <1>3 DEF KeptInv

LEMMA DefineFirmwareInv ==
    ASSUME BootInv, SwallowsNone, define_firmware
    PROVE  BootInv'
<1> DEFINE m == machine
           e == m.firmware[j]
           r == region(e, Becomes[e.type])
           F == Done(m, loop, j)
<1>1. /\ stage = "firmware" /\ j <= Len(m.firmware) /\ j' = j + 1
      /\ machine' = machine /\ stage' = stage /\ loop' = loop
      /\ buddy' = buddy /\ live' = live /\ pass' = pass /\ i' = i
  BY DEF define_firmware, restOfPalloc
<1>2. /\ m \in Machines /\ loop \in 1 .. 6 /\ j \in Nat \ {0} /\ pass = 0 /\ i \in Nat \ {0}
      /\ Painted(m, F, {}, k_mem_map)
  BY <1>1 DEF BootInv, MapInv, Early, FirmwareBy, PiecesBy
<1>3. live = {} /\ Act(k_mem_map) = {} /\ MMP!Table(k_mem_map)
  BY <1>2 DEF BootInv, KeptInv, AllocInv
<1>4. j \in DOMAIN m.firmware
  BY <1>1, <1>2, FirmwareFacts
<1>5. ASSUME MMP!Table(k_mem_map'), Act(k_mem_map') = {},
             Painted(m, Done(m, loop, j + 1), {}, k_mem_map')
      PROVE  BootInv'
  <2>1. KeptInv'
    BY <1>1, <1>2, <1>3, <1>5, KeptEarly
  <2>2. MapInv'
    BY <1>1, <1>2, <1>5 DEF MapInv, Early, Enabled, Stages, FirmwareBy, PiecesBy
  <2> QED
    BY <2>1, <2>2 DEF BootInv
<1>6. CASE e.type = Loops[loop] /\ e.size # 0
  <2>1. MM!memmap_define(r)
    BY <1>6 DEF define_firmware
  <2>2. /\ r \in MMP!Region /\ r.type \notin Soft \cup {Allocatable}
        /\ Becomes[e.type] = Free <=> e.type = "usable"
    <3>1. r.type = Becomes[e.type]
      BY DEF region
    <3> QED
      BY <1>2, <1>4, <1>6, <3>1, FirmwareFacts
  <2>3. ~MM!Swallows(r)
    <3>1. /\ stage = "firmware" /\ j <= Len(machine.firmware)
          /\ e.type = Loops[loop] /\ e.size # 0 /\ e = machine.firmware[j]
      BY <1>1, <1>6
    <3> HIDE DEF e
    <3> QED
      BY <3>1, NotSwallowed
  <2>4. /\ MMP!Defined(k_mem_map, k_mem_map', r)
        /\ MMP!Table(k_mem_map') /\ Act(k_mem_map') = {}
    <3>1. r \in MMP!Region /\ r.type # Allocatable
      BY <2>2
    <3> HIDE DEF r, m
    <3> QED
      BY ONLY <1>3, <2>1, <2>3, <3>1, DefineStep
  <2>5. Done(m, loop, j + 1) = F \cup {j}
    <3>1. m.firmware[j].type = Loops[loop]
      BY <1>6
    <3>2. m \in Machines /\ loop \in 1 .. 6 /\ j \in Nat \ {0} /\ j \in DOMAIN m.firmware
      BY <1>2, <1>4
    <3> HIDE DEF m
    <3> QED
      BY ONLY <3>1, <3>2, DoneNext
  <2>6. \/ /\ Becomes[e.type] = Free /\ e.type = "usable"
           /\ \A k \in F : m.firmware[k].type = "usable"
        \/ Becomes[e.type] \notin Ours /\ e.type # "usable"
    <3>1. CASE e.type = "usable"
      <4>1. Loops[loop] = "usable" /\ Becomes[e.type] = Free
        BY <1>6, <2>2, <3>1
      <4>2. \A k \in F : m.firmware[k].type = "usable"
        <5> HIDE DEF m
        <5> QED
          BY <1>2, <4>1, DoneFacts
      <4> QED
        BY <3>1, <4>1, <4>2
    <3>2. CASE e.type # "usable"
      BY <2>2, <3>2 DEF Ours, region
    <3> QED
      BY <3>1, <3>2
  <2>7. Painted(m, F \cup {j}, {}, k_mem_map')
    <3> DEFINE t == Becomes[e.type]
               old == k_mem_map
               new == k_mem_map'
               n == j
    <3>1. /\ Painted(m, F, {}, old) /\ MMP!Defined(old, new, region(m.firmware[n], t))
          /\ \/ /\ t = Free /\ m.firmware[n].type = "usable"
                /\ \A k \in F : m.firmware[k].type = "usable"
             \/ t \notin Ours /\ m.firmware[n].type # "usable"
      BY <1>2, <2>4, <2>6
    <3> HIDE DEF m, e, r, F, t, old, new, n
    <3>2. Painted(m, F \cup {n}, {}, new)
      BY <3>1, PaintFirmware
    <3> QED
      BY <3>2 DEF new, n
  <2> QED
    BY <1>5, <2>4, <2>5, <2>7
<1>7. CASE ~(e.type = Loops[loop] /\ e.size # 0)
  <2>1. k_mem_map' = k_mem_map
    BY <1>7 DEF define_firmware, mapVars
  <2>2. Painted(m, Done(m, loop, j + 1), {}, k_mem_map)
    <3>1. CASE e.type # Loops[loop]
      <4>1. Done(m, loop, j + 1) = F
        BY <1>2, <1>4, <3>1, DoneFacts
      <4> QED
        BY <1>2, <4>1
    <3>2. CASE e.type = Loops[loop]
      <4>1. e.size = 0 /\ e.base \in Nat
        BY <1>2, <1>4, <1>7, <3>2, FirmwareFacts
      <4>2. Done(m, loop, j + 1) = F \cup {j}
        BY <1>2, <1>4, <3>2, DoneFacts
      <4> DEFINE n == j
                 map == k_mem_map
      <4>3. m.firmware[n].base \in Nat /\ m.firmware[n].size = 0 /\ Painted(m, F, {}, map)
        BY <1>2, <4>1
      <4> HIDE DEF m, F, n, map
      <4>4. Painted(m, F \cup {n}, {}, map)
        BY <4>3, PaintEmpty
      <4> QED
        BY <4>2, <4>4 DEF n, map
    <3> QED
      BY <3>1, <3>2
  <2> QED
    BY <1>3, <1>5, <2>1, <2>2
<1> QED
  BY <1>6, <1>7

LEMMA NextLoopInv ==
    ASSUME BootInv, next_loop
    PROVE  BootInv'
<1> DEFINE m == machine
<1>1. /\ stage = "firmware" /\ j > Len(m.firmware) /\ j' = 1
      /\ k_mem_map' = k_mem_map /\ buddy' = buddy /\ live' = live /\ pass' = pass /\ i' = i
      /\ machine' = machine
  BY DEF next_loop, pallocVars
<1>2. /\ m \in Machines /\ loop \in 1 .. 6 /\ j \in Nat \ {0} /\ pass = 0 /\ i \in Nat \ {0}
      /\ Painted(m, Done(m, loop, j), {}, k_mem_map)
  BY <1>1 DEF BootInv, MapInv, Early, FirmwareBy, PiecesBy
<1>3. KeptInv'
  BY <1>1 DEF BootInv, KeptInv
<1>4. Len(Loops) = 6
  BY DEF Loops
<1>5. CASE loop < 6
  <2>1. loop' = loop + 1 /\ stage' = stage
    BY <1>4, <1>5 DEF next_loop
  <2>2. Painted(m, Done(m, loop + 1, 1), {}, k_mem_map)
    BY <1>1, <1>2, <1>5, DoneFacts
  <2>3. MapInv'
    BY <1>1, <1>2, <1>5, <2>1, <2>2 DEF MapInv, Early, Enabled, Stages, FirmwareBy, PiecesBy
  <2> QED
    BY <1>3, <2>3 DEF BootInv
<1>6. CASE loop = 6
  <2>1. loop' = loop /\ stage' = "pieces"
    BY <1>4, <1>6 DEF next_loop
  <2>2. Painted(m, DOMAIN m.firmware, {}, k_mem_map)
    BY <1>1, <1>2, <1>6, DoneFacts
  <2>3. {k \in DOMAIN PiecesOf(m) : k < 1} = {}
    BY <1>2, PiecesFacts
  <2>4. MapInv'
    BY <1>1, <1>2, <2>1, <2>2, <2>3 DEF MapInv, Early, Enabled, Stages, FirmwareBy, PiecesBy
  <2> QED
    BY <1>3, <2>4 DEF BootInv
<1> QED
  BY <1>2, <1>5, <1>6

LEMMA DefinePieceInv ==
    ASSUME BootInv, SwallowsNone, define_piece
    PROVE  BootInv'
<1> DEFINE m == machine
           r == PiecesOf(m)[j]
           F == DOMAIN m.firmware
           P == {k \in DOMAIN PiecesOf(m) : k < j}
<1>1. /\ stage = "pieces" /\ j <= Len(PiecesOf(m)) /\ j' = j + 1
      /\ machine' = machine /\ stage' = stage /\ loop' = loop
      /\ buddy' = buddy /\ live' = live /\ pass' = pass /\ i' = i
      /\ MM!memmap_define(r)
  BY DEF define_piece, restOfPalloc, Pieces
<1>2. /\ m \in Machines /\ loop \in 1 .. 6 /\ j \in Nat \ {0} /\ pass = 0 /\ i \in Nat \ {0}
      /\ Painted(m, F, P, k_mem_map)
  BY <1>1 DEF BootInv, MapInv, Early, FirmwareBy, PiecesBy
<1>3. live = {} /\ Act(k_mem_map) = {} /\ MMP!Table(k_mem_map)
  BY <1>2 DEF BootInv, KeptInv, AllocInv
<1>4. r \in MMP!Region /\ r.type \in Soft /\ DOMAIN PiecesOf(m) = 1 .. 7 /\ j \in 1 .. 7
  BY <1>1, <1>2, PiecesFacts
<1>5. ~MM!Swallows(r) /\ r.type # Allocatable
  BY <1>1, <1>4 DEF SwallowsNone, Pieces, Soft, Allocatable
<1>6. /\ MMP!Defined(k_mem_map, k_mem_map', r)
      /\ MMP!Table(k_mem_map') /\ Act(k_mem_map') = {}
  <2> HIDE DEF r
  <2> QED
    BY <1>1, <1>3, <1>4, <1>5, DefineStep
<1>7. Painted(m, F, P \cup {j}, k_mem_map')
  <2> DEFINE old == k_mem_map
             new == k_mem_map'
             n == j
  <2>1. /\ Painted(m, F, P, old) /\ MMP!Defined(old, new, PiecesOf(m)[n])
        /\ PiecesOf(m)[n].type \in {"bios", "software"}
    BY <1>2, <1>4, <1>6 DEF Soft
  <2> HIDE DEF m, F, P, old, new, n
  <2>2. Painted(m, F, P \cup {n}, new)
    BY <2>1, PaintPiece
  <2> QED
    BY <2>2 DEF new, n
<1>8. {k \in DOMAIN PiecesOf(m) : k < j + 1} = P \cup {j}
  BY <1>2, <1>4
<1>9. KeptInv'
  BY <1>1, <1>2, <1>3, <1>6, KeptEarly
<1>10. Painted(machine', FirmwareBy(machine', stage', loop', j'), PiecesBy(machine', stage', j'),
               k_mem_map')
  <2>1. FirmwareBy(machine', stage', loop', j') = F
    BY <1>1 DEF FirmwareBy
  <2>2. PiecesBy(machine', stage', j') = P \cup {j}
    BY <1>1, <1>8 DEF PiecesBy
  <2> QED
    BY <1>1, <1>7, <2>1, <2>2
<1> HIDE DEF m, r, F, P
<1>11. MapInv'
  BY <1>1, <1>2, <1>10 DEF MapInv, Early, Enabled, Stages, m
<1> QED
  BY <1>9, <1>11 DEF BootInv

LEMMA AgregateInv ==
    ASSUME BootInv, agregate
    PROVE  BootInv'
<1> DEFINE m == machine
           F == DOMAIN m.firmware
           P == DOMAIN PiecesOf(m)
<1>1. /\ stage \in {"pieces", "agregate"}
      /\ machine' = machine /\ loop' = loop /\ j' = j
      /\ buddy' = buddy /\ live' = live /\ pass' = pass /\ i' = i
  BY DEF agregate, restOfPalloc
<1>2. /\ m \in Machines /\ loop \in 1 .. 6 /\ j \in Nat \ {0} /\ pass = 0 /\ i \in Nat \ {0}
      /\ Painted(m, F, PiecesBy(m, stage, j), k_mem_map)
  BY <1>1 DEF BootInv, MapInv, Early, FirmwareBy
<1>3. live = {} /\ Act(k_mem_map) = {} /\ MMP!Table(k_mem_map)
  BY <1>2 DEF BootInv, KeptInv, AllocInv
<1>4. ASSUME MMP!Table(k_mem_map'), Act(k_mem_map') = {}, Painted(m, F, P, k_mem_map'),
             stage' \in {"agregate", "low"}, stage' = "agregate" => mi' \in Nat \ {0}
      PROVE  BootInv'
  <2>1. KeptInv'
    BY <1>1, <1>2, <1>3, <1>4, KeptEarly
  <2>2. Painted(machine', FirmwareBy(machine', stage', loop', j'),
                PiecesBy(machine', stage', j'), k_mem_map')
    BY <1>1, <1>4 DEF FirmwareBy, PiecesBy
  <2> HIDE DEF m, F, P
  <2>3. MapInv'
    BY <1>1, <1>2, <1>4, <2>2 DEF MapInv, Early, Enabled, Stages, m
  <2> QED
    BY <2>1, <2>3 DEF BootInv
<1>5. CASE stage = "pieces"
  <2>1. /\ j > Len(PiecesOf(m)) /\ mi' = 1 /\ k_mem_map' = k_mem_map /\ stage' = "agregate"
    BY <1>5 DEF agregate, Pieces, MM!AgregateStart
  <2>2. {k \in P : k < j} = P
    <3>1. P = 1 .. 7 /\ j > 7
      BY <1>2, <2>1, PiecesFacts
    <3> HIDE DEF P
    <3> QED
      BY <1>2, <3>1
  <2>3. Painted(m, F, P, k_mem_map)
    BY <1>2, <1>5, <2>2 DEF PiecesBy
  <2> QED
    BY <1>3, <1>4, <2>1, <2>3
<1>6. CASE stage = "agregate"
  <2>1. mi \in Nat \ {0} /\ Painted(m, F, P, k_mem_map)
    BY <1>2, <1>6 DEF BootInv, MapInv, PiecesBy
  <2>2. CASE MM!AgregateRun
    <3>1. /\ MMP!Table(k_mem_map') /\ Act(k_mem_map') = {} /\ mi' = mi + 1
          /\ \A a \in Nat : MMP!TypeIn(k_mem_map', a) = MMP!TypeIn(k_mem_map, a)
      BY <1>3, <2>1, <2>2, MergeStep
    <3>2. stage' = stage
      BY <1>6, <2>2 DEF agregate, MM!AgregateRun
    <3>3. Painted(m, F, P, k_mem_map')
      <4> DEFINE old == k_mem_map
                 new == k_mem_map'
      <4>1. /\ Painted(m, F, P, old)
            /\ \A a \in Nat : MMP!TypeIn(new, a) = MMP!TypeIn(old, a)
        BY <2>1, <3>1
      <4> HIDE DEF m, F, P, old, new
      <4>2. Painted(m, F, P, new)
        BY <4>1, PaintSame
      <4> QED
        BY <4>2 DEF new
    <3>4. mi' \in Nat \ {0}
      BY <2>1, <3>1
    <3> QED
      BY <1>4, <1>6, <3>1, <3>2, <3>3, <3>4
  <2>3. CASE MM!AgregateDone
    <3>1. k_mem_map' = k_mem_map /\ stage' = "low"
      BY <1>6, <2>3 DEF agregate, MM!AgregateDone
    <3> QED
      BY <1>3, <1>4, <2>1, <3>1
  <2> QED
    BY <1>6, <2>2, <2>3 DEF agregate
<1> QED
  BY <1>1, <1>5, <1>6

\* Behind the definitions the map's paint stays as it is.
LEMMA MapLater ==
    ASSUME MapInv, stage \notin Early, machine' = machine, loop' = loop, j' \in Nat \ {0},
           stage' \in Stages \ Early, pass' \in 0 .. 2, i' \in Nat \ {0},
           stage' \in {"map", "bitmaps"} => pass' = 1,
           stage' = "low" => pass' <= 1,
           stage' \in Enabled => pass' >= 1,
           \A a \in Nat : \/ MMP!TypeIn(k_mem_map', a) = MMP!TypeIn(k_mem_map, a)
                          \/ /\ MMP!TypeIn(k_mem_map', a) \in Ours
                             /\ MMP!TypeIn(k_mem_map, a) \in Ours
    PROVE  MapInv'
<1> DEFINE m == machine
           F == DOMAIN m.firmware
           P == DOMAIN PiecesOf(m)
           old == k_mem_map
           new == k_mem_map'
<1>1. m \in Machines /\ loop \in 1 .. 6 /\ Painted(m, F, P, old)
  BY DEF MapInv, FirmwareBy, PiecesBy, Early
<1>2. \A a \in Nat : \/ MMP!TypeIn(new, a) = MMP!TypeIn(old, a)
                     \/ MMP!TypeIn(new, a) \in Ours /\ MMP!TypeIn(old, a) \in Ours
  OBVIOUS
<1>3. Painted(m, F, P, new)
  <2> HIDE DEF m, F, P, old, new
  <2> QED
    BY <1>1, <1>2, PaintSame
<1>4. Painted(machine', FirmwareBy(machine', stage', loop', j'), PiecesBy(machine', stage', j'),
              k_mem_map')
  BY <1>3 DEF FirmwareBy, PiecesBy, Early
<1> HIDE DEF m, F, P, old, new
<1> QED
  BY <1>1, <1>4 DEF MapInv, Early, m

\* The allocators keep what they kept, of the same map.
LEMMA CallPallocInv ==
    ASSUME BootInv, call_palloc_init
    PROVE  BootInv'
<1>1. /\ k_mem_map' = k_mem_map /\ live' = live /\ pass' = pass + 1 /\ i' = 1
      /\ machine' = machine /\ stage' = stage /\ loop' = loop /\ j' = j
      /\ \/ stage = "low" /\ pass = 0
         \/ stage = "high" /\ pass = 1
      /\ buddy' = IF pass = 0 THEN [k \in DOMAIN k_mem_map |-> NoBuddy] ELSE buddy
  BY DEF call_palloc_init, palloc_init
<1>2. j \in Nat \ {0} /\ stage \in Stages /\ stage \notin Early
  BY <1>1 DEF BootInv, MapInv, Early
<1>3. MapInv'
  BY <1>1, <1>2, MapLater DEF BootInv, Enabled
<1>4. DOMAIN buddy' = DOMAIN k_mem_map
  BY <1>1 DEF BootInv, KeptInv
<1>5. AllocInv(k_mem_map, buddy', live)
  <2>1. CASE pass = 0
    <3> DEFINE m == k_mem_map
               bs == buddy'
    <3>1. MMP!Table(m) /\ Act(m) = {} /\ live = {}
      BY <2>1 DEF BootInv, KeptInv, AllocInv
    <3> HIDE DEF m, bs
    <3>2. AllocInv(m, bs, {})
      BY <3>1, NothingYet
    <3> QED
      BY <3>1, <3>2 DEF m, bs
  <2>2. CASE pass # 0
    BY <1>1, <2>2 DEF BootInv, KeptInv
  <2> QED
    BY <2>1, <2>2
<1>6. KeptInv'
  BY <1>1, <1>4, <1>5 DEF KeptInv
<1> QED
  BY <1>3, <1>6 DEF BootInv

LEMMA InitEntryInv ==
    ASSUME BootInv, init_entry
    PROVE  BootInv'
<1>1. PICK t : InitEntry(t)
  BY DEF init_entry
<1>2. /\ pass > 0 /\ i' = i + 1 /\ pass' = pass
      /\ machine' = machine /\ stage' = stage /\ loop' = loop /\ j' = j
  BY <1>1 DEF init_entry, InitEntry, InCall
<1>3. /\ AllocInv(k_mem_map, buddy, live) /\ DOMAIN buddy = DOMAIN k_mem_map /\ i \in Nat \ {0}
      /\ pass \in 0 .. 2 /\ stage \in Stages \ Early
  BY <1>2 DEF BootInv, MapInv, KeptInv, Early
<1>4. /\ i \in DOMAIN k_mem_map /\ Takes(k_mem_map[i], max_addr)
      /\ Retyped(k_mem_map, k_mem_map', i)
      /\ AllocInv(k_mem_map', buddy', live') /\ DOMAIN buddy' = DOMAIN k_mem_map'
  BY <1>1, <1>3, InitEntryStep
<1>5. KeptInv'
  BY <1>2, <1>3, <1>4 DEF KeptInv
<1>6. \A a \in Nat : \/ MMP!TypeIn(k_mem_map', a) = MMP!TypeIn(k_mem_map, a)
                     \/ MMP!TypeIn(k_mem_map', a) \in Ours /\ MMP!TypeIn(k_mem_map, a) \in Ours
  <2> DEFINE m == k_mem_map
             n == k_mem_map'
             r == i
  <2>1. /\ MMP!Table(m) /\ MMP!Table(n) /\ r \in DOMAIN m /\ m[r].type = Free /\ Retyped(m, n, r)
    BY <1>3, <1>4 DEF AllocInv, Takes
  <2> HIDE DEF m, n, r
  <2>2. \A a \in Nat : \/ MMP!TypeIn(n, a) = MMP!TypeIn(m, a)
                       \/ MMP!TypeIn(n, a) \in Ours /\ MMP!TypeIn(m, a) \in Ours
    BY <2>1, RetypedFacts
  <2> QED
    BY <2>2 DEF m, n
<1>7. MapInv'
  <2>1. /\ stage' \in Stages \ Early /\ j' \in Nat \ {0} /\ i' \in Nat \ {0}
        /\ stage' \in {"map", "bitmaps"} => pass' = 1
        /\ stage' = "low" => pass' <= 1
        /\ stage' \in Enabled => pass' >= 1
    BY <1>2, <1>3 DEF BootInv, MapInv
  <2> QED
    BY <1>2, <1>3, <1>6, <2>1, MapLater DEF BootInv
<1> QED
  BY <1>5, <1>7 DEF BootInv

\* Mapping pages takes page tables.
LEMMA MapNowKept ==
    ASSUME BootInv, pass > 0, NEW pages, MapNow(pages)
    PROVE  /\ KeptInv' /\ k_mem_map' = k_mem_map /\ machine' = machine
           /\ pass' = pass /\ i' = i
           /\ mapped' = mapped \cup pages
<1>1. PICK n : TakeTables(n, {})
  BY DEF MapNow
<1>2. AllocInv(k_mem_map, buddy', live') /\ DOMAIN buddy' = DOMAIN buddy
  BY <1>1, TakeStep DEF BootInv, KeptInv
<1>3. /\ k_mem_map' = k_mem_map /\ machine' = machine /\ pass' = pass /\ i' = i
      /\ mapped' = mapped \cup pages
  BY DEF MapNow, paging_map
<1>4. KeptInv'
  BY <1>2, <1>3 DEF BootInv, KeptInv
<1> QED
  BY <1>3, <1>4

LEMMA MappingInv ==
    ASSUME BootInv, map_entry \/ map_screen \/ palloc_map_buddies
    PROVE  BootInv'
<1>1. /\ stage \in {"map", "bitmaps"}
      /\ loop' = loop /\ j' \in {j, j + 1} /\ stage' \in {"map", "bitmaps", "high"}
      /\ \E pages : MapNow(pages)
  BY DEF map_entry, map_screen, palloc_map_buddies
<1>2. pass = 1 /\ i \in Nat \ {0} /\ j \in Nat \ {0}
  BY <1>1 DEF BootInv, MapInv
<1>3. /\ KeptInv' /\ k_mem_map' = k_mem_map /\ machine' = machine /\ pass' = pass /\ i' = i
  BY <1>1, <1>2, MapNowKept
<1>4. MapInv'
  <2>1. /\ stage \notin Early /\ stage' \in Stages \ Early /\ j' \in Nat \ {0}
    BY <1>1, <1>2 DEF Early, Stages, Enabled
  <2> QED
    BY <1>1, <1>2, <1>3, <2>1, MapLater DEF BootInv, Enabled
<1> QED
  BY <1>3, <1>4 DEF BootInv

LEMMA OtherInv ==
    ASSUME BootInv, skip_entry \/ paging_init \/ kernel_runs
    PROVE  BootInv'
<1>1. /\ k_mem_map' = k_mem_map /\ buddy' = buddy /\ live' = live /\ pass' = pass
      /\ machine' = machine /\ loop' = loop /\ j' \in {j, 1} /\ i' \in {i, i + 1}
      /\ pass # 0
      /\ \/ stage' = stage
         \/ stage = "low" /\ stage' = "map" /\ pass = 1
         \/ stage = "high" /\ stage' = "run" /\ pass = 2
  BY DEF skip_entry, SkipEntry, InCall, paging_init, kernel_runs, pallocVars
<1>2. stage \in Stages \ Early /\ i \in Nat \ {0} /\ j \in Nat \ {0} /\ pass \in 0 .. 2
  BY <1>1 DEF BootInv, MapInv
<1>3. KeptInv'
  BY <1>1 DEF BootInv, KeptInv
<1>4. MapInv'
  <2>1. /\ stage \notin Early /\ stage' \in Stages \ Early /\ j' \in Nat \ {0} /\ i' \in Nat \ {0}
        /\ stage' \in {"map", "bitmaps"} => pass' = 1
        /\ stage' = "low" => pass' <= 1
        /\ stage' \in Enabled => pass' >= 1
    BY <1>1, <1>2 DEF BootInv, MapInv, Early, Stages, Enabled
  <2> QED
    BY <1>1, <1>2, <2>1, MapLater DEF BootInv
<1> QED
  BY <1>3, <1>4 DEF BootInv

LEMMA LaterInv ==
    ASSUME BootInv, Later
    PROVE  BootInv'
<1>1. /\ stage = "run" /\ stage' = stage /\ machine' = machine /\ loop' = loop /\ j' = j
      /\ k_mem_map' = k_mem_map /\ pass' = pass /\ i' = i
  BY DEF Later, Alloc, FreePages
<1>2. AllocInv(k_mem_map, buddy, live)
  BY DEF BootInv, KeptInv
<1>3. AllocInv(k_mem_map, buddy', live') /\ DOMAIN buddy' = DOMAIN buddy
  <2>1. ASSUME NEW n \in Counts, Alloc(n)
        PROVE  AllocInv(k_mem_map, buddy', live') /\ DOMAIN buddy' = DOMAIN buddy
    <3>1. n \in Nat \ {0}
      BY PallocAssumption
    <3> QED
      BY <1>2, <2>1, <3>1, AllocStep
  <2>2. ASSUME NEW a \in Lent, FreePages(a)
        PROVE  AllocInv(k_mem_map, buddy', live') /\ DOMAIN buddy' = DOMAIN buddy
    <3>1. a \in live
      BY DEF Lent
    <3> QED
      BY <1>2, <2>2, <3>1, FreeStep
  <2> QED
    BY <2>1, <2>2 DEF Later
<1>4. pass \in 1 .. 2
  BY <1>1 DEF BootInv, MapInv, Enabled
<1>5. KeptInv'
  BY <1>1, <1>3, <1>4 DEF BootInv, KeptInv
<1>6. MapInv'
  BY <1>1 DEF BootInv, MapInv
<1> QED
  BY <1>5, <1>6 DEF BootInv

\* What the code keeps as long as no definition swallows an entry.
LEMMA BootInvariance == Spec /\ []SwallowsNone => []BootInv
<1>1. Init => BootInv
  BY InitInv
<1>2. BootInv /\ SwallowsNone /\ [Next]_bootVars => BootInv'
  <2> SUFFICES ASSUME BootInv, SwallowsNone, [Next]_bootVars PROVE BootInv'
    OBVIOUS
  <2>1. CASE kmain
    BY <2>1, DefineFirmwareInv, NextLoopInv, DefinePieceInv, AgregateInv, CallPallocInv,
       InitEntryInv, MappingInv, OtherInv DEF kmain
  <2>2. CASE Later
    BY <2>2, LaterInv
  <2>3. CASE UNCHANGED bootVars
    BY <2>3 DEF bootVars, pallocVars, BootInv, MapInv, KeptInv
  <2> QED
    BY <2>1, <2>2, <2>3 DEF Next
<1> QED
  BY <1>1, <1>2, PTL DEF Spec
-----------------------------------------------------------------------------
(* The page allocator's properties *)

\* Allocations of one region that share no page share no byte.
LEMMA ApartInOne ==
    ASSUME NEW e, Entry(e), NEW b, Serves(b, e), NEW a, In(a, b), NEW o, In(o, b),
           PagesOf(a, b) \cap PagesOf(o, b) = {}
    PROVE  LastByte(a) < o.addr \/ LastByte(o) < a.addr
<1> DEFINE p == IdxOf(a, b)
           q == IdxOf(o, b)
           n == a.count
           l == o.count
<1>1. /\ p \in Nat /\ q \in Nat /\ n \in Nat \ {0} /\ l \in Nat \ {0}
      /\ Run(p, n) \cap Run(q, l) = {}
      /\ a.addr = b.data + p * PageBytes /\ o.addr = b.data + q * PageBytes
  BY DEF In, PagesOf
<1>2. /\ LastByte(a) = b.data + (p + n) * PageBytes - 1
      /\ LastByte(o) = b.data + (q + l) * PageBytes - 1
  BY InFacts
<1>3. b.data \in Nat /\ PageBytes \in Nat \ {0}
  BY ServesFacts, PallocAssumption
<1> HIDE DEF p, q, n, l
<1>4. p + n <= q \/ q + l <= p
  <2> SUFFICES ASSUME q < p + n, p < q + l PROVE FALSE
    BY <1>1
  <2>1. CASE p <= q
    <3>1. q \in Run(p, n) /\ q \in Run(q, l)
      BY <1>1, <2>1 DEF Run
    <3> QED
      BY <1>1, <3>1
  <2>2. CASE q <= p
    <3>1. p \in Run(p, n) /\ p \in Run(q, l)
      BY <1>1, <2>2 DEF Run
    <3> QED
      BY <1>1, <3>1
  <2> QED
    BY <1>1, <2>1, <2>2
<1>5. CASE p + n <= q
  <2> DEFINE x == (p + n) * PageBytes
             y == q * PageBytes
  <2>1. x \in Nat /\ y \in Nat /\ x <= y
    BY <1>1, <1>3, <1>5, ProductMonotonic
  <2>2. LastByte(a) = b.data + x - 1 /\ o.addr = b.data + y
    BY <1>1, <1>2
  <2> HIDE DEF x, y
  <2> QED
    BY <1>3, <2>1, <2>2
<1>6. CASE q + l <= p
  <2> DEFINE x == (q + l) * PageBytes
             y == p * PageBytes
  <2>1. x \in Nat /\ y \in Nat /\ x <= y
    BY <1>1, <1>3, <1>6, ProductMonotonic
  <2>2. LastByte(o) = b.data + x - 1 /\ a.addr = b.data + y
    BY <1>1, <1>2
  <2> HIDE DEF x, y
  <2> QED
    BY <1>3, <2>1, <2>2
<1> QED
  BY <1>4, <1>5, <1>6

\* An allocation of the region holds a page's first byte when it has the page.
LEMMA HoldsPage ==
    ASSUME NEW e, Entry(e), NEW b, Serves(b, e), NEW a, In(a, b), NEW p \in Nat
    PROVE  LET at == b.data + p * PageBytes
           IN  p \in PagesOf(a, b) <=> a.addr <= at /\ at <= LastByte(a)
<1> DEFINE q == IdxOf(a, b)
           n == a.count
<1>1. q \in Nat /\ n \in Nat \ {0} /\ a.addr = b.data + q * PageBytes /\ PagesOf(a, b) = Run(q, n)
  BY DEF In, PagesOf
<1>2. LastByte(a) = b.data + (q + n) * PageBytes - 1
  BY InFacts
<1>3. b.data \in Nat /\ PageBytes \in Nat \ {0}
  BY ServesFacts, PallocAssumption
<1> HIDE DEF q, n
<1> DEFINE x == q * PageBytes
           y == p * PageBytes
           z == (q + n) * PageBytes
<1>4. x \in Nat /\ y \in Nat /\ z \in Nat
  BY <1>1, <1>3
<1>5. q <= p <=> x <= y
  <2>1. q <= p => x <= y
    BY <1>1, <1>3, ProductMonotonic
  <2>2. p < q => y < x
    <3> SUFFICES ASSUME p < q PROVE y < x
      OBVIOUS
    <3>1. p + 1 <= q /\ p + 1 \in Nat
      BY <1>1
    <3>2. (p + 1) * PageBytes <= x
      BY <1>1, <1>3, <3>1, ProductMonotonic
    <3>3. (p + 1) * PageBytes = y + PageBytes
      BY <1>3
    <3> HIDE DEF x, y
    <3> QED
      BY <1>3, <1>4, <3>2, <3>3
  <2> HIDE DEF x, y
  <2> QED
    BY <1>1, <1>4, <2>1, <2>2
<1>6. p < q + n <=> y < z
  <2>1. q + n <= p => z <= y
    BY <1>1, <1>3, ProductMonotonic
  <2>2. p < q + n => y < z
    <3> SUFFICES ASSUME p < q + n PROVE y < z
      OBVIOUS
    <3>1. p + 1 <= q + n /\ p + 1 \in Nat /\ q + n \in Nat
      BY <1>1
    <3>2. (p + 1) * PageBytes <= z
      BY <1>1, <1>3, <3>1, ProductMonotonic
    <3>3. (p + 1) * PageBytes = y + PageBytes
      BY <1>3
    <3> HIDE DEF z, y
    <3> QED
      BY <1>3, <1>4, <3>2, <3>3
  <2> HIDE DEF z, y
  <2> QED
    BY <1>1, <1>4, <2>1, <2>2
<1>7. p \in PagesOf(a, b) <=> q <= p /\ p < q + n
  BY <1>1 DEF Run
<1>8. /\ a.addr <= b.data + y <=> x <= y
      /\ b.data + y <= LastByte(a) <=> y < z
  <2>1. a.addr = b.data + x /\ LastByte(a) = b.data + z - 1
    BY <1>1, <1>2
  <2> HIDE DEF x, y, z
  <2> QED
    BY <1>3, <1>4, <2>1
<1> QED
  BY <1>5, <1>6, <1>7, <1>8

LEMMA DisjointOfInv ==
    ASSUME AllocInv(k_mem_map, buddy, live)
    PROVE  AllocationsDisjoint
<1> DEFINE m == k_mem_map
<1>1. /\ MMP!Table(m) /\ Act(m) \subseteq DOMAIN buddy
      /\ \A k \in Act(m) : Serves(buddy[k], m[k])
      /\ Granted(m, buddy, live)
  BY DEF AllocInv
<1>2. Active = Act(m)
  BY DEF Active, Act
<1>3. \A k \in Act(m) : Entry(m[k]) /\ k \in DOMAIN m
  BY <1>1, MapFacts DEF Act
<1>4. ASSUME NEW a \in live
      PROVE  \E k \in Act(m) : In(a, buddy[k])
  BY <1>1 DEF Granted
<1>5. ASSUME NEW a \in live
      PROVE  /\ a.addr % PageBytes = 0
             /\ \E k \in Act(m) : buddy[k].data <= a.addr /\ LastByte(a) < EndOf(m[k])
  <2>1. PICK k \in Act(m) : In(a, buddy[k])
    BY <1>4
  <2>2. Entry(m[k]) /\ Serves(buddy[k], m[k])
    BY <1>1, <1>3
  <2>3. a.addr % PageBytes = 0 /\ buddy[k].data <= a.addr /\ LastByte(a) < EndOf(m[k])
    BY <2>1, <2>2, InFacts
  <2> QED
    BY <2>3
<1>6. ASSUME NEW a \in live, NEW o \in live, a # o
      PROVE  LastByte(a) < o.addr \/ LastByte(o) < a.addr
  <2>1. PICK k \in Act(m) : In(a, buddy[k])
    BY <1>4
  <2>2. PICK l \in Act(m) : In(o, buddy[l])
    BY <1>4
  <2>3. CASE k = l
    <3>1. PagesOf(a, buddy[k]) \cap PagesOf(o, buddy[k]) = {}
      BY <1>1, <1>6, <2>1, <2>2, <2>3 DEF Granted
    <3>2. Entry(m[k]) /\ Serves(buddy[k], m[k])
      BY <1>1, <1>3
    <3> QED
      BY <2>1, <2>2, <2>3, <3>1, <3>2, ApartInOne
  <2>4. CASE k # l
    BY <1>1, <2>1, <2>2, <2>4, OneRegion
  <2> QED
    BY <2>3, <2>4
<1>7. ASSUME NEW k \in Act(m), NEW p \in 0 .. buddy[k].count - 1
      PROVE  p \in buddy[k].used <=>
                \E a \in live : LET at == buddy[k].data + p * PageBytes
                                IN  a.addr <= at /\ at <= LastByte(a)
  <2> DEFINE at == buddy[k].data + p * PageBytes
  <2>1. /\ buddy[k].data \in Nat /\ buddy[k].count \in Nat \ {0} /\ p \in Nat
        /\ Serves(buddy[k], m[k]) /\ Entry(m[k])
    BY <1>1, <1>3, ServesFacts
  <2>2. p \in buddy[k].used <=> \E a \in live : In(a, buddy[k]) /\ p \in PagesOf(a, buddy[k])
    BY <1>1, <2>1 DEF Granted
  <2>3. \A a : In(a, buddy[k]) => (p \in PagesOf(a, buddy[k]) <=> a.addr <= at /\ at <= LastByte(a))
    BY <2>1, HoldsPage
  \* The page as an allocation of its own, to tell its region from others.
  <2>4. ASSUME NEW a \in live, a.addr <= at, at <= LastByte(a) PROVE In(a, buddy[k])
    <3> DEFINE x == [addr |-> at, count |-> 1]
    <3>1. PICK l \in Act(m) : In(a, buddy[l])
      BY <1>4
    <3>2. x.addr = buddy[k].data + p * PageBytes /\ x.count = 1
      OBVIOUS
    <3>3. p + 1 <= buddy[k].count
      BY <2>1
    <3> HIDE DEF x
    <3>4. In(x, buddy[k])
      BY <2>1, <3>2, <3>3, InAt
    <3>5. at \in Nat /\ LastByte(x) \in Nat /\ x.addr = at /\ at <= LastByte(x)
      BY <2>1, <3>2, <3>4, InFacts
    <3>6. a.addr \in Nat /\ a.addr % PageBytes = 0 /\ LastByte(a) \in Nat
      BY <1>1, <1>3, <3>1, InFacts
    <3> SUFFICES ASSUME k # l PROVE FALSE
      BY <3>1
    <3>7. LastByte(a) < x.addr \/ LastByte(x) < a.addr
      BY <1>1, <3>1, <3>4, OneRegion
    <3> HIDE DEF at
    <3> QED
      BY <2>4, <3>5, <3>6, <3>7
  <2> QED
    BY <2>2, <2>3, <2>4
<1> QED
  BY <1>2, <1>5, <1>6, <1>7 DEF AllocationsDisjoint

LEMMA BitmapsOfInv ==
    ASSUME AllocInv(k_mem_map, buddy, live)
    PROVE  BitmapsFit
<1>1. \A k \in Act(k_mem_map) : Entry(k_mem_map[k]) /\ Serves(buddy[k], k_mem_map[k])
  BY MapFacts DEF AllocInv, Act
<1>2. Active = Act(k_mem_map)
  BY DEF Active, Act
<1>3. ASSUME NEW k \in Active
      PROVE  /\ k_mem_map[k].base <= first_page(k_mem_map[k])
             /\ first_page(k_mem_map[k]) + buddy_get_size(buddy[k].count) <= buddy[k].data
             /\ buddy[k].data + buddy[k].count * PageBytes <= EndOf(k_mem_map[k])
  BY <1>1, <1>2, ServesFacts
<1> QED
  BY <1>3 DEF BitmapsFit

\* Every allocation is whole pages of one region behind its bitmaps, no two
\* overlap, and the allocators know which pages are in use, for every machine
\* whose regions' page counts have exact buddy allocators, every size of pages
\* and number of orders.  (The model's allocators are exact whatever the count;
\* the code's are only while TailsFit, so the theorem is about no other machine.)
THEOREM PagesDisjoint == Spec /\ []SwallowsNone /\ []TailsFit => []AllocationsDisjoint
<1>1. BootInv => AllocationsDisjoint
  BY DisjointOfInv DEF BootInv, KeptInv
<1> QED
  BY <1>1, BootInvariance, PTL

\* The bitmaps of a region lie in it and end before the pages that are handed out.
THEOREM BitmapsBeforePages == Spec /\ []SwallowsNone => []BitmapsFit
<1>1. BootInv => BitmapsFit
  BY BitmapsOfInv DEF BootInv, KeptInv
<1> QED
  BY <1>1, BootInvariance, PTL
-----------------------------------------------------------------------------
(* What the firmware and the loader said *)

\* The model's own words for what is claimed.
LEMMA ClaimsFacts ==
    ASSUME machine \in Machines, NEW a \in Nat
    PROVE  /\ ClaimedAt(a) = {"usable"} <=> Claimed(machine, DOMAIN machine.firmware, a)
           /\ InPieces(a) <=> Pieced(machine, DOMAIN PiecesOf(machine), a)
<1>1. \A e : MM!Holds(e, a) <=> MMP!Holds(e, a)
  BY SameTable
<1> DEFINE fw == machine.firmware
<1>2. ClaimedAt(a) = {fw[k].type : k \in {o \in DOMAIN fw : MMP!Holds(fw[o], a)}}
  BY <1>1 DEF ClaimedAt
<1> HIDE DEF fw
<1>3. ClaimedAt(a) = {"usable"} <=> /\ \E k \in DOMAIN fw : MMP!Holds(fw[k], a)
                                    /\ \A k \in DOMAIN fw : MMP!Holds(fw[k], a) => fw[k].type = "usable"
  BY <1>2
<1>4. ClaimedAt(a) = {"usable"} <=> Claimed(machine, DOMAIN machine.firmware, a)
  BY <1>3 DEF Claimed, fw
<1>5. InPieces(a) <=> Pieced(machine, DOMAIN PiecesOf(machine), a)
  BY <1>1 DEF InPieces, Pieces, Pieced
<1> QED
  BY <1>4, <1>5

LEMMA StricterOfInv ==
    ASSUME BootInv
    PROVE  StricterWins
<1> SUFFICES ASSUME stage = "low", pass = 0, NEW a \in 0 .. Top - 1
             PROVE  MM!TypeAt(a) = Free <=> ClaimedAt(a) = {"usable"} /\ ~InPieces(a)
  BY DEF StricterWins
<1>1. machine \in Machines /\ a \in Nat
  BY BootMapAssumption DEF BootInv, MapInv
<1>2. MMP!TypeIn(k_mem_map, a) \in Ours <=>
         /\ Claimed(machine, DOMAIN machine.firmware, a)
         /\ ~Pieced(machine, DOMAIN PiecesOf(machine), a)
  BY <1>1 DEF BootInv, MapInv, Painted, FirmwareBy, PiecesBy
<1>3. Act(k_mem_map) = {} /\ MMP!Table(k_mem_map)
  BY DEF BootInv, KeptInv, AllocInv
<1>4. MMP!TypeIn(k_mem_map, a) # Allocatable
  BY <1>1, <1>3, TypesFacts
<1>5. MM!TypeAt(a) = MMP!TypeIn(k_mem_map, a)
  BY <1>1, SameAgregate, MapAssumptions, MMP!PaintFacts
<1> QED
  BY <1>1, <1>2, <1>4, <1>5, ClaimsFacts DEF Ours

\* Then every piece that is loaded lies in areas that are defined.
LEMMA LoadedFacts ==
    ASSUME machine \in Machines, InfoCovered(machine),
           NEW q \in Loaded \cup {piece(0, BiosEnd), Ebda}
    PROVE  /\ q.base \in Nat /\ q.size \in Nat \ {0}
           /\ \A a \in Nat : q.base <= a /\ a < EndOf(q) =>
                 Pieced(machine, DOMAIN PiecesOf(machine), a)
<1> DEFINE m == machine
           b == InfoOf(m)
           n == Len(m.firmware)
           p6 == piece(b.cmdline.base, b.kernel.size)
           p7 == piece(b.mmap.base, n * InfoBytes)
<1>1. /\ m.kernel_size \in Nat \ {0} /\ m.initrd_size \in Nat \ {0} /\ m.cmdlen \in Nat
      /\ n \in Nat \ {0}
  BY FirmwareFacts, BootMapAssumption
<1>2. /\ KernelBase \in Nat /\ LoaderBase \in Nat /\ LoaderSize \in Nat \ {0}
      /\ BiosEnd \in Nat \ {0} /\ Ebda \in [base : Nat, size : Nat \ {0}]
      /\ EntryBytes \in Nat \ {0} /\ InfoBytes \in Nat \ {0}
  BY BootMapAssumption, BootInfoAssumption
<1> HIDE DEF n
<1>3. n * EntryBytes \in Nat \ {0} /\ n * InfoBytes \in Nat
  BY <1>1, <1>2
<1> DEFINE x == n * EntryBytes
           y == n * InfoBytes
<1>4. /\ b.kernel.base = KernelBase /\ b.kernel.size = m.kernel_size
      /\ b.initrd.base = KernelBase + m.kernel_size /\ b.initrd.size = m.initrd_size
      /\ b.cmdline.base = KernelBase + m.kernel_size + m.initrd_size
      /\ b.cmdline.size = m.cmdlen + 1
      /\ b.mmap.base = b.cmdline.base + b.cmdline.size /\ b.mmap.size = x
      /\ b.binfo.base = b.mmap.base + x /\ b.binfo.size = InfoBytes
  BY <1>1, <1>2 DEF InfoOf, Placed, piece, EndOf, n
<1>5. b.cmdline.size <= b.kernel.size /\ b.binfo.base + b.binfo.size <= b.mmap.base + y
  BY DEF InfoCovered, EndOf, n
<1>6. PiecesOf(m) = << region(piece(0, BiosEnd), "bios"), region(Ebda, "bios"),
                       region(loader, "software"), region(b.kernel, "software"),
                       region(b.initrd, "software"), region(p6, "software"),
                       region(p7, "software") >>
  BY DEF PiecesOf, n
<1> HIDE DEF b, x, y, m
<1>7. /\ p6.base = b.cmdline.base /\ p6.size = b.kernel.size /\ p7.base = b.mmap.base /\ p7.size = y
      /\ loader.base = LoaderBase /\ loader.size = LoaderSize
      /\ piece(0, BiosEnd).base = 0 /\ piece(0, BiosEnd).size = BiosEnd
  BY DEF piece, loader, y
<1> HIDE DEF p6, p7
<1>8. /\ DOMAIN PiecesOf(m) = 1 .. 7
      /\ PiecesOf(m)[1] = region(piece(0, BiosEnd), "bios") /\ PiecesOf(m)[2] = region(Ebda, "bios")
      /\ PiecesOf(m)[3] = region(loader, "software") /\ PiecesOf(m)[4] = region(b.kernel, "software")
      /\ PiecesOf(m)[5] = region(b.initrd, "software") /\ PiecesOf(m)[6] = region(p6, "software")
      /\ PiecesOf(m)[7] = region(p7, "software")
  BY <1>6
<1>9. \A p, t, a : MMP!Holds(region(p, t), a) <=> p.base <= a /\ a < p.base + p.size
  BY DEF region, MMP!Holds, MMP!End
<1>10. \A p \in {piece(0, BiosEnd), Ebda, loader, b.kernel, b.initrd, p6, p7} : \A a \in Nat :
          p.base <= a /\ a < p.base + p.size => Pieced(m, DOMAIN PiecesOf(m), a)
  BY <1>8, <1>9 DEF Pieced
<1>11. q \in {piece(0, BiosEnd), Ebda, loader, b.kernel, b.initrd, b.cmdline, b.mmap, b.binfo}
  BY DEF Loaded, binfo, b, m
<1>12. CASE q \in {piece(0, BiosEnd), Ebda, loader, b.kernel, b.initrd}
  <2>1. q.base \in Nat /\ q.size \in Nat \ {0}
    BY <1>1, <1>2, <1>4, <1>7, <1>12
  <2> QED
    BY <1>10, <1>12, <2>1 DEF EndOf, m
<1>13. CASE q = b.cmdline
  <2>1. q.base \in Nat /\ q.size \in Nat \ {0} /\ b.kernel.size \in Nat
    BY <1>1, <1>2, <1>4, <1>13
  <2>2. \A a \in Nat : q.base <= a /\ a < q.base + q.size => p6.base <= a /\ a < p6.base + p6.size
    BY <1>5, <1>7, <1>13, <2>1
  <2> QED
    BY <1>10, <2>1, <2>2 DEF EndOf, m
<1>14. CASE q \in {b.mmap, b.binfo}
  <2>1. q.base \in Nat /\ q.size \in Nat \ {0} /\ b.mmap.base \in Nat /\ x \in Nat /\ y \in Nat
        /\ InfoBytes \in Nat
    BY <1>1, <1>2, <1>3, <1>4, <1>14 DEF x, y
  <2>2. \A a \in Nat : q.base <= a /\ a < q.base + q.size => p7.base <= a /\ a < p7.base + p7.size
    BY <1>4, <1>5, <1>7, <1>14, <2>1
  <2> QED
    BY <1>10, <2>1, <2>2 DEF EndOf, m
<1> QED
  BY <1>11, <1>12, <1>13, <1>14

\* The pages and the bitmaps of the allocators lie where memory is free.
LEMMA OursFacts ==
    ASSUME BootInv, NEW p \in AllocatorPages \cup Bitmaps
    PROVE  /\ p.base \in Nat /\ p.size \in Nat \ {0}
           /\ \A a \in Nat : p.base <= a /\ a < EndOf(p) =>
                 /\ Claimed(machine, DOMAIN machine.firmware, a)
                 /\ ~Pieced(machine, DOMAIN PiecesOf(machine), a)
<1> DEFINE m == k_mem_map
<1>1. /\ MMP!Table(m) /\ \A k \in Act(m) : Serves(buddy[k], m[k])
      /\ Granted(m, buddy, live)
  BY DEF BootInv, KeptInv, AllocInv
<1>2. Active = Act(m) /\ PageBytes \in Nat \ {0}
  BY PallocAssumption DEF Active, Act
<1>3. \A k \in Act(m) : /\ k \in DOMAIN m /\ Entry(m[k])
                        /\ m[k].base \in Nat /\ EndOf(m[k]) \in Nat
  BY <1>1, MapFacts, PagesFacts DEF Act, Entry
<1>4. \E k \in Act(m) : /\ p.base \in Nat /\ p.size \in Nat \ {0}
                        /\ m[k].base <= p.base /\ EndOf(p) <= EndOf(m[k])
  <2>1. CASE p \in AllocatorPages
    <3>1. PICK a \in live : p = piece(a.addr, a.count * PageBytes)
      BY <2>1 DEF AllocatorPages
    <3>2. PICK k \in Act(m) : In(a, buddy[k])
      BY <1>1 DEF Granted
    <3>3. /\ a.addr \in Nat /\ LastByte(a) \in Nat /\ a.addr <= LastByte(a)
          /\ buddy[k].data <= a.addr /\ LastByte(a) < EndOf(m[k])
      BY <1>1, <1>3, <3>2, InFacts
    <3>4. m[k].base < buddy[k].data /\ buddy[k].data \in Nat
      BY <1>1, <1>3, ServesFacts
    <3>5. a.count \in Nat
      BY <3>2 DEF In
    <3> DEFINE x == a.count * PageBytes
    <3>6. x \in Nat
      BY <1>2, <3>5
    <3>7. p.base = a.addr /\ p.size = x /\ EndOf(p) = a.addr + x /\ LastByte(a) = a.addr + x - 1
      BY <3>1 DEF piece, EndOf, LastByte
    <3> HIDE DEF x
    <3> QED
      BY <1>3, <3>3, <3>4, <3>6, <3>7
  <2>2. CASE p \in Bitmaps
    <3>1. PICK k \in Act(m) : p = piece(first_page(m[k]), bud_page_count(m[k]) * PageBytes)
      BY <1>2, <2>2 DEF Bitmaps
    <3> DEFINE e == m[k]
               b == buddy[k]
               x == bud_page_count(e) * PageBytes
               y == b.count * PageBytes
    <3>2. Serves(b, e) /\ Entry(e)
      BY <1>1, <1>3
    <3>3. p.base = first_page(e) /\ p.size = x /\ EndOf(p) = first_page(e) + x
      BY <3>1 DEF piece, EndOf
    <3> HIDE DEF e, b
    <3>4. /\ b.data \in Nat /\ b.count \in Nat \ {0} /\ e.base <= first_page(e)
          /\ b.data = first_page(e) + x /\ b.data + y <= EndOf(e)
      BY <3>2, ServesFacts
    <3>5. first_page(e) \in Nat /\ first_page(e) < b.data /\ EndOf(e) \in Nat
      <4>1. first_page(e) + buddy_get_size(b.count) <= b.data /\ buddy_get_size(b.count) \in Nat \ {0}
        BY <3>2, <3>4, ServesFacts, SizeFacts
      <4>2. first_page(e) \in Nat /\ EndOf(e) \in Nat
        BY <3>2, PagesFacts
      <4> QED
        BY <3>4, <4>1, <4>2
    <3>6. y \in Nat
      BY <1>2, <3>4
    <3>7. bud_page_count(e) * PageBytes \in Int
      BY <3>2, BitmapLength
    <3> HIDE DEF x, y
    <3>8. /\ p.base \in Nat /\ p.size \in Nat \ {0} /\ e.base <= p.base /\ EndOf(p) <= EndOf(e)
      BY <3>3, <3>4, <3>5, <3>6, <3>7 DEF x
    <3> QED
      BY <3>8 DEF e
  <2> QED
    BY <2>1, <2>2
<1>5. PICK k \in Act(m) : /\ p.base \in Nat /\ p.size \in Nat \ {0}
                          /\ m[k].base <= p.base /\ EndOf(p) <= EndOf(m[k])
  BY <1>4
<1>6. EndOf(p) \in Nat
  BY <1>5 DEF EndOf
<1>7. pass # 0 /\ stage \notin Early
  BY DEF BootInv, MapInv, KeptInv
<1>8. ASSUME NEW a \in Nat, p.base <= a, a < EndOf(p)
      PROVE  /\ Claimed(machine, DOMAIN machine.firmware, a)
             /\ ~Pieced(machine, DOMAIN PiecesOf(machine), a)
  <2>1. MMP!Holds(m[k], a)
    <3>1. m[k].base <= a /\ a < EndOf(m[k])
      BY <1>3, <1>5, <1>6, <1>8
    <3> QED
      BY <3>1 DEF MMP!Holds, MMP!End, EndOf
  <2>2. MMP!TypeIn(m, a) = Allocatable
    <3>1. MMP!TypeIn(m, a) = m[k].type
      BY <1>1, <1>3, <2>1, TypesFacts
    <3> QED
      BY <3>1 DEF Act
  <2>3. MMP!TypeIn(m, a) \in Ours
    BY <2>2 DEF Ours
  <2> QED
    BY <1>7, <2>3 DEF BootInv, MapInv, Painted, FirmwareBy, PiecesBy, Early
<1> QED
  BY <1>5, <1>8

\* Areas that overlap have an address in common.
LEMMA OverlapFacts ==
    ASSUME NEW p, p.base \in Nat, p.size \in Nat \ {0},
           NEW q, q.base \in Nat, q.size \in Nat \ {0}, Overlap(p, q)
    PROVE  \E a \in Nat : p.base <= a /\ a < EndOf(p) /\ q.base <= a /\ a < EndOf(q)
<1>1. p.base < EndOf(q) /\ q.base < EndOf(p) /\ p.base < EndOf(p) /\ q.base < EndOf(q)
  BY DEF Overlap, EndOf
<1>2. CASE p.base <= q.base
  BY <1>1, <1>2
<1>3. CASE q.base <= p.base
  BY <1>1, <1>3
<1> QED
  BY <1>2, <1>3

LEMMA KeptOfInv ==
    ASSUME BootInv, InfoCovered(machine)
    PROVE  LoadedKept
<1> SUFFICES ASSUME NEW p \in AllocatorPages \cup Bitmaps,
                    NEW q \in Loaded \cup Unusable \cup {piece(0, BiosEnd), Ebda},
                    Overlap(p, q)
             PROVE  FALSE
  BY DEF LoadedKept
<1>1. machine \in Machines
  BY DEF BootInv, MapInv
<1>2. /\ p.base \in Nat /\ p.size \in Nat \ {0}
      /\ \A a \in Nat : p.base <= a /\ a < EndOf(p) =>
            /\ Claimed(machine, DOMAIN machine.firmware, a)
            /\ ~Pieced(machine, DOMAIN PiecesOf(machine), a)
  BY OursFacts
<1>3. CASE q \in Loaded \cup {piece(0, BiosEnd), Ebda}
  <2>1. /\ q.base \in Nat /\ q.size \in Nat \ {0}
        /\ \A a \in Nat : q.base <= a /\ a < EndOf(q) =>
              Pieced(machine, DOMAIN PiecesOf(machine), a)
    BY <1>1, <1>3, LoadedFacts
  <2>2. \E a \in Nat : p.base <= a /\ a < EndOf(p) /\ q.base <= a /\ a < EndOf(q)
    BY <1>2, <2>1, OverlapFacts
  <2> QED
    BY <1>2, <2>1, <2>2
<1>4. CASE q \in Unusable
  <2>1. PICK k \in DOMAIN machine.firmware :
           q = machine.firmware[k] /\ q.type # "usable" /\ q.size > 0
    BY <1>4 DEF Unusable
  <2>2. q.base \in Nat /\ q.size \in Nat \ {0}
    BY <1>1, <2>1, FirmwareFacts
  <2>3. PICK a \in Nat : p.base <= a /\ a < EndOf(p) /\ q.base <= a /\ a < EndOf(q)
    BY <1>2, <2>2, OverlapFacts
  <2>4. MMP!Holds(machine.firmware[k], a) /\ Claimed(machine, DOMAIN machine.firmware, a)
    BY <1>2, <2>1, <2>3 DEF MMP!Holds, MMP!End, EndOf
  <2> QED
    BY <2>1, <2>4 DEF Claimed
<1> QED
  BY <1>3, <1>4

\* The firmware's strictest entry decides what memory is free, whatever the order
\* and the overlaps of its entries, and the pieces that are loaded go before.
THEOREM StrictestDecides == Spec /\ []SwallowsNone => []StricterWins
<1>1. BootInv => StricterWins
  BY StricterOfInv
<1> QED
  BY <1>1, BootInvariance, PTL

\* Nothing that is loaded, no memory of the BIOS and none that the firmware does
\* not call usable is handed out or written over with a bitmap.
THEOREM LoadedNeverTaken ==
    ASSUME \A m \in Machines : InfoCovered(m)
    PROVE  Spec /\ []SwallowsNone /\ []TailsFit => []LoadedKept
<1>1. BootInv => LoadedKept
  BY KeptOfInv DEF BootInv, MapInv
<1> QED
  BY <1>1, BootInvariance, PTL
-----------------------------------------------------------------------------
(* What is mapped *)

\* What is mapped by now, and what lies in what the loader has mapped.
MappedInv ==
    /\ stage = "map" => \A k \in DOMAIN k_mem_map :
          k < j /\ k_mem_map[k].type \in Soft =>
             area(k_mem_map[k].base, k_mem_map[k].size) \subseteq mapped
    /\ stage \in Enabled \cup {"bitmaps"} =>
          /\ \A k \in DOMAIN k_mem_map : k_mem_map[k].type \in Soft =>
                area(k_mem_map[k].base, k_mem_map[k].size) \subseteq mapped
          /\ area(Screen.base, ScreenPages * PageBytes) \subseteq mapped
    /\ stage \in Enabled => \A k \in Act(k_mem_map) : BitmapPages(k_mem_map[k]) \subseteq mapped
    /\ stage \notin Enabled =>
          /\ \A k \in Act(k_mem_map) :
                first_page(k_mem_map[k]) + bud_page_count(k_mem_map[k]) * PageBytes - 1 <= FirstMax
          /\ \A f \in frames : f \in Nat /\ f + PageBytes - 1 <= FirstMax
    /\ stage = "run" => i > Len(k_mem_map)

\* The free pages are finitely many.
LEMMA FreeFacts ==
    ASSUME AllocInv(k_mem_map, buddy, live)
    PROVE  FreeAddresses \subseteq Nat /\ IsFiniteSet(FreeAddresses)
<1> DEFINE m == k_mem_map
<1>1. /\ MMP!Table(m) /\ \A k \in Act(m) : Serves(buddy[k], m[k])
  BY DEF AllocInv
<1>2. Active = Act(m) /\ PageBytes \in Nat \ {0} /\ Top \in Nat
  BY PallocAssumption, BootMapAssumption DEF Active, Act
<1>3. ASSUME NEW k \in Act(m), NEW p \in Places(buddy[k], 1)
      PROVE  buddy[k].data + p * PageBytes \in Nat /\ buddy[k].data + p * PageBytes <= Top
  <2> DEFINE b == buddy[k]
             e == m[k]
  <2>1. Serves(b, e) /\ Entry(e) /\ EndOf(e) <= Top /\ EndOf(e) \in Nat
    BY <1>1, MapFacts, PagesFacts DEF Act
  <2> HIDE DEF b, e
  <2>2. b.data \in Nat /\ b.count \in Nat \ {0} /\ b.data + b.count * PageBytes <= EndOf(e)
    BY <2>1, ServesFacts
  <2>3. p \in Nat /\ p <= b.count
    BY <1>3, <2>2 DEF Places, b
  <2>4. p * PageBytes \in Nat /\ b.count * PageBytes \in Nat /\ p * PageBytes <= b.count * PageBytes
    BY <1>2, <2>2, <2>3, ProductMonotonic
  <2> DEFINE x == p * PageBytes
             y == b.count * PageBytes
  <2>5. x \in Nat /\ y \in Nat /\ x <= y /\ b.data + y <= EndOf(e)
    BY <2>2, <2>4
  <2> HIDE DEF x, y
  <2>6. b.data + x \in Nat /\ b.data + x <= Top
    BY <1>2, <2>1, <2>2, <2>5
  <2> QED
    BY <2>6 DEF b, x
<1>4. \A a \in FreeAddresses : a \in Nat /\ a <= Top
  BY <1>2, <1>3 DEF FreeAddresses
<1> QED
  BY <1>2, <1>4, FS_BoundedSetOfNaturals

\* The first free pages are mapped by the loader when enough are.
LEMMA FirstFreeFacts ==
    ASSUME AllocInv(k_mem_map, buddy, live), NEW n \in Nat,
           n <= Cardinality({a \in FreeAddresses : a + PageBytes - 1 <= FirstMax})
    PROVE  \A a \in FirstFree(n) : a \in Nat /\ a + PageBytes - 1 <= FirstMax
<1> DEFINE L == {a \in FreeAddresses : a + PageBytes - 1 <= FirstMax}
<1>1. FreeAddresses \subseteq Nat /\ IsFiniteSet(FreeAddresses)
  BY FreeFacts
<1>2. PageBytes \in Nat /\ FirstMax \in Nat
  BY PallocAssumption
<1> SUFFICES ASSUME NEW a \in FirstFree(n), ~(a + PageBytes - 1 <= FirstMax)
             PROVE  FALSE
  BY <1>1 DEF FirstFree
<1> DEFINE B == {b \in FreeAddresses : b < a}
<1>3. a \in FreeAddresses /\ Cardinality(B) < n
  BY DEF FirstFree
<1>4. L \subseteq B
  <2> SUFFICES ASSUME NEW b \in FreeAddresses, b + PageBytes - 1 <= FirstMax PROVE b < a
    OBVIOUS
  <2>1. a \in Nat /\ b \in Nat
    BY <1>1, <1>3
  <2> QED
    BY <1>2, <2>1
<1>5. IsFiniteSet(B) /\ B \subseteq FreeAddresses
  BY <1>1, FS_Subset
<1> HIDE DEF L, B
<1>6. Cardinality(L) <= Cardinality(B)
  BY <1>4, <1>5, FS_Subset
<1>7. Cardinality(B) \in Nat /\ Cardinality(L) \in Nat
  BY <1>4, <1>5, FS_Subset, FS_CardinalityType
<1> QED
  BY <1>3, <1>6, <1>7 DEF L

\* No tables are no pages.
LEMMA NoneTaken ==
    ASSUME AllocInv(k_mem_map, buddy, live), NEW regions, TakeTables(0, regions)
    PROVE  frames' = frames
<1>1. FreeAddresses \subseteq Nat /\ IsFiniteSet(FreeAddresses)
  BY FreeFacts
<1>2. ASSUME NEW a \in FirstFree(0) PROVE FALSE
  <2> DEFINE B == {b \in FreeAddresses : b < a}
  <2>1. Cardinality(B) < 0
    BY DEF FirstFree
  <2>2. IsFiniteSet(B)
    BY <1>1, FS_Subset
  <2> HIDE DEF B
  <2>3. Cardinality(B) \in Nat
    BY <2>2, FS_CardinalityType
  <2> QED
    BY <2>1, <2>3
<1>3. FirstFree(0) = {}
  BY <1>2
<1> QED
  BY <1>3 DEF TakeTables

\* The layout of a region does not depend on its type.
LEMMA SameLayout ==
    ASSUME NEW e, NEW f, e.base = f.base, e.size = f.size
    PROVE  /\ first_page(e) = first_page(f) /\ bud_page_count(e) = bud_page_count(f)
           /\ BitmapPages(e) = BitmapPages(f)
<1>1. first_page(e) = first_page(f) /\ EndOf(e) = EndOf(f)
  BY DEF first_page, EndOf
<1>2. page_count(e) = page_count(f)
  BY <1>1 DEF page_count
<1>3. bud_page_count(e) = bud_page_count(f)
  BY <1>2 DEF bud_page_count
<1> QED
  BY <1>1, <1>3 DEF BitmapPages

LEMMA TakenCount ==
    ASSUME AllocInv(k_mem_map, buddy, live), NEW n, NEW regions, TakeTables(n, regions)
    PROVE  n \in Nat
<1>1. FirstFree(n) \subseteq FreeAddresses /\ Cardinality(FirstFree(n)) = n
  BY DEF FirstFree, TakeTables
<1>2. IsFiniteSet(FirstFree(n))
  BY <1>1, FreeFacts, FS_Subset
<1> QED
  BY <1>1, <1>2, FS_CardinalityType

\* Before there is paging, kmain maps from stage to stage.
LEMMA MappedByMapping ==
    ASSUME BootInv, MappedInv, LowRoom, map_entry \/ map_screen \/ palloc_map_buddies
    PROVE  MappedInv'
<1> DEFINE m == k_mem_map
           L == {a \in FreeAddresses : a + PageBytes - 1 <= FirstMax}
<1>1. stage \in {"map", "bitmaps"} /\ MapNow(ToMap)
  <2>1. CASE map_entry
    <3>1. /\ stage = "map" /\ j <= Len(k_mem_map)
          /\ MapNow(IF k_mem_map[j].type \in Soft THEN area(k_mem_map[j].base, k_mem_map[j].size)
                    ELSE {})
      BY <2>1 DEF map_entry, Soft
    <3>2. j \in Nat /\ Len(k_mem_map) \in Nat
      BY MapFacts DEF BootInv, MapInv, KeptInv, AllocInv
    <3>3. ~(j > Len(k_mem_map))
      BY <3>1, <3>2
    <3> QED
      BY <3>1, <3>3 DEF ToMap
  <2>2. CASE map_screen
    <3>1. j > Len(k_mem_map) /\ stage = "map" /\ MapNow(area(Screen.base, ScreenPages * PageBytes))
      BY <2>2 DEF map_screen
    <3> QED
      BY <3>1 DEF ToMap
  <2>3. CASE palloc_map_buddies
    BY <2>3 DEF palloc_map_buddies, ToMap
  <2> QED
    BY <2>1, <2>2, <2>3
<1>2. pass = 1 /\ AllocInv(m, buddy, live) /\ stage \notin Enabled
  BY <1>1 DEF BootInv, MapInv, KeptInv, Enabled
<1>3. /\ m' = m /\ mapped' = mapped \cup ToMap
  BY <1>1 DEF MapNow, paging_map
<1>4. \A f \in frames' : f \in Nat /\ f + PageBytes - 1 <= FirstMax
  <2>1. PICK n \in {Missing(ToMap)} : TakeTables(n, {})
    BY <1>1 DEF MapNow
  <2>2. n \in Nat
    BY <1>2, <2>1, TakenCount
  <2>3. n <= Cardinality(L)
    BY <1>1, <2>1 DEF LowRoom
  <2>4. \A a \in FirstFree(n) : a \in Nat /\ a + PageBytes - 1 <= FirstMax
    BY <1>2, <2>2, <2>3, FirstFreeFacts
  <2>5. frames' = frames \cup FirstFree(n)
    BY <2>1 DEF TakeTables
  <2>6. \A f \in frames : f \in Nat /\ f + PageBytes - 1 <= FirstMax
    BY <1>2 DEF MappedInv
  <2> QED
    BY <2>4, <2>5, <2>6
<1>5. \A k \in Act(m) : first_page(m[k]) + bud_page_count(m[k]) * PageBytes - 1 <= FirstMax
  BY <1>2 DEF MappedInv
<1>6. CASE map_entry
  <2>1. stage = "map" /\ stage' = "map" /\ j <= Len(m) /\ j' = j + 1
    BY <1>6 DEF map_entry
  <2>2. j \in Nat \ {0} /\ DOMAIN m = 1 .. Len(m) /\ Len(m) \in Nat
    BY <1>2, MapFacts DEF BootInv, MapInv, AllocInv
  <2>3. ToMap = IF m[j].type \in Soft THEN area(m[j].base, m[j].size) ELSE {}
    BY <2>1, <2>2 DEF ToMap
  <2>4. ASSUME NEW k \in DOMAIN m, k < j + 1, m[k].type \in Soft
        PROVE  area(m[k].base, m[k].size) \subseteq mapped'
    <3>1. CASE k < j
      BY <1>3, <2>1, <2>4, <3>1 DEF MappedInv
    <3>2. CASE k = j
      BY <1>3, <2>3, <2>4, <3>2
    <3> QED
      BY <2>2, <2>4, <3>1, <3>2
  <2> QED
    BY <1>3, <1>4, <1>5, <2>1, <2>4 DEF MappedInv, Enabled
<1>7. CASE map_screen
  <2>1. stage = "map" /\ stage' = "bitmaps" /\ j > Len(m)
    BY <1>7 DEF map_screen
  <2>2. j \in Nat \ {0} /\ DOMAIN m = 1 .. Len(m) /\ Len(m) \in Nat
    BY <1>2, MapFacts DEF BootInv, MapInv, AllocInv
  <2>3. \A k \in DOMAIN m : k < j
    BY <2>1, <2>2
  <2>4. area(Screen.base, ScreenPages * PageBytes) \subseteq mapped'
    BY <1>3, <2>1 DEF ToMap
  <2>5. \A k \in DOMAIN m : m[k].type \in Soft => area(m[k].base, m[k].size) \subseteq mapped'
    BY <1>3, <2>1, <2>3 DEF MappedInv
  <2> QED
    BY <1>3, <1>4, <1>5, <2>1, <2>4, <2>5 DEF MappedInv, Enabled
<1>8. CASE palloc_map_buddies
  <2>1. stage = "bitmaps" /\ stage' = "high"
    BY <1>8 DEF palloc_map_buddies
  <2>2. ToMap = UNION {BitmapPages(m[k]) : k \in Act(m)}
    BY <2>1 DEF ToMap, Active, Act
  <2>3. \A k \in Act(m) : BitmapPages(m[k]) \subseteq mapped'
    BY <1>3, <2>2
  <2>4. /\ \A k \in DOMAIN m : m[k].type \in Soft => area(m[k].base, m[k].size) \subseteq mapped'
        /\ area(Screen.base, ScreenPages * PageBytes) \subseteq mapped'
    BY <1>3, <2>1 DEF MappedInv
  <2> QED
    BY <1>3, <2>1, <2>3, <2>4 DEF MappedInv, Enabled
<1> QED
  BY <1>6, <1>7, <1>8

\* palloc_init stays in what the loader has mapped, and maps what it writes behind it.
LEMMA MappedByInit ==
    ASSUME BootInv, MappedInv, init_entry
    PROVE  MappedInv'
<1> DEFINE m == k_mem_map
           new == k_mem_map'
           pages == IF stage = "high" THEN BitmapPages(m[i]) ELSE {}
<1>1. /\ InitEntry(Missing(pages)) /\ paging_map(pages)
      /\ stage' = stage /\ j' = j
  BY DEF init_entry
<1>2. /\ pass > 0 /\ i \in Nat \ {0} /\ InCall /\ stage \in Stages
      /\ AllocInv(m, buddy, live) /\ DOMAIN buddy = DOMAIN m
  BY <1>1 DEF InitEntry, InCall, BootInv, MapInv, KeptInv
<1>3. /\ i \in DOMAIN m /\ Takes(m[i], max_addr) /\ Retyped(m, new, i)
      /\ DOMAIN new = DOMAIN m /\ Act(new) = Act(m) \cup {i}
      /\ AllocInv(new, buddy', live')
  BY <1>1, <1>2, InitEntryStep
<1>4. /\ new[i].type = Allocatable
      /\ \A k \in DOMAIN m : /\ new[k].base = m[k].base /\ new[k].size = m[k].size
                             /\ k # i => new[k].type = m[k].type
  <2> DEFINE r == i
  <2>1. /\ MMP!Table(m) /\ MMP!Table(new) /\ r \in DOMAIN m /\ m[r].type = Free
        /\ Retyped(m, new, r)
    BY <1>2, <1>3 DEF AllocInv, Takes
  <2> HIDE DEF m, new, r
  <2>2. /\ new[r].type = Allocatable
        /\ \A k \in DOMAIN m : /\ new[k].base = m[k].base /\ new[k].size = m[k].size
                               /\ k # r => new[k].type = m[k].type
    BY <2>1, RetypedFacts
  <2> QED
    BY <2>2 DEF r
<1>5. \A k \in DOMAIN m : new[k].type \in Soft => m[k].type \in Soft
  BY <1>4 DEF Soft, Allocatable
<1>6. \A k \in DOMAIN m : /\ first_page(new[k]) = first_page(m[k])
                          /\ bud_page_count(new[k]) = bud_page_count(m[k])
                          /\ BitmapPages(new[k]) = BitmapPages(m[k])
  <2> SUFFICES ASSUME NEW k \in DOMAIN m
               PROVE  /\ first_page(new[k]) = first_page(m[k])
                      /\ bud_page_count(new[k]) = bud_page_count(m[k])
                      /\ BitmapPages(new[k]) = BitmapPages(m[k])
    OBVIOUS
  <2> DEFINE e == new[k]
             f == m[k]
  <2>1. e.base = f.base /\ e.size = f.size
    BY <1>4
  <2> HIDE DEF e, f
  <2>2. first_page(e) = first_page(f) /\ bud_page_count(e) = bud_page_count(f)
        /\ BitmapPages(e) = BitmapPages(f)
    BY <2>1, SameLayout
  <2> QED
    BY <2>2 DEF e, f
<1>7. Act(m) \subseteq DOMAIN m
  BY DEF Act
<1>8. mapped' = mapped \cup pages
  BY <1>1 DEF paging_map
<1>9. \A k \in DOMAIN new : new[k].type \in Soft /\ area(m[k].base, m[k].size) \subseteq mapped
         => area(new[k].base, new[k].size) \subseteq mapped'
  BY <1>3, <1>4, <1>8
<1>10. CASE stage \in Enabled
  <2>1. stage = "high"
    BY <1>2, <1>10 DEF MappedInv, InCall, Enabled
  <2>2. \A k \in Act(new) : BitmapPages(new[k]) \subseteq mapped'
    BY <1>3, <1>6, <1>7, <1>8, <2>1 DEF MappedInv, Enabled
  <2>3. \A k \in DOMAIN new : new[k].type \in Soft => area(new[k].base, new[k].size) \subseteq mapped'
    BY <1>3, <1>5, <1>9, <1>10 DEF MappedInv
  <2>4. area(Screen.base, ScreenPages * PageBytes) \subseteq mapped'
    BY <1>8, <1>10 DEF MappedInv
  <2> HIDE DEF m, new
  <2> QED
    BY <1>1, <2>1, <2>2, <2>3, <2>4 DEF MappedInv, Enabled, new
<1>11. CASE stage \notin Enabled
  <2>1. pass = 1 /\ max_addr = FirstMax /\ stage # "high"
    BY <1>2, <1>11 DEF BootInv, MapInv, Enabled, Stages, Early, max_addr
  <2>2. \A k \in Act(new) : first_page(new[k]) + bud_page_count(new[k]) * PageBytes - 1 <= FirstMax
    <3>1. first_page(m[i]) + bud_page_count(m[i]) * PageBytes - 1 <= FirstMax
      BY <1>3, <2>1 DEF Takes
    <3>2. \A k \in Act(m) : first_page(m[k]) + bud_page_count(m[k]) * PageBytes - 1 <= FirstMax
      BY <1>11 DEF MappedInv
    <3> QED
      BY <1>3, <1>6, <1>7, <3>1, <3>2
  <2>3. frames' = frames
    <3>1. TablesFor(pages) = {}
      BY <2>1 DEF TablesFor
    <3>2. Missing(pages) = 0
      <4>1. TablesFor(pages) \ tables = {}
        BY <3>1
      <4> HIDE DEF pages
      <4> QED
        BY <4>1, FS_EmptySet DEF Missing
    <3>3. TakeTables(0, {i})
      BY <1>1, <3>2 DEF InitEntry
    <3> QED
      BY <1>2, <3>3, NoneTaken
  <2>4. \A f \in frames' : f \in Nat /\ f + PageBytes - 1 <= FirstMax
    BY <1>11, <2>3 DEF MappedInv
  <2>5. stage = "map" => \A k \in DOMAIN new : k < j /\ new[k].type \in Soft =>
                            area(new[k].base, new[k].size) \subseteq mapped'
    BY <1>3, <1>5, <1>9 DEF MappedInv
  <2>6. stage = "bitmaps" =>
           /\ \A k \in DOMAIN new : new[k].type \in Soft =>
                 area(new[k].base, new[k].size) \subseteq mapped'
           /\ area(Screen.base, ScreenPages * PageBytes) \subseteq mapped'
    BY <1>3, <1>5, <1>8, <1>9 DEF MappedInv
  <2> HIDE DEF m, new
  <2> QED
    BY <1>1, <1>11, <2>2, <2>4, <2>5, <2>6 DEF MappedInv, Enabled, new
<1> QED
  BY <1>10, <1>11

\* Nothing else maps, unmaps or allocates tables.
LEMMA MappedByOthers ==
    ASSUME BootInv, BootInv', MappedInv,
           \/ define_firmware \/ next_loop \/ define_piece \/ agregate
           \/ call_palloc_init \/ skip_entry \/ paging_init \/ kernel_runs \/ Later
    PROVE  MappedInv'
<1>1. CASE define_firmware \/ next_loop \/ define_piece \/ agregate
  <2>1. /\ stage' \notin Enabled \cup {"map", "bitmaps"} /\ stage \notin Enabled
        /\ frames' = frames
    BY <1>1 DEF define_firmware, next_loop, define_piece, agregate, restOfPalloc, pallocVars, Enabled
  <2>2. Act(k_mem_map') = {}
    <3>1. CASE pass' = 0
      BY <3>1 DEF BootInv, KeptInv
    <3>2. pass' = 0
      <4>1. pass' = pass /\ stage \in Early
        BY <1>1 DEF define_firmware, next_loop, define_piece, agregate, restOfPalloc, pallocVars, Early
      <4> QED
        BY <4>1 DEF BootInv, MapInv
    <3> QED
      BY <3>1, <3>2
  <2> QED
    BY <2>1, <2>2 DEF MappedInv, Enabled
<1>2. CASE call_palloc_init \/ skip_entry \/ paging_init \/ kernel_runs \/ Later
  <2>1. k_mem_map' = k_mem_map /\ frames' = frames /\ mapped' = mapped
    BY <1>2 DEF call_palloc_init, palloc_init, skip_entry, SkipEntry, paging_init, kernel_runs,
       Later, Alloc, FreePages, pallocVars, tableVars
  <2>2. CASE call_palloc_init
    <3>1. stage' = stage /\ j' = j /\ stage # "run"
      BY <2>2 DEF call_palloc_init
    <3> QED
      BY <2>1, <3>1 DEF MappedInv
  <2>3. CASE skip_entry
    <3>1. stage' = stage /\ j' = j /\ InCall
      BY <2>3 DEF skip_entry, SkipEntry
    <3>2. stage # "run"
      <4>1. i \in Nat /\ Len(k_mem_map) \in Nat
        BY MapFacts DEF BootInv, MapInv, KeptInv, AllocInv
      <4> QED
        BY <3>1, <4>1 DEF MappedInv, InCall
    <3> QED
      BY <2>1, <3>1, <3>2 DEF MappedInv
  <2>4. CASE paging_init
    <3>1. stage' = "map" /\ j' = 1 /\ stage = "low"
      BY <2>4 DEF paging_init
    <3>2. DOMAIN k_mem_map = 1 .. Len(k_mem_map)
      BY MapFacts DEF BootInv, KeptInv, AllocInv
    <3>3. \A k \in DOMAIN k_mem_map : ~(k < 1)
      BY <3>2
    <3> QED
      BY <2>1, <3>1, <3>3 DEF MappedInv, Enabled
  <2>5. CASE kernel_runs
    <3>1. stage' = "run" /\ stage = "high" /\ i' = i /\ pass = 2 /\ ~InCall
      BY <2>5 DEF kernel_runs, pallocVars
    <3>2. i > Len(k_mem_map)
      <4>1. i \in Nat /\ Len(k_mem_map) \in Nat
        BY MapFacts DEF BootInv, MapInv, KeptInv, AllocInv
      <4> QED
        BY <3>1, <4>1 DEF InCall
    <3> QED
      BY <2>1, <3>1, <3>2 DEF MappedInv, Enabled
  <2>6. CASE Later
    <3>1. stage' = stage /\ i' = i /\ j' = j
      BY <2>6 DEF Later, Alloc, FreePages
    <3> QED
      BY <2>1, <3>1 DEF MappedInv
  <2> QED
    BY <1>2, <2>2, <2>3, <2>4, <2>5, <2>6
<1> QED
  BY <1>1, <1>2

LEMMA MappedInvariance == Spec /\ []SwallowsNone /\ []LowRoom => []MappedInv
<1>1. Init => MappedInv
  <2> SUFFICES ASSUME Init PROVE MappedInv
    OBVIOUS
  <2>1. stage = "firmware" /\ frames = {} /\ k_mem_map = <<>>
    BY DEF Init, PallocInit
  <2>2. Act(k_mem_map) = {}
    BY <2>1 DEF Act
  <2> QED
    BY <2>1, <2>2 DEF MappedInv, Enabled
<1>2. BootInv /\ BootInv' /\ MappedInv /\ LowRoom /\ [Next]_bootVars => MappedInv'
  <2> SUFFICES ASSUME BootInv, BootInv', MappedInv, LowRoom, [Next]_bootVars PROVE MappedInv'
    OBVIOUS
  <2>1. CASE kmain
    BY <2>1, MappedByMapping, MappedByInit, MappedByOthers DEF kmain
  <2>2. CASE Later
    BY <2>2, MappedByOthers
  <2>3. CASE UNCHANGED bootVars
    BY <2>3 DEF bootVars, pallocVars, MappedInv
  <2> QED
    BY <2>1, <2>2, <2>3 DEF Next
<1> QED
  BY <1>1, <1>2, BootInvariance, PTL DEF Spec

\* The page of some address of an area.
LEMMA AreaFacts ==
    ASSUME NEW b \in Nat, NEW s \in Nat \ {0}
    PROVE  /\ \A p \in area(b, s) : \E a \in Nat : b <= a /\ a < b + s /\ a \div PageBytes = p
           /\ \A a \in Nat : b <= a /\ a < b + s => a \div PageBytes \in area(b, s)
<1>1. PageBytes \in Nat \ {0} /\ b + s - 1 \in Nat
  BY PallocAssumption
<1> DEFINE l == b + s - 1
<1>2. /\ b \div PageBytes \in Nat /\ l \div PageBytes \in Nat
      /\ l \in Nat /\ \A a \in Nat : a < b + s <=> a <= l
  BY <1>1, Quotient
<1>3. area(b, s) = b \div PageBytes .. l \div PageBytes
  BY DEF area
<1> HIDE DEF l
<1>4. ASSUME NEW a \in Nat, b <= a, a <= l
      PROVE  a \div PageBytes \in b \div PageBytes .. l \div PageBytes
  <2>1. a \div PageBytes \in Nat
    BY <1>1, Quotient
  <2>2. b \div PageBytes <= a \div PageBytes
    BY <1>1, <1>4, QuotientMonotonic
  <2>3. a \div PageBytes <= l \div PageBytes
    BY <1>1, <1>2, <1>4, QuotientMonotonic
  <2> DEFINE x == a \div PageBytes
             y == b \div PageBytes
             z == l \div PageBytes
  <2> HIDE DEF x, y, z
  <2>4. x \in Nat /\ y \in Nat /\ z \in Nat /\ y <= x /\ x <= z
    BY <1>2, <2>1, <2>2, <2>3 DEF x, y, z
  <2>5. x \in y .. z
    BY <2>4
  <2> QED
    BY <2>5 DEF x, y, z
<1>5. ASSUME NEW p \in b \div PageBytes .. l \div PageBytes
      PROVE  \E a \in Nat : b <= a /\ a <= l /\ a \div PageBytes = p
  <2> DEFINE x == p * PageBytes
             q == l \div PageBytes
             o == b \div PageBytes
  <2>1. p \in Nat /\ o <= p /\ p <= q /\ q \in Nat /\ o \in Nat
    BY <1>2
  <2>2. x \in Nat /\ x \div PageBytes = p
    BY <1>1, <2>1, MultipleOf
  <2>3. x <= l
    <3>1. q * PageBytes <= l
      BY <1>1, <1>2, Quotient
    <3>2. x <= q * PageBytes /\ q * PageBytes \in Nat
      BY <1>1, <2>1, ProductMonotonic
    <3> HIDE DEF x, q
    <3> QED
      BY <1>2, <2>2, <3>1, <3>2
  <2>4. CASE b <= x
    BY <2>2, <2>3, <2>4
  <2>5. CASE ~(b <= x)
    <3>1. x <= b
      BY <2>2, <2>5
    <3>2. x \div PageBytes <= b \div PageBytes
      <4> HIDE DEF x
      <4> QED
        BY <1>1, <2>2, <3>1, QuotientMonotonic
    <3>3. p <= o
      BY <2>2, <3>2
    <3>4. o = p
      <4> HIDE DEF o
      <4> QED
        BY <2>1, <3>3
    <3>5. b <= b /\ b <= l
      BY <1>2, <2>2, <2>3, <2>5
    <3> QED
      BY <3>4, <3>5
  <2> QED
    BY <2>4, <2>5
<1> QED
  BY <1>2, <1>3, <1>4, <1>5

LEMMA UsedOfInv ==
    ASSUME BootInv, MappedInv, InfoCovered(machine), Screen.size <= ScreenPages * PageBytes
    PROVE  UsedIsMapped
<1> DEFINE m == k_mem_map
<1>1. machine \in Machines /\ stage \in Stages
      /\ MMP!Table(m) /\ \A k \in Act(m) : Serves(buddy[k], m[k])
  BY DEF BootInv, MapInv, KeptInv, AllocInv
<1>2. Active = Act(m) /\ PageBytes \in Nat \ {0} /\ FirstMax \in Nat
  BY PallocAssumption DEF Active, Act
<1>3. ASSUME stage \in Enabled, NEW q \in Loaded PROVE area(q.base, q.size) \subseteq mapped
  <2>1. /\ q.base \in Nat /\ q.size \in Nat \ {0}
        /\ \A a \in Nat : q.base <= a /\ a < q.base + q.size =>
              Pieced(machine, DOMAIN PiecesOf(machine), a)
    BY <1>1, <1>3, LoadedFacts DEF EndOf
  <2> SUFFICES ASSUME NEW p \in area(q.base, q.size) PROVE p \in mapped
    OBVIOUS
  <2>2. PICK a \in Nat : q.base <= a /\ a < q.base + q.size /\ a \div PageBytes = p
    BY <2>1, AreaFacts
  <2>3. Pieced(machine, DOMAIN PiecesOf(machine), a)
    BY <2>1, <2>2
  <2>4. stage # "firmware" /\ stage # "pieces"
    BY <1>3 DEF Enabled
  <2>5. MMP!TypeIn(m, a) \in Soft
    BY <2>3, <2>4 DEF BootInv, MapInv, Painted, PiecesBy, FirmwareBy, Soft
  <2>6. PICK k \in DOMAIN m : MMP!Holds(m[k], a) /\ m[k].type \in Soft
    <3>1. "none" \notin Soft
      BY DEF Soft
    <3>2. \E k \in DOMAIN m : MMP!Holds(m[k], a)
      BY <1>1, <2>5, <3>1, TypesFacts
    <3> QED
      BY <1>1, <2>5, <3>2, TypesFacts
  <2>7. area(m[k].base, m[k].size) \subseteq mapped
    BY <1>3, <2>6 DEF MappedInv
  <2>8. m[k].base \in Nat /\ m[k].size \in Nat \ {0}
    BY <1>1, MapFacts DEF Entry
  <2>9. m[k].base <= a /\ a < m[k].base + m[k].size
    BY <2>6 DEF MMP!Holds, MMP!End
  <2>10. a \div PageBytes \in area(m[k].base, m[k].size)
    BY <2>8, <2>9, AreaFacts
  <2> QED
    BY <2>2, <2>7, <2>10
<1>4. ASSUME stage \in Enabled, NEW q \in Bitmaps PROVE area(q.base, q.size) \subseteq mapped
  <2>1. PICK k \in Act(m) : q = piece(first_page(m[k]), bud_page_count(m[k]) * PageBytes)
    BY <1>2 DEF Bitmaps
  <2>2. area(q.base, q.size) = BitmapPages(m[k])
    BY <2>1 DEF piece, BitmapPages
  <2> QED
    BY <1>4, <2>2 DEF MappedInv
<1>5. ASSUME stage \in Enabled PROVE area(Screen.base, Screen.size) \subseteq mapped
  <2> DEFINE n == ScreenPages * PageBytes
  <2>1. Screen.base \in Nat /\ Screen.size \in Nat \ {0} /\ ScreenPages \in Nat
    BY BootMapAssumption
  <2>2. n \in Nat
    BY <1>2, <2>1
  <2>3. area(Screen.base, n) \subseteq mapped
    BY <1>5 DEF MappedInv
  <2>4. Screen.size <= n
    OBVIOUS
  <2> HIDE DEF n
  <2>5. n \in Nat \ {0}
    BY <2>1, <2>2, <2>4
  <2>6. ASSUME NEW p \in area(Screen.base, Screen.size) PROVE p \in area(Screen.base, n)
    <3>1. PICK a \in Nat : /\ Screen.base <= a /\ a < Screen.base + Screen.size
                           /\ a \div PageBytes = p
      BY <2>1, <2>6, AreaFacts
    <3>2. a < Screen.base + n
      BY <2>1, <2>4, <2>5, <3>1
    <3> QED
      BY <2>1, <2>5, <3>1, <3>2, AreaFacts
  <2> QED
    BY <2>3, <2>6
<1>6. CASE stage \in Enabled
  BY <1>3, <1>4, <1>5, <1>6 DEF UsedIsMapped, Enabled
<1>7. CASE stage \notin Enabled
  <2>1. \A k \in Act(m) :
           EndOf(piece(first_page(m[k]), bud_page_count(m[k]) * PageBytes)) - 1 <= FirstMax
    <3>1. \A x, y : EndOf(piece(x, y)) = x + y
      BY DEF piece, EndOf
    <3>2. \A k \in Act(m) : first_page(m[k]) + bud_page_count(m[k]) * PageBytes - 1 <= FirstMax
      BY <1>7 DEF MappedInv
    <3> QED
      <4> SUFFICES ASSUME NEW k \in Act(m)
                   PROVE  EndOf(piece(first_page(m[k]), bud_page_count(m[k]) * PageBytes)) - 1 <= FirstMax
        OBVIOUS
      <4> DEFINE x == first_page(m[k])
                 y == bud_page_count(m[k]) * PageBytes
                 t == EndOf(piece(first_page(m[k]), bud_page_count(m[k]) * PageBytes))
      <4>1. Entry(m[k])
        BY <1>1, MapFacts DEF Act
      <4>2. x \in Nat /\ y \in Nat
        BY <1>1, <4>1, PagesFacts, BitmapLength
      <4>3. x + y - 1 <= FirstMax
        BY ONLY <3>2, k \in Act(m)
      <4>4. t = x + y
        BY <3>1
      <4> HIDE DEF x, y, t
      <4>5. t - 1 <= FirstMax
        BY <1>2, <4>2, <4>3, <4>4
      <4> QED
        BY <4>5 DEF t
  <2>2. \A q \in Bitmaps : EndOf(q) - 1 <= FirstMax
    BY <1>2, <2>1 DEF Bitmaps
  <2>3. \A f \in frames : EndOf(piece(f, PageBytes)) - 1 <= FirstMax
    <3>1. \A x, y : EndOf(piece(x, y)) = x + y
      BY DEF piece, EndOf
    <3>2. \A f \in frames : f \in Nat /\ f + PageBytes - 1 <= FirstMax
      BY <1>7 DEF MappedInv
    <3> QED
      <4> SUFFICES ASSUME NEW f \in frames PROVE EndOf(piece(f, PageBytes)) - 1 <= FirstMax
        OBVIOUS
      <4> DEFINE z == f + PageBytes
                 t == EndOf(piece(f, PageBytes))
      <4>1. t = z
        BY <3>1
      <4>2. z \in Nat /\ z - 1 <= FirstMax
        BY <1>2, <3>2
      <4> HIDE DEF z, t
      <4>3. t - 1 <= FirstMax
        BY <1>2, <4>1, <4>2
      <4> QED
        BY <4>3 DEF t
  <2> QED
    BY <1>7, <2>2, <2>3 DEF UsedIsMapped, Enabled
<1> QED
  BY <1>6, <1>7

\* Once paging is on, all that the kernel touches is mapped; until then it lies in
\* what the loader has mapped, if that has room for the first page tables.
THEOREM UsedMapped ==
    ASSUME \A m \in Machines : InfoCovered(m), Screen.size <= ScreenPages * PageBytes
    PROVE  Spec /\ []SwallowsNone /\ []TailsFit /\ []LowRoom => []UsedIsMapped
<1>1. BootInv /\ MappedInv => UsedIsMapped
  BY UsedOfInv DEF BootInv, MapInv
<1> QED
  BY <1>1, BootInvariance, MappedInvariance, PTL
=============================================================================
