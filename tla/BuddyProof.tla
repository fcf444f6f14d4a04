----------------------------- MODULE BuddyProof -----------------------------
(***************************************************************************)
(* Proofs about Buddy: its invariant is inductive for every region size,   *)
(* every order limit and every memory content before use, provided that    *)
(* every bitmap has a bit for the partial block at the end of the region.  *)
(***************************************************************************)
EXTENDS Buddy, TLAPS

-----------------------------------------------------------------------------
(* Powers of two *)

\* The table of powers of two is one: each entry is twice the one before.
LEMMA Pow2Facts ==
    /\ Pow2(0) = 1
    /\ \A k \in 0 .. 15 : Pow2(k) \in Nat \ {0}
    /\ \A k \in 1 .. 15 : Pow2(k) = 2 * Pow2(k - 1)
  BY DEF Pow2, Pow2Table

\* A larger order has larger blocks.
LEMMA Pow2Monotonic ==
    ASSUME NEW k \in 0 .. 15, NEW l \in 0 .. 15, k <= l
    PROVE  Pow2(k) <= Pow2(l)
  BY SMTT(60) DEF Pow2, Pow2Table

\* Multiples of a block size compare as their factors do.
LEMMA Pow2Cancel ==
    ASSUME NEW k \in 0 .. 15, NEW a \in Int, NEW b \in Int,
           a * Pow2(k) < b * Pow2(k)
    PROVE  a < b
<1>1. Pow2(k) \in Nat \ {0}
  BY Pow2Facts
<1> DEFINE K == Pow2(k)
<1> HIDE DEF K
<1>2. ASSUME K \in Nat \ {0}, a * K < b * K PROVE a < b
  BY <1>2
<1> QED
  BY <1>1, <1>2 DEF K

\* Dividing a page number by a block size finds the block that covers it.
LEMMA Pow2Div ==
    ASSUME NEW k \in 0 .. 15, NEW a \in Nat
    PROVE  /\ a \div Pow2(k) \in Nat
           /\ (a \div Pow2(k)) * Pow2(k) <= a
           /\ a < ((a \div Pow2(k)) + 1) * Pow2(k)
<1>1. Pow2(k) \in Nat \ {0}
  BY Pow2Facts
<1>2. ASSUME NEW K \in Nat \ {0}
      PROVE  /\ a \div K \in Nat
             /\ (a \div K) * K <= a
             /\ a < ((a \div K) + 1) * K
  OBVIOUS
<1> QED
  BY <1>1, <1>2
-----------------------------------------------------------------------------
(* Geometry *)

\* Some order satisfies the definition of Order: climbing from order 0, the
\* first that is MaxOrder or whose double is larger than the region.
LEMMA OrderFacts ==
    /\ Order \in 0 .. MaxOrder
    /\ Order \in 0 .. 15
    /\ Pow2(Order) <= BlockCount
<1> DEFINE Fits(k) == /\ Pow2(k) <= BlockCount
                      /\ k = MaxOrder \/ BlockCount < Pow2(k + 1)
<1>1. \E k \in 0 .. MaxOrder : Fits(k)
  <2> SUFFICES ASSUME \A k \in 0 .. MaxOrder : ~Fits(k) PROVE FALSE
    OBVIOUS
  <2> DEFINE G(k) == k <= MaxOrder => Pow2(k) <= BlockCount
  <2>1. G(0)
    BY Pow2Facts, BlockCountAssumption
  <2>2. \A k \in 0 .. 14 : G(k) => G(k + 1)
    BY Pow2Facts, BlockCountAssumption, MaxOrderAssumption
  <2> HIDE DEF G
  <2>3. G(1) /\ G(2) /\ G(3) /\ G(4) /\ G(5) /\ G(6) /\ G(7)
    BY <2>1, <2>2
  <2>4. G(8) /\ G(9) /\ G(10) /\ G(11) /\ G(12) /\ G(13) /\ G(14) /\ G(15)
    BY <2>2, <2>3
  <2>5. G(MaxOrder)
    BY <2>1, <2>3, <2>4, MaxOrderAssumption
  <2> QED
    BY <2>5, MaxOrderAssumption DEF G
<1>2. Order \in 0 .. MaxOrder /\ Fits(Order)
  BY <1>1 DEF Order
<1> QED
  BY <1>2, MaxOrderAssumption

\* Every order of the region is in the table.
LEMMA OrdersFacts ==
    /\ Orders \subseteq 0 .. 15
    /\ 0 \in Orders /\ Order \in Orders
    /\ \A k \in Orders : \A l \in 0 .. k : l \in Orders
  BY OrderFacts DEF Orders

\* Whole blocks of every order fit in the region, at least one of them.
LEMMA CountFacts ==
    ASSUME NEW k \in Orders
    PROVE  /\ CountAt(k) \in Nat \ {0}
           /\ CountAt(k) * Pow2(k) <= BlockCount
<1>1. k \in 0 .. 15 /\ k <= Order
  BY OrdersFacts, OrderFacts DEF Orders
<1>2. Pow2(k) <= BlockCount
  BY <1>1, Pow2Monotonic, OrderFacts, Pow2Facts, BlockCountAssumption
<1>3. /\ CountAt(k) \in Nat
      /\ CountAt(k) * Pow2(k) <= BlockCount
      /\ BlockCount < (CountAt(k) + 1) * Pow2(k)
  BY <1>1, Pow2Div, BlockCountAssumption DEF CountAt
<1>4. CountAt(k) # 0
  BY <1>1, <1>2, <1>3, Pow2Facts, BlockCountAssumption
<1> QED
  BY <1>3, <1>4

\* A bitmap takes at least one byte.
LEMMA SizeFacts ==
    ASSUME NEW k \in Orders
    PROVE  /\ SizeAt(k) \in Nat \ {0}
           /\ BitsAt(k) \subseteq Nat
<1>1. SizeAt(k) \in Nat \ {0}
  BY CountFacts DEF SizeAt
<1> QED
  BY <1>1 DEF BitsAt

\* The index of a block that holds a page of the region is an index of the
\* bitmap of its order.
LEMMA InBitmap ==
    ASSUME TailFits, NEW k \in Orders, NEW j \in Nat, NEW p \in AllPages,
           Covers(k, j, p)
    PROVE  j \in BitsAt(k)
<1>1. k \in 0 .. 15 /\ Pow2(k) \in Nat \ {0}
  BY OrdersFacts, Pow2Facts
<1> DEFINE t == (BlockCount - 1) \div Pow2(k)
<1>2. t \in Nat /\ BlockCount - 1 < (t + 1) * Pow2(k)
  <2>1. BlockCount - 1 \in Nat
    BY BlockCountAssumption
  <2> QED
    BY <1>1, <2>1, Pow2Div
<1>3. j * Pow2(k) < (t + 1) * Pow2(k)
  <2> HIDE DEF t
  <2> QED
    BY <1>1, <1>2, BlockCountAssumption DEF Covers, AllPages
<1>4. j < t + 1
  <2> HIDE DEF t
  <2> QED
    BY <1>1, <1>2, <1>3, Pow2Cancel
<1>5. t < 8 * SizeAt(k)
  BY DEF TailFits
<1> QED
  <2> HIDE DEF t
  <2> QED
    BY <1>2, <1>4, <1>5, SizeFacts DEF BitsAt

\* A block of order k is the union of its two halves, blocks of order k-1.
LEMMA CoversHalves ==
    ASSUME NEW k \in 1 .. 15, NEW j \in Nat, NEW p \in Nat
    PROVE  Covers(k, j, p) <=> \/ Covers(k - 1, 2 * j, p)
                               \/ Covers(k - 1, 2 * j + 1, p)
<1> DEFINE K == Pow2(k - 1)
<1>1. K \in Nat \ {0} /\ Pow2(k) = 2 * K
  BY Pow2Facts
<1> HIDE DEF K
<1>2. /\ j * (2 * K) = (2 * j) * K
      /\ (j + 1) * (2 * K) = (2 * j + 2) * K
      /\ (2 * j + 2) = (2 * j + 1) + 1
      /\ (2 * j) * K <= (2 * j + 1) * K
      /\ (2 * j + 1) * K <= (2 * j + 2) * K
      /\ {(2 * j) * K, (2 * j + 1) * K, (2 * j + 2) * K} \subseteq Nat
  BY <1>1
<1>3. /\ Covers(k, j, p) <=> (2 * j) * K <= p /\ p < (2 * j + 2) * K
      /\ Covers(k - 1, 2 * j, p) <=> (2 * j) * K <= p /\ p < (2 * j + 1) * K
      /\ Covers(k - 1, 2 * j + 1, p) <=>
             (2 * j + 1) * K <= p /\ p < (2 * j + 2) * K
  BY <1>1, <1>2 DEF Covers, K
<1> DEFINE u == (2 * j) * K  v == (2 * j + 1) * K  w == (2 * j + 2) * K
<1>4. u \in Nat /\ v \in Nat /\ w \in Nat /\ u <= v /\ v <= w
  BY <1>2
<1> HIDE DEF u, v, w
<1>5. /\ Covers(k, j, p) <=> u <= p /\ p < w
      /\ Covers(k - 1, 2 * j, p) <=> u <= p /\ p < v
      /\ Covers(k - 1, 2 * j + 1, p) <=> v <= p /\ p < w
  BY <1>3 DEF u, v, w
<1> QED
  BY <1>4, <1>5

\* A page is in exactly one block of order 0, its own.
LEMMA CoversPage ==
    ASSUME NEW j \in Int, NEW p \in Int
    PROVE  Covers(0, j, p) <=> j = p
  BY Pow2Facts DEF Covers

\* Blocks of one order are ordered as the pages they hold.
LEMMA CoversOrdered ==
    ASSUME NEW k \in 0 .. 15, NEW j \in Nat, NEW l \in Nat,
           NEW p \in Nat, NEW q \in Nat, p <= q,
           Covers(k, j, p), Covers(k, l, q)
    PROVE  j <= l
<1>1. j * Pow2(k) < (l + 1) * Pow2(k)
  BY Pow2Facts DEF Covers
<1>2. j < l + 1
  BY <1>1, Pow2Cancel
<1> QED
  BY <1>2

\* The blocks between those of two pages each hold a page between the two.
LEMMA CoversBetween ==
    ASSUME NEW k \in 0 .. 15, NEW j \in Nat, NEW l \in Nat, NEW m \in j .. l,
           NEW p \in Nat, NEW q \in Nat, p <= q,
           Covers(k, j, p), Covers(k, l, q)
    PROVE  \E r \in p .. q : Covers(k, m, r)
<1> DEFINE K == Pow2(k)
<1>1. K \in Nat \ {0}
  BY Pow2Facts
<1> HIDE DEF K
<1>2. CASE m = j
  BY <1>2
<1>3. CASE m # j
  <2>1. m \in Nat /\ j + 1 <= m /\ m <= l
    BY <1>3
  <2>2. m * K \in Nat /\ (j + 1) * K <= m * K /\ m * K <= l * K
    BY <1>1, <2>1
  <2>3. (m + 1) * K = m * K + K
    BY <1>1, <2>1
  <2>4. p < (j + 1) * K /\ l * K <= q
    BY DEF Covers, K
  <2>5. p <= m * K /\ m * K <= q
    <3> DEFINE a == (j + 1) * K  b == m * K  c == l * K
    <3>1. a \in Nat /\ b \in Nat /\ c \in Nat
      BY <1>1, <2>1
    <3> HIDE DEF a, b, c
    <3>2. a <= b /\ b <= c /\ p < a /\ c <= q
      BY <2>2, <2>4 DEF a, b, c
    <3>3. p <= b /\ b <= q
      BY <3>1, <3>2
    <3> QED
      BY <3>3 DEF b
  <2>6. m * K \in p .. q
    BY <2>2, <2>5
  <2>7. Covers(k, m, m * K)
    BY <1>1, <2>2, <2>3 DEF Covers, K
  <2> QED
    BY <2>6, <2>7
<1> QED
  BY <1>2, <1>3
-----------------------------------------------------------------------------
(* Types *)

\* Every variable keeps the type the code gives it: the initial state.
LEMMA InitType == Init => TypeOK
<1> SUFFICES ASSUME Init PROVE TypeOK
  OBVIOUS
<1>1. Order \in Nat
  BY OrderFacts
<1>2. arg = Idle
  BY DEF Init
<1> QED
  BY <1>1, <1>2, GarbageAssumption DEF Init, TypeOK

\* Every variable keeps its type: the steps.
LEMMA NextType == TypeOK /\ [Next]_vars => TypeOK'
<1> SUFFICES ASSUME TypeOK, [Next]_vars PROVE TypeOK'
  OBVIOUS
<1> USE DEF TypeOK
<1>1. Order \in Nat
  BY OrderFacts
<1>2. CASE CreateOrder
  <2>1. o \in Orders
    BY <1>1, <1>2 DEF CreateOrder, Orders
  <2>2. SizeAt(o) \in Nat
    BY <2>1, SizeFacts
  <2>3. o' \in 0 .. Order + 1 /\ buddy_ptr' \in Nat
    BY <1>1, <1>2, <2>2 DEF CreateOrder
  <2>5. bits' \subseteq Nat
    <3>1. bits' \subseteq bits
      BY <1>2 DEF CreateOrder
    <3> QED
      BY <3>1
  <2>4. ptr' \in [Orders -> Nat]
    BY <1>2 DEF CreateOrder
  <2> QED
    BY <1>2, <2>3, <2>4, <2>5 DEF CreateOrder
<1>3. CASE CreateDone
  <2>1. o' \in Orders /\ pc' = "idle"
    BY <1>3, OrdersFacts DEF CreateDone
  <2> QED
    BY <1>3, <2>1 DEF CreateDone
<1>4. ASSUME NEW n \in Counts, Alloc(n) PROVE TypeOK'
  <2>1. PICK p \in Candidates(n) :
            /\ bits' = bits \cup Marks([first |-> p, count |-> n])
            /\ live' = live \cup {[first |-> p, count |-> n]}
    BY <1>4 DEF Alloc
  <2>2. p \in AllPages
    BY DEF Candidates
  <2>3. live' \subseteq [first : AllPages, count : Counts]
    BY <2>1, <2>2
  <2>4. ASSUME NEW b \in Orders \X AllPages PROVE Bit(b[1], b[2]) \in Nat
    BY BlockCountAssumption DEF Bit, AllPages
  <2>5. bits' \subseteq Nat
    BY <2>1, <2>4 DEF Marks
  <2> QED
    BY <1>4, <2>3, <2>5 DEF Alloc
<1>5. ASSUME NEW n \in Counts, AllocFailed(n) PROVE TypeOK'
  BY <1>5 DEF AllocFailed, vars
<1>6. ASSUME NEW a \in live, Free(a) PROVE TypeOK'
  <2>1. a \in [first : AllPages, count : Counts]
    OBVIOUS
  <2>2. a.first \in Nat /\ a.count \in Nat \ {0}
    <3>1. a.first \in AllPages /\ a.count \in 1 .. BlockCount
      BY <2>1, CountsAssumption
    <3> QED
      BY <3>1, BlockCountAssumption DEF AllPages
  <2>3. first' \in Nat /\ i' \in Nat /\ last' \in Nat /\ o' \in Orders
    BY <1>6, <2>2, OrdersFacts DEF Free
  <2>4. /\ live' \subseteq live /\ arg' = a /\ pc' = "free"
        /\ UNCHANGED <<ptr, bits, buddy_ptr>>
    BY <1>6 DEF Free
  <2> QED
    BY <2>1, <2>3, <2>4
<1>7. CASE FreeBlock
  <2>1. bits' \subseteq bits
    BY <1>7, Zenon DEF FreeBlock
  <2>2. i' \in Nat /\ bits' \subseteq Nat
    <3>1. i' = i + 1
      BY <1>7, Zenon DEF FreeBlock
    <3> QED
      BY <2>1, <3>1
  <2>3. UNCHANGED <<ptr, live, pc, buddy_ptr, arg, o, first, last>>
    BY <1>7, Zenon DEF FreeBlock
  <2> QED
    BY <2>2, <2>3
<1>8. CASE FreeNextOrder
  <2>1. first \div 2 \in Nat /\ last \div 2 \in Nat
    OBVIOUS
  <2>2. o' \in Orders /\ pc' = "free"
    BY <1>1, <1>8 DEF FreeNextOrder, Orders
  <2> QED
    BY <1>8, <2>1, <2>2 DEF FreeNextOrder
<1>9. CASE FreeDone
  <2>1. o' \in Orders /\ pc' = "idle"
    BY <1>9, OrdersFacts DEF FreeDone
  <2> QED
    BY <1>9, <2>1 DEF FreeDone
<1>10. CASE UNCHANGED vars
  BY <1>10 DEF vars
<1> QED
  BY <1>2, <1>3, <1>4, <1>5, <1>6, <1>7, <1>8, <1>9, <1>10 DEF Next

\* The variables of the allocator always have the types the code gives them,
\* for every region and every request.
THEOREM TypeCorrect == Spec => []TypeOK
  BY InitType, NextType, PTL DEF Spec
-----------------------------------------------------------------------------
(* The bitmaps and what buddy_find reads in them *)

\* Two bits of the bitmaps at the same address are the same bit.
LEMMA Distinct ==
    ASSUME TypeOK, Layout,
           NEW k \in Created, NEW l \in Created,
           NEW j \in BitsAt(k), NEW m \in BitsAt(l), Bit(k, j) = Bit(l, m)
    PROVE  k = l /\ j = m
<1>1. Created \subseteq Orders /\ Created \subseteq Int
  BY OrderFacts DEF TypeOK, Created, Orders
<1>2. ptr[k] \in Nat /\ ptr[l] \in Nat
  BY <1>1 DEF TypeOK
<1>3. SizeAt(k) \in Nat \ {0} /\ SizeAt(l) \in Nat \ {0}
  BY <1>1, SizeFacts
<1>4. /\ j \in Nat /\ j < 8 * SizeAt(k)
      /\ m \in Nat /\ m < 8 * SizeAt(l)
  BY <1>3 DEF BitsAt
<1>5. 8 * ptr[k] + j = 8 * ptr[l] + m
  BY DEF Bit
<1>6. k < l => ptr[k] + SizeAt(k) <= ptr[l]
  BY DEF Layout
<1>7. l < k => ptr[l] + SizeAt(l) <= ptr[k]
  BY DEF Layout
<1>8. k = l
  BY <1>1, <1>2, <1>3, <1>4, <1>5, <1>6, <1>7
<1> QED
  BY <1>2, <1>4, <1>5, <1>8

\* The pages of any place buddy_find accepts are in the region, and not one of
\* them is marked in use.
LEMMA CandidateFree ==
    ASSUME TypeOK, MarksReachUp, TailFits, pc # "create",
           NEW n \in Counts, NEW q \in Candidates(n), NEW p \in q .. q + n - 1
    PROVE  p \in AllPages /\ ~IsSet(0, p)
<1>1. n \in Nat \ {0}
  BY CountsAssumption, BlockCountAssumption
<1>2. q \in Nat /\ p \in Nat
  BY <1>1, BlockCountAssumption DEF Candidates, AllPages
<1>3. \E k \in Orders, j \in Nat :
          /\ Covers(k, j, p)
          /\ (j + 1) * Pow2(k) <= BlockCount
          /\ ~IsSet(k, j)
  <2>1. CASE Fitting(n) # {}
    <3>1. PICK k \in Fitting(n), j \in AllPages :
              q = j * Pow2(k) /\ FreeRun(k, j, 1)
      BY <2>1, Zenon DEF Candidates
    <3>2. k \in Orders /\ n <= Pow2(k)
      BY DEF Fitting
    <3>3. j \in Nat /\ Pow2(k) \in Nat \ {0} /\ CountAt(k) \in Nat
      BY <3>2, OrdersFacts, Pow2Facts, CountFacts, BlockCountAssumption
         DEF AllPages
    <3>4. j + 1 <= CountAt(k) /\ ~IsSet(k, j)
      BY <3>1, <3>3 DEF FreeRun
    <3>5. Covers(k, j, p)
      BY <1>1, <1>2, <3>1, <3>2, <3>3 DEF Covers
    <3>6. (j + 1) * Pow2(k) <= CountAt(k) * Pow2(k)
      BY <3>3, <3>4
    <3>7. (j + 1) * Pow2(k) <= BlockCount
      <4>1. CountAt(k) * Pow2(k) <= BlockCount
        BY <3>2, CountFacts
      <4>2. /\ (j + 1) * Pow2(k) \in Nat /\ CountAt(k) * Pow2(k) \in Nat
            /\ BlockCount \in Nat
        BY <3>3, BlockCountAssumption
      <4> QED
        BY <3>6, <4>1, <4>2
    <3> QED
      BY <3>2, <3>3, <3>4, <3>5, <3>7
  <2>2. CASE Fitting(n) = {}
    <3> DEFINE K == Pow2(Order)
               len == Conseq(n)
    <3>1. PICK j \in AllPages : q = j * K /\ FreeRun(Order, j, len)
      BY <2>2, Zenon DEF Candidates
    <3>2. Order \in Orders /\ Order \in 0 .. 15
      BY OrdersFacts
    <3>3. j \in Nat /\ K \in Nat \ {0} /\ CountAt(Order) \in Nat
      BY <3>2, Pow2Facts, CountFacts, BlockCountAssumption DEF AllPages
    <3>4. len \in Nat \ {0} /\ n - 1 < len * K
      <4> DEFINE d == (n - 1) \div Pow2(Order)
      <4>1. n - 1 \in Nat
        BY <1>1
      <4>2. d \in Nat /\ n - 1 < (d + 1) * Pow2(Order)
        BY <3>2, <4>1, Pow2Div
      <4>3. len = d + 1
        BY DEF Conseq
      <4> HIDE DEF d, len
      <4> QED
        BY <4>2, <4>3
    <3> DEFINE l == p \div K
    <3>5. l \in Nat /\ l * K <= p /\ p < (l + 1) * K
      BY <1>2, <3>2, Pow2Div
    <3> HIDE DEF K, len, l
    <3>6. j <= l
      <4>1. j * K < (l + 1) * K
        <5>1. j * K <= p
          BY <1>1, <1>2, <3>1
        <5>2. j * K \in Nat /\ (l + 1) * K \in Nat
          BY <3>3, <3>5
        <5> QED
          BY <1>2, <3>5, <5>1, <5>2
      <4>2. j < l + 1
        BY <3>2, <3>3, <3>5, <4>1, Pow2Cancel DEF K
      <4> QED
        BY <3>3, <3>5, <4>2
    <3>7. l < j + len
      <4>1. l * K < (j + len) * K
        <5>1. (j + len) * K = j * K + len * K
          BY <3>3, <3>4
        <5>2. j * K \in Nat /\ len * K \in Nat /\ l * K \in Nat
          BY <3>3, <3>4, <3>5
        <5>3. p <= j * K + n - 1
          BY <1>1, <1>2, <3>1
        <5>4. l * K <= j * K + n - 1
          BY <1>1, <1>2, <3>5, <5>2, <5>3
        <5> QED
          BY <1>1, <3>4, <5>1, <5>2, <5>4
      <4> QED
        BY <3>2, <3>3, <3>4, <3>5, <4>1, Pow2Cancel DEF K
    <3>8. l + 1 <= CountAt(Order) /\ ~IsSet(Order, l)
      BY <3>1, <3>3, <3>4, <3>5, <3>6, <3>7 DEF FreeRun
    <3>9. (l + 1) * K <= BlockCount
      <4>1. (l + 1) * K <= CountAt(Order) * K
        BY <3>3, <3>5, <3>8
      <4>2. CountAt(Order) * K <= BlockCount
        BY <3>2, CountFacts DEF K
      <4>3. /\ (l + 1) * K \in Nat /\ CountAt(Order) * K \in Nat
            /\ BlockCount \in Nat
        BY <3>3, <3>5, BlockCountAssumption
      <4> QED
        BY <4>1, <4>2, <4>3
    <3> QED
      BY <3>2, <3>5, <3>8, <3>9 DEF Covers, K
  <2> QED
    BY <2>1, <2>2
<1>4. PICK k \in Orders, j \in Nat :
          /\ Covers(k, j, p)
          /\ (j + 1) * Pow2(k) <= BlockCount
          /\ ~IsSet(k, j)
  BY <1>3
<1>5. p \in AllPages
  <2>1. Pow2(k) \in Nat
    BY OrdersFacts, Pow2Facts
  <2>2. p < (j + 1) * Pow2(k) /\ (j + 1) * Pow2(k) \in Nat
    BY <1>4, <2>1 DEF Covers
  <2> QED
    BY <1>2, <1>4, <2>2, BlockCountAssumption DEF AllPages
<1>6. j \in BitsAt(k)
  BY <1>4, <1>5, InBitmap
<1> QED
  BY <1>4, <1>5, <1>6 DEF MarksReachUp
-----------------------------------------------------------------------------
(* The invariant: the initial state and buddy_create *)

\* The memory may hold anything before buddy_create.
LEMMA InitInv == Init => Inv
<1> SUFFICES ASSUME Init PROVE Inv
  OBVIOUS
<1>1. TypeOK
  BY InitType
<1>2. pc = "create" /\ o = 0 /\ live = {}
  BY DEF Init
<1>3. Created = {}
  BY <1>2 DEF Created
<1>4. Layout /\ Cleared
  BY <1>2, <1>3 DEF Layout, Cleared
<1>5. LiveDisjoint
  BY <1>2 DEF LiveDisjoint
<1>6. Freeing /\ PagesMarked /\ MarksReachUp /\ MarksReachDown
  BY <1>2 DEF Freeing, PagesMarked, MarksReachUp, MarksReachDown
<1> QED
  BY <1>1, <1>4, <1>5, <1>6 DEF Inv

\* buddy_create puts each bitmap behind the ones before it and clears it.
LEMMA CreateOrderInv ==
    ASSUME Inv, CreateOrder
    PROVE  Inv'
<1>1. TypeOK /\ Layout /\ Cleared
  BY DEF Inv
<1>2. TypeOK'
  BY <1>1, NextType DEF Next
<1>3. o \in Orders /\ o \in Nat
  BY <1>1, OrderFacts DEF TypeOK, CreateOrder, Orders
<1>4. SizeAt(o) \in Nat \ {0} /\ buddy_ptr \in Nat
  BY <1>1, <1>3, SizeFacts DEF TypeOK
<1>5. /\ pc = "create" /\ pc' = "create"
      /\ live' = live
      /\ o' = o + 1
      /\ buddy_ptr' = buddy_ptr + SizeAt(o)
      /\ bits' \subseteq bits
  BY DEF CreateOrder
<1>6. Created = 0 .. o - 1 /\ Created' = Created \cup {o}
  BY <1>3, <1>5 DEF Created
<1>7. Created \subseteq Orders
  BY <1>3, <1>6, OrderFacts DEF Orders
<1>8. /\ ptr'[o] = buddy_ptr
      /\ \A k \in Created : ptr'[k] = ptr[k]
  BY <1>1, <1>3, <1>6, <1>7 DEF CreateOrder, TypeOK
<1>9. \A k \in Created : ptr[k] \in Nat /\ SizeAt(k) \in Nat
  BY <1>1, <1>7, SizeFacts DEF TypeOK
<1>10. Layout'
  <2>1. \A k \in Created' : ptr'[k] + SizeAt(k) <= buddy_ptr'
    BY <1>1, <1>4, <1>5, <1>6, <1>8, <1>9 DEF Layout
  <2>2. ASSUME NEW k \in Created', NEW l \in Created', k < l
        PROVE  ptr'[k] + SizeAt(k) <= ptr'[l]
    <3>1. k \in Created
      BY <1>3, <1>6, <2>2
    <3>2. CASE l = o
      BY <1>1, <1>8, <3>1, <3>2 DEF Layout
    <3>3. CASE l \in Created
      BY <1>1, <1>8, <2>2, <3>1, <3>3 DEF Layout
    <3> QED
      BY <1>6, <3>2, <3>3
  <2> QED
    BY <2>1, <2>2 DEF Layout
<1>11. Cleared'
  <2>1. live' = {}
    BY <1>1, <1>5 DEF Cleared
  <2>2. ASSUME NEW k \in Created', NEW j \in BitsAt(k) PROVE ~IsSet(k, j)'
    <3>1. CASE k = o
      <4>1. IsSet(k, j)' <=> 8 * buddy_ptr + j \in bits'
        BY <1>8, <3>1 DEF IsSet, Bit
      <4>2. j \in Nat /\ j < 8 * SizeAt(o)
        BY <1>4, <3>1 DEF BitsAt
      <4>3. 8 * buddy_ptr + j \in
                8 * buddy_ptr .. 8 * (buddy_ptr + SizeAt(o)) - 1
        BY <1>4, <4>2
      <4> QED
        BY <4>1, <4>3 DEF CreateOrder
    <3>2. CASE k \in Created
      <4>1. ~IsSet(k, j)
        BY <1>1, <1>5, <3>2 DEF Cleared
      <4>2. IsSet(k, j)' => IsSet(k, j)
        BY <1>5, <1>8, <3>2 DEF IsSet, Bit
      <4> QED
        BY <4>1, <4>2
    <3> QED
      BY <1>6, <3>1, <3>2
  <2> QED
    BY <2>1, <2>2 DEF Cleared
<1>12. LiveDisjoint'
  BY <1>5 DEF Inv, LiveDisjoint
<1>13. Freeing' /\ PagesMarked' /\ MarksReachUp' /\ MarksReachDown'
  BY <1>5 DEF Freeing, PagesMarked, MarksReachUp, MarksReachDown
<1> QED
  BY <1>2, <1>10, <1>11, <1>12, <1>13 DEF Inv

\* When buddy_create returns, no page is marked and none is in use.
LEMMA CreateDoneInv ==
    ASSUME TailFits, Inv, CreateDone
    PROVE  Inv'
<1>1. TypeOK /\ Layout /\ Cleared
  BY DEF Inv
<1>2. TypeOK'
  BY <1>1, NextType DEF Next
<1>3. /\ pc = "create" /\ pc' = "idle"
      /\ ptr' = ptr /\ bits' = bits /\ live' = live /\ buddy_ptr' = buddy_ptr
      /\ o = Order + 1
  BY <1>1, OrderFacts DEF CreateDone, TypeOK
<1>4. Created = Orders /\ Created' = Orders
  BY <1>3, OrderFacts DEF Created, Orders
<1>5. Layout'
  BY <1>1, <1>3, <1>4 DEF Layout
<1>6. Cleared' /\ Freeing'
  BY <1>3 DEF Cleared, Freeing
<1>7. LiveDisjoint'
  BY <1>3 DEF Inv, LiveDisjoint
<1>8. live' = {} /\ LivePages' = {}
  BY <1>1, <1>3 DEF Cleared, LivePages
<1>9. \A k \in Orders : \A j \in BitsAt(k) : ~IsSet(k, j)'
  <2>1. \A k \in Orders : \A j \in BitsAt(k) : ~IsSet(k, j)
    BY <1>1, <1>3, <1>4 DEF Cleared
  <2>2. ASSUME NEW k, NEW j PROVE IsSet(k, j)' <=> IsSet(k, j)
    BY <1>3 DEF IsSet, Bit
  <2> QED
    BY <2>1, <2>2
<1>10. \A p \in AllPages : p \in BitsAt(0)
  <2>1. \A p \in AllPages : p \in Nat /\ Covers(0, p, p)
    BY CoversPage, BlockCountAssumption DEF AllPages
  <2> QED
    BY <2>1, OrdersFacts, InBitmap
<1>11. PagesMarked'
  BY <1>3, <1>8, <1>9, <1>10, OrdersFacts DEF PagesMarked
<1>12. MarksReachUp'
  BY <1>9, <1>10, OrdersFacts DEF MarksReachUp
<1>13. MarksReachDown'
  BY <1>9 DEF MarksReachDown
<1> QED
  BY <1>2, <1>5, <1>6, <1>7, <1>11, <1>12, <1>13 DEF Inv
-----------------------------------------------------------------------------
(* The invariant: palloc_alloc *)

\* buddy_alloc sets, in the bitmaps, exactly the bits of the blocks that hold
\* a page of the allocation.
LEMMA MarksExact ==
    ASSUME TailFits, TypeOK, Layout, pc # "create",
           NEW a, Pages(a) \subseteq AllPages,
           NEW k \in Orders, NEW j \in BitsAt(k)
    PROVE  Bit(k, j) \in Marks(a) <=> \E p \in Pages(a) : Covers(k, j, p)
<1>1. Created = Orders
  BY DEF Created
<1>2. j \in Nat
  BY SizeFacts
<1>3. ASSUME Bit(k, j) \in Marks(a) PROVE \E p \in Pages(a) : Covers(k, j, p)
  <2>1. PICK b \in Orders \X AllPages :
            /\ \E p \in Pages(a) : Covers(b[1], b[2], p)
            /\ Bit(b[1], b[2]) = Bit(k, j)
    BY <1>3 DEF Marks
  <2>2. PICK p \in Pages(a) : Covers(b[1], b[2], p)
    BY <2>1
  <2>3. b[1] \in Orders /\ b[2] \in Nat /\ p \in AllPages
    BY BlockCountAssumption DEF AllPages
  <2>4. b[2] \in BitsAt(b[1])
    BY <2>2, <2>3, InBitmap
  <2>5. b[1] = k /\ b[2] = j
    BY <1>1, <2>1, <2>3, <2>4, Distinct
  <2> QED
    BY <2>2, <2>5
<1>4. ASSUME NEW p \in Pages(a), Covers(k, j, p) PROVE Bit(k, j) \in Marks(a)
  <2>1. k \in 0 .. 15 /\ Pow2(k) \in Nat \ {0} /\ p \in AllPages
    BY OrdersFacts, Pow2Facts
  <2>2. j <= j * Pow2(k)
    BY <1>2, <2>1
  <2>3. j \in AllPages
    <3>1. j * Pow2(k) \in Nat /\ j * Pow2(k) <= p
      BY <1>2, <1>4, <2>1 DEF Covers
    <3> QED
      BY <1>2, <2>1, <2>2, <3>1, BlockCountAssumption DEF AllPages
  <2>4. <<k, j>> \in Orders \X AllPages
    BY <2>3
  <2> QED
    BY <1>4, <2>4 DEF Marks
<1> QED
  BY <1>3, <1>4

\* An allocation marks free pages of the region, and the blocks above them.
LEMMA AllocInv ==
    ASSUME TailFits, Inv, NEW n \in Counts, Alloc(n)
    PROVE  Inv'
<1>1. /\ TypeOK /\ Layout /\ LiveDisjoint
      /\ PagesMarked /\ MarksReachUp /\ MarksReachDown
  BY DEF Inv
<1>2. TypeOK'
  BY <1>1, NextType DEF Next
<1>3. /\ pc = "idle" /\ pc' = "idle"
      /\ ptr' = ptr /\ buddy_ptr' = buddy_ptr
  BY DEF Alloc
<1>4. PICK q \in Candidates(n) :
          /\ bits' = bits \cup Marks([first |-> q, count |-> n])
          /\ live' = live \cup {[first |-> q, count |-> n]}
  BY DEF Alloc
<1> DEFINE a == [first |-> q, count |-> n]
<1>5. Pages(a) = q .. q + n - 1
  BY DEF Pages
<1>6. \A p \in Pages(a) : p \in AllPages /\ ~IsSet(0, p)
  BY <1>1, <1>3, <1>5, CandidateFree
<1>7. bits' = bits \cup Marks(a) /\ live' = live \cup {a}
  BY <1>4
<1> HIDE DEF a
<1>8. Pages(a) \subseteq AllPages
  BY <1>6
<1>9. ASSUME NEW k \in Orders, NEW j \in BitsAt(k)
      PROVE  IsSet(k, j)' <=>
                 IsSet(k, j) \/ \E p \in Pages(a) : Covers(k, j, p)
  <2>1. Bit(k, j)' = Bit(k, j)
    BY <1>3 DEF Bit
  <2>2. Bit(k, j) \in Marks(a) <=> \E p \in Pages(a) : Covers(k, j, p)
    BY <1>1, <1>3, <1>8, MarksExact
  <2> QED
    BY <1>7, <2>1, <2>2 DEF IsSet
<1>10. ASSUME NEW p \in AllPages
       PROVE  /\ p \in BitsAt(0)
              /\ IsSet(0, p)' <=> IsSet(0, p) \/ p \in Pages(a)
  <2>1. p \in Nat /\ Covers(0, p, p)
    BY CoversPage, BlockCountAssumption DEF AllPages
  <2>2. p \in BitsAt(0)
    BY <2>1, OrdersFacts, InBitmap
  <2>3. \A r \in Pages(a) : Covers(0, p, r) <=> p = r
    BY <1>8, <2>1, CoversPage, BlockCountAssumption DEF AllPages
  <2> QED
    BY <1>9, <2>2, <2>3, OrdersFacts
<1>11. LivePages' = LivePages \cup Pages(a)
  BY <1>7 DEF LivePages
<1>12. Created' = Created
  BY <1>3 DEF Created
<1>13. Layout'
  BY <1>1, <1>3, <1>12 DEF Layout
<1>14. Cleared' /\ Freeing'
  BY <1>3 DEF Cleared, Freeing
<1>15. LiveDisjoint'
  <2>1. \A p \in AllPages : IsSet(0, p) <=> p \in LivePages
    BY <1>1, <1>3 DEF PagesMarked
  <2>2. Pages(a) \cap LivePages = {}
    BY <1>6, <2>1
  <2>3. \A b \in live : Pages(a) \cap Pages(b) = {}
    BY <2>2 DEF LivePages
  <2> QED
    BY <1>1, <1>7, <1>8, <2>3 DEF LiveDisjoint
<1>16. PagesMarked'
  <2>1. \A p \in AllPages : IsSet(0, p) <=> p \in LivePages
    BY <1>1, <1>3 DEF PagesMarked
  <2> QED
    BY <1>3, <1>10, <1>11, <2>1 DEF PagesMarked
<1>17. MarksReachUp'
  BY <1>1, <1>3, <1>9, <1>10 DEF MarksReachUp
<1>18. MarksReachDown'
  <2>1. ASSUME NEW k \in Orders, NEW j \in BitsAt(k), IsSet(k, j)'
        PROVE  \E p \in AllPages : Covers(k, j, p) /\ IsSet(0, p)'
    <3>1. IsSet(k, j) => \E p \in AllPages : Covers(k, j, p) /\ IsSet(0, p)
      BY <1>1, <1>3 DEF MarksReachDown, Pending
    <3> QED
      BY <1>8, <1>9, <1>10, <2>1, <3>1
  <2> QED
    BY <2>1 DEF MarksReachDown
<1> QED
  BY <1>2, <1>13, <1>14, <1>15, <1>16, <1>17, <1>18 DEF Inv
-----------------------------------------------------------------------------
(* The invariant: palloc_free *)

\* The facts about a free in progress that its steps use: where it is, and
\* that the blocks it visits are in the bitmap and hold a page it gives back.
LEMMA FreeFacts ==
    ASSUME TypeOK, Freeing, pc = "free", TailFits
    PROVE  /\ o \in Orders /\ o \in 0 .. 15 /\ i \in Nat
           /\ arg.first \in Nat /\ arg.count \in Nat \ {0}
           /\ Pages(arg) = arg.first .. arg.first + arg.count - 1
           /\ \A j \in first .. last :
                  /\ j \in BitsAt(o)
                  /\ \E p \in Pages(arg) : Covers(o, j, p)
<1>1. o \in Orders /\ o \in 0 .. 15 /\ i \in Nat
  BY OrdersFacts DEF TypeOK, Freeing
<1>2. first \in Nat /\ last \in Nat
  BY DEF TypeOK
<1>3. Pages(arg) = arg.first .. arg.first + arg.count - 1
  BY DEF Pages
<1>4. arg.first \in Nat /\ arg.count \in Nat \ {0}
  <2>1. CASE arg = Idle
    BY <2>1 DEF Idle, Freeing
  <2>2. CASE arg \in [first : AllPages, count : Counts]
    <3>1. arg.first \in AllPages /\ arg.count \in 1 .. BlockCount
      BY <2>2, CountsAssumption
    <3> QED
      BY <3>1, BlockCountAssumption DEF AllPages
  <2> QED
    BY <2>1, <2>2 DEF TypeOK
<1>5. ASSUME NEW j \in first .. last
      PROVE  j \in BitsAt(o) /\ \E p \in Pages(arg) : Covers(o, j, p)
  <2> DEFINE z == arg.first + arg.count - 1
  <2>1. z \in Nat /\ arg.first <= z
    BY <1>4
  <2>2. Covers(o, first, arg.first) /\ Covers(o, last, z)
    BY DEF Freeing
  <2>3. PICK p \in arg.first .. z : Covers(o, j, p)
    <3> HIDE DEF z
    <3> QED
      BY <1>1, <1>2, <1>4, <2>1, <2>2, CoversBetween
  <2>4. p \in Pages(arg) /\ p \in AllPages /\ j \in Nat
    BY <1>2, <1>3, <2>3 DEF Freeing
  <2> QED
    BY <1>1, <2>3, <2>4, InBitmap
<1> QED
  BY <1>1, <1>3, <1>4, <1>5

\* buddy_free begins: the pages it will clear are marked, and nobody's.
LEMMA FreeInv ==
    ASSUME TailFits, Inv, NEW a \in live, Free(a)
    PROVE  Inv'
<1>1. /\ TypeOK /\ Layout /\ LiveDisjoint
      /\ PagesMarked /\ MarksReachUp /\ MarksReachDown
  BY DEF Inv
<1>2. TypeOK'
  BY <1>1, NextType DEF Next
<1>3. /\ pc = "idle" /\ pc' = "free"
      /\ ptr' = ptr /\ buddy_ptr' = buddy_ptr /\ bits' = bits
      /\ live' = live \ {a} /\ arg' = a /\ o' = 0
      /\ first' = a.first /\ i' = a.first /\ last' = a.first + a.count - 1
  BY DEF Free
<1>4. a.first \in Nat /\ a.count \in Nat \ {0}
  <2>1. a.first \in AllPages /\ a.count \in 1 .. BlockCount
    BY <1>1, CountsAssumption DEF TypeOK
  <2> QED
    BY <2>1, BlockCountAssumption DEF AllPages
<1>5. \A k, j : IsSet(k, j)' <=> IsSet(k, j)
  BY <1>3 DEF IsSet, Bit
<1>6. Pages(a) = a.first .. a.first + a.count - 1
  BY DEF Pages
<1>7. Pages(a) \subseteq AllPages
  BY <1>1 DEF LiveDisjoint
<1>8. LivePages = LivePages' \cup Pages(a)
  BY <1>3 DEF LivePages
<1>9. LivePages' \cap Pages(a) = {}
  BY <1>1, <1>3 DEF LivePages, LiveDisjoint
<1>10. Layout'
  BY <1>1, <1>3 DEF Layout, Created
<1>11. Cleared'
  BY <1>3 DEF Cleared
<1>12. LiveDisjoint'
  BY <1>1, <1>3 DEF LiveDisjoint
<1>13. Freeing'
  <2>1. Covers(0, a.first, a.first)
    BY <1>4, CoversPage
  <2>2. Covers(0, a.first + a.count - 1, a.first + a.count - 1)
    BY <1>4, CoversPage
  <2>3. a.count >= 1 /\ a.first <= a.first + a.count - 1 + 1
    BY <1>4
  <2>4. 0 \in Orders
    BY OrdersFacts
  <2> QED
    BY <1>3, <1>4, <1>7, <1>9, <2>1, <2>2, <2>3, <2>4 DEF Freeing
<1>14. PagesMarked'
  <2>1. \A p \in AllPages : IsSet(0, p) <=> p \in LivePages
    BY <1>1, <1>3 DEF PagesMarked
  <2>2. \A p \in Pages(a) : i' <= p
    BY <1>3, <1>4, <1>6
  <2> QED
    BY <1>3, <1>5, <1>8, <2>1, <2>2 DEF PagesMarked
<1>15. MarksReachUp'
  BY <1>1, <1>3, <1>5 DEF MarksReachUp
<1>16. MarksReachDown'
  <2>1. \A k \in Orders : \A j \in BitsAt(k) : IsSet(k, j) =>
            \E p \in AllPages : Covers(k, j, p) /\ IsSet(0, p)
    BY <1>1, <1>3 DEF MarksReachDown, Pending
  <2> QED
    BY <1>5, <2>1 DEF MarksReachDown
<1> QED
  BY <1>2, <1>10, <1>11, <1>12, <1>13, <1>14, <1>15, <1>16 DEF Inv

\* At order 0, the bit of a page that is given back is cleared.
LEMMA FreePageInv ==
    ASSUME TailFits, Inv, FreeBlock, o = 0
    PROVE  /\ PagesMarked' /\ MarksReachUp' /\ MarksReachDown'
<1>1. /\ TypeOK /\ Layout /\ Freeing
      /\ PagesMarked /\ MarksReachUp /\ MarksReachDown
  BY DEF Inv
<1>2. /\ pc = "free" /\ i <= last
      /\ pc' = pc /\ ptr' = ptr /\ live' = live /\ arg' = arg /\ o' = o
      /\ i' = i + 1
  BY Zenon DEF FreeBlock
<1>3. bits' = bits \ {Bit(0, i)}
  <2>1. ~(o > 0)
    OBVIOUS
  <2> QED
    BY <2>1, Zenon DEF FreeBlock
<1>4. Created = Orders /\ 0 \in Orders
  BY <1>2, OrdersFacts DEF Created
<1>5. /\ i \in Nat /\ i \in first .. last /\ i \in BitsAt(0)
  BY <1>1, <1>2, FreeFacts DEF Freeing, TypeOK
<1>6. i \in Pages(arg) /\ i \in AllPages /\ i \notin LivePages
  <2>1. PICK p \in Pages(arg) : Covers(0, i, p)
    BY <1>1, <1>2, <1>5, FreeFacts
  <2>2. p \in AllPages
    BY <1>1, <1>2 DEF Freeing
  <2>3. i = p
    BY <1>5, <2>1, <2>2, CoversPage, BlockCountAssumption DEF AllPages
  <2> QED
    BY <1>1, <1>2, <2>2, <2>3 DEF Freeing
<1>7. ASSUME NEW k \in Orders, NEW j \in BitsAt(k)
      PROVE  IsSet(k, j)' <=> IsSet(k, j) /\ ~(k = 0 /\ j = i)
  <2>1. Bit(k, j)' = Bit(k, j)
    BY <1>2 DEF Bit
  <2>2. Bit(k, j) = Bit(0, i) <=> k = 0 /\ j = i
    BY <1>1, <1>4, <1>5, Distinct
  <2> QED
    BY <1>3, <2>1, <2>2 DEF IsSet
<1>8. ASSUME NEW p \in AllPages
      PROVE  /\ p \in BitsAt(0) /\ p \in Nat
             /\ IsSet(0, p)' <=> IsSet(0, p) /\ p # i
  <2>1. p \in Nat /\ Covers(0, p, p)
    BY CoversPage, BlockCountAssumption DEF AllPages
  <2>2. p \in BitsAt(0)
    BY <2>1, OrdersFacts, InBitmap
  <2> QED
    BY <1>4, <1>7, <2>1, <2>2
<1>9. PagesMarked'
  <2>1. LivePages' = LivePages
    BY <1>2 DEF LivePages
  <2>2. ASSUME NEW p \in AllPages
        PROVE  IsSet(0, p)' <=> \/ p \in LivePages
                                \/ p \in Pages(arg) /\ i + 1 <= p
    <3>1. IsSet(0, p) <=> \/ p \in LivePages
                          \/ p \in Pages(arg) /\ i <= p
      BY <1>1, <1>2 DEF PagesMarked
    <3>2. p \in Nat /\ (i + 1 <= p <=> i <= p /\ p # i)
      BY <1>5, <1>8
    <3> QED
      BY <1>6, <1>8, <3>1, <3>2
  <2> QED
    BY <1>2, <2>1, <2>2 DEF PagesMarked
<1>10. MarksReachUp'
  <2>1. ASSUME NEW k \in Orders, NEW j \in BitsAt(k), NEW p \in AllPages,
               Covers(k, j, p), IsSet(0, p)'
        PROVE  IsSet(k, j)'
    <3>1. IsSet(0, p) /\ p # i
      BY <1>8, <2>1
    <3>2. IsSet(k, j)
      BY <1>1, <1>2, <2>1, <3>1 DEF MarksReachUp
    <3>3. ~(k = 0 /\ j = i)
      BY <1>5, <1>8, <2>1, <3>1, CoversPage
    <3> QED
      BY <1>7, <3>2, <3>3
  <2> QED
    BY <2>1 DEF MarksReachUp
<1>11. MarksReachDown'
  <2>1. ASSUME NEW k \in Orders, NEW j \in BitsAt(k), IsSet(k, j)'
        PROVE  \/ \E p \in AllPages : Covers(k, j, p) /\ IsSet(0, p)'
               \/ Pending(k, j)'
    <3>1. IsSet(k, j) /\ ~(k = 0 /\ j = i)
      BY <1>7, <2>1
    <3>2. k \in Nat /\ j \in Nat
      BY OrdersFacts, SizeFacts
    <3>3. CASE Pending(k, j)
      BY <1>2, <1>5, <3>1, <3>2, <3>3 DEF Pending
    <3>4. CASE ~Pending(k, j)
      <4>1. PICK p \in AllPages : Covers(k, j, p) /\ IsSet(0, p)
        BY <1>1, <1>2, <3>1, <3>4 DEF MarksReachDown
      <4>2. CASE p # i
        BY <1>8, <4>1, <4>2
      <4>3. CASE p = i
        <5>1. k # 0
          BY <1>5, <3>1, <3>2, <4>1, <4>3, CoversPage
        <5> QED
          BY <1>2, <1>6, <3>2, <4>1, <4>3, <5>1 DEF Pending
      <4> QED
        BY <4>2, <4>3
    <3> QED
      BY <3>3, <3>4
  <2> QED
    BY <2>1 DEF MarksReachDown
<1> QED
  BY <1>9, <1>10, <1>11

\* At a higher order, a block is cleared when both its halves are clear; then no
\* page of it is marked.  When it is not cleared, a marked half holds a marked
\* page.
LEMMA FreeLargerInv ==
    ASSUME TailFits, Inv, FreeBlock, o # 0
    PROVE  /\ PagesMarked' /\ MarksReachUp' /\ MarksReachDown'
<1>1. /\ TypeOK /\ Layout /\ Freeing
      /\ PagesMarked /\ MarksReachUp /\ MarksReachDown
  BY DEF Inv
<1>2. /\ pc = "free" /\ i <= last
      /\ pc' = pc /\ ptr' = ptr /\ live' = live /\ arg' = arg /\ o' = o
      /\ i' = i + 1
  BY Zenon DEF FreeBlock
<1>3. o \in Orders /\ o \in 1 .. 15 /\ o - 1 \in Orders /\ 0 \in Orders
  <2>1. o \in Orders /\ o \in 1 .. 15
    BY <1>1, <1>2, FreeFacts
  <2> QED
    BY <2>1, OrdersFacts
<1>4. bits' = IF IsSet(o - 1, 2 * i) \/ IsSet(o - 1, 2 * i + 1)
              THEN bits ELSE bits \ {Bit(o, i)}
  <2>1. o > 0
    BY <1>3
  <2> QED
    BY <2>1, Zenon DEF FreeBlock
<1>5. Created = Orders
  BY <1>2 DEF Created
<1>6. /\ i \in Nat /\ i \in BitsAt(o)
      /\ \E p \in Pages(arg) : Covers(o, i, p)
  BY <1>1, <1>2, FreeFacts DEF Freeing, TypeOK
<1>7. 2 * i \in BitsAt(o - 1) /\ 2 * i + 1 \in BitsAt(o - 1)
  <2>1. PICK p \in AllPages : Covers(o, i, p)
    BY <1>1, <1>2, <1>6 DEF Freeing
  <2>2. 2 * i < 8 * SizeAt(o - 1)
    <3>1. p \in Nat
      BY BlockCountAssumption DEF AllPages
    <3>2. Covers(o - 1, 2 * i, p) \/ Covers(o - 1, 2 * i + 1, p)
      BY <1>3, <1>6, <2>1, <3>1, CoversHalves
    <3>3. 2 * i \in BitsAt(o - 1) \/ 2 * i + 1 \in BitsAt(o - 1)
      BY <1>3, <1>6, <3>2, InBitmap
    <3> QED
      BY <1>3, <1>6, <3>3, SizeFacts DEF BitsAt
  <2> QED
    BY <1>3, <1>6, <2>2, SizeFacts DEF BitsAt
<1>8. ASSUME NEW k \in Orders, NEW j \in BitsAt(k)
      PROVE  /\ IsSet(k, j)' => IsSet(k, j)
             /\ IsSet(k, j) /\ ~(k = o /\ j = i) => IsSet(k, j)'
  <2>1. Bit(k, j)' = Bit(k, j)
    BY <1>2 DEF Bit
  <2>2. Bit(k, j) = Bit(o, i) => k = o /\ j = i
    BY <1>1, <1>3, <1>5, <1>6, Distinct
  <2> QED
    BY <1>4, <2>1, <2>2 DEF IsSet
<1>9. ASSUME NEW p \in AllPages
      PROVE  /\ p \in BitsAt(0) /\ p \in Nat
             /\ IsSet(0, p)' <=> IsSet(0, p)
  <2>1. p \in Nat /\ Covers(0, p, p)
    BY CoversPage, BlockCountAssumption DEF AllPages
  <2>2. p \in BitsAt(0)
    BY <2>1, OrdersFacts, InBitmap
  <2> QED
    BY <1>3, <1>8, <2>1, <2>2
<1>10. PagesMarked'
  <2>1. LivePages' = LivePages
    BY <1>2 DEF LivePages
  <2>2. \A p \in AllPages : IsSet(0, p) <=> p \in LivePages
    BY <1>1, <1>2 DEF PagesMarked
  <2> QED
    BY <1>2, <1>9, <2>1, <2>2 DEF PagesMarked
<1>11. MarksReachUp'
  <2>1. ASSUME NEW k \in Orders, NEW j \in BitsAt(k), NEW p \in AllPages,
               Covers(k, j, p), IsSet(0, p)'
        PROVE  IsSet(k, j)'
    <3>1. IsSet(0, p) /\ p \in Nat
      BY <1>9, <2>1
    <3>2. IsSet(k, j)
      BY <1>1, <1>2, <2>1, <3>1 DEF MarksReachUp
    <3>3. CASE k = o /\ j = i
      <4>1. Covers(o - 1, 2 * i, p) \/ Covers(o - 1, 2 * i + 1, p)
        BY <1>3, <1>6, <2>1, <3>1, <3>3, CoversHalves
      <4>2. IsSet(o - 1, 2 * i) \/ IsSet(o - 1, 2 * i + 1)
        BY <1>1, <1>2, <1>3, <1>7, <3>1, <4>1 DEF MarksReachUp
      <4>3. bits' = bits
        BY <1>4, <4>2
      <4> QED
        BY <1>2, <3>2, <4>3 DEF IsSet, Bit
    <3> QED
      BY <1>8, <3>2, <3>3
  <2> QED
    BY <2>1 DEF MarksReachUp
<1>12. MarksReachDown'
  <2>1. ASSUME NEW k \in Orders, NEW j \in BitsAt(k), IsSet(k, j)'
        PROVE  \/ \E p \in AllPages : Covers(k, j, p) /\ IsSet(0, p)'
               \/ Pending(k, j)'
    <3>1. IsSet(k, j)
      BY <1>8, <2>1
    <3>2. k \in Nat /\ j \in Nat
      BY OrdersFacts, SizeFacts
    <3>3. ASSUME NEW p \in AllPages, Covers(k, j, p), IsSet(0, p)
          PROVE  \E q \in AllPages : Covers(k, j, q) /\ IsSet(0, q)'
      BY <1>9, <3>3
    <3>4. CASE ~Pending(k, j)
      BY <1>1, <1>2, <3>1, <3>3, <3>4 DEF MarksReachDown
    <3>5. CASE Pending(k, j) /\ ~(k = o /\ j = i)
      BY <1>2, <1>3, <1>6, <3>2, <3>5 DEF Pending
    <3>6. CASE k = o /\ j = i
      <4>1. IsSet(o - 1, 2 * i) \/ IsSet(o - 1, 2 * i + 1)
        <5>1. Bit(o, i) \in bits'
          BY <1>2, <2>1, <3>6 DEF IsSet, Bit
        <5> QED
          BY <1>4, <5>1
      <4>2. PICK h \in {2 * i, 2 * i + 1} : IsSet(o - 1, h)
        BY <4>1
      <4>3. h \in BitsAt(o - 1) /\ ~Pending(o - 1, h)
        BY <1>3, <1>7 DEF Pending
      <4>4. PICK p \in AllPages : Covers(o - 1, h, p) /\ IsSet(0, p)
        BY <1>1, <1>2, <1>3, <4>2, <4>3 DEF MarksReachDown
      <4>5. p \in Nat
        BY <1>9
      <4>6. Covers(o, i, p)
        BY <1>3, <1>6, <4>4, <4>5, CoversHalves
      <4> QED
        BY <3>3, <3>6, <4>4, <4>6
    <3> QED
      BY <3>4, <3>5, <3>6
  <2> QED
    BY <2>1 DEF MarksReachDown
<1> QED
  BY <1>10, <1>11, <1>12

\* One iteration of buddy_free's loops.
LEMMA FreeBlockInv ==
    ASSUME TailFits, Inv, FreeBlock
    PROVE  Inv'
<1>1. TypeOK /\ Layout /\ LiveDisjoint /\ Freeing
  BY DEF Inv
<1>2. TypeOK'
  BY <1>1, NextType DEF Next
<1>3. /\ pc = "free" /\ i <= last
      /\ UNCHANGED <<ptr, live, pc, buddy_ptr, arg, o, first, last>>
      /\ i' = i + 1
  BY Zenon DEF FreeBlock
<1>4. Layout'
  BY <1>1, <1>3 DEF Layout, Created
<1>5. Cleared'
  BY <1>3 DEF Cleared
<1>6. LiveDisjoint'
  BY <1>1, <1>3 DEF LiveDisjoint
<1>7. Freeing'
  <2>1. i \in Nat /\ first \in Nat /\ last \in Nat
    BY <1>1 DEF TypeOK
  <2>2. first <= i' /\ i' <= last + 1
    BY <1>1, <1>3, <2>1 DEF Freeing
  <2>3. LivePages' = LivePages
    BY <1>3 DEF LivePages
  <2> QED
    BY <1>1, <1>3, <2>2, <2>3 DEF Freeing
<1>8. PagesMarked' /\ MarksReachUp' /\ MarksReachDown'
  BY FreePageInv, FreeLargerInv
<1> QED
  BY <1>2, <1>4, <1>5, <1>6, <1>7, <1>8 DEF Inv

\* When an order is done no block of it is pending: the blocks beyond `last'
\* hold no page that is given back.
LEMMA OrderDone ==
    ASSUME TailFits, Inv, pc = "free", i > last,
           NEW k \in Orders, NEW j \in BitsAt(k), Pending(k, j)
    PROVE  /\ o < k
           /\ \E p \in Pages(arg) : Covers(k, j, p)
<1>1. TypeOK /\ Freeing
  BY DEF Inv
<1>2. PICK p \in Pages(arg) : Covers(k, j, p)
  BY DEF Pending
<1>3. k \in 0 .. 15 /\ j \in Nat
  BY OrdersFacts, SizeFacts
<1>4. first \in Nat /\ last \in Nat /\ i \in Nat
  BY <1>1 DEF TypeOK
<1>5. ASSUME k = o, i <= j PROVE FALSE
  <2> DEFINE z == arg.first + arg.count - 1
  <2>1. z \in Nat /\ p \in Nat /\ p <= z
    BY <1>1, FreeFacts
  <2>2. Covers(k, last, z)
    BY <1>1, <1>5 DEF Freeing
  <2>3. j <= last
    <3> HIDE DEF z
    <3> QED
      BY <1>2, <1>3, <1>4, <2>1, <2>2, CoversOrdered
  <2> QED
    BY <1>3, <1>4, <1>5, <2>3
<1> QED
  BY <1>2, <1>5 DEF Pending

\* Going up an order halves the range, and keeps it around the pages.
LEMMA FreeNextOrderInv ==
    ASSUME TailFits, Inv, FreeNextOrder
    PROVE  Inv'
<1>1. /\ TypeOK /\ Layout /\ LiveDisjoint /\ Freeing
      /\ PagesMarked /\ MarksReachUp /\ MarksReachDown
  BY DEF Inv
<1>2. TypeOK'
  BY <1>1, NextType DEF Next
<1>3. /\ pc = "free" /\ i > last /\ o < Order
      /\ UNCHANGED <<ptr, bits, live, pc, buddy_ptr, arg>>
      /\ o' = o + 1 /\ first' = first \div 2 /\ i' = first \div 2
      /\ last' = last \div 2
  BY DEF FreeNextOrder
<1>4. /\ o \in Nat /\ o + 1 \in Orders /\ o + 1 \in 1 .. 15
  <2>1. o \in Orders
    BY <1>1, <1>3, FreeFacts
  <2> QED
    BY <1>3, <2>1, OrderFacts DEF Orders
<1>5. first \in Nat /\ last \in Nat /\ i \in Nat /\ first <= last + 1
  BY <1>1, <1>3 DEF TypeOK, Freeing
<1>6. /\ arg.first \in Nat /\ arg.count \in Nat \ {0}
      /\ Pages(arg) = arg.first .. arg.first + arg.count - 1
  BY <1>1, <1>3, FreeFacts
<1>7. \A k, j : IsSet(k, j)' <=> IsSet(k, j)
  BY <1>3 DEF IsSet, Bit
<1>8. ASSUME NEW m \in Nat, NEW p \in Nat, Covers(o, m, p)
      PROVE  m \div 2 \in Nat /\ Covers(o + 1, m \div 2, p)
  <2>1. m \div 2 \in Nat /\ (m = 2 * (m \div 2) \/ m = 2 * (m \div 2) + 1)
    OBVIOUS
  <2> DEFINE h == m \div 2
  <2> HIDE DEF h
  <2>2. h \in Nat /\ (m = 2 * h \/ m = 2 * h + 1) /\ (o + 1) - 1 = o
    BY <1>4, <2>1 DEF h
  <2>3. Covers(o + 1, h, p)
    BY <1>4, <1>8, <2>2, CoversHalves
  <2> QED
    BY <2>2, <2>3 DEF h
<1>9. /\ Covers(o + 1, first', arg.first)
      /\ Covers(o + 1, last', arg.first + arg.count - 1)
      /\ first' \in Nat /\ last' \in Nat
  <2>1. arg.first + arg.count - 1 \in Nat
    BY <1>6
  <2>2. /\ Covers(o, first, arg.first)
        /\ Covers(o, last, arg.first + arg.count - 1)
    BY <1>1, <1>3 DEF Freeing
  <2> QED
    BY <1>3, <1>5, <1>6, <1>8, <2>1, <2>2
<1>10. Layout'
  BY <1>1, <1>3 DEF Layout, Created
<1>11. Cleared'
  BY <1>3 DEF Cleared
<1>12. LiveDisjoint'
  BY <1>1, <1>3 DEF LiveDisjoint
<1>13. Freeing'
  <2>1. first' <= i' /\ i' <= last' + 1
    BY <1>3, <1>5
  <2>2. LivePages' = LivePages
    BY <1>3 DEF LivePages
  <2>3. arg.count >= 1 /\ Pages(arg) \subseteq AllPages
        /\ Pages(arg) \cap LivePages = {}
    BY <1>1, <1>3 DEF Freeing
  <2> QED
    BY <1>3, <1>4, <1>9, <2>1, <2>2, <2>3 DEF Freeing
<1>14. PagesMarked'
  <2>1. LivePages' = LivePages
    BY <1>3 DEF LivePages
  <2>2. ASSUME NEW p \in AllPages PROVE IsSet(0, p) <=> p \in LivePages
    <3>1. o = 0 /\ p \in Pages(arg) => ~(i <= p)
      <4>1. ASSUME o = 0 PROVE last = arg.first + arg.count - 1
        BY <1>1, <1>3, <1>5, <1>6, <4>1, CoversPage DEF Freeing
      <4> QED
        BY <1>3, <1>5, <1>6, <4>1
    <3> QED
      BY <1>1, <1>3, <3>1 DEF PagesMarked
  <2>3. o' # 0
    BY <1>3, <1>4
  <2> QED
    BY <1>7, <2>1, <2>2, <2>3 DEF PagesMarked
<1>15. MarksReachUp'
  BY <1>1, <1>3, <1>7 DEF MarksReachUp
<1>16. MarksReachDown'
  <2>1. ASSUME NEW k \in Orders, NEW j \in BitsAt(k), Pending(k, j)
        PROVE  Pending(k, j)'
    <3>1. o < k /\ k \in 0 .. 15 /\ j \in Nat
      BY <1>3, <2>1, OrderDone, OrdersFacts, SizeFacts
    <3>2. PICK p \in Pages(arg) : Covers(k, j, p)
      BY <1>3, <2>1, OrderDone
    <3>3. CASE k = o + 1
      <4>1. p \in Nat /\ arg.first <= p
        BY <1>6
      <4>2. first' <= j
        BY <1>6, <1>9, <3>1, <3>2, <3>3, <4>1, CoversOrdered
      <4> QED
        BY <1>3, <3>2, <3>3, <4>2 DEF Pending
    <3>4. CASE k # o + 1
      <4>1. o' < k
        BY <1>3, <1>4, <3>1, <3>4
      <4> QED
        BY <1>3, <3>2, <4>1 DEF Pending
    <3> QED
      BY <3>3, <3>4
  <2> QED
    BY <1>1, <1>3, <1>7, <2>1 DEF MarksReachDown
<1> QED
  BY <1>2, <1>10, <1>11, <1>12, <1>13, <1>14, <1>15, <1>16 DEF Inv

\* When the highest order is done the marks are exact again.
LEMMA FreeDoneInv ==
    ASSUME TailFits, Inv, FreeDone
    PROVE  Inv'
<1>1. /\ TypeOK /\ Layout /\ LiveDisjoint /\ Freeing
      /\ PagesMarked /\ MarksReachUp /\ MarksReachDown
  BY DEF Inv
<1>2. TypeOK'
  BY <1>1, NextType DEF Next
<1>3. /\ pc = "free" /\ pc' = "idle" /\ i > last /\ o = Order
      /\ UNCHANGED <<ptr, bits, live, buddy_ptr>>
  BY DEF FreeDone
<1>4. \A k, j : IsSet(k, j)' <=> IsSet(k, j)
  BY <1>3 DEF IsSet, Bit
<1>5. Layout'
  BY <1>1, <1>3 DEF Layout, Created
<1>6. Cleared' /\ Freeing'
  BY <1>3 DEF Cleared, Freeing
<1>7. LiveDisjoint'
  BY <1>1, <1>3 DEF LiveDisjoint
<1>8. PagesMarked'
  <2>1. LivePages' = LivePages
    BY <1>3 DEF LivePages
  <2>2. ASSUME NEW p \in AllPages PROVE IsSet(0, p) <=> p \in LivePages
    <3>1. /\ arg.first \in Nat /\ arg.count \in Nat \ {0}
          /\ Pages(arg) = arg.first .. arg.first + arg.count - 1
      BY <1>1, <1>3, FreeFacts
    <3>2. last \in Nat /\ i \in Nat
      BY <1>1 DEF TypeOK
    <3>3. o = 0 /\ p \in Pages(arg) => ~(i <= p)
      <4>1. ASSUME o = 0 PROVE last = arg.first + arg.count - 1
        BY <1>1, <1>3, <3>1, <3>2, <4>1, CoversPage DEF Freeing
      <4> QED
        BY <1>3, <3>1, <3>2, <4>1
    <3> QED
      BY <1>1, <1>3, <3>3 DEF PagesMarked
  <2> QED
    BY <1>3, <1>4, <2>1, <2>2 DEF PagesMarked
<1>9. MarksReachUp'
  BY <1>1, <1>3, <1>4 DEF MarksReachUp
<1>10. MarksReachDown'
  <2>1. ASSUME NEW k \in Orders, NEW j \in BitsAt(k) PROVE ~Pending(k, j)
    <3>1. ~(o < k)
      BY <1>3, OrderFacts DEF Orders
    <3> QED
      BY <1>3, <3>1, OrderDone
  <2> QED
    BY <1>1, <1>3, <1>4, <2>1 DEF MarksReachDown
<1> QED
  BY <1>2, <1>5, <1>6, <1>7, <1>8, <1>9, <1>10 DEF Inv
-----------------------------------------------------------------------------
(* Theorems *)

\* Every step preserves the invariant.
LEMMA NextInv == TailFits /\ Inv /\ [Next]_vars => Inv'
<1> SUFFICES ASSUME TailFits, Inv, [Next]_vars PROVE Inv'
  OBVIOUS
<1>1. CASE CreateOrder
  BY <1>1, CreateOrderInv
<1>2. CASE CreateDone
  BY <1>2, CreateDoneInv
<1>3. ASSUME NEW n \in Counts, Alloc(n) PROVE Inv'
  BY <1>3, AllocInv
<1>4. ASSUME UNCHANGED vars PROVE Inv'
  BY <1>4 DEF vars, Inv, TypeOK, Layout, Cleared, LiveDisjoint, Freeing,
              PagesMarked, MarksReachUp, MarksReachDown, Created, IsSet, Bit,
              LivePages, Pending
<1>5. ASSUME NEW n \in Counts, AllocFailed(n) PROVE Inv'
  BY <1>4, <1>5 DEF AllocFailed
<1>6. ASSUME NEW a \in live, Free(a) PROVE Inv'
  BY <1>6, FreeInv
<1>7. CASE FreeBlock
  BY <1>7, FreeBlockInv
<1>8. CASE FreeNextOrder
  BY <1>8, FreeNextOrderInv
<1>9. CASE FreeDone
  BY <1>9, FreeDoneInv
<1> QED
  BY <1>1, <1>2, <1>3, <1>4, <1>5, <1>6, <1>7, <1>8, <1>9 DEF Next

\* Wherever buddy_create, buddy_alloc and buddy_free have got to, the bitmaps
\* describe exactly the pages in use and those still to be cleared.
THEOREM Invariance ==
    ASSUME TailFits
    PROVE  Spec => []Inv
<1>1. Inv /\ [Next]_vars => Inv'
  BY NextInv
<1> QED
  BY <1>1, InitInv, PTL DEF Spec

\* Between two calls, no request whatever is answered with a page that is in
\* use or that is not in the region.
THEOREM AllocationsDisjoint ==
    ASSUME TailFits
    PROVE  Spec => []NoDoubleAllocation
<1>1. Inv => NoDoubleAllocation
  <2> SUFFICES ASSUME Inv, pc = "idle",
                      NEW n \in Counts, NEW p \in Candidates(n)
               PROVE  /\ p .. p + n - 1 \subseteq AllPages
                      /\ \A a \in live : Pages(a) \cap (p .. p + n - 1) = {}
    BY DEF NoDoubleAllocation
  <2>1. \A r \in p .. p + n - 1 : r \in AllPages /\ ~IsSet(0, r)
    BY CandidateFree DEF Inv
  <2>2. \A r \in AllPages : r \in LivePages => IsSet(0, r)
    BY DEF Inv, PagesMarked
  <2> QED
    BY <2>1, <2>2 DEF LivePages
<1> QED
  BY <1>1, Invariance, PTL

\* Between two calls every marked block holds a page in use, so what was given
\* back can be handed out again in the largest blocks it makes up.
THEOREM MarksExactWhenIdle ==
    ASSUME TailFits
    PROVE  Spec => []NothingLost
<1>1. Inv => NothingLost
  <2> SUFFICES ASSUME Inv, pc = "idle",
                      NEW k \in Orders, NEW j \in AllPages,
                      j * Pow2(k) < BlockCount, IsSet(k, j)
               PROVE  \E p \in LivePages : Covers(k, j, p)
    BY DEF NothingLost
  <2>1. k \in 0 .. 15 /\ Pow2(k) \in Nat \ {0} /\ j \in Nat
    BY OrdersFacts, Pow2Facts, BlockCountAssumption DEF AllPages
  <2>2. j * Pow2(k) \in AllPages /\ Covers(k, j, j * Pow2(k))
    <3>1. j * Pow2(k) \in Nat /\ (j + 1) * Pow2(k) = j * Pow2(k) + Pow2(k)
      BY <2>1
    <3> QED
      BY <2>1, <3>1, BlockCountAssumption DEF AllPages, Covers
  <2>3. j \in BitsAt(k)
    BY <2>1, <2>2, InBitmap
  <2>4. PICK p \in AllPages : Covers(k, j, p) /\ IsSet(0, p)
    BY <2>3 DEF Inv, MarksReachDown, Pending
  <2> QED
    BY <2>4 DEF Inv, PagesMarked
<1> QED
  BY <1>1, Invariance, PTL

\* No call changes a bit behind the last bitmap, where the pages that are
\* handed out begin.
THEOREM WritesInBounds ==
    ASSUME TailFits
    PROVE  Spec => WritesStayInBitmaps
<1> DEFINE A == pc # "create" =>
                    \A b \in (bits \ bits') \cup (bits' \ bits) :
                        b < 8 * buddy_ptr
<1>1. Inv /\ [Next]_vars => [A]_vars
  <2> SUFFICES ASSUME Inv, Next, pc # "create",
                      NEW b, b \in (bits \ bits') \cup (bits' \ bits)
               PROVE  b < 8 * buddy_ptr
    OBVIOUS
  <2>1. TypeOK /\ Layout /\ Freeing /\ MarksReachUp /\ Created = Orders
    BY DEF Inv, Created
  <2>2. ASSUME NEW k \in Orders, NEW j \in BitsAt(k), b = Bit(k, j)
        PROVE  b < 8 * buddy_ptr
    <3>1. ptr[k] + SizeAt(k) <= buddy_ptr /\ ptr[k] \in Nat /\ buddy_ptr \in Nat
      BY <2>1 DEF Layout, TypeOK
    <3>2. SizeAt(k) \in Nat /\ j \in Nat /\ j < 8 * SizeAt(k)
      BY SizeFacts DEF BitsAt
    <3> QED
      BY <2>2, <3>1, <3>2 DEF Bit
  <2>3. ASSUME NEW n \in Counts, Alloc(n) PROVE b < 8 * buddy_ptr
    <3>1. PICK q \in Candidates(n) :
              bits' = bits \cup Marks([first |-> q, count |-> n])
      BY <2>3 DEF Alloc
    <3> DEFINE a == [first |-> q, count |-> n]
    <3>2. Pages(a) \subseteq AllPages
      <4>1. Pages(a) = q .. q + n - 1
        BY DEF Pages
      <4> QED
        BY <2>1, <4>1, CandidateFree
    <3>3. b \in Marks(a)
      BY <3>1
    <3>4. PICK c \in Orders \X AllPages :
              /\ \E p \in Pages(a) : Covers(c[1], c[2], p)
              /\ b = Bit(c[1], c[2])
      BY <3>3 DEF Marks
    <3>5. PICK p \in AllPages : Covers(c[1], c[2], p)
      BY <3>2, <3>4
    <3>6. c[1] \in Orders /\ c[2] \in Nat
      BY BlockCountAssumption DEF AllPages
    <3>7. c[2] \in BitsAt(c[1])
      BY <3>5, <3>6, InBitmap
    <3> QED
      BY <2>2, <3>4, <3>6, <3>7
  <2>4. CASE FreeBlock
    <3>1. b = Bit(o, i) /\ pc = "free" /\ i <= last
      BY <2>4, Zenon DEF FreeBlock
    <3>2. o \in Orders /\ i \in first .. last
      BY <2>1, <3>1, FreeFacts DEF Freeing, TypeOK
    <3>3. i \in BitsAt(o)
      BY <2>1, <3>1, <3>2, FreeFacts
    <3> QED
      BY <2>2, <3>1, <3>2, <3>3
  <2>5. ASSUME bits' = bits PROVE b < 8 * buddy_ptr
    BY <2>5
  <2>6. ASSUME NEW n \in Counts, AllocFailed(n) PROVE bits' = bits
    BY <2>6 DEF AllocFailed, vars
  <2>7. ASSUME NEW a \in live, Free(a) PROVE bits' = bits
    BY <2>7 DEF Free
  <2>8. FreeNextOrder \/ FreeDone => bits' = bits
    BY DEF FreeNextOrder, FreeDone
  <2>9. ~CreateOrder /\ ~CreateDone
    BY DEF CreateOrder, CreateDone
  <2> QED
    BY <2>3, <2>4, <2>5, <2>6, <2>7, <2>8, <2>9 DEF Next
<1>2. Spec => [][A]_vars
  BY <1>1, Invariance, PTL DEF Spec
<1> QED
  BY <1>2 DEF WritesStayInBitmaps

\* To its callers the buddy allocator is a page allocator: every allocation it
\* grants is one the abstract allocator may grant.
THEOREM Refinement ==
    ASSUME TailFits
    PROVE  Spec => ImplementsPageAllocator
<1>1. Init => PA!PAInit
  BY DEF Init, PA!PAInit
<1>2. Inv /\ [Next]_vars => [PA!PANext]_live
  <2> SUFFICES ASSUME Inv, [Next]_vars PROVE [PA!PANext]_live
    OBVIOUS
  <2>1. TypeOK /\ PagesMarked /\ MarksReachUp
    BY DEF Inv
  <2>2. ASSUME NEW n \in Counts, Alloc(n) PROVE PA!PANext
    <3>1. PICK q \in Candidates(n) :
              live' = live \cup {[first |-> q, count |-> n]}
      BY <2>2 DEF Alloc
    <3> DEFINE a == [first |-> q, count |-> n]
    <3>2. PA!Pages(a) = q .. q + n - 1
      BY DEF PA!Pages
    <3>3. pc = "idle"
      BY <2>2 DEF Alloc
    <3>4. \A p \in PA!Pages(a) : p \in AllPages /\ p \notin LivePages
      BY <2>1, <3>2, <3>3, CandidateFree DEF PagesMarked
    <3>5. \A b \in live : PA!Pages(a) \cap PA!Pages(b) = {}
      BY <3>4 DEF LivePages, Pages, PA!Pages
    <3>6. a \in PA!Allocations
      BY DEF PA!Allocations, Candidates, AllPages
    <3>7. PA!Grant(a)
      BY <3>1, <3>4, <3>5 DEF PA!Grant, AllPages
    <3> QED
      BY <3>6, <3>7 DEF PA!PANext
  <2>3. ASSUME NEW a \in live, Free(a) PROVE PA!PANext
    <3>1. a \in PA!Allocations
      BY <2>1 DEF TypeOK, PA!Allocations, AllPages
    <3>2. PA!Release(a)
      BY <2>3 DEF Free, PA!Release
    <3> QED
      BY <3>1, <3>2 DEF PA!PANext
  <2>4. ASSUME NEW n \in Counts, AllocFailed(n) PROVE UNCHANGED live
    BY <2>4 DEF AllocFailed, vars
  <2>5. CreateOrder \/ CreateDone => UNCHANGED live
    BY DEF CreateOrder, CreateDone
  <2>6. FreeNextOrder \/ FreeDone => UNCHANGED live
    BY DEF FreeNextOrder, FreeDone
  <2>7. FreeBlock => UNCHANGED live
    BY Zenon DEF FreeBlock
  <2>8. UNCHANGED vars => UNCHANGED live
    BY DEF vars
  <2> QED
    BY <2>2, <2>3, <2>4, <2>5, <2>6, <2>7, <2>8 DEF Next
<1>3. Spec => PA!PASpec
  BY <1>1, <1>2, Invariance, PTL DEF Spec, PA!PASpec
<1> QED
  BY <1>3 DEF ImplementsPageAllocator
=============================================================================
