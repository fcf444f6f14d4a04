----------------------------- MODULE LoaderProof -----------------------------
EXTENDS Loader, SequenceTheorems, WellFoundedInduction, TLAPS
LOCAL INSTANCE FiniteSetsExt

-----------------------------------------------------------------------------
(* Chains of clusters *)

\* A set of numbers that is not empty has a smallest one.
LEMMA Smallest ==
    ASSUME NEW S, S \subseteq Nat, S # {}
    PROVE  \E x \in S : \A y \in S : x <= y
<1>1. \E x \in S : \A y \in S : ~(<<y, x>> \in OpToRel(<, Nat))
  BY NatLessThanWellFounded, WFMin
<1>2. PICK x \in S : \A y \in S : ~(<<y, x>> \in OpToRel(<, Nat))
  BY <1>1
<1>3. \A y \in S : ~(y < x)
  BY <1>2 DEF OpToRel
<1> QED
  BY <1>3

\* g follows the chain from c for n clusters.
IsChain(v, c, g, n) ==
    /\ g = [k \in 0 .. n |-> g[k]]
    /\ g[0] = c
    /\ \A k \in 1 .. n : g[k] = v.next[g[k - 1]]

\* There is such a chain of every length.
LEMMA ChainExists ==
    ASSUME NEW v, NEW c, NEW n \in Nat
    PROVE  \E g : IsChain(v, c, g, n)
<1> DEFINE S == {m \in Nat : ~(\E g : IsChain(v, c, g, m))}
<1>1. SUFFICES ASSUME S # {} PROVE FALSE
  OBVIOUS
<1>2. PICK m \in S : \A y \in S : m <= y
  BY <1>1, Smallest
<1>3. m # 0
  <2>1. IsChain(v, c, [k \in 0 .. 0 |-> c], 0)
    BY DEF IsChain
  <2> QED
    BY <1>2, <2>1
<1>4. m - 1 \in Nat /\ m - 1 \notin S
  BY <1>2, <1>3
<1>5. PICK g : IsChain(v, c, g, m - 1)
  BY <1>4
<1> DEFINE h == [k \in 0 .. m |-> IF k = m THEN v.next[g[m - 1]] ELSE g[k]]
<1>6. IsChain(v, c, h, m)
  <2>1. h = [k \in 0 .. m |-> h[k]]
    OBVIOUS
  <2>2. h[0] = c
    BY <1>2, <1>3, <1>5 DEF IsChain
  <2>3. ASSUME NEW k \in 1 .. m PROVE h[k] = v.next[h[k - 1]]
    <3>1. CASE k = m
      BY <1>2, <1>3, <3>1
    <3>2. CASE k # m
      <4>1. k \in 1 .. m - 1 /\ k - 1 # m /\ k - 1 \in 0 .. m
        BY <1>4, <3>2
      <4>2. g[k] = v.next[g[k - 1]]
        BY <1>5, <4>1 DEF IsChain
      <4> QED
        BY <3>2, <4>1, <4>2
    <3> QED
      BY <3>1, <3>2
  <2> HIDE DEF h
  <2> QED
    BY <2>1, <2>2, <2>3 DEF IsChain
<1> QED
  BY <1>2, <1>6

\* Two chains agree as far as both go.
LEMMA ChainUnique ==
    ASSUME NEW v, NEW c, NEW m \in Nat, NEW n \in Nat, NEW g, NEW h,
           IsChain(v, c, g, m), IsChain(v, c, h, n), NEW k \in Nat, k <= m, k <= n
    PROVE  g[k] = h[k]
<1> DEFINE S == {j \in 0 .. k : g[j] # h[j]}
<1>1. SUFFICES ASSUME S # {} PROVE FALSE
  OBVIOUS
<1>2. PICK j \in S : \A y \in S : j <= y
  <2>1. S \subseteq Nat
    OBVIOUS
  <2> HIDE DEF S
  <2> QED
    BY <1>1, <2>1, Smallest
<1>3. j # 0
  BY <1>2 DEF IsChain
<1>4. g[j - 1] = h[j - 1]
  BY <1>2, <1>3
<1>5. j \in 1 .. m /\ j \in 1 .. n
  BY <1>2, <1>3
<1> QED
  BY <1>2, <1>4, <1>5 DEF IsChain

LEMMA NthUnfolds ==
    ASSUME NEW v, NEW c
    PROVE  /\ NthOf(v, c, 0) = c
           /\ \A k \in Nat : NthOf(v, c, k + 1) = v.next[NthOf(v, c, k)]
<1> DEFINE G(n) == CHOOSE g : IsChain(v, c, g, n)
           f == [n \in Nat |-> G(n)[n]]
           Follows(w) == w = [n \in Nat |-> IF n = 0 THEN c ELSE v.next[w[n - 1]]]
<1>1. ASSUME NEW n \in Nat PROVE IsChain(v, c, G(n), n)
  BY ChainExists
<1>2. ASSUME NEW n \in Nat PROVE f[n] = IF n = 0 THEN c ELSE v.next[f[n - 1]]
  <2>1. CASE n = 0
    BY <1>1, <2>1 DEF IsChain
  <2>2. CASE n # 0
    <3>1. n - 1 \in Nat
      BY <2>2
    <3>2. G(n)[n - 1] = G(n - 1)[n - 1]
      <4> HIDE DEF G
      <4> QED
        BY <1>1, <3>1, ChainUnique
    <3>3. G(n)[n] = v.next[G(n)[n - 1]]
      <4>1. n \in 1 .. n
        BY <2>2
      <4>2. IsChain(v, c, G(n), n)
        BY <1>1
      <4> HIDE DEF G
      <4> QED
        BY <4>1, <4>2 DEF IsChain
    <3> HIDE DEF G
    <3> QED
      BY <2>2, <3>1, <3>2, <3>3
  <2> QED
    BY <2>1, <2>2
<1>3. Follows(f)
  <2>1. f = [n \in Nat |-> f[n]]
    OBVIOUS
  <2> HIDE DEF f
  <2> QED
    BY <1>2, <2>1
<1> DEFINE w == CHOOSE w : Follows(w)
<1>4. Follows(w)
  <2> HIDE DEF f, Follows
  <2> QED
    BY <1>3
<1>5. ASSUME NEW k PROVE NthOf(v, c, k) = w[k]
  BY DEF NthOf
<1> HIDE DEF w
<1>6. ASSUME NEW k \in Nat PROVE k + 1 \in Nat /\ k + 1 # 0 /\ (k + 1) - 1 = k
  OBVIOUS
<1>7. w[0] = c
  BY <1>4
<1>8. ASSUME NEW k \in Nat PROVE w[k + 1] = v.next[w[k]]
  BY <1>4, <1>6
<1> QED
  BY <1>5, <1>7, <1>8
-----------------------------------------------------------------------------
(* Numbers *)

\* A quotient and its remainder.
LEMMA Quotient ==
    ASSUME NEW a \in Nat, NEW d \in Nat \ {0}
    PROVE  /\ a \div d \in Nat /\ a % d \in 0 .. d - 1
           /\ a = (a \div d) * d + (a % d)
           /\ (a \div d) * d <= a /\ a < ((a \div d) + 1) * d
OBVIOUS

\* Between two multiples there is one quotient.
LEMMA QuotientIs ==
    ASSUME NEW a \in Nat, NEW d \in Nat \ {0}, NEW q \in Nat, q * d <= a, a < (q + 1) * d
    PROVE  a \div d = q /\ a % d = a - q * d
<1> DEFINE p == a \div d
           r == a % d
<1>1. p \in Nat /\ r \in 0 .. d - 1 /\ a = p * d + r /\ p * d <= a /\ a < (p + 1) * d
  BY Quotient
<1> HIDE DEF p, r
<1>2. ASSUME NEW x \in Nat, NEW y \in Nat, x < y PROVE (x + 1) * d <= y * d /\ x * d \in Nat /\ y * d \in Nat
  <2>1. x + 1 \in Nat /\ x + 1 <= y
    BY <1>2
  <2> DEFINE z == x + 1
  <2> HIDE DEF z
  <2>2. z * d <= y * d
    BY <2>1 DEF z
  <2> QED
    BY <2>2 DEF z
<1>3. ~(p < q)
  <2> SUFFICES ASSUME p < q PROVE FALSE
    OBVIOUS
  <2>1. (p + 1) * d <= q * d /\ (p + 1) * d \in Nat /\ q * d \in Nat
    BY <1>1, <1>2
  <2> QED
    BY <1>1, <2>1
<1>4. ~(q < p)
  <2> SUFFICES ASSUME q < p PROVE FALSE
    OBVIOUS
  <2>1. (q + 1) * d <= p * d /\ (q + 1) * d \in Nat /\ p * d \in Nat
    BY <1>1, <1>2
  <2> QED
    BY <1>1, <2>1
<1>5. p = q
  BY <1>1, <1>3, <1>4
<1>6. q * d \in Nat
  OBVIOUS
<1> QED
  BY <1>1, <1>5, <1>6 DEF p, r

\* The quotient of a multiple and a rest.
LEMMA QuotientOf ==
    ASSUME NEW q \in Nat, NEW d \in Nat \ {0}, NEW r \in 0 .. d - 1
    PROVE  (q * d + r) \div d = q /\ (q * d + r) % d = r
<1> DEFINE a == q * d + r
           m == q * d
<1>1. m \in Nat /\ (q + 1) * d = m + d
  OBVIOUS
<1> HIDE DEF m
<1>2. m + r \in Nat /\ m <= m + r /\ m + r < m + d /\ (m + r) - m = r
  BY <1>1
<1>3. a = m + r
  BY DEF m
<1>4. a \in Nat /\ q * d <= a /\ a < (q + 1) * d /\ a - q * d = r
  BY <1>1, <1>2, <1>3 DEF m
<1> HIDE DEF a
<1>5. a \div d = q /\ a % d = r
  BY <1>4, QuotientIs
<1> QED
  BY <1>5 DEF a

LEMMA RestOf ==
    ASSUME NEW d \in Nat \ {0}, NEW r \in 0 .. d - 1
    PROVE  r % d = r
<1> DEFINE z == 0 * d
<1>1. z = 0 /\ r \in Nat
  OBVIOUS
<1>2. (z + r) % d = r
  BY QuotientOf
<1> HIDE DEF z
<1>3. z + r = r
  BY <1>1
<1> QED
  BY <1>2, <1>3

\* Quotients compare as what is divided.
LEMMA QuotientMonotonic ==
    ASSUME NEW a \in Nat, NEW b \in Nat, NEW d \in Nat \ {0}, a <= b
    PROVE  a \div d <= b \div d
<1> DEFINE p == a \div d
           q == b \div d
<1>1. p \in Nat /\ q \in Nat /\ p * d <= a /\ b < (q + 1) * d
  BY Quotient
<1> HIDE DEF p, q
<1>2. ASSUME q < p PROVE FALSE
  <2>1. (q + 1) * d <= p * d
    BY <1>1, <1>2
  <2>2. (q + 1) * d \in Nat /\ p * d \in Nat
    BY <1>1
  <2> QED
    BY <1>1, <2>1, <2>2
<1>3. p <= q
  BY <1>1, <1>2
<1> QED
  BY <1>3 DEF p, q

\* The smallest of three numbers.
LEMMA MinOfThree ==
    ASSUME NEW a \in Nat, NEW b \in Nat, NEW c \in Nat
    PROVE  LET m == Min({a, b, c}) IN m \in {a, b, c} /\ m <= a /\ m <= b /\ m <= c
<1>1. \E x \in {a, b, c} : \A y \in {a, b, c} : x <= y
  <2>1. CASE a <= b /\ a <= c
    BY <2>1
  <2>2. CASE b <= a /\ b <= c
    BY <2>2
  <2>3. CASE c <= a /\ c <= b
    BY <2>3
  <2> QED
    BY <2>1, <2>2, <2>3
<1> QED
  BY <1>1 DEF Min

\* The smaller of two numbers.
LEMMA MinOfTwo ==
    ASSUME NEW a \in Int, NEW b \in Int
    PROVE  Min({a, b}) = IF a <= b THEN a ELSE b
<1>1. \E x \in {a, b} : \A y \in {a, b} : x <= y
  OBVIOUS
<1>2. Min({a, b}) \in {a, b} /\ \A y \in {a, b} : Min({a, b}) <= y
  BY <1>1 DEF Min
<1> QED
  BY <1>2

-----------------------------------------------------------------------------
(* Cylinders, heads and sectors *)

LEMMA Geometry ==
    /\ SectorPerTrack \in Nat \ {0} /\ HeadCount \in Nat \ {0} /\ CylinderMod \in Nat /\ CylinderMod > 2
    /\ BiosSectors \in Nat /\ CylinderMod <= BiosSectors
<1> DEFINE S == SectorPerTrack
           H == HeadCount
           M == CylinderMod
<1>1. S \in Nat \ {0} /\ H \in Nat \ {0} /\ M \in Nat /\ M > 2
  BY DriveAssumption
<1>2. BiosSectors = (M * H) * S
  BY DEF BiosSectors
<1> HIDE DEF S, H, M
<1> DEFINE x == M * H
<1>3. x \in Nat /\ M <= x
  BY <1>1
<1> HIDE DEF x
<1>4. x * S \in Nat /\ x <= x * S
  BY <1>1, <1>3
<1>5. BiosSectors = x * S
  BY <1>2 DEF x
<1> QED
  BY <1>1, <1>3, <1>4, <1>5 DEF S, H, M

\* drive_lba_to_chs is undone by the BIOS, for sectors that it can be told of, and
\* there is at least one sector to the end of the cylinder.
LEMMA Chs ==
    ASSUME NEW lba \in Nat
    PROVE  /\ lba < BiosSectors => SectorAt(lba) = lba
           /\ cylinder(lba) \in Nat
           /\ max_cyl_read(lba) \in Nat \ {0}
<1> DEFINE S == SectorPerTrack
           H == HeadCount
           t == lba \div S
           c == t \div H
           h == t % H
           s == lba % S
<1>1. S \in Nat \ {0} /\ H \in Nat \ {0}
  BY Geometry
<1> HIDE DEF S, H
<1>2. t \in Nat /\ s \in Nat /\ lba = t * S + s /\ lba < (t + 1) * S
  BY <1>1, Quotient
<1> HIDE DEF t, s
<1>3. c \in Nat /\ h \in Nat /\ t = c * H + h /\ t < (c + 1) * H
  BY <1>1, <1>2, Quotient
<1> HIDE DEF c, h
<1>4. (c * H + h) * S + s = lba
  BY <1>2, <1>3
<1>5. (c + 1) * H \in Nat /\ t + 1 <= (c + 1) * H
  BY <1>1, <1>2, <1>3
<1> DEFINE e == (c + 1) * H
<1> HIDE DEF e
<1>6. (t + 1) * S <= e * S /\ e * S \in Nat /\ (t + 1) * S \in Nat
  BY <1>1, <1>2, <1>5 DEF e
<1>7. e * S - lba \in Nat \ {0}
  BY <1>2, <1>6
<1>8. cylinder(lba) = c /\ head(lba) = h /\ sector(lba) = s + 1 /\ max_cyl_read(lba) = e * S - lba
  BY DEF cylinder, head, sector, max_cyl_read, c, h, s, t, e, S, H
<1>9. Named(c, h, s + 1) = (c * H + h) * S + s
  <2>1. Named(c, h, s + 1) = (c * H + h) * S + ((s + 1) - 1)
    BY DEF Named, H, S
  <2>2. (c * H + h) * S \in Nat
    BY <1>1, <1>3
  <2> QED
    BY <1>2, <2>1, <2>2
<1>10. ASSUME lba < BiosSectors PROVE c % CylinderMod = c
  <2> DEFINE M == CylinderMod
  <2>1. M \in Nat \ {0} /\ BiosSectors = (M * H) * S
    BY Geometry DEF BiosSectors, H, S
  <2>2. ASSUME M <= c PROVE FALSE
    <3>1. M * H <= c * H /\ M * H \in Nat /\ c * H \in Nat
      BY <1>1, <1>3, <2>1, <2>2
    <3> DEFINE x == M * H
    <3>2. x \in Nat /\ x <= t
      BY <1>2, <1>3, <3>1
    <3>3. BiosSectors = x * S
      BY <2>1
    <3> HIDE DEF x
    <3>4. x * S <= t * S /\ x * S \in Nat /\ t * S \in Nat
      BY <1>1, <1>2, <3>2
    <3> QED
      BY <1>2, <1>10, <3>3, <3>4
  <2>3. c \in 0 .. M - 1
    BY <1>3, <2>1, <2>2
  <2> HIDE DEF M
  <2>4. c % M = c
    BY <2>1, <2>3, RestOf
  <2> QED
    BY <2>4 DEF M
<1>11. lba < BiosSectors => SectorAt(lba) = lba
  BY <1>4, <1>8, <1>9, <1>10 DEF SectorAt
<1> QED
  BY <1>3, <1>7, <1>8, <1>11

\* Up to there the cylinder is the same.
LEMMA SameCylinder ==
    ASSUME NEW at \in Nat, NEW last \in Nat, at <= last, last < at + max_cyl_read(at)
    PROVE  cylinder(last) = cylinder(at)
<1> DEFINE S == SectorPerTrack
           H == HeadCount
           t == at \div S
           u == last \div S
           c == t \div H
           d == u \div H
<1>1. S \in Nat \ {0} /\ H \in Nat \ {0}
  BY Geometry
<1> HIDE DEF S, H
<1>2. t \in Nat /\ u \in Nat /\ t <= u /\ u * S <= last
  BY <1>1, Quotient, QuotientMonotonic
<1> HIDE DEF t, u
<1>3. c \in Nat /\ d \in Nat /\ c <= d /\ d * H <= u
  BY <1>1, <1>2, Quotient, QuotientMonotonic
<1> HIDE DEF c, d
<1> DEFINE e == (c + 1) * H
<1>4. e \in Nat
  BY <1>1, <1>3
<1>5. max_cyl_read(at) = e * S - at
  BY DEF max_cyl_read, cylinder, c, t, e, S, H
<1>6. ASSUME c < d PROVE FALSE
  <2>1. (c + 1) * H <= d * H /\ d * H \in Nat
    BY <1>1, <1>3, <1>6
  <2>2. e <= u
    BY <1>2, <1>3, <1>4, <2>1 DEF e
  <2> HIDE DEF e
  <2>3. e * S <= u * S /\ e * S \in Nat /\ u * S \in Nat
    BY <1>1, <1>2, <1>4, <2>2
  <2> QED
    BY <1>2, <1>5, <2>3
<1>7. c = d
  BY <1>3, <1>6
<1> QED
  BY <1>7 DEF cylinder, c, d, t, u, S, H

-----------------------------------------------------------------------------
(* The inductive invariant *)

\* The FAT itself can be read: an error there is taken for a cluster's number.
FatReadable == FatReadsFail = FALSE

\* What the drive keeps.  A read that one BIOS call can do has done nothing yet
\* or has all sectors, in order.
Whole == drive.read + drive.count
DriveOK ==
    /\ drive \in [lba : Nat, count : Nat, read : Nat, es : Nat, buf : Seq(Int), ret : Errors \cup {0}]
    /\ scratch \in [Scratch -> Int]
    /\ Len(drive.buf) = drive.read
    /\ drive.es <= drive.read
    /\ drive.ret # 0 => Returned
    /\ drive.ret = 0 => Whole <= 2 * MaxSectors
    /\ drive.lba + Whole <= BiosSectors
    /\ drive.ret = 0 /\ OneTransfer(drive.lba, Whole) =>
          \/ drive.read = 0 /\ drive.es = 0 /\ drive.buf = <<>>
          \/ Returned /\ drive.buf = [k \in 1 .. drive.read |-> drive.lba + (k - 1)]

\* A cluster that can be read, and looked up in the FAT.
Own(c) ==
    /\ c \in Nat \ {0, 1, LastCluster}
    /\ c \div PerFatSector < vol.spf /\ Sector(c, 0) + vol.spc <= BiosSectors

\* A file the loader may read.
IsFile(v, f) == \E s \in FilesOf(v) : f = [cluster |-> s.cluster, size |-> s.size]
IsNamed(v, name, f) == \E s \in FilesOf(v) : s.name = name /\ f = [cluster |-> s.cluster, size |-> s.size]

JobRec(j) ==
    /\ j = [op |-> j.op, name |-> j.name, file |-> j.file, count |-> j.count, asked |-> j.asked,
            offset |-> j.offset, wanted |-> j.wanted, head |-> j.head, out |-> j.out,
            ret |-> j.ret, failed |-> j.failed]
    /\ {j.count, j.asked, j.offset, j.wanted, j.head} \subseteq Nat
    /\ j.out \in Seq(Int \X Nat)
    /\ j.failed \in BOOLEAN
JobType == JobRec(job)

\* fat32_t before and after fat32_init.
Blank(v) == [part |-> v.part, spc |-> 0, fat_lba_begin |-> 0, clusters_lba_begin |-> 0, root |-> 0]
Filled(v) == [part |-> v.part, spc |-> v.spc, fat_lba_begin |-> v.part + v.reserved,
              clusters_lba_begin |-> (v.part + v.reserved) + v.spf * FATs, root |-> v.root]

OfFat == {"walknext", "skip", "readnext"}

\* Which call is under way, and which read of it.
Phase ==
    /\ pc \in {"off", "mount", "idle", "panic", "walk", "read"} \cup OfFat
    /\ pc \in {"off", "idle", "panic"} => Returned
    /\ pc \in {"off", "mount"} => fat = Blank(vol) /\ job.op = "none"
    /\ pc \in {"idle", "walk", "read"} \cup OfFat => fat = Filled(vol)
    /\ pc \in {"walk", "walknext"} => job.op = "walk"
    /\ pc \in {"read", "skip", "readnext"} => job.op = "read"
    /\ drive.ret = 0 => /\ pc \in {"mount", "walk"} \cup OfFat => Whole = 1
                        /\ pc = "read" => Whole = vol.spc
    /\ pc \in OfFat => drive.lba = fat.fat_lba_begin + cluster \div PerFatSector

\* Errors are kept, and those of the FAT do not occur.
Failures ==
    /\ pc \in {"off", "mount", "walk", "read"} \cup OfFat =>
          job.ret = OK /\ (job.failed <=> drive.ret # 0)
    /\ pc \in {"off"} \cup OfFat => drive.ret = 0
    /\ ErrorsReported

\* The first sector of a cluster of the root directory; the walk looks for its name
\* or the end in one after the other.
FirstSector(k) == vol.dir[<<Nth(vol.root, k), 0>>]
Passed(n) == \A k \in 0 .. n - 1 : Stops(FirstSector(k), job.name) = {}

Walking ==
    /\ pc \in {"walk", "walknext"} =>
          \E k \in 0 .. vol.rootClusters - 1 :
             /\ cluster = Nth(vol.root, k)
             /\ pc = "walk" => drive.lba = Sector(cluster, 0) /\ Passed(k)
             /\ pc = "walknext" => Passed(k + 1)
    /\ WalkExact
    /\ pc = "idle" /\ job.op = "walk" /\ job.ret = OK => IsNamed(vol, job.name, job.file)

\* How many bytes a call of fat32_read has to deliver, the bytes of a cluster, and
\* the place in the file.
Due(j) == Clamp(j.file, j.asked, j.offset)
PerCluster == BytesPerSector * vol.spc
Place(j) == j.offset + Len(j.out)

\* The bytes so far are those of the file.
Faithful(j) == AtOnce(j.file) => j.out = [k \in 1 .. Len(j.out) |-> ByteAt(j.file, j.offset + (k - 1))]

Sound(j) ==
    /\ IsFile(vol, j.file) /\ j.offset <= j.file.size /\ j.asked + j.offset < UintMod
    /\ j.count + Len(j.out) = Due(j)
    /\ Faithful(j)

\* Between two clusters: q of them are behind.
Skipping(j, q) ==
    /\ j.out = <<>> /\ j.head = j.offset % PerCluster
    /\ q + j.wanted = j.offset \div PerCluster
Copying(j, q) ==
    /\ j.wanted = 0
    /\ j.count > 0 => Place(j) \div PerCluster = q /\ Place(j) % PerCluster = j.head

Reading ==
    /\ pc \in {"skip", "read", "readnext"} => Sound(job)
    /\ pc = "skip" =>
          \E q \in Nat : cluster = Nth(job.file.cluster, q) /\ Skipping(job, q + 1)
    /\ pc = "read" =>
          \E q \in Nat : /\ cluster = Nth(job.file.cluster, q) /\ Copying(job, q) /\ job.count > 0
                         /\ q < Needed(vol, job.file.size) /\ drive.lba = Sector(cluster, 0)
    /\ pc = "readnext" =>
          \E q \in Nat : /\ cluster = Nth(job.file.cluster, q) /\ Copying(job, q + 1)
                         /\ q < Needed(vol, job.file.size)
    /\ ReadExact

FatInv == DriveOK /\ JobType /\ Phase /\ Failures /\ Walking /\ Reading

\* What stage2_main knows of the files it reads.
IsElf(e) ==
    /\ e.phoff \in Nat
    /\ e.phdrs \in Seq([type : STRING, vaddr : Int, fsize : Nat, msize : Nat, offset : Nat])
    /\ e.phoff + (Len(e.phdrs) + Consec) * PhdrBytes < UintMod
    /\ \A k \in DOMAIN e.phdrs : e.phdrs[k].fsize + e.phdrs[k].offset < UintMod

MainRec(m) == m = [at |-> m.at, kernel |-> m.kernel, lowest |-> m.lowest, highest |-> m.highest,
                   read |-> m.read, i |-> m.i, initrd |-> m.initrd, cmdlen |-> m.cmdlen, count |-> m.count]

MainInv ==
    /\ scene \in {"boot", "config", "calls"} /\ WellMade(vol)
    /\ MainRec(main)
    /\ main.read \in Nat /\ main.i \in Nat
    /\ scene # "boot" => main.at = "stage1"
    /\ scene = "boot" => /\ IsElf(vol.elf) /\ main.read <= phdr_count
                         /\ main.at = "segment" => main.i < batch
    /\ main.at \in {"bootini", "kernel", "initrd"} => job.op = "walk"
    /\ main.at \in {"ehdr", "phdrs", "segments", "segment"} => IsFile(vol, main.kernel)

IInv == FatInv /\ MainInv
-----------------------------------------------------------------------------
(* The drive *)

LEMMA ToRead ==
    ASSUME NEW lba \in Nat, NEW count \in Nat
    PROVE  /\ to_read(lba, count) \in Nat
           /\ to_read(lba, count) <= MaxSectors /\ to_read(lba, count) <= max_cyl_read(lba)
           /\ to_read(lba, count) <= count
           /\ count > 0 => to_read(lba, count) > 0
<1>1. MaxSectors \in Nat \ {0} /\ max_cyl_read(lba) \in Nat \ {0}
  BY Chs, DriveAssumption
<1> DEFINE m == to_read(lba, count)
<1>2. m \in {MaxSectors, max_cyl_read(lba), count}
      /\ m <= MaxSectors /\ m <= max_cyl_read(lba) /\ m <= count
  BY <1>1, MinOfThree DEF to_read
<1> HIDE DEF m
<1>3. m \in Nat /\ (count > 0 => m > 0)
  BY <1>1, <1>2
<1> QED
  BY <1>2, <1>3 DEF m

\* A sector takes one BIOS call.
LEMMA OneSector ==
    ASSUME NEW lba \in Nat
    PROVE  OneTransfer(lba, 1)
BY ToRead DEF OneTransfer

\* A read begins.
LEMMA CallOK ==
    ASSUME DriveOK, NEW lba \in Nat, NEW count \in 1 .. 2 * MaxSectors,
           lba + count <= BiosSectors, drive_read_sectors(lba, count), UNCHANGED scratch
    PROVE  DriveOK' /\ drive'.lba = lba /\ Whole' = count /\ drive'.ret = 0 /\ ~Returned'
<1>1. drive' = [lba |-> lba, count |-> count, read |-> 0, es |-> 0, buf |-> <<>>, ret |-> 0]
  BY DEF drive_read_sectors, Call
<1>2. count \in Nat \ {0} /\ MaxSectors \in Nat /\ count <= 2 * MaxSectors
  BY DriveAssumption
<1>3. <<>> \in Seq(Int) /\ Len(<<>>) = 0
  OBVIOUS
<1> QED
  BY <1>1, <1>2, <1>3 DEF DriveOK, Whole, Returned

\* One BIOS call of it.
LEMMA TransferOK ==
    ASSUME DriveOK, Transfer
    PROVE  /\ DriveOK' /\ drive'.lba = drive.lba /\ Whole' = Whole /\ drive'.ret = drive.ret
           /\ LET at   == drive.lba + drive.read
                  last == drive.lba + drive'.read - 1
              IN  /\ (at .. last) \subseteq {scratch'[k] : k \in Scratch}
                  /\ cylinder(at) = cylinder(last)
                  /\ last - at < MaxSectors
<1> DEFINE at == drive.lba + drive.read
           n  == to_read(at, drive.count)
           last == drive.lba + (drive'.read - 1)
           first == SectorAt(at)
           filled == [k \in Scratch |-> IF k \in drive.es .. drive.es + n - 1
                                        THEN first + k - drive.es ELSE scratch[k]]
           copied == [k \in 1 .. n |-> filled[k - 1]]
<1>1. /\ drive \in [lba : Nat, count : Nat, read : Nat, es : Nat, buf : Seq(Int), ret : Errors \cup {0}]
      /\ drive.count # 0 /\ drive.ret = 0 /\ MaxSectors \in Nat \ {0}
      /\ drive.es <= drive.read /\ drive.read + drive.count <= 2 * MaxSectors
      /\ Len(drive.buf) = drive.read /\ drive.buf \in Seq(Int)
      /\ drive.lba \in Nat /\ drive.count \in Nat /\ drive.read \in Nat /\ drive.es \in Nat
      /\ drive.lba + (drive.read + drive.count) <= BiosSectors
  BY DriveAssumption DEF DriveOK, Transfer, Returned, Whole
<1>2. at \in Nat
  BY <1>1
<1>3. n \in Nat /\ n > 0 /\ n <= MaxSectors /\ n <= max_cyl_read(at) /\ n <= drive.count
  <2>1. drive.count \in Nat /\ drive.count > 0
    BY <1>1
  <2> HIDE DEF at
  <2> QED
    BY ONLY <1>2, <2>1, ToRead
<1>4. first = at
  <2>1. at < BiosSectors
    BY <1>1, Geometry
  <2> HIDE DEF at
  <2> QED
    BY <1>2, <2>1, Chs
<1> HIDE DEF n, first
<1>5. /\ scratch' = filled
      /\ drive' = [drive EXCEPT !.read = @ + n, !.count = @ - n, !.es = @ + 1, !.buf = @ \o copied]
  BY DEF Transfer, n, first
<1>6. ASSUME NEW j \in 0 .. n - 1
      PROVE  drive.es + j \in Scratch /\ filled[drive.es + j] = at + j
  <2>1. drive.es + j \in Scratch
    BY <1>1, <1>3 DEF Scratch
  <2>2. drive.es + j \in drive.es .. drive.es + n - 1
    BY <1>1, <1>3
  <2>3. filled[drive.es + j] = first + (drive.es + j) - drive.es
    BY <2>1, <2>2
  <2> QED
    BY <1>1, <1>2, <1>4, <2>1, <2>3
<1>7. filled \in [Scratch -> Int]
  <2>1. scratch \in [Scratch -> Int]
    BY DEF DriveOK
  <2> HIDE DEF at
  <2> QED
    BY <1>1, <1>2, <1>4, <2>1 DEF Scratch
<1> HIDE DEF filled
<1>8. copied \in Seq(Int) /\ Len(copied) = n
  <2>1. ASSUME NEW k \in 1 .. n PROVE filled[k - 1] \in Int
    <3>1. k - 1 \in Scratch
      BY <1>1, <1>3 DEF Scratch
    <3> QED
      BY <1>7, <3>1
  <2> QED
    BY <1>3, <2>1
<1>9. /\ drive'.lba = drive.lba /\ drive'.ret = 0 /\ drive'.read = drive.read + n
      /\ drive'.count = drive.count - n /\ drive'.es = drive.es + 1
      /\ drive'.buf = drive.buf \o copied
      /\ drive' = [lba |-> drive.lba, count |-> drive.count - n, read |-> drive.read + n,
                   es |-> drive.es + 1, buf |-> drive.buf \o copied, ret |-> 0]
  <2> HIDE DEF copied
  <2> QED
    BY <1>1, <1>5
<1>10. drive.buf \o copied \in Seq(Int) /\ Len(drive.buf \o copied) = drive.read + n
  <2>1. drive.read \in Nat /\ drive.buf \in Seq(Int) /\ Len(drive.buf) = drive.read
    BY <1>1
  <2>2. copied \in Seq(Int) /\ Len(copied) = n
    BY <1>8
  <2> DEFINE buf == drive.buf
  <2>3. buf \in Seq(Int) /\ Len(buf) = drive.read
    BY <2>1
  <2> HIDE DEF copied, buf
  <2>4. buf \o copied \in Seq(Int) /\ Len(buf \o copied) = Len(buf) + Len(copied)
    BY ONLY <2>2, <2>3, ConcatProperties
  <2> QED
    BY <2>2, <2>3, <2>4 DEF buf
<1>11. Whole' = Whole
  BY <1>1, <1>3, <1>9 DEF Whole
<1>12. drive' \in [lba : Nat, count : Nat, read : Nat, es : Nat, buf : Seq(Int), ret : Errors \cup {0}]
  <2>1. drive.count - n \in Nat /\ drive.read + n \in Nat /\ drive.es + 1 \in Nat /\ drive.lba \in Nat
    BY <1>1, <1>3
  <2> DEFINE buf == drive.buf \o copied
  <2>2. buf \in Seq(Int)
    BY <1>10
  <2>3. drive' = [lba |-> drive.lba, count |-> drive.count - n, read |-> drive.read + n,
                  es |-> drive.es + 1, buf |-> buf, ret |-> 0]
    BY <1>9
  <2> HIDE DEF buf, n
  <2> QED
    BY <2>1, <2>2, <2>3
<1>13. OneTransfer(drive.lba, Whole) =>
          Returned' /\ drive'.buf = [k \in 1 .. drive'.read |-> drive'.lba + (k - 1)]
  <2> SUFFICES ASSUME OneTransfer(drive.lba, Whole)
               PROVE  Returned' /\ drive'.buf = [k \in 1 .. drive'.read |-> drive'.lba + (k - 1)]
    OBVIOUS
  <2>1. drive.read = 0 /\ drive.es = 0 /\ drive.buf = <<>>
    BY <1>1 DEF DriveOK, Returned
  <2>2. at = drive.lba /\ n = drive.count
    BY <1>1, <2>1 DEF OneTransfer, Whole, n
  <2>3. drive'.buf = copied
    <3> HIDE DEF copied
    <3> QED
      BY <1>8, <1>9, <2>1, ConcatEmptySeq
  <2>4. ASSUME NEW k \in 1 .. n PROVE filled[k - 1] = drive.lba + (k - 1)
    <3>1. k - 1 \in 0 .. n - 1 /\ drive.es + (k - 1) = k - 1
      BY <1>3, <2>1
    <3>2. filled[drive.es + (k - 1)] = at + (k - 1)
      BY <1>6, <3>1
    <3> QED
      BY <2>2, <3>1, <3>2
  <2>5. copied = [k \in 1 .. n |-> drive.lba + (k - 1)]
    BY <2>4
  <2>6. drive'.read = n /\ drive'.count = 0
    BY <1>1, <1>9, <2>1, <2>2
  <2> QED
    BY <1>9, <2>3, <2>5, <2>6 DEF Returned
<1>14. DriveOK'
  <2>1. Len(drive'.buf) = drive'.read /\ drive'.es <= drive'.read
    BY <1>1, <1>3, <1>9, <1>10
  <2>2. Whole' <= 2 * MaxSectors
    BY <1>1, <1>11 DEF Whole
  <2>3. OneTransfer(drive.lba, Whole)' <=> OneTransfer(drive.lba, Whole)
    BY <1>9, <1>11
  <2>4. drive'.lba + Whole' <= BiosSectors
    BY <1>9, <1>11 DEF DriveOK
  <2> QED
    BY <1>5, <1>7, <1>9, <1>12, <1>13, <2>1, <2>2, <2>3, <2>4 DEF DriveOK
<1>15. last = at + (n - 1)
  BY <1>1, <1>3, <1>9
<1>16. (at .. last) \subseteq {scratch'[k] : k \in Scratch}
  <2> SUFFICES ASSUME NEW x \in at .. last PROVE \E k \in Scratch : x = filled[k]
    BY <1>5
  <2>1. x - at \in 0 .. n - 1
    BY <1>2, <1>3, <1>15
  <2>2. at + (x - at) = x
    BY <1>2
  <2> QED
    BY <1>6, <2>1, <2>2
<1>17. cylinder(at) = cylinder(last)
  <2>1. max_cyl_read(at) \in Nat
    BY <1>2, Chs
  <2>2. last \in Nat /\ at <= last /\ last < at + max_cyl_read(at)
    BY <1>2, <1>3, <1>15, <2>1
  <2> HIDE DEF at, last
  <2> QED
    BY <1>2, <2>2, SameCylinder
<1>18. last - at < MaxSectors
  BY <1>1, <1>2, <1>3, <1>15
<1>19. last = drive.lba + drive'.read - 1
  OBVIOUS
<1> QED
  BY <1>1, <1>9, <1>11, <1>14, <1>16, <1>17, <1>18, <1>19

\* It fails.
LEMMA TransferFailsOK ==
    ASSUME DriveOK, NEW e \in Errors, TransferFails(e)
    PROVE  /\ DriveOK' /\ drive'.lba = drive.lba /\ drive'.ret = e /\ e # 0 /\ Returned'
           /\ drive'.read = drive.read /\ drive.ret = 0
<1>1. e \in Nat \ {0}
  BY DriveAssumption
<1>2. drive' = [drive EXCEPT !.count = 0, !.ret = e] /\ scratch' = scratch
  BY DEF TransferFails
<1>3. /\ drive \in [lba : Nat, count : Nat, read : Nat, es : Nat, buf : Seq(Int), ret : Errors \cup {0}]
      /\ drive.ret = 0
  BY DEF DriveOK, TransferFails
<1>4. drive' \in [lba : Nat, count : Nat, read : Nat, es : Nat, buf : Seq(Int), ret : Errors \cup {0}]
  BY <1>2, <1>3
<1>5. /\ drive'.lba = drive.lba /\ drive'.ret = e /\ drive'.count = 0 /\ drive'.read = drive.read
      /\ drive'.es = drive.es /\ drive'.buf = drive.buf
  BY <1>2, <1>3
<1>6. drive'.lba + Whole' <= BiosSectors
  BY <1>3, <1>5, Geometry DEF DriveOK, Whole
<1>7. DriveOK'
  BY <1>1, <1>2, <1>4, <1>5, <1>6 DEF DriveOK, Returned
<1> QED
  BY <1>1, <1>3, <1>5, <1>7 DEF Returned

\* What a sector's read has brought when it returned.
LEMMA SectorRead ==
    ASSUME DriveOK, Returned, drive.ret = 0, Whole = 1
    PROVE  drive.buf[1] = drive.lba
<1>1. drive.lba \in Nat /\ drive.read \in Nat /\ drive.count = 0 /\ drive.read = 1
  BY DEF DriveOK, Returned, Whole
<1>2. OneTransfer(drive.lba, Whole)
  BY <1>1, OneSector
<1>3. drive.buf = [k \in 1 .. 1 |-> drive.lba + (k - 1)]
  BY <1>1, <1>2 DEF DriveOK
<1> QED
  BY <1>1, <1>3
-----------------------------------------------------------------------------
(* The volume *)

LEMMA VolumeNumbers ==
    ASSUME WellMade(vol)
    PROVE  /\ vol.part \in Nat /\ vol.reserved \in Nat /\ vol.spf \in Nat /\ vol.root \in Nat
           /\ vol.spc \in Nat \ {0} /\ vol.spc \in 1 .. 2 * MaxSectors
           /\ vol.rootClusters \in Nat \ {0}
           /\ BytesPerSector \in Nat \ {0} /\ PerCluster \in Nat \ {0}
           /\ PerFatSector \in Nat \ {0} /\ PerDirSector \in Nat \ {0}
           /\ DataBegin \in Nat /\ DataBegin = (vol.part + vol.reserved) + vol.spf * FATs
           /\ DataBegin < BiosSectors
<1>1. /\ vol.part \in Nat /\ vol.reserved \in Nat /\ vol.spf \in Nat /\ vol.root \in Nat
      /\ vol.spc \in 1 .. 2 * MaxSectors /\ vol.rootClusters \in Nat \ {0}
      /\ BytesPerSector \in Nat \ {0} /\ PerFatSector \in Nat \ {0} /\ PerDirSector \in Nat \ {0}
      /\ MaxSectors \in Nat
  BY DriveAssumption, Fat32Assumption DEF WellMade
<1>2. vol.spc \in Nat \ {0}
  BY <1>1
<1>3. PerCluster \in Nat \ {0}
  BY <1>1, <1>2 DEF PerCluster
<1>4. DataBegin \in Nat /\ DataBegin = (vol.part + vol.reserved) + vol.spf * FATs
  BY <1>1 DEF DataBegin, FATs
<1>5. DataBegin < BiosSectors
  <2>1. 0 \in 0 .. vol.rootClusters - 1 /\ NthOf(vol, vol.root, 0) = vol.root
    BY <1>1, NthUnfolds
  <2>2. vol.root \in Nat \ {0, 1} /\ Begin(vol, vol.root) + vol.spc <= BiosSectors
    BY <2>1 DEF WellMade, Follow
  <2> DEFINE m == (vol.root - 2) * vol.spc
             n == vol.root - 2
  <2>3. n \in Nat
    BY <2>2
  <2>4. m \in Nat
    <3> HIDE DEF n
    <3>1. n * vol.spc \in Nat
      BY <1>2, <2>3
    <3> QED
      BY <3>1 DEF n
  <2>5. Begin(vol, vol.root) = DataBegin + m
    BY DEF Begin, DataBegin
  <2> HIDE DEF m
  <2> QED
    BY <1>2, <1>4, <2>2, <2>4, <2>5, Geometry
<1> QED
  BY <1>1, <1>2, <1>3, <1>4, <1>5

\* Where a cluster begins, as the code reckons it; and what a sector of the root
\* directory holds.
LEMMA Located ==
    ASSUME WellMade(vol), NEW c \in Nat \ {0, 1}
    PROVE  /\ Sector(c, 0) \in Nat
           /\ fat = Filled(vol) => fat32_cluster_to_lba(c) = Sector(c, 0)
           /\ DirAt(Sector(c, 0)) = vol.dir[<<c, 0>>]
<1> DEFINE n == c - 2
           m == n * vol.spc
<1>1. n \in Nat /\ n + 2 = c
  OBVIOUS
<1>2. vol.spc \in Nat \ {0} /\ DataBegin \in Nat
  BY VolumeNumbers
<1> HIDE DEF n
<1>3. m \in Nat /\ (m + 0) \div vol.spc = n /\ (m + 0) % vol.spc = 0 /\ m + 0 = m
  <2>1. m \in Nat /\ m + 0 = m /\ 0 \in 0 .. vol.spc - 1
    BY <1>1, <1>2
  <2> QED
    BY <1>1, <1>2, <2>1, QuotientOf
<1>4. Sector(c, 0) = DataBegin + m + 0
  BY DEF Sector, n
<1> HIDE DEF m
<1>5. Sector(c, 0) = DataBegin + m /\ Sector(c, 0) - DataBegin = m
  BY <1>2, <1>3, <1>4
<1>6. DirAt(Sector(c, 0)) = vol.dir[<<c, 0>>]
  BY <1>1, <1>3, <1>5 DEF DirAt
<1>7. ASSUME fat = Filled(vol) PROVE fat32_cluster_to_lba(c) = Sector(c, 0)
  <2>1. fat.clusters_lba_begin = DataBegin /\ fat.spc = vol.spc
    BY <1>7, VolumeNumbers DEF Filled
  <2>2. fat32_cluster_to_lba(c) = DataBegin + m
    BY <2>1 DEF fat32_cluster_to_lba, m, n
  <2> QED
    BY <1>5, <2>2
<1> QED
  BY <1>2, <1>3, <1>5, <1>6, <1>7

\* The entry of a cluster in the FAT, read from its sector.
LEMMA NextOf ==
    ASSUME WellMade(vol), fat = Filled(vol), cluster \in Nat, drive.ret = 0,
           drive.buf[1] = fat.fat_lba_begin + cluster \div PerFatSector
    PROVE  next_cluster = vol.next[cluster]
<1> DEFINE q == cluster \div PerFatSector
           r == cluster % PerFatSector
           lba == (vol.part + vol.reserved) + q
<1>1. PerFatSector \in Nat \ {0} /\ vol.part \in Nat /\ vol.reserved \in Nat
  BY VolumeNumbers
<1>2. q \in Nat /\ r \in Nat /\ cluster = q * PerFatSector + r
  <2>1. r \in 0 .. PerFatSector - 1 /\ q \in Nat /\ cluster = q * PerFatSector + r
    BY <1>1, Quotient
  <2> HIDE DEF q, r
  <2> QED
    BY <1>1, <2>1
<1>3. drive.buf[1] = lba
  BY DEF Filled
<1> HIDE DEF q, r
<1>4. lba - vol.part - vol.reserved = q
  BY <1>1, <1>2
<1> HIDE DEF lba
<1>5. FatAt(lba, r) = vol.next[cluster]
  BY <1>2, <1>4 DEF FatAt
<1> QED
  BY <1>3, <1>5 DEF next_cluster, r

LEMMA Beginning ==
    ASSUME WellMade(vol), NEW c \in Nat \ {0, 1}
    PROVE  Sector(c, 0) = Begin(vol, c)
<1> DEFINE n == c - 2
           m == n * vol.spc
<1>1. n \in Nat /\ vol.spc \in Nat /\ DataBegin \in Nat
  BY VolumeNumbers
<1> HIDE DEF n
<1>2. m \in Nat
  BY <1>1
<1>3. Sector(c, 0) = DataBegin + m + 0 /\ Begin(vol, c) = DataBegin + m
  BY DEF Sector, Begin, DataBegin, m, n
<1> HIDE DEF m
<1> QED
  BY <1>1, <1>2, <1>3

\* The clusters of a file, as far as its size needs them.
LEMMA FileChain ==
    ASSUME WellMade(vol), NEW f, IsFile(vol, f), NEW q \in Nat, q < Needed(vol, f.size)
    PROVE  /\ Own(Nth(f.cluster, q)) /\ Nth(f.cluster, q) \in Nat \ {0, 1, LastCluster}
           /\ Nth(f.cluster, q) \in Clusters(f)
<1>1. PICK s \in FilesOf(vol) : f = [cluster |-> s.cluster, size |-> s.size]
  BY DEF IsFile
<1>2. f.cluster = s.cluster /\ f.size = s.size
  BY <1>1
<1>3. s.size \in Nat /\ Follow(vol, s.cluster, Needed(vol, s.size))
  BY Fat32Assumption DEF WellMade
<1>4. vol.spc \in Nat \ {0} /\ BytesPerSector \in Nat \ {0} /\ BytesPerSector * vol.spc \in Nat \ {0}
  BY VolumeNumbers DEF PerCluster
<1>5. Needed(vol, f.size) \in Nat
  <2> DEFINE b == BytesPerSector * vol.spc
  <2>1. b \in Nat \ {0}
    BY <1>4
  <2> HIDE DEF b
  <2>2. f.size + (b - 1) \in Nat
    BY <1>2, <1>3, <2>1
  <2>3. (f.size + (b - 1)) \div b \in Nat
    BY <2>1, <2>2, Quotient
  <2> QED
    BY <2>3 DEF Needed, b
<1>6. q \in 0 .. Needed(vol, f.size) - 1
  BY <1>5
<1> DEFINE c == Nth(f.cluster, q)
<1>7. /\ c \in Nat \ {0, 1, LastCluster} /\ c \div PerFatSector < vol.spf
      /\ Begin(vol, c) + vol.spc <= BiosSectors
  BY <1>2, <1>3, <1>6 DEF Follow, Nth
<1>8. c \in Clusters(f)
  BY <1>6 DEF Clusters
<1> HIDE DEF c
<1>9. Own(c)
  BY <1>7, Beginning DEF Own
<1> QED
  BY <1>7, <1>8, <1>9 DEF c

LEMMA FileSize ==
    ASSUME WellMade(vol), NEW f, IsFile(vol, f)
    PROVE  f.size \in Nat /\ f.size < UintMod
BY Fat32Assumption DEF WellMade, IsFile

\* They reach to every byte of it.
LEMMA NeededCovers ==
    ASSUME WellMade(vol), NEW size \in Nat, NEW p \in Nat
    PROVE  /\ p < size => p \div PerCluster < Needed(vol, size)
           /\ p <= size => \A q \in Nat : q < p \div PerCluster => q < Needed(vol, size)
<1> DEFINE b == PerCluster
           n == Needed(vol, size)
           x == p \div b
<1>1. b \in Nat \ {0}
  BY VolumeNumbers
<1>2. n = (size + (b - 1)) \div b
  BY DEF Needed, PerCluster
<1> HIDE DEF b
<1>3. size + (b - 1) \in Nat /\ p + b \in Nat /\ x \in Nat
  BY <1>1, Quotient
<1>4. (p + b) \div b = x + 1
  <2>1. x * b <= p /\ p < (x + 1) * b
    BY <1>1, Quotient
  <2> HIDE DEF x
  <2>2. (x + 1) * b = x * b + b /\ ((x + 1) + 1) * b = (x + 1) * b + b /\ x * b \in Nat /\ x + 1 \in Nat
    BY <1>1, <1>3
  <2>3. (x + 1) * b <= p + b /\ p + b < ((x + 1) + 1) * b
    BY <1>1, <2>1, <2>2
  <2> QED
    BY <1>1, <1>3, <2>2, <2>3, QuotientIs
<1>5. n \in Nat
  BY <1>1, <1>2, <1>3, Quotient
<1>6. ASSUME p < size PROVE x < n
  <2>1. p + b <= size + (b - 1)
    BY <1>1, <1>6
  <2>2. x + 1 <= n
    BY <1>1, <1>2, <1>3, <1>4, <2>1, QuotientMonotonic
  <2> QED
    BY <1>3, <1>5, <2>2
<1>7. ASSUME p <= size PROVE x <= n
  <2>1. p <= size + (b - 1)
    BY <1>1, <1>7
  <2> QED
    BY <1>1, <1>2, <1>3, <2>1, QuotientMonotonic
<1> QED
  BY <1>3, <1>5, <1>6, <1>7 DEF b
-----------------------------------------------------------------------------
(* The reader: what a read does to the drive *)

LEMMA FatRead ==
    ASSUME DriveOK, WellMade(vol), fat = Filled(vol), NEW c, Own(c), NEW next,
           ReadFat(c, next), UNCHANGED scratch
    PROVE  /\ DriveOK' /\ drive'.lba = fat.fat_lba_begin + c \div PerFatSector
           /\ Whole' = 1 /\ drive'.ret = 0 /\ ~Returned' /\ pc' = next
<1> DEFINE lba == fat.fat_lba_begin + c \div PerFatSector
<1>1. lba \in Nat /\ 1 \in 1 .. 2 * MaxSectors /\ lba + 1 <= BiosSectors
  <2> DEFINE q == c \div PerFatSector
  <2>1. q \in Nat /\ q < vol.spf /\ vol.part \in Nat /\ vol.reserved \in Nat /\ vol.spf \in Nat
        /\ MaxSectors \in Nat \ {0} /\ DataBegin = (vol.part + vol.reserved) + vol.spf * FATs
        /\ DataBegin < BiosSectors
    BY VolumeNumbers, Quotient, DriveAssumption DEF Own
  <2>2. lba = vol.part + vol.reserved + q
    BY DEF Filled
  <2> HIDE DEF lba, q
  <2> QED
    BY <2>1, <2>2, Geometry DEF FATs
<1>2. drive_read_sectors(lba, 1) /\ pc' = next
  BY DEF ReadFat, Reads
<1> HIDE DEF lba
<1>3. DriveOK' /\ drive'.lba = lba /\ Whole' = 1 /\ drive'.ret = 0 /\ ~Returned'
  BY <1>1, <1>2, CallOK
<1> QED
  BY <1>2, <1>3 DEF lba

LEMMA DataRead ==
    ASSUME DriveOK, WellMade(vol), fat = Filled(vol), NEW c, Own(c), NEW n \in {1, vol.spc},
           NEW next, Reads(fat32_cluster_to_lba(c), n, next), UNCHANGED scratch
    PROVE  /\ DriveOK' /\ drive'.lba = Sector(c, 0)
           /\ Whole' = n /\ drive'.ret = 0 /\ ~Returned' /\ pc' = next
<1>1. fat32_cluster_to_lba(c) = Sector(c, 0) /\ Sector(c, 0) \in Nat
  BY Located DEF Own
<1>2. n \in 1 .. 2 * MaxSectors /\ Sector(c, 0) + n <= BiosSectors
  <2>1. Sector(c, 0) + vol.spc <= BiosSectors /\ vol.spc \in Nat \ {0} /\ vol.spc \in 1 .. 2 * MaxSectors
    BY VolumeNumbers DEF Own
  <2> QED
    BY <1>1, <2>1, DriveAssumption, Geometry
<1>3. drive_read_sectors(Sector(c, 0), n) /\ pc' = next
  BY <1>1 DEF Reads
<1> QED
  BY <1>1, <1>2, <1>3, CallOK

-----------------------------------------------------------------------------
(* The BIOS answers *)

LEMMA BiosReadsOK ==
    ASSUME FatInv, BiosReads
    PROVE  FatInv'
<1>1. Transfer /\ UNCHANGED <<vol, fat, pc, job, cluster>> /\ ~Returned
  BY DEF BiosReads, Transfer
<1>2. DriveOK' /\ drive'.lba = drive.lba /\ Whole' = Whole /\ drive'.ret = drive.ret
  BY <1>1, TransferOK DEF FatInv
<1>3. pc \notin {"off", "idle", "panic"}
  BY <1>1 DEF FatInv, Phase
<1>4. JobType'
  BY <1>1 DEF FatInv, JobType, JobRec
<1>5. Phase'
  BY <1>1, <1>2, <1>3 DEF FatInv, Phase, Filled, Blank
<1>6. Failures'
  BY <1>1, <1>2, <1>3 DEF FatInv, Failures, ErrorsReported
<1>7. Walking'
  BY <1>1, <1>2, <1>3 DEF FatInv, Walking, WalkExact, Nth, Passed, FirstSector, Stops, Sector, DataBegin, IsNamed
<1>8. Reading'
  <2>1. ASSUME Sound(job) PROVE Sound(job)'
    <3>1. Faithful(job)'
      BY <1>1, <1>2, <1>3, <2>1 DEF Sound, Faithful, Nth, AtOnce, Clusters, ByteAt, Sector, DataBegin, OneTransfer
    <3> QED
      BY <1>1, <1>2, <1>3, <2>1, <3>1 DEF Sound, Due, Clamp, IsFile
  <2> QED
    BY <1>1, <1>2, <1>3, <2>1 DEF FatInv, Reading, ReadExact, Nth, Sector, DataBegin, Place, PerCluster, Skipping, Copying
<1> QED
  BY <1>2, <1>4, <1>5, <1>6, <1>7, <1>8 DEF FatInv

LEMMA BiosFailsOK ==
    ASSUME FatReadable, FatInv, NEW e \in Errors, BiosFails(e)
    PROVE  FatInv'
<1>1. /\ TransferFails(e) /\ UNCHANGED <<vol, fat, pc, cluster>> /\ ~Returned
      /\ pc \notin OfFat /\ job' = [job EXCEPT !.failed = TRUE]
  BY DEF BiosFails, TransferFails, OfFat, FatReadable
<1>2. DriveOK' /\ drive'.lba = drive.lba /\ drive'.ret = e /\ e # 0
  BY <1>1, TransferFailsOK DEF FatInv
<1>3. pc \in {"mount", "walk", "read"}
  BY <1>1 DEF FatInv, Phase
<1>4. /\ JobRec(job)' /\ job'.failed = TRUE /\ job'.op = job.op /\ job'.name = job.name
      /\ job'.file = job.file /\ job'.count = job.count /\ job'.asked = job.asked
      /\ job'.offset = job.offset /\ job'.wanted = job.wanted /\ job'.head = job.head
      /\ job'.out = job.out /\ job'.ret = job.ret
  BY <1>1 DEF FatInv, JobType, JobRec
<1>5. JobType'
  BY <1>4 DEF JobType
<1>6. Phase'
  BY <1>1, <1>2, <1>3, <1>4 DEF FatInv, Phase, Filled, Blank, OfFat
<1>7. Failures'
  BY <1>1, <1>2, <1>3, <1>4 DEF FatInv, Failures, ErrorsReported, OfFat
<1>8. Walking'
  BY <1>1, <1>2, <1>3, <1>4 DEF FatInv, Walking, WalkExact, Nth, Passed, FirstSector, Stops, Sector, DataBegin
<1>9. Reading'
  <2>1. ASSUME Sound(job) PROVE Sound(job)'
    <3>1. Faithful(job)'
      BY <1>1, <1>2, <1>3, <1>4, <2>1 DEF Sound, Faithful, Nth, AtOnce, Clusters, ByteAt, Sector, DataBegin, OneTransfer
    <3> QED
      BY <1>1, <1>2, <1>3, <1>4, <2>1, <3>1 DEF Sound, Due, Clamp, IsFile
  <2> QED
    BY <1>1, <1>2, <1>3, <1>4, <2>1 DEF FatInv, Reading, ReadExact, Nth, Sector, DataBegin, Place, PerCluster, Skipping, Copying
<1> QED
  BY <1>2, <1>5, <1>6, <1>7, <1>8, <1>9 DEF FatInv
-----------------------------------------------------------------------------
(* fat32_init *)

\* A call returns.
LEMMA Returning ==
    ASSUME NEW j, JobRec(j), NEW r, Return(j, r)
    PROVE  /\ JobRec(job)' /\ job'.op = j.op /\ job'.name = j.name /\ job'.file = j.file
           /\ job'.count = j.count /\ job'.asked = j.asked /\ job'.offset = j.offset
           /\ job'.wanted = j.wanted /\ job'.head = j.head /\ job'.out = j.out
           /\ job'.ret = r /\ job'.failed = j.failed
           /\ pc' = "idle" /\ UNCHANGED drive
BY DEF Return, JobRec

LEMMA MountOK ==
    ASSUME FatInv, WellMade(vol), Mount
    PROVE  FatInv'
<1>1. pc = "off" /\ Reads(fat.part, 1, "mount") /\ UNCHANGED <<vol, fat, job, cluster, scratch>>
  BY DEF Mount
<1>2. fat = Blank(vol) /\ job.op = "none"
  BY <1>1 DEF FatInv, Phase
<1>3. fat.part \in Nat /\ 1 \in 1 .. 2 * MaxSectors /\ fat.part + 1 <= BiosSectors
  <2>1. fat.part = vol.part /\ vol.part \in Nat /\ vol.reserved \in Nat /\ vol.spf \in Nat
        /\ DataBegin = (vol.part + vol.reserved) + vol.spf * FATs /\ DataBegin < BiosSectors
    BY <1>2, VolumeNumbers DEF Blank
  <2> QED
    BY <2>1, DriveAssumption, Geometry DEF FATs
<1>4. drive_read_sectors(fat.part, 1) /\ pc' = "mount"
  BY <1>1 DEF Reads
<1>5. DriveOK' /\ Whole' = 1 /\ drive'.ret = 0
  BY <1>1, <1>3, <1>4, CallOK DEF FatInv
<1>6. JobType'
  BY <1>1 DEF FatInv, JobType, JobRec
<1>7. Phase'
  BY <1>1, <1>2, <1>4, <1>5 DEF Phase, Blank, OfFat
<1>8. Failures'
  <2>1. drive.ret = 0
    BY <1>1 DEF FatInv, Failures
  <2> QED
    BY <1>1, <1>4, <1>5, <2>1 DEF FatInv, Failures, OfFat, ErrorsReported
<1>9. Walking' /\ Reading'
  BY <1>1, <1>4 DEF Walking, Reading, WalkExact, ReadExact
<1> QED
  BY <1>5, <1>6, <1>7, <1>8, <1>9 DEF FatInv

LEMMA MountFailsOK ==
    ASSUME FatInv, MountFails
    PROVE  FatInv'
<1>1. pc = "mount" /\ Returned /\ pc' = "panic" /\ UNCHANGED <<vol, fat, job, cluster, drive, scratch>>
  BY DEF MountFails
<1>2. DriveOK'
  BY <1>1 DEF FatInv, DriveOK, Whole, Returned
<1>3. JobType'
  BY <1>1 DEF FatInv, JobType, JobRec
<1>4. Phase' /\ Failures'
  BY <1>1 DEF FatInv, Phase, Failures, OfFat, ErrorsReported, Returned
<1>5. Walking' /\ Reading'
  BY <1>1 DEF Walking, Reading, WalkExact, ReadExact
<1> QED
  BY <1>2, <1>3, <1>4, <1>5 DEF FatInv

LEMMA MountedOK ==
    ASSUME FatInv, WellMade(vol), Mounted
    PROVE  FatInv'
<1>1. /\ pc = "mount" /\ Returned /\ pc' = "idle" /\ UNCHANGED <<vol, job, cluster, drive, scratch>>
      /\ drive.ret = 0
      /\ LET begin == fat.part + vol.reserved IN
         fat' = [fat EXCEPT !.spc = vol.spc, !.root = vol.root, !.fat_lba_begin = begin,
                            !.clusters_lba_begin = begin + vol.spf * FATs]
  BY DEF Mounted
<1>2. fat = Blank(vol) /\ job.op = "none"
  BY <1>1 DEF FatInv, Phase
<1>3. fat' = Filled(vol)
  BY <1>1, <1>2 DEF Blank, Filled
<1>4. DriveOK'
  BY <1>1 DEF FatInv, DriveOK, Whole, Returned
<1>5. JobType'
  BY <1>1 DEF FatInv, JobType, JobRec
<1>6. Phase'
  BY <1>1, <1>2, <1>3 DEF Phase, OfFat, Returned, Filled
<1>7. Failures'
  BY <1>1, <1>2 DEF FatInv, Failures, OfFat, ErrorsReported
<1>8. Walking' /\ Reading'
  BY <1>1, <1>2 DEF Walking, Reading, WalkExact, ReadExact
<1> QED
  BY <1>4, <1>5, <1>6, <1>7, <1>8 DEF FatInv

-----------------------------------------------------------------------------
(* The root directory *)

LEMMA RootChain ==
    ASSUME WellMade(vol), NEW k \in 0 .. vol.rootClusters - 1
    PROVE  /\ Own(Nth(vol.root, k)) /\ Nth(vol.root, k) \in Nat \ {0, 1, LastCluster}
           /\ DirAt(Sector(Nth(vol.root, k), 0)) = FirstSector(k)
           /\ DOMAIN FirstSector(k) = 1 .. PerDirSector
           /\ \A n \in 1 .. PerDirSector :
                 FirstSector(k)[n] \notin {Unused, EndOfDir} => FirstSector(k)[n] \in FilesOf(vol)
<1>1. Own(Nth(vol.root, k)) /\ Nth(vol.root, k) \in Nat \ {0, 1, LastCluster}
  <2> DEFINE c == Nth(vol.root, k)
  <2>1. /\ c \in Nat \ {0, 1, LastCluster} /\ c \div PerFatSector < vol.spf
        /\ Begin(vol, c) + vol.spc <= BiosSectors
    BY DEF WellMade, Follow, Nth
  <2> HIDE DEF c
  <2>2. Own(c)
    BY <2>1, Beginning DEF Own
  <2> QED
    BY <2>1, <2>2 DEF c
<1>2. DirAt(Sector(Nth(vol.root, k), 0)) = FirstSector(k)
  BY <1>1, Located DEF FirstSector
<1>3. <<Nth(vol.root, k), 0>> \in DOMAIN vol.dir
  BY DEF WellMade, Nth
<1>4. DOMAIN FirstSector(k) = 1 .. PerDirSector
  BY <1>3 DEF WellMade, FirstSector
<1>5. ASSUME NEW n \in 1 .. PerDirSector, FirstSector(k)[n] \notin {Unused, EndOfDir}
      PROVE  FirstSector(k)[n] \in FilesOf(vol)
  <2> DEFINE d == <<Nth(vol.root, k), 0>>
             e == FirstSector(k)[n]
  <2>1. e = vol.dir[d][n] /\ n \in DOMAIN vol.dir[d] /\ d \in DOMAIN vol.dir
    BY <1>3, <1>4 DEF FirstSector
  <2>2. e \notin {Unused, EndOfDir}
    BY <1>5
  <2> HIDE DEF d, e
  <2>3. e \in {vol.dir[d][x] : x \in DOMAIN vol.dir[d]}
    BY <2>1
  <2>4. e \in UNION {{vol.dir[y][x] : x \in DOMAIN vol.dir[y]} : y \in DOMAIN vol.dir}
    BY <2>1, <2>3
  <2>5. e \in FilesOf(vol)
    BY <2>2, <2>4 DEF FilesOf
  <2> QED
    BY <2>5 DEF e
<1> QED
  BY <1>1, <1>2, <1>4, <1>5

\* As long as nothing was found the end is ahead.
LEMMA EndAhead ==
    ASSUME WellMade(vol), NEW n \in Nat, Passed(n)
    PROVE  \E k \in n .. vol.rootClusters - 1, l \in 1 .. PerDirSector :
              FirstSector(k)[l] = EndOfDir /\ (vol.spc = 1 \/ k = 0)
<1>1. PICK k \in 0 .. vol.rootClusters - 1, l \in 1 .. PerDirSector :
              FirstSector(k)[l] = EndOfDir /\ (vol.spc = 1 \/ k = 0)
  BY DEF WellMade, FirstSector, Nth
<1>2. l \in Stops(FirstSector(k), job.name)
  BY <1>1, RootChain DEF Stops
<1>3. ~(k < n)
  BY <1>2 DEF Passed
<1>4. k \in n .. vol.rootClusters - 1
  BY <1>3, VolumeNumbers
<1> QED
  BY <1>1, <1>4

\* The number of an entry in the first sector of a cluster.
Number(k, n) == k * (PerDirSector * vol.spc) + (n - 1)

LEMMA SlotAt ==
    ASSUME WellMade(vol), NEW k \in 0 .. vol.rootClusters - 1, NEW n \in 1 .. PerDirSector
    PROVE  Number(k, n) \in Slots /\ Slot(Number(k, n)) = FirstSector(k)[n]
<1> DEFINE p == PerDirSector
           s == vol.spc
           i == n - 1
           ps == p * s
           ks == k * s
           x == Number(k, n)
<1>1. p \in Nat \ {0} /\ s \in Nat \ {0} /\ k \in Nat /\ vol.rootClusters \in Nat \ {0}
  BY VolumeNumbers
<1>2. i \in 0 .. p - 1 /\ i \in Nat /\ i + 1 = n
  BY <1>1
<1> HIDE DEF p, s, i
<1>3. ps \in Nat \ {0} /\ p <= ps /\ ks \in Nat /\ k * ps = ks * p
  BY <1>1
<1>4. x = k * ps + i /\ x = ks * p + i
  BY <1>3 DEF Number, p, s, i
<1>5. (ks + 0) \div s = k /\ (ks + 0) % s = 0 /\ ks + 0 = ks
  <2>1. 0 \in 0 .. s - 1
    BY <1>1
  <2>2. (k * s + 0) \div s = k /\ (k * s + 0) % s = 0
    BY <1>1, <2>1, QuotientOf
  <2> QED
    BY <1>3, <2>2
<1> HIDE DEF ps, ks
<1>6. x \div ps = k
  <2>1. i \in 0 .. ps - 1
    BY <1>1, <1>2, <1>3
  <2> QED
    BY <1>1, <1>3, <1>4, <2>1, QuotientOf
<1>7. x \div p = ks /\ x % p = i
  <2>1. (ks * p + i) \div p = ks /\ (ks * p + i) % p = i
    BY <1>1, <1>2, <1>3, QuotientOf
  <2> QED
    BY <1>4, <2>1
<1>8. Slot(x) = vol.dir[<<Nth(vol.root, x \div ps), (x \div p) % s>>][(x % p) + 1]
  BY DEF Slot, ps, p, s
<1>9. Slot(x) = FirstSector(k)[n]
  BY <1>2, <1>5, <1>6, <1>7, <1>8 DEF FirstSector
<1>10. x \in Slots
  <2>1. k + 1 <= vol.rootClusters /\ k + 1 \in Nat
    BY <1>1
  <2> DEFINE z == k + 1
  <2>2. z \in Nat /\ z <= vol.rootClusters /\ z * ps = k * ps + ps /\ k * ps \in Nat
    BY <1>1, <1>3, <2>1
  <2> HIDE DEF z
  <2>3. z * ps <= vol.rootClusters * ps /\ vol.rootClusters * ps \in Nat
    BY <1>1, <1>3, <2>2
  <2>4. x \in Nat /\ x < vol.rootClusters * ps
    BY <1>1, <1>2, <1>3, <1>4, <2>2, <2>3
  <2>5. PerDirSector * vol.spc * vol.rootClusters = vol.rootClusters * ps
    BY <1>1 DEF ps, p, s
  <2>6. x \in 0 .. vol.rootClusters * ps - 1
    BY <2>3, <2>4
  <2> QED
    BY <2>5, <2>6 DEF Slots
<1> QED
  BY <1>9, <1>10

\* The entries up to one that the walk gets to are all in first sectors.
LEMMA SlotBefore ==
    ASSUME WellMade(vol), NEW k \in 0 .. vol.rootClusters - 1, NEW n \in 1 .. PerDirSector,
           vol.spc = 1 \/ k = 0, NEW l \in 0 .. Number(k, n)
    PROVE  \E j \in 0 .. k, i \in 1 .. PerDirSector : l = Number(j, i) /\ (j < k \/ i <= n)
<1> DEFINE p == PerDirSector
<1>1. p \in Nat \ {0} /\ k \in Nat /\ vol.spc \in Nat \ {0}
  BY VolumeNumbers
<1>2. CASE k = 0
  <2>1. l \in 0 .. n - 1
    BY <1>1, <1>2 DEF Number
  <2>2. l + 1 \in 1 .. p /\ l + 1 <= n /\ l = Number(0, l + 1)
    BY <1>1, <2>1 DEF Number
  <2> QED
    BY <1>2, <2>2
<1>3. CASE vol.spc = 1
  <2> DEFINE q == l \div p
             r == l % p
  <2> HIDE DEF p
  <2>1. \A j \in Nat, i \in 1 .. p : Number(j, i) = j * p + (i - 1)
    BY <1>1, <1>3 DEF Number, p
  <2>2. n \in 1 .. p
    BY DEF p
  <2>3. Number(k, n) = k * p + (n - 1) /\ k * p \in Nat /\ (k + 1) * p = k * p + p
    BY <1>1, <2>1, <2>2
  <2>4. l \in Nat /\ l <= k * p + (n - 1)
    BY <1>1, <2>2, <2>3
  <2>5. q \in Nat /\ r \in 0 .. p - 1 /\ l = q * p + r /\ q * p \in Nat
    <3>1. q \in Nat /\ r \in 0 .. p - 1 /\ l = q * p + r
      BY <1>1, <2>4, Quotient
    <3> HIDE DEF q, r
    <3> QED
      BY <1>1, <3>1
  <2> HIDE DEF q, r
  <2>6. ~(k < q)
    <3> SUFFICES ASSUME k < q PROVE FALSE
      OBVIOUS
    <3> DEFINE z == k + 1
    <3>1. z \in Nat /\ z <= q
      BY <1>1, <2>5
    <3> HIDE DEF z
    <3>2. z * p <= q * p
      BY <1>1, <2>5, <3>1
    <3>3. z * p = k * p + p
      BY <2>3 DEF z
    <3> QED
      BY <1>1, <2>2, <2>3, <2>4, <2>5, <3>2, <3>3
  <2>7. q \in 0 .. k
    BY <1>1, <2>5, <2>6
  <2>8. r + 1 \in 1 .. p /\ l = Number(q, r + 1)
    BY <1>1, <2>1, <2>5
  <2>9. q = k => r + 1 <= n
    BY <1>1, <2>2, <2>3, <2>4, <2>5
  <2>10. q < k \/ r + 1 <= n
    BY <1>1, <2>7, <2>9
  <2> QED
    BY <2>7, <2>8, <2>10 DEF p
<1> QED
  BY <1>2, <1>3
-----------------------------------------------------------------------------
(* fat32_walk *)

LEMMA WalkOK ==
    ASSUME FatInv, WellMade(vol), NEW name, Walk(name)
    PROVE  FatInv' /\ job'.op = "walk"
<1>1. /\ pc = "idle" /\ job' = [Job("walk") EXCEPT !.name = name] /\ cluster' = fat.root
      /\ Reads(fat32_cluster_to_lba(fat.root), 1, "walk") /\ UNCHANGED <<vol, fat, scratch>>
  BY DEF Walk
<1>2. fat = Filled(vol) /\ fat.root = vol.root
  BY <1>1 DEF FatInv, Phase, Filled
<1>3. 0 \in 0 .. vol.rootClusters - 1 /\ Nth(vol.root, 0) = vol.root
  BY VolumeNumbers, NthUnfolds DEF Nth
<1>4. Own(vol.root) /\ vol.root \in Nat \ {0, 1, LastCluster}
  BY <1>3, RootChain
<1>5. /\ DriveOK' /\ drive'.lba = Sector(vol.root, 0) /\ Whole' = 1 /\ drive'.ret = 0 /\ pc' = "walk"
  BY <1>1, <1>2, <1>4, DataRead DEF FatInv
<1>6. /\ JobRec(job)' /\ job'.op = "walk" /\ job'.ret = OK /\ job'.failed = FALSE
  <2>1. <<>> \in Seq(Int \X Nat)
    OBVIOUS
  <2>2. job' = [op |-> "walk", name |-> name, file |-> [cluster |-> 0, size |-> 0], count |-> 0,
                asked |-> 0, offset |-> 0, wanted |-> 0, head |-> 0, out |-> <<>>, ret |-> OK, failed |-> FALSE]
    BY <1>1 DEF Job
  <2> QED
    BY <2>1, <2>2 DEF JobRec
<1>7. Phase'
  BY <1>1, <1>2, <1>5, <1>6 DEF Phase, OfFat, Filled
<1>8. Failures'
  BY <1>5, <1>6 DEF Failures, OfFat, ErrorsReported
<1>9. Walking'
  <2>1. /\ cluster' = Nth(vol.root, 0)' /\ drive'.lba = Sector(cluster, 0)' /\ vol'.rootClusters = vol.rootClusters
    BY <1>1, <1>2, <1>3, <1>5 DEF Nth, Sector, DataBegin
  <2>2. Passed(0)'
    BY DEF Passed
  <2> QED
    BY <1>1, <1>3, <1>5, <2>1, <2>2 DEF Walking, WalkExact
<1>10. Reading'
  BY <1>5 DEF Reading, ReadExact
<1> QED
  BY <1>5, <1>6, <1>7, <1>8, <1>9, <1>10 DEF FatInv, JobType

\* What the search in a sector knows: the sector's entries are those of a cluster of
\* the root directory, and nothing was found in the ones before.
LEMMA AtSector ==
    ASSUME FatInv, WellMade(vol), pc = "walk", Returned, drive.ret = 0
    PROVE  \E k \in 0 .. vol.rootClusters - 1 :
              /\ cluster = Nth(vol.root, k) /\ cluster \in Nat
              /\ DirAt(drive.buf[1]) = FirstSector(k)
              /\ Passed(k) /\ (vol.spc = 1 \/ k = 0)
<1>1. PICK k \in 0 .. vol.rootClusters - 1 :
             cluster = Nth(vol.root, k) /\ drive.lba = Sector(cluster, 0) /\ Passed(k)
  BY DEF FatInv, Walking
<1>2. drive.buf[1] = drive.lba
  BY SectorRead DEF FatInv, Phase
<1>3. cluster \in Nat /\ DirAt(drive.buf[1]) = FirstSector(k)
  BY <1>1, <1>2, RootChain
<1>4. PICK e \in k .. vol.rootClusters - 1 : vol.spc = 1 \/ e = 0
  BY <1>1, EndAhead
<1>5. vol.spc = 1 \/ k = 0
  BY <1>4
<1> QED
  BY <1>1, <1>3, <1>5

\* The walk ends in a sector: at the end of the directory, or at an entry.
LEMMA FoundOrNot ==
    ASSUME WellMade(vol), NEW k \in 0 .. vol.rootClusters - 1, Passed(k), vol.spc = 1 \/ k = 0,
           NEW m \in Stops(FirstSector(k), job.name),
           \A n \in Stops(FirstSector(k), job.name) : m <= n
    PROVE  LET e == FirstSector(k)[m] IN
           /\ e = EndOfDir => \A f \in Entries : f.name # job.name
           /\ e # EndOfDir => e \in Entries /\ e.name = job.name /\ e \in FilesOf(vol)
<1> DEFINE e == FirstSector(k)[m]
           x == Number(k, m)
<1>1. m \in 1 .. PerDirSector /\ (e = EndOfDir \/ (e # Unused /\ e.name = job.name))
  BY RootChain DEF Stops
<1>2. x \in Slots /\ Slot(x) = e
  BY <1>1, SlotAt
<1>3. ASSUME NEW l \in 0 .. x, l # x
      PROVE  Slot(l) # EndOfDir /\ (Slot(l) = Unused \/ Slot(l).name # job.name)
  <2>1. PICK j \in 0 .. k, i \in 1 .. PerDirSector : l = Number(j, i) /\ (j < k \/ i <= m)
    BY <1>1, SlotBefore
  <2>2. j \in 0 .. vol.rootClusters - 1
    BY VolumeNumbers
  <2>3. Slot(l) = FirstSector(j)[i]
    BY <2>1, <2>2, SlotAt
  <2>4. i \notin Stops(FirstSector(j), job.name)
    <3>1. CASE j < k
      BY <2>1, <3>1 DEF Passed
    <3>2. CASE ~(j < k)
      <4>1. j = k /\ i <= m /\ i # m
        BY <1>3, <2>1, <3>2
      <4> QED
        BY <1>1, <4>1
    <3> QED
      BY <3>1, <3>2
  <2>5. i \in DOMAIN FirstSector(j)
    BY <2>2, RootChain
  <2> QED
    BY <2>3, <2>4, <2>5 DEF Stops
<1>4. x \in Nat
  BY <1>2 DEF Slots
<1> HIDE DEF x, e
<1>5. ASSUME e = EndOfDir, NEW f \in Entries PROVE f.name # job.name
  <2>1. PICK l \in Slots : f = Slot(l) /\ (\A i \in 0 .. l : Slot(i) # EndOfDir) /\ f # Unused
    BY DEF Entries
  <2>2. l \in Nat
    BY DEF Slots
  <2>3. ~(x <= l)
    BY <1>2, <1>4, <1>5, <2>1, <2>2
  <2>4. l \in 0 .. x /\ l # x
    BY <1>4, <2>2, <2>3
  <2> QED
    BY <1>3, <2>1, <2>4
<1>6. ASSUME e # EndOfDir PROVE e \in Entries /\ e.name = job.name /\ e \in FilesOf(vol)
  <2>1. e # Unused /\ e.name = job.name
    BY <1>1, <1>6 DEF e
  <2>2. \A l \in 0 .. x : Slot(l) # EndOfDir
    BY <1>2, <1>3, <1>6
  <2>3. e \in FilesOf(vol)
    BY <1>1, <1>6, <2>1, RootChain DEF e
  <2> QED
    BY <1>2, <2>1, <2>2, <2>3 DEF Entries
<1> QED
  BY <1>5, <1>6 DEF e
LEMMA StopsAreNumbers ==
    ASSUME WellMade(vol), NEW k \in 0 .. vol.rootClusters - 1, NEW name, Stops(FirstSector(k), name) # {}
    PROVE  LET m == Min(Stops(FirstSector(k), name)) IN
           /\ m \in Stops(FirstSector(k), name)
           /\ \A n \in Stops(FirstSector(k), name) : m <= n
<1> DEFINE S == Stops(FirstSector(k), name)
<1>1. S \subseteq Nat
  <2>1. S \subseteq DOMAIN FirstSector(k)
    BY DEF Stops
  <2>2. DOMAIN FirstSector(k) = 1 .. PerDirSector
    BY RootChain
  <2> HIDE DEF S
  <2> QED
    BY <2>1, <2>2
<1> HIDE DEF S
<1>2. \E x \in S : \A y \in S : x <= y
  BY <1>1, Smallest DEF S
<1> QED
  BY <1>2 DEF Min, S

LEMMA WalkSectorOK ==
    ASSUME FatInv, WellMade(vol), WalkSector
    PROVE  FatInv' /\ job'.op = "walk"
<1> DEFINE slots == DirAt(drive.buf[1])
           stop  == Stops(slots, job.name)
<1>1. pc = "walk" /\ Returned /\ UNCHANGED <<vol, fat, cluster, scratch>>
  BY DEF WalkSector
<1>2. fat = Filled(vol) /\ job.op = "walk" /\ JobRec(job) /\ job.ret = OK /\ (job.failed <=> drive.ret # 0)
  BY <1>1 DEF FatInv, Phase, Failures, JobType
<1>3. CASE drive.ret # 0 /\ Return(job, drive.ret)
  <2>1. /\ JobRec(job)' /\ job'.op = "walk" /\ job'.ret = drive.ret /\ job'.failed = job.failed
        /\ pc' = "idle" /\ UNCHANGED drive
    BY <1>2, <1>3, Returning
  <2>2. job'.failed /\ job'.ret \in Errors /\ job'.ret # OK
    BY <1>2, <1>3, <2>1 DEF FatInv, DriveOK, OK
  <2>3. DriveOK'
    BY <1>1, <2>1 DEF FatInv, DriveOK, Whole, Returned
  <2>4. Phase'
    BY <1>1, <1>2, <2>1 DEF Phase, OfFat, Filled, Returned
  <2>5. Failures'
    BY <2>1, <2>2 DEF Failures, OfFat, ErrorsReported
  <2>6. Walking' /\ Reading'
    BY <2>1, <2>2 DEF Walking, Reading, WalkExact, ReadExact
  <2> QED
    BY <2>1, <2>3, <2>4, <2>5, <2>6 DEF FatInv, JobType
<1>4. CASE drive.ret = 0 /\ stop # {}
  <2>1. PICK k \in 0 .. vol.rootClusters - 1 :
              slots = FirstSector(k) /\ Passed(k) /\ (vol.spc = 1 \/ k = 0)
    BY <1>1, <1>4, AtSector
  <2> DEFINE m == Min(stop)
             e == FirstSector(k)[m]
             ent == [cluster |-> e.cluster, size |-> e.size]
  <2>2. m \in stop /\ \A n \in stop : m <= n
    BY <1>4, <2>1, StopsAreNumbers
  <2>3. /\ e = EndOfDir => \A f \in Entries : f.name # job.name
        /\ e # EndOfDir => e \in Entries /\ e.name = job.name /\ e \in FilesOf(vol)
    <3> HIDE DEF m
    <3> QED
      BY <2>1, <2>2, FoundOrNot
  <2>4. \/ e = EndOfDir /\ Return(job, NOENTRY)
        \/ e # EndOfDir /\ Return([job EXCEPT !.file = ent], OK)
    BY <1>4, <2>1 DEF WalkSector
  <2> HIDE DEF e, m
  <2>5. JobRec([job EXCEPT !.file = ent]) /\ [job EXCEPT !.file = ent].file = ent
        /\ [job EXCEPT !.file = ent].op = job.op /\ [job EXCEPT !.file = ent].name = job.name
        /\ [job EXCEPT !.file = ent].failed = job.failed
    <3> HIDE DEF ent
    <3>1. [job EXCEPT !.file = ent] =
             [op |-> job.op, name |-> job.name, file |-> ent, count |-> job.count, asked |-> job.asked,
              offset |-> job.offset, wanted |-> job.wanted, head |-> job.head, out |-> job.out,
              ret |-> job.ret, failed |-> job.failed]
      <4>1. job = [op |-> job.op, name |-> job.name, file |-> job.file, count |-> job.count,
                   asked |-> job.asked, offset |-> job.offset, wanted |-> job.wanted,
                   head |-> job.head, out |-> job.out, ret |-> job.ret, failed |-> job.failed]
        BY <1>2 DEF JobRec
      <4> QED
        BY ONLY <4>1
    <3> DEFINE i == [job EXCEPT !.file = ent]
    <3>2. /\ i.op = job.op /\ i.name = job.name /\ i.file = ent /\ i.count = job.count
          /\ i.asked = job.asked /\ i.offset = job.offset /\ i.wanted = job.wanted
          /\ i.head = job.head /\ i.out = job.out /\ i.ret = job.ret /\ i.failed = job.failed
      BY <3>1
    <3>3. JobRec(i)
      <4>1. i = [op |-> i.op, name |-> i.name, file |-> i.file, count |-> i.count, asked |-> i.asked,
                 offset |-> i.offset, wanted |-> i.wanted, head |-> i.head, out |-> i.out,
                 ret |-> i.ret, failed |-> i.failed]
        BY <3>1, <3>2
      <4> HIDE DEF i
      <4> QED
        BY <1>2, <3>2, <4>1 DEF JobRec
    <3> QED
      BY <3>2, <3>3
  <2>6. /\ JobRec(job)' /\ job'.op = "walk" /\ job'.name = job.name /\ job'.failed = FALSE
        /\ pc' = "idle" /\ UNCHANGED drive
        /\ \/ e = EndOfDir /\ job'.ret = NOENTRY
           \/ e # EndOfDir /\ job'.ret = OK /\ job'.file = ent
    <3>1. job.failed = FALSE
      BY <1>2, <1>4 DEF JobRec
    <3> HIDE DEF ent
    <3> QED
      BY <1>2, <2>4, <2>5, <3>1, Returning
  <2>7. DriveOK'
    BY <1>1, <2>6 DEF FatInv, DriveOK, Whole, Returned
  <2>8. Phase'
    BY <1>1, <1>2, <2>6 DEF Phase, OfFat, Filled, Returned
  <2>9. Failures'
    BY <2>6 DEF Failures, OfFat, ErrorsReported
  <2>10. Entries' = Entries
    BY <1>1 DEF Entries, Slots, Slot, Nth
  <2>11. Walking'
    <3>1. WalkExact'
      BY <2>3, <2>6, <2>10 DEF WalkExact
    <3>2. job'.ret = OK => IsNamed(vol, job.name, job.file)'
      BY <1>1, <2>3, <2>6 DEF IsNamed, OK, NOENTRY
    <3> QED
      BY <2>6, <3>1, <3>2 DEF Walking
  <2>12. Reading'
    BY <2>6 DEF Reading, ReadExact
  <2> QED
    BY <2>6, <2>7, <2>8, <2>9, <2>11, <2>12 DEF FatInv, JobType
<1>5. CASE drive.ret = 0 /\ stop = {} /\ ReadFat(cluster, "walknext") /\ UNCHANGED job
  <2>1. PICK k \in 0 .. vol.rootClusters - 1 :
              cluster = Nth(vol.root, k) /\ cluster \in Nat /\ slots = FirstSector(k) /\ Passed(k)
    BY <1>1, <1>5, AtSector
  <2>2. /\ DriveOK' /\ drive'.lba = fat.fat_lba_begin + cluster \div PerFatSector
        /\ Whole' = 1 /\ drive'.ret = 0 /\ pc' = "walknext"
    BY <1>1, <1>2, <1>5, <2>1, RootChain, FatRead DEF FatInv
  <2>3. Passed(k + 1)
    BY <1>5, <2>1 DEF Passed
  <2>4. JobType'
    BY <1>5 DEF FatInv, JobType, JobRec
  <2>5. Phase'
    BY <1>1, <1>2, <1>5, <2>2 DEF Phase, OfFat, Filled
  <2>6. Failures'
    BY <1>2, <1>5, <2>2 DEF Failures, OfFat, ErrorsReported
  <2>7. Walking'
    <3>1. Passed(k + 1)' /\ cluster' = Nth(vol.root, k)'
      BY <1>1, <1>5, <2>1, <2>3 DEF Passed, FirstSector, Stops, Nth
    <3> QED
      BY <1>1, <2>1, <2>2, <3>1 DEF Walking, WalkExact
  <2>8. Reading'
    BY <2>2 DEF Reading, ReadExact
  <2> QED
    BY <1>2, <1>5, <2>2, <2>4, <2>5, <2>6, <2>7, <2>8 DEF FatInv
<1> QED
  BY <1>3, <1>4, <1>5 DEF WalkSector

LEMMA WalkNextOK ==
    ASSUME FatInv, WellMade(vol), WalkNext
    PROVE  FatInv' /\ job'.op = "walk"
<1>1. pc = "walknext" /\ Returned /\ cluster' = next_cluster /\ UNCHANGED <<vol, fat, scratch>>
  BY DEF WalkNext
<1>2. /\ fat = Filled(vol) /\ job.op = "walk" /\ JobRec(job) /\ drive.ret = 0 /\ Whole = 1 /\ job.ret = OK
      /\ job.failed = FALSE /\ drive.lba = fat.fat_lba_begin + cluster \div PerFatSector
  BY <1>1 DEF FatInv, Phase, Failures, JobType, OfFat, JobRec
<1>3. PICK k \in 0 .. vol.rootClusters - 1 : cluster = Nth(vol.root, k) /\ Passed(k + 1)
  BY <1>1 DEF FatInv, Walking
<1>4. k \in Nat /\ k + 1 \in Nat
  OBVIOUS
<1>5. k + 1 \in 0 .. vol.rootClusters - 1
  <2>1. PICK e \in k + 1 .. vol.rootClusters - 1 : TRUE
    BY <1>3, <1>4, EndAhead
  <2> QED
    BY <1>4, <2>1, VolumeNumbers
<1>6. next_cluster = Nth(vol.root, k + 1)
  <2>1. cluster \in Nat
    BY <1>3, RootChain
  <2>2. drive.buf[1] = drive.lba
    BY <1>1, <1>2, SectorRead DEF FatInv
  <2>3. next_cluster = vol.next[cluster]
    BY <1>2, <2>1, <2>2, NextOf
  <2> QED
    BY <1>3, <1>4, <2>3, NthUnfolds DEF Nth
<1> DEFINE c == next_cluster
<1>7. Own(c) /\ c \in Nat \ {0, 1, LastCluster}
  BY <1>5, <1>6, RootChain
<1>8. Reads(fat32_cluster_to_lba(c), 1, "walk") /\ UNCHANGED job
  BY <1>7 DEF WalkNext
<1> HIDE DEF c
<1>9. /\ DriveOK' /\ drive'.lba = Sector(c, 0) /\ Whole' = 1 /\ drive'.ret = 0 /\ pc' = "walk"
  BY <1>1, <1>2, <1>7, <1>8, DataRead DEF FatInv
<1>10. JobType'
  BY <1>8 DEF FatInv, JobType, JobRec
<1>11. Phase'
  BY <1>1, <1>2, <1>8, <1>9 DEF Phase, OfFat, Filled
<1>12. Failures'
  BY <1>2, <1>8, <1>9 DEF Failures, OfFat, ErrorsReported
<1>13. Walking'
  <2>1. /\ Passed(k + 1)' /\ cluster' = Nth(vol.root, k + 1)' /\ vol' = vol
        /\ drive'.lba = Sector(cluster, 0)'
    BY <1>1, <1>3, <1>6, <1>8, <1>9 DEF Passed, FirstSector, Stops, Nth, Sector, DataBegin, c
  <2> QED
    BY <1>5, <1>9, <2>1 DEF Walking, WalkExact
<1>14. Reading'
  BY <1>9 DEF Reading, ReadExact
<1> QED
  BY <1>2, <1>8, <1>9, <1>10, <1>11, <1>12, <1>13, <1>14 DEF FatInv
-----------------------------------------------------------------------------
(* fat32_read *)

\* The bytes a call delivers end with the file, and ReadExact asks for them.
LEMMA DueFacts ==
    ASSUME NEW asked \in Nat, NEW offset \in Nat, asked + offset < UintMod, NEW f, f.size \in Nat
    PROVE  /\ offset <= f.size =>
                /\ Clamp(f, asked, offset) \in Nat
                /\ offset + Clamp(f, asked, offset) <= f.size
                /\ Max({0, Min({asked, f.size - offset})}) = Clamp(f, asked, offset)
           /\ offset > f.size => Max({0, Min({asked, f.size - offset})}) = 0
<1> DEFINE rest == f.size - offset
           m == Min({asked, rest})
<1>1. rest \in Int /\ asked \in Int
  OBVIOUS
<1>2. m = IF asked <= rest THEN asked ELSE rest
  <2> HIDE DEF rest
  <2> QED
    BY <1>1, MinOfTwo
<1>3. m \in Int
  <2> HIDE DEF rest, m
  <2> QED
    BY <1>1, <1>2
<1>4. Max({0, m}) = IF m <= 0 THEN 0 ELSE m
  <2> HIDE DEF m
  <2>1. \E x \in {0, m} : \A y \in {0, m} : x >= y
    BY <1>3
  <2>2. Max({0, m}) \in {0, m} /\ \A y \in {0, m} : Max({0, m}) >= y
    BY <2>1 DEF Max
  <2> QED
    BY <1>3, <2>2
<1> HIDE DEF m
<1>5. ASSUME offset <= f.size
      PROVE  /\ Clamp(f, asked, offset) \in Nat
             /\ offset + Clamp(f, asked, offset) <= f.size
             /\ Max({0, m}) = Clamp(f, asked, offset)
  <2> DEFINE sum == asked + offset
  <2>1. sum \in 0 .. UintMod - 1 /\ UintMod \in Nat \ {0}
    BY Fat32Assumption
  <2>2. sum % UintMod = sum
    <3> HIDE DEF sum
    <3> QED
      BY <2>1, RestOf
  <2> HIDE DEF sum
  <2>3. Clamp(f, asked, offset) = IF sum > f.size THEN rest ELSE asked
    BY <2>2 DEF Clamp, sum
  <2>4. sum > f.size <=> asked > rest
    BY DEF sum
  <2> DEFINE w == Clamp(f, asked, offset)
  <2>5. w = (IF asked > rest THEN rest ELSE asked) /\ rest \in Nat /\ offset + rest = f.size
    BY <1>5, <2>3, <2>4
  <2> HIDE DEF w, rest
  <2>6. w \in Nat /\ w <= rest /\ w = m
    BY <1>1, <1>2, <2>5
  <2>7. Max({0, m}) = w
    BY <1>4, <2>6
  <2> QED
    BY <2>5, <2>6, <2>7 DEF w
<1>6. ASSUME offset > f.size PROVE Max({0, m}) = 0
  BY <1>2, <1>4, <1>6
<1> QED
  BY <1>5, <1>6 DEF m

\* The loops from their heads on.
LEMMA OnwardOK ==
    ASSUME DriveOK, WellMade(vol), fat = Filled(vol), Returned,
           NEW j, JobRec(j), j.op = "read", j.ret = OK, j.failed = FALSE, Sound(j),
           NEW q \in Nat, NEW c, c = Nth(j.file.cluster, q), Skipping(j, q) \/ Copying(j, q),
           Onward(j, c), cluster' = c, UNCHANGED <<vol, fat, scratch>>
    PROVE  FatInv' /\ job'.op = "read"
<1> DEFINE f == j.file
           n == Len(j.out)
<1>1. /\ j.count \in Nat /\ j.asked \in Nat /\ j.offset \in Nat /\ j.wanted \in Nat /\ j.head \in Nat
      /\ n \in Nat
  BY DEF JobRec
<1>2. IsFile(vol, f) /\ f.size \in Nat /\ j.offset <= f.size /\ PerCluster \in Nat \ {0}
  BY FileSize, VolumeNumbers DEF Sound
<1>3. j.count + n = Clamp(f, j.asked, j.offset)
  BY DEF Sound, Due
<1>4. j.offset + (j.count + n) <= f.size /\ Max({0, Min({j.asked, f.size - j.offset})}) = j.count + n
  <2>1. /\ j.offset + Clamp(f, j.asked, j.offset) <= f.size
        /\ Max({0, Min({j.asked, f.size - j.offset})}) = Clamp(f, j.asked, j.offset)
    <3>1. f.size \in Nat /\ j.asked \in Nat /\ j.offset \in Nat /\ j.offset <= f.size
          /\ j.asked + j.offset < UintMod
      BY <1>1, <1>2 DEF Sound
    <3> DEFINE asked == j.asked
               offset == j.offset
    <3>2. asked \in Nat /\ offset \in Nat /\ offset <= f.size /\ asked + offset < UintMod
      BY <3>1
    <3> HIDE DEF f, asked, offset
    <3>3. /\ offset + Clamp(f, asked, offset) <= f.size
          /\ Max({0, Min({asked, f.size - offset})}) = Clamp(f, asked, offset)
      BY ONLY <3>1, <3>2, DueFacts
    <3> QED
      BY <3>3 DEF asked, offset
  <2> QED
    BY <1>3, <2>1
<1>5. ASSUME j.wanted > 0
      PROVE  Skipping(j, q) /\ q < Needed(vol, f.size)
  <2>1. Skipping(j, q)
    BY <1>5 DEF Copying
  <2>2. q < j.offset \div PerCluster
    BY <1>1, <1>5, <2>1 DEF Skipping
  <2> QED
    BY <1>1, <1>2, <2>1, <2>2, NeededCovers
<1>6. ASSUME j.wanted = 0, j.count > 0
      PROVE  Copying(j, q) /\ q < Needed(vol, f.size)
  <2>1. Copying(j, q)
    <3>1. CASE Skipping(j, q)
      <4>1. n = 0 /\ q = j.offset \div PerCluster /\ Place(j) = j.offset
        BY <1>1, <1>6, <3>1 DEF Skipping, Place
      <4> QED
        BY <1>6, <3>1, <4>1 DEF Skipping, Copying
    <3> QED
      BY <3>1
  <2>2. Place(j) \in Nat /\ Place(j) < f.size
    <3> DEFINE offset == j.offset
               count == j.count
               size == f.size
    <3>1. /\ offset + (count + n) <= size /\ Place(j) = offset + n
          /\ offset \in Nat /\ count \in Nat /\ n \in Nat /\ size \in Nat /\ count > 0
      BY <1>1, <1>2, <1>4, <1>6 DEF Place
    <3> HIDE DEF offset, count, size, n
    <3>2. Place(j) \in Nat /\ Place(j) < size
      BY <3>1
    <3> QED
      BY <3>2 DEF size
  <2>3. Place(j) \div PerCluster = q
    BY <1>6, <2>1 DEF Copying
  <2> QED
    BY <1>2, <2>1, <2>2, <2>3, NeededCovers
<1>7. CASE j.wanted > 0 /\ ReadFat(c, "skip") /\ job' = [j EXCEPT !.wanted = @ - 1]
  <2>1. Skipping(j, q) /\ Own(c)
    BY <1>2, <1>5, <1>7, FileChain
  <2>2. /\ DriveOK' /\ drive'.lba = fat.fat_lba_begin + c \div PerFatSector
        /\ Whole' = 1 /\ drive'.ret = 0 /\ pc' = "skip"
    BY <1>7, <2>1, FatRead
  <2>3. /\ JobRec(job)' /\ job'.wanted = j.wanted - 1 /\ job'.op = "read" /\ job'.ret = OK
        /\ job'.failed = FALSE /\ job'.file = f /\ job'.count = j.count /\ job'.asked = j.asked
        /\ job'.offset = j.offset /\ job'.head = j.head /\ job'.out = j.out
    <3>1. job' = [op |-> j.op, name |-> j.name, file |-> j.file, count |-> j.count, asked |-> j.asked,
                  offset |-> j.offset, wanted |-> j.wanted - 1, head |-> j.head, out |-> j.out,
                  ret |-> j.ret, failed |-> j.failed]
      BY <1>7 DEF JobRec
    <3>2. j.wanted - 1 \in Nat /\ j.out \in Seq(Int \X Nat)
      BY <1>1, <1>7 DEF JobRec
    <3> QED
      BY <1>1, <3>1, <3>2 DEF JobRec
  <2>4. Phase'
    BY <2>2, <2>3 DEF Phase, OfFat, Filled
  <2>5. Failures'
    BY <2>2, <2>3 DEF Failures, OfFat, ErrorsReported
  <2>6. Walking'
    BY <2>2 DEF Walking, WalkExact
  <2>7. Reading'
    <3>1. Sound(job)'
      <4>1. Faithful(j)
        BY DEF Sound
      <4>2. Faithful(job)'
        <5>1. AtOnce(job.file)' = AtOnce(j.file)
          BY <2>3 DEF AtOnce, Clusters, Nth, Sector, DataBegin, OneTransfer
        <5>2. \A k : ByteAt(job.file, job.offset + (k - 1))' = ByteAt(j.file, j.offset + (k - 1))
          BY <2>3 DEF ByteAt, Nth, Sector, DataBegin
        <5> QED
          BY <2>3, <4>1, <5>1, <5>2 DEF Faithful
      <4>3. /\ IsFile(vol, job.file)' /\ (job.offset <= job.file.size)'
            /\ (job.asked + job.offset < UintMod)'
        BY <2>3 DEF Sound, IsFile
      <4>4. (job.count + Len(job.out) = Due(job))'
        BY <2>3 DEF Sound, Due, Clamp
      <4> QED
        BY <4>2, <4>3, <4>4 DEF Sound
    <3>2. Skipping(job, q + 1)'
      BY <1>1, <2>1, <2>3 DEF Skipping, PerCluster
    <3>3. cluster' = Nth(job.file.cluster, q)'
      BY <2>3 DEF Nth
    <3> QED
      BY <2>2, <3>1, <3>2, <3>3 DEF Reading, ReadExact
  <2> QED
    BY <2>2, <2>3, <2>4, <2>5, <2>6, <2>7 DEF FatInv, JobType
<1>8. CASE j.wanted = 0 /\ j.count > 0 /\ Reads(fat32_cluster_to_lba(c), fat.spc, "read") /\ job' = j
  <2>1. Copying(j, q) /\ q < Needed(vol, f.size) /\ Own(c)
    BY <1>2, <1>6, <1>8, FileChain
  <2>2. fat.spc = vol.spc
    BY DEF Filled
  <2>3. /\ DriveOK' /\ drive'.lba = Sector(c, 0) /\ Whole' = vol.spc /\ drive'.ret = 0 /\ pc' = "read"
    BY <1>8, <2>1, <2>2, DataRead
  <2>4. JobRec(job)'
    BY <1>8 DEF JobRec
  <2>5. Phase'
    BY <1>8, <2>3 DEF Phase, OfFat, Filled
  <2>6. Failures'
    BY <1>8, <2>3 DEF Failures, OfFat, ErrorsReported
  <2>7. Walking'
    BY <2>3 DEF Walking, WalkExact
  <2>8. Reading'
    <3>1. Sound(job)'
      <4>1. Faithful(j)
        BY DEF Sound
      <4>2. Faithful(job)'
        <5>1. AtOnce(job.file)' = AtOnce(j.file)
          BY <1>8 DEF AtOnce, Clusters, Nth, Sector, DataBegin, OneTransfer
        <5>2. \A k : ByteAt(job.file, job.offset + (k - 1))' = ByteAt(j.file, j.offset + (k - 1))
          BY <1>8 DEF ByteAt, Nth, Sector, DataBegin
        <5> QED
          BY <1>8, <4>1, <5>1, <5>2 DEF Faithful
      <4> QED
        BY <1>8, <4>2 DEF Sound, IsFile, Due, Clamp
    <3>2. Copying(job, q)'
      BY <1>8, <2>1 DEF Copying, PerCluster, Place
    <3>3. /\ cluster' = Nth(job.file.cluster, q)' /\ drive'.lba = Sector(cluster, 0)'
          /\ (q < Needed(vol, job.file.size))'
      BY <1>8, <2>1, <2>3 DEF Nth, Sector, DataBegin
    <3> QED
      BY <1>8, <2>3, <3>1, <3>2, <3>3 DEF Reading, ReadExact
  <2> QED
    BY <1>8, <2>3, <2>4, <2>5, <2>6, <2>7, <2>8 DEF FatInv, JobType
<1>9. CASE (c = LastCluster \/ (j.wanted = 0 /\ j.count = 0)) /\ Return(j, n)
  <2>1. j.count = 0
    <3>1. CASE c = LastCluster
      <4>1. ~(q < Needed(vol, f.size))
        BY <1>2, <3>1, FileChain
      <4> QED
        BY <1>1, <1>5, <1>6, <4>1
    <3> QED
      BY <1>9, <3>1
  <2>2. /\ JobRec(job)' /\ job'.op = "read" /\ job'.file = f /\ job'.asked = j.asked
        /\ job'.offset = j.offset /\ job'.out = j.out
        /\ job'.ret = n /\ job'.failed = FALSE /\ pc' = "idle" /\ UNCHANGED drive
    BY <1>9, Returning
  <2>3. DriveOK'
    BY <2>2 DEF DriveOK, Whole, Returned
  <2>4. Phase'
    BY <2>2 DEF Phase, OfFat, Filled, Returned
  <2>5. Available(job)' = n
    <3>1. Max({0, Min({j.asked, f.size - j.offset})}) = n
      BY <1>1, <1>4, <2>1
    <3> QED
      BY <2>2, <3>1 DEF Available
  <2>6. Failures' /\ Walking'
    BY <2>2, <2>5 DEF Failures, OfFat, ErrorsReported, Walking, WalkExact
  <2>7. Reading'
    <3>1. Max({0, Min({j.asked, f.size - j.offset})}) = n
      BY <1>1, <1>4, <2>1
    <3>2. AtOnce(f) => j.out = [k \in 1 .. n |-> ByteAt(f, j.offset + (k - 1))]
      BY DEF Sound, Faithful
    <3>3. AtOnce(f) => j.out = [k \in 1 .. Max({0, Min({j.asked, f.size - j.offset})}) |->
                                   ByteAt(f, j.offset + k - 1)]
      BY <3>1, <3>2
    <3>4. ReadExact'
      BY <2>2, <3>3 DEF ReadExact, Available, AtOnce, Clusters, Nth, ByteAt, Sector, DataBegin, OneTransfer
    <3> QED
      BY <2>2, <3>4 DEF Reading
  <2> QED
    BY <2>2, <2>3, <2>4, <2>6, <2>7 DEF FatInv, JobType
<1> QED
  BY <1>7, <1>8, <1>9 DEF Onward
LEMMA ReadOK ==
    ASSUME FatInv, WellMade(vol), NEW f, IsFile(vol, f), NEW count \in Nat, NEW offset \in Nat,
           count + offset < UintMod, Read(f, count, offset)
    PROVE  FatInv' /\ job'.op = "read"
<1> DEFINE due == Clamp(f, count, offset)
           w == offset \div PerCluster
           h == offset % PerCluster
<1>1. DriveOK /\ fat = Filled(vol) /\ Returned /\ PerCluster \in Nat \ {0} /\ f.size \in Nat
  BY VolumeNumbers, FileSize DEF FatInv, Phase, Read
<1>2. ClusterBytes = PerCluster
  BY <1>1 DEF ClusterBytes, PerCluster, Filled
<1>3. PICK j : j = [Job("read") EXCEPT !.file = f, !.asked = count, !.offset = offset]
  OBVIOUS
<1>4. PICK i : i = [j EXCEPT !.count = due, !.wanted = w, !.head = h]
  OBVIOUS
<1>5. /\ pc = "idle" /\ cluster' = f.cluster /\ UNCHANGED <<vol, fat, scratch>>
      /\ \/ offset > f.size /\ Return(j, 0)
         \/ offset <= f.size /\ Onward(i, f.cluster)
  BY <1>2, <1>3, <1>4 DEF Read
<1>6. j = [op |-> "read", name |-> "none", file |-> f, count |-> 0, asked |-> count, offset |-> offset,
           wanted |-> 0, head |-> 0, out |-> <<>>, ret |-> OK, failed |-> FALSE]
  BY <1>3 DEF Job
<1> HIDE DEF due, w, h
<1>7. i = [op |-> "read", name |-> "none", file |-> f, count |-> due, asked |-> count, offset |-> offset,
           wanted |-> w, head |-> h, out |-> <<>>, ret |-> OK, failed |-> FALSE]
  BY <1>4, <1>6
<1>8. <<>> \in Seq(Int \X Nat) /\ Len(<<>>) = 0
  OBVIOUS
<1>9. w \in Nat /\ h \in Nat
  <2>1. w \in Nat /\ h \in 0 .. PerCluster - 1
    BY <1>1, Quotient DEF w, h
  <2> QED
    BY <1>1, <2>1
<1>10. CASE offset > f.size /\ Return(j, 0)
  <2>1. JobRec(j)
    BY <1>6, <1>8 DEF JobRec
  <2>2. /\ JobRec(job)' /\ job'.op = "read" /\ job'.file = f /\ job'.asked = count
        /\ job'.offset = offset /\ job'.out = <<>> /\ job'.ret = 0 /\ job'.failed = FALSE
        /\ pc' = "idle" /\ UNCHANGED drive
    <3>1. /\ JobRec(job)' /\ job'.op = j.op /\ job'.file = j.file /\ job'.asked = j.asked
          /\ job'.offset = j.offset /\ job'.out = j.out /\ job'.ret = 0 /\ job'.failed = j.failed
          /\ pc' = "idle" /\ UNCHANGED drive
      BY <1>10, <2>1, Returning
    <3> QED
      BY <1>6, <3>1
  <2>3. DriveOK'
    BY <1>1, <1>5, <2>2 DEF DriveOK, Whole, Returned
  <2>4. Phase'
    BY <1>1, <1>5, <2>2 DEF Phase, OfFat, Filled, Returned
  <2>5. Available(job)' = 0
    <3>1. Max({0, Min({count, f.size - offset})}) = 0
      BY <1>1, <1>10, DueFacts
    <3> QED
      BY <2>2, <3>1 DEF Available
  <2>6. Failures' /\ Walking'
    BY <2>2, <2>5 DEF Failures, OfFat, ErrorsReported, Walking, WalkExact
  <2>7. Reading'
    <3>1. Max({0, Min({count, f.size - offset})}) = 0
      BY <1>1, <1>10, DueFacts
    <3>2. <<>> = [k \in 1 .. 0 |-> ByteAt(f, offset + k - 1)]
      OBVIOUS
    <3>3. <<>> = [k \in 1 .. Max({0, Min({count, f.size - offset})}) |-> ByteAt(f, offset + k - 1)]
      BY <3>1, <3>2
    <3>4. ReadExact'
      BY <1>5, <2>2, <3>3 DEF ReadExact, Available, AtOnce, Clusters, Nth, ByteAt, Sector, DataBegin, OneTransfer
    <3> QED
      BY <2>2, <3>4 DEF Reading
  <2> QED
    BY <2>2, <2>3, <2>4, <2>6, <2>7 DEF FatInv, JobType
<1>11. CASE offset <= f.size /\ Onward(i, f.cluster)
  <2>1. due \in Nat
    BY <1>1, <1>11, DueFacts DEF due
  <2>2. JobRec(i)
    BY <1>7, <1>8, <1>9, <2>1 DEF JobRec
  <2>3. /\ i.op = "read" /\ i.file = f /\ i.count = due /\ i.asked = count /\ i.offset = offset
        /\ i.wanted = w /\ i.head = h /\ i.out = <<>> /\ i.ret = OK /\ i.failed = FALSE
    BY <1>7
  <2>4. Sound(i)
    <3>1. IsFile(vol, i.file) /\ i.offset <= i.file.size /\ i.asked + i.offset < UintMod
      BY <1>11, <2>3
    <3>2. Due(i) = due
      BY <2>3 DEF Due, due
    <3>3. i.count + Len(i.out) = Due(i)
      BY <1>8, <2>1, <2>3, <3>2
    <3>4. Len(i.out) = 0
      BY <1>8, <2>3
    <3>5. i.out = [k \in 1 .. Len(i.out) |-> ByteAt(i.file, i.offset + (k - 1))]
      BY <2>3, <3>4
    <3> QED
      BY <3>1, <3>3, <3>5 DEF Sound, Faithful
  <2>5. Skipping(i, 0)
    <3>1. 0 + w = w
      BY <1>9
    <3> QED
      BY <2>3, <3>1 DEF Skipping, w, h
  <2>6. f.cluster = Nth(i.file.cluster, 0) /\ 0 \in Nat
    BY <2>3, NthUnfolds DEF Nth
  <2> DEFINE c == f.cluster
  <2>7. c = Nth(i.file.cluster, 0) /\ Onward(i, c) /\ cluster' = c
    BY <1>5, <1>11, <2>6
  <2> HIDE DEF c
  <2> QED
    BY <1>1, <1>5, <2>2, <2>3, <2>4, <2>5, <2>6, <2>7, OnwardOK
<1> QED
  BY <1>5, <1>10, <1>11

\* The next cluster of the file.
LEMMA NextCluster ==
    ASSUME FatInv, WellMade(vol), fat = Filled(vol), pc \in OfFat, Returned,
           NEW f, IsFile(vol, f), NEW q \in Nat, q < Needed(vol, f.size), cluster = Nth(f.cluster, q)
    PROVE  next_cluster = Nth(f.cluster, q + 1)
<1>1. drive.ret = 0 /\ Whole = 1 /\ drive.lba = fat.fat_lba_begin + cluster \div PerFatSector
  BY DEF FatInv, Phase, Failures, OfFat
<1>2. drive.buf[1] = drive.lba
  BY <1>1, SectorRead DEF FatInv
<1>3. cluster \in Nat
  BY FileChain
<1>4. next_cluster = vol.next[cluster]
  BY <1>1, <1>2, <1>3, NextOf
<1> QED
  BY <1>4, NthUnfolds DEF Nth

LEMMA SkipOK ==
    ASSUME FatInv, WellMade(vol), Skip
    PROVE  FatInv' /\ job'.op = "read"
<1>1. /\ pc = "skip" /\ Returned /\ cluster' = next_cluster /\ Onward(job, next_cluster)
      /\ UNCHANGED <<vol, fat, scratch>>
  BY DEF Skip
<1>2. /\ DriveOK /\ fat = Filled(vol) /\ JobRec(job) /\ job.op = "read" /\ job.ret = OK
      /\ job.failed = FALSE /\ Sound(job)
  BY <1>1 DEF FatInv, Phase, Failures, JobType, JobRec, OfFat, Reading
<1>3. PICK q \in Nat : cluster = Nth(job.file.cluster, q) /\ Skipping(job, q + 1)
  BY <1>1 DEF FatInv, Reading
<1>4. IsFile(vol, job.file) /\ job.file.size \in Nat /\ PerCluster \in Nat \ {0}
      /\ job.offset \in Nat /\ job.offset <= job.file.size /\ job.wanted \in Nat
  BY <1>2, FileSize, VolumeNumbers DEF Sound, JobRec
<1>5. q < job.offset \div PerCluster
  <2>1. (q + 1) + job.wanted = job.offset \div PerCluster
    BY <1>3 DEF Skipping
  <2> QED
    BY <1>4, <2>1
<1>6. q < Needed(vol, job.file.size)
  BY <1>4, <1>5, NeededCovers
<1>7. next_cluster = Nth(job.file.cluster, q + 1)
  BY <1>1, <1>2, <1>3, <1>4, <1>6, NextCluster DEF OfFat
<1> DEFINE c == next_cluster
           n == q + 1
<1>8. /\ n \in Nat /\ c = Nth(job.file.cluster, n) /\ Skipping(job, n) /\ Onward(job, c) /\ cluster' = c
  BY <1>1, <1>3, <1>7
<1> HIDE DEF c, n
<1> QED
  BY <1>1, <1>2, <1>8, OnwardOK

LEMMA ReadNextOK ==
    ASSUME FatInv, WellMade(vol), ReadNext
    PROVE  FatInv' /\ job'.op = "read"
<1>1. /\ pc = "readnext" /\ Returned /\ cluster' = next_cluster /\ Onward(job, next_cluster)
      /\ UNCHANGED <<vol, fat, scratch>>
  BY DEF ReadNext
<1>2. /\ DriveOK /\ fat = Filled(vol) /\ JobRec(job) /\ job.op = "read" /\ job.ret = OK
      /\ job.failed = FALSE /\ Sound(job) /\ IsFile(vol, job.file)
  BY <1>1 DEF FatInv, Phase, Failures, JobType, JobRec, OfFat, Reading, Sound
<1>3. PICK q \in Nat : /\ cluster = Nth(job.file.cluster, q) /\ Copying(job, q + 1)
                       /\ q < Needed(vol, job.file.size)
  BY <1>1 DEF FatInv, Reading
<1>4. next_cluster = Nth(job.file.cluster, q + 1)
  BY <1>1, <1>2, <1>3, NextCluster DEF OfFat
<1> DEFINE c == next_cluster
           n == q + 1
<1>5. /\ n \in Nat /\ c = Nth(job.file.cluster, n) /\ Copying(job, n) /\ Onward(job, c) /\ cluster' = c
  BY <1>1, <1>3, <1>4
<1> HIDE DEF c, n
<1> QED
  BY <1>1, <1>2, <1>5, OnwardOK

-----------------------------------------------------------------------------
(* The bytes of a cluster *)

\* Byte i of the q-th cluster, as the file counts it.
LEMMA ByteOf ==
    ASSUME WellMade(vol), NEW f, NEW q \in Nat, NEW i \in 0 .. PerCluster - 1
    PROVE  /\ ByteAt(f, q * PerCluster + i) =
                 <<Sector(Nth(f.cluster, q), i \div BytesPerSector), i % BytesPerSector>>
           /\ i \div BytesPerSector \in 0 .. vol.spc - 1 /\ i % BytesPerSector \in Nat
<1> DEFINE b == BytesPerSector
           s == vol.spc
           x == i \div b
           y == i % b
           qs == q * s
           p == q * PerCluster + i
<1>1. b \in Nat \ {0} /\ s \in Nat \ {0} /\ PerCluster = b * s /\ PerCluster \in Nat \ {0} /\ i \in Nat
  BY VolumeNumbers DEF PerCluster
<1> HIDE DEF b, s
<1>2. x \in Nat /\ y \in 0 .. b - 1 /\ i = x * b + y /\ x * b <= i
  BY <1>1, Quotient
<1>3. qs \in Nat /\ q * PerCluster = qs * b
  BY <1>1
<1> HIDE DEF x, y, qs
<1>4. x < s
  <2> SUFFICES ASSUME s <= x PROVE FALSE
    BY <1>1, <1>2
  <2>1. s * b <= x * b /\ s * b \in Nat /\ x * b \in Nat
    BY <1>1, <1>2
  <2>2. s * b = PerCluster
    BY <1>1
  <2> QED
    BY <1>1, <1>2, <2>1, <2>2
<1>5. p = (qs + x) * b + y
  <2>1. (qs + x) * b = qs * b + x * b /\ qs * b \in Nat /\ x * b \in Nat
    BY <1>1, <1>2, <1>3
  <2> QED
    BY <1>1, <1>2, <1>3, <2>1
<1> HIDE DEF p
<1>6. p \div b = qs + x /\ p % b = y
  <2>1. qs + x \in Nat
    BY <1>2, <1>3
  <2> QED
    BY <1>1, <1>2, <1>5, <2>1, QuotientOf
<1>7. (qs + x) \div s = q /\ (qs + x) % s = x
  <2>1. x \in 0 .. s - 1
    BY <1>1, <1>2, <1>4
  <2> QED
    BY <1>1, <2>1, QuotientOf DEF qs
<1>8. ByteAt(f, p) = <<Sector(Nth(f.cluster, (p \div b) \div s), (p \div b) % s), p % b>>
  BY DEF ByteAt, b, s
<1>9. ByteAt(f, p) = <<Sector(Nth(f.cluster, q), x), y>>
  BY <1>6, <1>7, <1>8
<1> QED
  BY <1>1, <1>2, <1>4, <1>9 DEF p, x, y, b, s
\* What is copied of the cluster that was read.
LEMMA Copied ==
    ASSUME DriveOK, WellMade(vol), Returned, drive.ret = 0, Whole = vol.spc,
           NEW f, NEW q \in Nat, Nth(f.cluster, q) \in Nat,
           drive.lba = Sector(Nth(f.cluster, q), 0), drive.lba \in Nat,
           NEW i \in 0 .. PerCluster - 1
    PROVE  /\ ws(i) \in Int \X Nat
           /\ OneTransfer(drive.lba, vol.spc) => ws(i) = ByteAt(f, q * PerCluster + i)
<1> DEFINE x == i \div BytesPerSector
           y == i % BytesPerSector
           spc == vol.spc
<1>1. /\ ByteAt(f, q * PerCluster + i) = <<Sector(Nth(f.cluster, q), x), y>>
      /\ x \in 0 .. spc - 1 /\ y \in Nat
  BY ByteOf
<1>2. spc \in Nat \ {0} /\ DataBegin \in Nat
  BY VolumeNumbers
<1>3. drive.read = spc /\ Len(drive.buf) = spc /\ drive.buf \in Seq(Int) /\ drive.lba \in Int
  BY <1>2 DEF DriveOK, Whole, Returned
<1>4. ws(i) = <<drive.buf[x + 1], y>>
  BY DEF ws
<1> HIDE DEF x, y
<1>5. x + 1 \in 1 .. spc
  BY <1>1, <1>2
<1>6. drive.buf[x + 1] \in Int
  BY <1>3, <1>5
<1>7. ASSUME OneTransfer(drive.lba, spc) PROVE drive.buf[x + 1] = Sector(Nth(f.cluster, q), x)
  <2>1. drive.read # 0
    BY <1>2, <1>3
  <2>2. drive.buf = [k \in 1 .. spc |-> drive.lba + (k - 1)]
    BY <1>3, <1>7, <2>1 DEF DriveOK
  <2>3. drive.buf[x + 1] = drive.lba + ((x + 1) - 1)
    BY <1>5, <2>2
  <2>4. drive.buf[x + 1] = drive.lba + x
    BY <1>1, <1>2, <1>3, <2>3
  <2> DEFINE d == DataBegin + (Nth(f.cluster, q) - 2) * spc
  <2>5. drive.lba = d + 0 /\ Sector(Nth(f.cluster, q), x) = d + x
    BY DEF Sector
  <2>6. d \in Int
    <3> DEFINE c == Nth(f.cluster, q) - 2
    <3>1. c \in Int
      OBVIOUS
    <3> HIDE DEF c
    <3>2. c * spc \in Int
      BY <1>2, <3>1
    <3> QED
      BY <1>2, <3>2 DEF c
  <2> HIDE DEF d
  <2> QED
    BY <1>1, <1>2, <2>4, <2>5, <2>6
<1> QED
  BY <1>1, <1>4, <1>6, <1>7
\* The buffer grows.
LEMMA AppendedLen ==
    ASSUME NEW S, NEW s \in Seq(S), NEW t \in Seq(S)
    PROVE  s \o t \in Seq(S) /\ Len(s \o t) = Len(s) + Len(t)
OBVIOUS

LEMMA ReadClusterOK ==
    ASSUME FatInv, WellMade(vol), ReadCluster
    PROVE  FatInv' /\ job'.op = "read"
<1>1. /\ pc = "read" /\ Returned /\ UNCHANGED <<vol, fat, cluster, scratch>>
      /\ \/ drive.ret # 0 /\ Return(job, drive.ret)
         \/ drive.ret = 0 /\ job' = Copy(job) /\ ReadFat(cluster, "readnext")
  BY DEF ReadCluster
<1>2. /\ DriveOK /\ fat = Filled(vol) /\ JobRec(job) /\ job.op = "read" /\ job.ret = OK
      /\ (job.failed <=> drive.ret # 0) /\ Sound(job)
  BY <1>1 DEF FatInv, Phase, Failures, JobType, Reading
<1>3. CASE drive.ret # 0 /\ Return(job, drive.ret)
  <2>1. /\ JobRec(job)' /\ job'.op = "read" /\ job'.ret = drive.ret /\ job'.failed = job.failed
        /\ pc' = "idle" /\ UNCHANGED drive
    BY <1>2, <1>3, Returning
  <2>2. job'.failed /\ job'.ret \in Errors
    BY <1>2, <1>3, <2>1 DEF DriveOK
  <2>3. DriveOK'
    BY <1>1, <2>1 DEF FatInv, DriveOK, Whole, Returned
  <2>4. Phase'
    BY <1>1, <1>2, <2>1 DEF Phase, OfFat, Filled, Returned
  <2>5. Failures'
    BY <2>1, <2>2 DEF Failures, OfFat, ErrorsReported
  <2>6. Walking' /\ Reading'
    BY <2>1, <2>2 DEF Walking, Reading, WalkExact, ReadExact
  <2> QED
    BY <2>1, <2>3, <2>4, <2>5, <2>6 DEF FatInv, JobType
<1>4. CASE drive.ret = 0 /\ job' = Copy(job) /\ ReadFat(cluster, "readnext")
  <2> DEFINE f == job.file
             out == job.out
             from == job.head
             count == job.count
             offset == job.offset
             p == Place(job)
             b == PerCluster
             n == Min({b - from, count})
             got == [k \in 1 .. n |-> ws(from + k - 1)]
             new == out \o got
             S == Int \X Nat
  <2>1. PICK q \in Nat : /\ cluster = Nth(f.cluster, q) /\ Copying(job, q) /\ count > 0
                         /\ q < Needed(vol, f.size) /\ drive.lba = Sector(cluster, 0)
    BY <1>1 DEF FatInv, Reading
  <2>2. /\ count \in Nat \ {0} /\ job.asked \in Nat /\ offset \in Nat /\ from \in Nat
        /\ out \in Seq(S) /\ job.wanted = 0 /\ job.failed = FALSE
    BY <1>2, <1>4, <2>1 DEF JobRec, Copying
  <2>3. Len(out) \in Nat /\ p = offset + Len(out) /\ p \in Nat
    <3>1. Len(out) \in Nat
      <4> HIDE DEF out, S
      <4> QED
        BY <2>2
    <3> QED
      BY <2>2, <3>1 DEF Place
  <2>4. /\ IsFile(vol, f) /\ f.size \in Nat /\ b \in Nat \ {0} /\ ClusterBytes = b
    BY <1>2, FileSize, VolumeNumbers DEF Sound, ClusterBytes, PerCluster, Filled
  <2>5. p \div b = q /\ p % b = from
    BY <2>1 DEF Copying
  <2>6. /\ job' = [op |-> job.op, name |-> job.name, file |-> job.file, count |-> count - n,
                   asked |-> job.asked, offset |-> job.offset, wanted |-> job.wanted, head |-> 0,
                   out |-> new, ret |-> job.ret, failed |-> job.failed]
    BY <1>2, <1>4, <2>4 DEF Copy, JobRec
  <2>7. /\ from \in 0 .. b - 1 /\ p = q * b + from
        /\ n \in Nat \ {0} /\ n <= count /\ n <= b - from
        /\ count - n > 0 => (p + n) \div b = q + 1 /\ (p + n) % b = 0
    <3>1. n = Min({b - from, count})
      OBVIOUS
    <3> DEFINE r == q * b
    <3> HIDE DEF p, b, from, count, n
    <3>2. from \in 0 .. b - 1 /\ p = r + from
      <4>1. /\ p % b \in 0 .. b - 1 /\ p = (p \div b) * b + (p % b)
        BY <2>3, <2>4, Quotient
      <4> QED
        BY <2>5, <4>1
    <3>3. b - from \in Nat \ {0}
      BY <2>2, <2>4, <3>2
    <3>4. n = IF b - from <= count THEN b - from ELSE count
      BY <2>2, <3>1, <3>3, MinOfTwo
    <3>5. r \in Nat /\ (q + 1) * b = r + b
      BY <2>4
    <3>6. n \in Nat \ {0} /\ n <= count /\ n <= b - from
      BY <2>2, <3>3, <3>4
    <3>7. ASSUME count - n > 0 PROVE (p + n) \div b = q + 1 /\ (p + n) % b = 0
      <4> DEFINE t == q + 1
      <4>1. n = b - from
        BY <2>2, <3>3, <3>4, <3>7
      <4>2. (q + 1) * b = r + b
        BY <3>5
      <4>3. t \in Nat /\ 0 \in 0 .. b - 1 /\ t * b = r + b
        BY <2>4, <4>2
      <4> HIDE DEF t, r
      <4>4. p + n = r + b
        BY <2>2, <2>4, <3>2, <3>5, <4>1
      <4>5. p + n = t * b + 0
        BY <2>4, <3>5, <4>3, <4>4
      <4>6. (t * b + 0) \div b = t /\ (t * b + 0) % b = 0
        BY <2>4, <4>3, QuotientOf
      <4> QED
        BY <4>5, <4>6 DEF t
    <3> QED
      BY <3>2, <3>6, <3>7
  <2>8. Own(cluster) /\ cluster \in Nat \ {0, 1, LastCluster} /\ cluster \in Clusters(f) /\ drive.lba \in Nat
    BY <1>2, <2>1, <2>4, FileChain DEF DriveOK
  <2>9. /\ DriveOK' /\ drive'.lba = fat.fat_lba_begin + cluster \div PerFatSector
         /\ Whole' = 1 /\ drive'.ret = 0 /\ pc' = "readnext"
    BY <1>1, <1>2, <1>4, <2>8, FatRead
  <2>10. \A i \in 0 .. b - 1 :
            ws(i) \in S /\ (OneTransfer(drive.lba, vol.spc) => ws(i) = ByteAt(f, q * b + i))
    <3>1. Whole = vol.spc
      BY <1>1, <1>4 DEF FatInv, Phase
    <3>2. Nth(f.cluster, q) \in Nat /\ drive.lba = Sector(Nth(f.cluster, q), 0)
      BY <2>1, <2>8
    <3> HIDE DEF f
    <3> QED
      BY <1>1, <1>2, <1>4, <2>8, <3>1, <3>2, Copied
  <2> HIDE DEF n, from, count, offset, p, b, f, S
  <2>11. \A k \in 1 .. n : from + k - 1 \in 0 .. b - 1
    BY <2>2, <2>4, <2>7
  <2>12. got \in Seq(S) /\ Len(got) = n
    <3>1. \A k \in 1 .. n : ws(from + k - 1) \in S
      BY <2>10, <2>11
    <3>2. got \in [1 .. n -> S]
      BY <3>1
    <3> HIDE DEF got
    <3> QED
      BY <2>7, <3>2
  <2> HIDE DEF out, got
  <2>13. /\ new \in Seq(S) /\ Len(new) = Len(out) + n
         /\ \A k \in 1 .. Len(new) :
               /\ k <= Len(out) => new[k] = out[k]
               /\ ~(k <= Len(out)) => k - Len(out) \in 1 .. n /\ new[k] = got[k - Len(out)]
    <3>1. new \in Seq(S) /\ Len(new) = Len(out) + n
      BY <2>2, <2>12, AppendedLen
    <3>2. ASSUME NEW k \in 1 .. Len(new)
          PROVE  /\ k <= Len(out) => new[k] = out[k]
                 /\ ~(k <= Len(out)) => k - Len(out) \in 1 .. Len(got) /\ new[k] = got[k - Len(out)]
      <4> DEFINE l == Len(out)
      <4>1. l \in Nat /\ Len(new) = l + n /\ Len(got) = n
        BY <2>3, <2>12, <3>1
      <4>2. (out \o got)[k] = IF k <= Len(out) THEN out[k] ELSE got[k - Len(out)]
        BY <2>2, <2>12, <3>1
      <4>3. new[k] = IF k <= l THEN out[k] ELSE got[k - l]
        BY <4>2
      <4> HIDE DEF l, new
      <4>4. ~(k <= l) => k - l \in 1 .. Len(got)
        BY <2>7, <4>1
      <4> QED
        BY <4>3, <4>4 DEF l
    <3> HIDE DEF new
    <3> QED
      BY <2>12, <3>1, <3>2
  <2> HIDE DEF new
  <2>14. /\ job'.op = "read" /\ job'.name = job.name /\ job'.file = f /\ job'.count = count - n
         /\ job'.asked = job.asked /\ job'.offset = offset /\ job'.wanted = 0 /\ job'.head = 0
         /\ job'.out = new /\ job'.ret = OK /\ job'.failed = FALSE
    BY <1>2, <2>2, <2>6 DEF f, offset
  <2>15. count - n \in Nat
    BY <2>2, <2>7
  <2>16. JobRec(job)'
    <3>1. job' = [op |-> job'.op, name |-> job'.name, file |-> job'.file, count |-> job'.count,
                  asked |-> job'.asked, offset |-> job'.offset, wanted |-> job'.wanted, head |-> job'.head,
                  out |-> job'.out, ret |-> job'.ret, failed |-> job'.failed]
      BY <2>6
    <3>2. job'.out \in Seq(Int \X Nat)
      BY <2>13, <2>14 DEF S
    <3>3. job'.failed \in BOOLEAN
      BY <2>14
    <3>4. {job'.count, job'.asked, job'.offset, job'.wanted, job'.head} \subseteq Nat
      BY <2>2, <2>14, <2>15
    <3> QED
      BY <3>1, <3>2, <3>3, <3>4 DEF JobRec
  <2>17. Phase'
    BY <1>1, <1>2, <2>9, <2>14 DEF Phase, OfFat, Filled
  <2>18. Failures'
    BY <2>9, <2>14 DEF Failures, OfFat, ErrorsReported
  <2>19. Walking'
    BY <2>9 DEF Walking, WalkExact
  <2>20. ASSUME AtOnce(f) PROVE new = [k \in 1 .. Len(new) |-> ByteAt(f, offset + (k - 1))]
    <3>1. OneTransfer(drive.lba, vol.spc)
      BY <2>1, <2>8, <2>20 DEF AtOnce
    <3>2. out = [k \in 1 .. Len(out) |-> ByteAt(f, offset + (k - 1))]
      BY <1>2, <2>20 DEF Sound, Faithful, out, f, offset
    <3>3. ASSUME NEW k \in 1 .. Len(new) PROVE new[k] = ByteAt(f, offset + (k - 1))
      <4>1. CASE k <= Len(out)
        <5>1. k \in 1 .. Len(out)
          BY <2>3, <4>1
        <5> QED
          BY <2>13, <3>2, <4>1, <5>1
      <4>2. CASE ~(k <= Len(out))
        <5> DEFINE l == Len(out)
                   m == k - l
                   i == from + m - 1
                   r == q * b
        <5>1. m \in 1 .. n /\ new[k] = got[m]
          BY <2>13, <4>2
        <5>2. got[m] = ws(i)
          <6> HIDE DEF m
          <6> QED
            BY <5>1 DEF got
        <5>3. i \in 0 .. b - 1
          BY <2>11, <5>1
        <5>4. ws(i) = ByteAt(f, r + i)
          BY <2>10, <3>1, <5>3
        <5>5. l \in Nat /\ k \in Nat /\ r \in Nat /\ r + from = offset + l
          <6>1. k \in Nat
            OBVIOUS
          <6> QED
            BY <2>3, <2>4, <2>7, <6>1
        <5>6. r + i = offset + (k - 1)
          <6> HIDE DEF l, r
          <6> QED
            BY <2>2, <5>5
        <5> QED
          BY <5>1, <5>2, <5>4, <5>6
      <4> QED
        BY <4>1, <4>2
    <3>4. DOMAIN new = 1 .. Len(new) /\ new = [k \in DOMAIN new |-> new[k]]
      BY <2>13
    <3> QED
      BY <3>3, <3>4
  <2>21. Sound(job)'
    <3>1. count + Len(out) = Due(job) /\ job.offset <= f.size
      BY <1>2 DEF Sound, count, out, f
    <3>2. (count - n) + (Len(out) + n) = count + Len(out)
      <4> DEFINE l == Len(out)
      <4>1. l \in Nat
        BY <2>3
      <4> HIDE DEF l
      <4>2. (count - n) + (l + n) = count + l
        BY <2>2, <2>7, <4>1
      <4> QED
        BY <4>2 DEF l
    <3>3. Due(job)' = Due(job)
      BY <2>14 DEF Due, Clamp, f, offset
    <3>4. job'.count + Len(job'.out) = Due(job)'
      BY <2>13, <2>14, <3>1, <3>2, <3>3
    <3>5. Faithful(job)'
      BY <1>1, <2>14, <2>20 DEF Faithful, AtOnce, Clusters, Nth, ByteAt, Sector, DataBegin, OneTransfer
    <3>6. IsFile(vol, job.file)' /\ job'.offset <= job'.file.size /\ job'.asked + job'.offset < UintMod
      <4>1. job.asked + job.offset < UintMod
        BY <1>2 DEF Sound
      <4>2. IsFile(vol, job.file)' /\ job'.offset <= job'.file.size
        BY <1>1, <2>4, <2>14, <3>1 DEF IsFile, offset
      <4>3. job'.asked = job.asked /\ job'.offset = job.offset
        BY <2>14 DEF offset
      <4> QED
        BY <4>1, <4>2, <4>3
    <3> QED
      BY <3>4, <3>5, <3>6 DEF Sound
  <2>22. Copying(job, q + 1)'
    <3>1. Place(job)' = p + n
      <4> DEFINE l == Len(out)
      <4>1. l \in Nat /\ p = offset + l /\ Place(job)' = offset + (l + n)
        BY <2>3, <2>13, <2>14 DEF Place
      <4> HIDE DEF l
      <4> QED
        BY <2>2, <2>7, <4>1
    <3>2. PerCluster' = b
      BY <1>1 DEF PerCluster, b
    <3> QED
      BY <2>7, <2>14, <3>1, <3>2 DEF Copying
  <2>23. Reading'
    <3>1. cluster' = Nth(job.file.cluster, q)' /\ (q < Needed(vol, job.file.size))'
      BY <1>1, <2>1, <2>14 DEF Nth
    <3> QED
      BY <2>9, <2>21, <2>22, <3>1 DEF Reading, ReadExact
  <2> QED
    BY <2>9, <2>14, <2>16, <2>17, <2>18, <2>19, <2>23 DEF FatInv, JobType
<1> QED
  BY <1>1, <1>3, <1>4
-----------------------------------------------------------------------------
(* The reader and the loader *)

\* A step of a call, and the call goes on.
LEMMA OnwardsOK ==
    ASSUME FatReadable, FatInv, WellMade(vol), Onwards \/ \E e \in Errors : BiosFails(e)
    PROVE  FatInv' /\ vol' = vol /\ job'.op = job.op
<1>1. CASE Mount
  BY <1>1, MountOK DEF Mount
<1>2. CASE Mounted
  BY <1>2, MountedOK DEF Mounted
<1>3. CASE MountFails
  BY <1>3, MountFailsOK DEF MountFails
<1>4. CASE WalkSector
  <2>1. job.op = "walk" /\ vol' = vol
    BY <1>4 DEF WalkSector, FatInv, Phase
  <2> QED
    BY <1>4, <2>1, WalkSectorOK
<1>5. CASE WalkNext
  <2>1. job.op = "walk" /\ vol' = vol
    BY <1>5 DEF WalkNext, FatInv, Phase
  <2> QED
    BY <1>5, <2>1, WalkNextOK
<1>6. CASE Skip
  <2>1. job.op = "read" /\ vol' = vol
    BY <1>6 DEF Skip, FatInv, Phase
  <2> QED
    BY <1>6, <2>1, SkipOK
<1>7. CASE ReadCluster
  <2>1. job.op = "read" /\ vol' = vol
    BY <1>7 DEF ReadCluster, FatInv, Phase
  <2> QED
    BY <1>7, <2>1, ReadClusterOK
<1>8. CASE ReadNext
  <2>1. job.op = "read" /\ vol' = vol
    BY <1>8 DEF ReadNext, FatInv, Phase
  <2> QED
    BY <1>8, <2>1, ReadNextOK
<1>9. CASE BiosReads
  BY <1>9, BiosReadsOK DEF BiosReads
<1>10. ASSUME NEW e \in Errors, BiosFails(e) PROVE FatInv' /\ vol' = vol /\ job'.op = job.op
  <2>1. vol' = vol /\ job' = [job EXCEPT !.failed = TRUE]
    BY <1>10 DEF BiosFails
  <2>2. job'.op = job.op
    BY <2>1 DEF FatInv, JobType, JobRec
  <2> QED
    BY <1>10, <2>1, <2>2, BiosFailsOK
<1> QED
  BY <1>1, <1>2, <1>3, <1>4, <1>5, <1>6, <1>7, <1>8, <1>9, <1>10 DEF Onwards

\* Other steps do not touch the reader.
LEMMA ReaderKept ==
    ASSUME FatInv, UNCHANGED vars
    PROVE  FatInv'
<1>1. UNCHANGED <<vol, fat, pc, job, cluster, drive, scratch>>
  BY DEF vars
<1>2. DriveOK' /\ JobType' /\ Phase' /\ Failures'
  <2>1. DriveOK'
    BY <1>1 DEF FatInv, DriveOK, Whole, Returned
  <2>2. JobType'
    BY <1>1 DEF FatInv, JobType, JobRec
  <2>3. Phase'
    BY <1>1 DEF FatInv, Whole, Returned, Phase, Filled, Blank
  <2>4. Failures'
    BY <1>1 DEF FatInv, Failures, ErrorsReported
  <2> QED
    BY <2>1, <2>2, <2>3, <2>4
<1>3. Walking'
  <2>1. Entries' = Entries
    BY <1>1 DEF Entries, Slots, Slot, Nth
  <2>2. WalkExact'
    BY <1>1, <2>1 DEF FatInv, Walking, WalkExact
  <2> QED
    BY <1>1, <2>2 DEF FatInv, Walking, Nth, Passed, FirstSector, Stops, Sector, DataBegin, IsNamed
<1>4. Reading'
  <2>1. ReadExact'
    BY <1>1 DEF FatInv, Reading, ReadExact, Nth, AtOnce, Clusters, ByteAt, Sector, DataBegin, OneTransfer
  <2>2. ASSUME Sound(job) PROVE Sound(job)'
    <3>1. Faithful(job)'
      BY <1>1, <2>2 DEF Sound, Faithful, Nth, AtOnce, Clusters, ByteAt, Sector, DataBegin, OneTransfer
    <3> QED
      BY <1>1, <2>2, <3>1 DEF Sound, Due, Clamp, IsFile
  <2> QED
    BY <1>1, <2>1, <2>2 DEF FatInv, Reading, Nth, Sector, DataBegin, Place, PerCluster, Skipping, Copying
<1> QED
  BY <1>2, <1>3, <1>4 DEF FatInv

LEMMA InitOK ==
    ASSUME LoaderInit
    PROVE  IInv
<1>1. /\ drive = [lba |-> 0, count |-> 0, read |-> 0, es |-> 0, buf |-> <<>>, ret |-> 0]
      /\ scratch = [k \in Scratch |-> Junk]
      /\ fat = Blank(vol) /\ pc = "off" /\ job = Job("none") /\ cluster = 0
  BY DEF LoaderInit, FatInit, DriveInit, Call, Blank
<1>2. <<>> \in Seq(Int) /\ <<>> \in Seq(Int \X Nat) /\ Len(<<>>) = 0
  OBVIOUS
<1>3. DriveOK
  <2>1. MaxSectors \in Nat /\ Junk \in Int
    BY DriveAssumption DEF Junk
  <2> QED
    BY <1>1, <1>2, <2>1, Geometry DEF DriveOK, Whole, Returned
<1>4. JobType /\ job.op = "none" /\ job.ret = OK /\ job.failed = FALSE
  BY <1>1, <1>2 DEF Job, JobType, JobRec
<1>5. Phase
  BY <1>1, <1>4 DEF Phase, Returned, OfFat
<1>6. Failures
  BY <1>1, <1>4 DEF Failures, ErrorsReported, OfFat
<1>7. Walking /\ Reading
  BY <1>1 DEF Walking, Reading, WalkExact, ReadExact
<1>8. MainInv
  <2>1. scene \in {"boot", "config", "calls"} /\ vol \in Volumes \cup BootVolumes \cup ConfigVolumes
        /\ (scene = "boot" => vol \in BootVolumes)
    BY DEF LoaderInit
  <2>2. WellMade(vol) /\ (scene = "boot" => IsElf(vol.elf))
    BY <2>1, LoaderAssumption DEF IsElf
  <2>3. main = [at |-> "stage1", kernel |-> Nowhere, lowest |-> -1, highest |-> 0, read |-> 0, i |-> 0,
                initrd |-> Nowhere, cmdlen |-> 0, count |-> 0]
    BY DEF LoaderInit
  <2>4. scene = "boot" => 0 <= phdr_count
    BY <2>2 DEF IsElf, phdr_count
  <2> QED
    BY <2>1, <2>2, <2>3, <2>4 DEF MainInv, MainRec
<1> QED
  BY <1>3, <1>4, <1>5, <1>6, <1>7, <1>8 DEF IInv, FatInv
\* stage2_main goes on to another place, or stays where it is.
LEMMA MainKept ==
    ASSUME MainInv, UNCHANGED <<vol, scene, main>>,
           main.at \in {"bootini", "kernel", "initrd"} => job'.op = "walk"
    PROVE  MainInv'
BY DEF MainInv, phdr_count, batch

LEMMA MainMoves ==
    ASSUME MainInv, UNCHANGED <<vol, scene>>, scene = "boot", NEW place, Go(place),
           place \in {"bootini", "kernel", "initrd"} => job'.op = "walk",
           place \in {"ehdr", "phdrs", "segments", "segment"} => IsFile(vol, main.kernel),
           place = "segment" => main.i < batch
    PROVE  MainInv'
<1>1. /\ main' = [at |-> place, kernel |-> main.kernel, lowest |-> main.lowest, highest |-> main.highest,
                  read |-> main.read, i |-> main.i, initrd |-> main.initrd, cmdlen |-> main.cmdlen,
                  count |-> main.count]
  BY DEF Go, MainInv, MainRec
<1>2. /\ MainRec(main') /\ main'.at = place /\ main'.kernel = main.kernel
      /\ main'.read = main.read /\ main'.i = main.i
  BY <1>1 DEF MainRec
<1> QED
  BY <1>2 DEF MainInv, phdr_count, batch

\* A panic, or the end of what the model says.
LEMMA MainEnds ==
    ASSUME IInv, Panic \/ Undefined, scene = "boot"
    PROVE  IInv'
<1>1. UNCHANGED vars /\ UNCHANGED <<vol, scene>> /\ (Go("panic") \/ Go("undefined"))
  BY DEF Panic, Undefined, others, vars
<1>2. FatInv'
  BY <1>1, ReaderKept DEF IInv
<1>3. MainInv'
  BY <1>1, MainMoves DEF IInv
<1> QED
  BY <1>2, <1>3 DEF IInv

\* It opens a file.
LEMMA MainOpens ==
    ASSUME IInv, scene = "boot", NEW name, Walk(name), NEW place \in {"bootini", "kernel", "initrd"},
           Go(place), UNCHANGED scene
    PROVE  IInv'
<1>1. FatInv' /\ job'.op = "walk"
  BY WalkOK DEF IInv, MainInv
<1>2. vol' = vol
  BY DEF Walk
<1>3. MainInv'
  BY <1>1, <1>2, MainMoves DEF IInv
<1> QED
  BY <1>1, <1>3 DEF IInv

\* The file that was found.
LEMMA FileFound ==
    ASSUME IInv, main.at \in {"bootini", "kernel", "initrd"}, pc = "idle", job.ret = OK
    PROVE  IsFile(vol, job.file) /\ job.file.size \in Nat /\ job.file.size < UintMod
<1>1. IsFile(vol, job.file)
  BY DEF IInv, FatInv, MainInv, Walking, IsNamed, IsFile
<1> QED
  BY <1>1, FileSize DEF IInv, MainInv

LEMMA MainStarts ==
    ASSUME IInv, RunStage1 \/ FillOptions \/ ConfigGiven \/ Options
    PROVE  IInv'
<1>1. UNCHANGED vars
  BY DEF RunStage1, FillOptions, ConfigGiven, Options, Undefined, vars
<1>2. FatInv'
  BY <1>1, ReaderKept DEF IInv
<1>3. UNCHANGED <<vol, scene, job>>
  BY <1>1 DEF vars, RunStage1, FillOptions, ConfigGiven, Options, Undefined, others
<1>4. UNCHANGED main \/ (scene = "boot" /\ (Go("mount") \/ Go("options") \/ Go("undefined")))
  BY DEF RunStage1, FillOptions, ConfigGiven, Options, Undefined, At
<1>5. MainInv'
  <2>1. CASE UNCHANGED main
    BY <1>3, <2>1, MainKept DEF IInv, MainInv
  <2>2. CASE scene = "boot" /\ (Go("mount") \/ Go("options") \/ Go("undefined"))
    BY <1>3, <2>2, MainMoves DEF IInv
  <2> QED
    BY <1>4, <2>1, <2>2
<1> QED
  BY <1>2, <1>5 DEF IInv

LEMMA MainFiles ==
    ASSUME IInv, OpenConfig \/ OpenKernel \/ OpenInitrd \/ ReadConfig \/ ReadInitrd
    PROVE  IInv'
<1>1. scene = "boot" /\ pc = "idle"
  BY DEF OpenConfig, OpenKernel, OpenInitrd, ReadConfig, ReadInitrd, At
<1>2. CASE OpenConfig
  BY <1>1, <1>2, MainOpens DEF OpenConfig, UNCHANGEDButCall, others
<1>3. CASE OpenKernel
  BY <1>1, <1>3, MainOpens DEF OpenKernel, UNCHANGEDButCall, others
<1>4. CASE OpenInitrd
  BY <1>1, <1>4, MainOpens DEF OpenInitrd, UNCHANGEDButCall, others
<1>5. CASE ReadConfig /\ job.ret # OK
  BY <1>1, <1>5, MainEnds DEF ReadConfig
<1>6. CASE ReadInitrd /\ job.ret # OK
  BY <1>1, <1>6, MainEnds DEF ReadInitrd
<1>7. ASSUME ReadConfig \/ ReadInitrd, job.ret = OK PROVE IInv'
  <2>1. /\ main.at \in {"bootini", "initrd"} /\ Read(job.file, job.file.size, 0) /\ UNCHANGED scene
        /\ Go("bootconf") \/ main' = [main EXCEPT !.at = "cmdline", !.initrd = job.file]
    BY <1>7 DEF ReadConfig, ReadInitrd, At, UNCHANGEDButCall, others
  <2>2. IsFile(vol, job.file) /\ job.file.size \in Nat /\ job.file.size < UintMod
    BY <1>1, <1>7, <2>1, FileFound
  <2>3. FatInv' /\ vol' = vol
    <3>1. vol' = vol
      BY <2>1 DEF Read
    <3> DEFINE f == job.file
               size == job.file.size
    <3>2. Read(f, size, 0) /\ IsFile(vol, f) /\ size \in Nat /\ 0 \in Nat /\ size + 0 < UintMod
      BY <2>1, <2>2
    <3> HIDE DEF f, size
    <3>3. FatInv'
      BY <3>2, ReadOK DEF IInv, MainInv
    <3> QED
      BY <3>1, <3>3
  <2>4. MainInv'
    <3>1. CASE Go("bootconf")
      BY <1>1, <2>1, <2>3, <3>1, MainMoves DEF IInv
    <3>2. CASE main' = [main EXCEPT !.at = "cmdline", !.initrd = job.file]
      <4>1. MainRec(main') /\ main'.at = "cmdline" /\ main'.read = main.read /\ main'.i = main.i
        BY <3>2 DEF IInv, MainInv, MainRec
      <4> QED
        BY <1>1, <2>1, <2>3, <4>1 DEF IInv, MainInv, phdr_count
    <3> QED
      BY <2>1, <3>1, <3>2
  <2> QED
    BY <2>3, <2>4 DEF IInv
<1> QED
  BY <1>2, <1>3, <1>4, <1>5, <1>6, <1>7

\* Of a step behind the kernel's segments, which leaves the reader alone.
LEMMA MainGoesOn ==
    ASSUME IInv, scene = "boot", UNCHANGED <<vars, others>>, MainRec(main'),
           main'.at \in {"mmap", "video", "kmain"}, main'.read = main.read, main'.i = main.i
    PROVE  IInv'
<1>1. UNCHANGED vars /\ UNCHANGED <<vol, scene, job>>
  BY DEF vars, others
<1>2. FatInv'
  BY <1>1, ReaderKept DEF IInv
<1>3. MainInv'
  BY <1>1 DEF IInv, MainInv, phdr_count
<1> QED
  BY <1>2, <1>3 DEF IInv

LEMMA GoneOn ==
    ASSUME IInv, NEW place, Go(place)
    PROVE  MainRec(main') /\ main'.at = place /\ main'.read = main.read /\ main'.i = main.i
BY DEF Go, IInv, MainInv, MainRec

LEMMA MainPlaces ==
    ASSUME IInv, StoreInitrdAndCmdline \/ MapEntry \/ MapEnds \/ CallKernel
    PROVE  IInv'
<1>1. CASE StoreInitrdAndCmdline
  <2> DEFINE length == Len(Option("cmd"))
  <2>1. /\ scene = "boot"
        /\ \/ Undefined
           \/ main' = [main EXCEPT !.cmdlen = length, !.at = "mmap"] /\ UNCHANGED <<vars, others>>
    BY <1>1 DEF StoreInitrdAndCmdline, At
  <2> HIDE DEF length
  <2>2. CASE Undefined
    BY <2>1, <2>2, MainEnds
  <2>3. CASE main' = [main EXCEPT !.cmdlen = length, !.at = "mmap"] /\ UNCHANGED <<vars, others>>
    <3>1. MainRec(main') /\ main'.at = "mmap" /\ main'.read = main.read /\ main'.i = main.i
      BY <2>3 DEF IInv, MainInv, MainRec
    <3> QED
      BY <2>1, <2>3, <3>1, MainGoesOn
  <2> QED
    BY <2>1, <2>2, <2>3
<1>2. CASE MapEntry
  <2>1. PICK last \in (IF main.count + 1 \in MapCounts THEN BOOLEAN ELSE {FALSE}) :
              main' = [main EXCEPT !.count = @ + 1, !.at = IF last THEN "video" ELSE "mmap"]
    BY <1>2, Zenon DEF MapEntry
  <2>2. At("mmap") /\ UNCHANGED <<vars, others>>
    BY <1>2, Zenon DEF MapEntry
  <2> DEFINE place == IF last THEN "video" ELSE "mmap"
             count == main.count + 1
  <2>3. place \in {"mmap", "video"} /\ main' = [main EXCEPT !.count = count, !.at = place]
    BY <2>1
  <2> HIDE DEF place, count
  <2>4. MainRec(main') /\ main'.at = place /\ main'.read = main.read /\ main'.i = main.i
    BY <2>3 DEF IInv, MainInv, MainRec
  <2> QED
    BY <2>2, <2>3, <2>4, MainGoesOn DEF At
<1>3. CASE MapEnds
  <2>1. scene = "boot" /\ UNCHANGED <<vars, others>>
        /\ (Go("video") \/ main' = [main EXCEPT !.count = -1, !.at = "video"])
    BY <1>3 DEF MapEnds, At
  <2>2. MainRec(main') /\ main'.at = "video" /\ main'.read = main.read /\ main'.i = main.i
    BY <2>1 DEF Go, IInv, MainInv, MainRec
  <2> QED
    BY <2>1, <2>2, MainGoesOn
<1>4. CASE CallKernel
  <2>1. scene = "boot" /\ (Panic \/ (Go("kmain") /\ UNCHANGED <<vars, others>>))
    BY <1>4 DEF CallKernel, At
  <2>2. CASE Panic
    BY <2>1, <2>2, MainEnds
  <2>3. CASE Go("kmain") /\ UNCHANGED <<vars, others>>
    BY <2>1, <2>3, GoneOn, MainGoesOn
  <2> QED
    BY <2>1, <2>2, <2>3
<1> QED
  BY <1>1, <1>2, <1>3, <1>4
-----------------------------------------------------------------------------
(* elf_loader_load *)

\* The numbers of the headers.
LEMMA Headers ==
    ASSUME IInv, scene = "boot"
    PROVE  /\ phdr_count \in Nat /\ main.read \in Nat /\ main.i \in Nat
           /\ batch \in Nat /\ main.read + batch <= phdr_count
           /\ vol.elf.phoff + (phdr_count + Consec) * PhdrBytes < UintMod
           /\ main.i < batch => /\ phdr.fsize \in Nat /\ phdr.offset \in Nat
                                /\ phdr.fsize + phdr.offset < UintMod
<1>1. /\ vol.elf.phdrs \in Seq([type : STRING, vaddr : Int, fsize : Nat, msize : Nat, offset : Nat])
      /\ main.read \in Nat /\ main.i \in Nat /\ main.read <= phdr_count
  BY DEF IInv, MainInv, IsElf
<1>2. phdr_count \in Nat
  BY <1>1 DEF phdr_count
<1>3. batch \in Nat /\ main.read + batch <= phdr_count
  <2> DEFINE read == main.read
  <2>1. read \in Nat /\ read <= phdr_count /\ Consec \in Nat
    BY <1>1, LoaderAssumption
  <2>2. batch = IF phdr_count - read < Consec THEN phdr_count - read ELSE Consec
    BY DEF batch
  <2> HIDE DEF read
  <2>3. batch \in Nat /\ read + batch <= phdr_count
    BY <1>2, <2>1, <2>2
  <2> QED
    BY <2>3 DEF read
<1>4. ASSUME main.i < batch PROVE phdr.fsize \in Nat /\ phdr.offset \in Nat /\ phdr.fsize + phdr.offset < UintMod
  <2> DEFINE k == main.read + main.i + 1
  <2>1. k \in 1 .. phdr_count
    <3> DEFINE read == main.read
               i == main.i
    <3>1. read \in Nat /\ i \in Nat /\ i < batch /\ read + batch <= phdr_count
      BY <1>1, <1>3, <1>4
    <3> HIDE DEF read, i
    <3>2. read + i + 1 \in 1 .. phdr_count
      BY <1>2, <1>3, <3>1
    <3> QED
      BY <3>2 DEF read, i
  <2> HIDE DEF k
  <2>2. vol.elf.phdrs[k] \in [type : STRING, vaddr : Int, fsize : Nat, msize : Nat, offset : Nat]
    <3> DEFINE phdrs == vol.elf.phdrs
               R == [type : STRING, vaddr : Int, fsize : Nat, msize : Nat, offset : Nat]
    <3>1. phdrs \in Seq(R) /\ k \in 1 .. Len(phdrs)
      BY <1>1, <2>1 DEF phdr_count
    <3> HIDE DEF phdrs, R
    <3>2. phdrs[k] \in R
      BY <3>1
    <3> QED
      BY <3>2 DEF phdrs, R
  <2>3. phdr = vol.elf.phdrs[k]
    BY DEF phdr, k
  <2>4. vol.elf.phdrs[k].fsize + vol.elf.phdrs[k].offset < UintMod
    BY <1>1, <2>1 DEF IInv, MainInv, IsElf, phdr_count
  <2> QED
    BY <2>2, <2>3, <2>4
<1>5. vol.elf.phoff + (phdr_count + Consec) * PhdrBytes < UintMod
  BY DEF IInv, MainInv, IsElf, phdr_count
<1> QED
  BY <1>1, <1>2, <1>3, <1>4, <1>5

\* A read of the kernel.
LEMMA KernelRead ==
    ASSUME IInv, NEW f, IsFile(vol, f), NEW count \in Nat, NEW offset \in Nat,
           count + offset < UintMod, Read(f, count, offset)
    PROVE  FatInv' /\ vol' = vol
<1>1. vol' = vol
  BY DEF Read
<1> QED
  BY <1>1, ReadOK DEF IInv, MainInv

\* The next header: the bounds move, and so may the place.
LEMMA NextHeader ==
    ASSUME IInv, scene = "boot", main.at \in {"segments", "segment"}, UNCHANGED <<vars, others>>,
           MainRec(main'), main'.at = "segments", main'.kernel = main.kernel, main'.read = main.read,
           main'.i = main.i + 1
    PROVE  IInv'
<1>1. UNCHANGED vars /\ UNCHANGED <<vol, scene, job>>
  BY DEF vars, others
<1>2. FatInv'
  BY <1>1, ReaderKept DEF IInv
<1>3. main.i + 1 \in Nat
  BY DEF IInv, MainInv
<1>4. MainInv'
  BY <1>1, <1>3 DEF IInv, MainInv, phdr_count
<1> QED
  BY <1>2, <1>4 DEF IInv

LEMMA ReadEhdrOK ==
    ASSUME IInv, ReadEhdr
    PROVE  IInv'
<1>1. scene = "boot" /\ main.at = "kernel" /\ pc = "idle"
  BY DEF ReadEhdr, At
<1>2. CASE job.ret # OK
  BY <1>1, <1>2, MainEnds DEF ReadEhdr
<1>3. CASE job.ret = OK
  <2>1. Read(job.file, EhdrBytes, 0) /\ main' = [main EXCEPT !.at = "ehdr", !.kernel = job.file] /\ UNCHANGED scene
    BY <1>3 DEF ReadEhdr, UNCHANGEDButCall, others
  <2>2. IsFile(vol, job.file) /\ EhdrBytes \in Nat /\ 0 \in Nat /\ EhdrBytes + 0 < UintMod
    BY <1>1, <1>3, FileFound, LoaderAssumption
  <2> DEFINE f == job.file
  <2>3. Read(f, EhdrBytes, 0) /\ IsFile(vol, f)
    BY <2>1, <2>2
  <2>4. /\ MainRec(main') /\ main'.at = "ehdr" /\ main'.kernel = f
        /\ main'.read = main.read /\ main'.i = main.i
    BY <2>1 DEF IInv, MainInv, MainRec
  <2> HIDE DEF f
  <2>5. FatInv' /\ vol' = vol
    BY <2>2, <2>3, KernelRead
  <2>6. MainInv'
    BY <1>1, <2>1, <2>3, <2>4, <2>5 DEF IInv, MainInv, phdr_count
  <2> QED
    BY <2>5, <2>6 DEF IInv
<1> QED
  BY <1>2, <1>3

LEMMA ReadPhdrsOK ==
    ASSUME IInv, ReadPhdrs
    PROVE  IInv'
<1> DEFINE done == IF main.at = "ehdr" THEN 0 ELSE main.read + batch
<1>1. scene = "boot" /\ main.at \in {"ehdr", "segments"}
  BY DEF ReadPhdrs, At
<1>2. IsFile(vol, main.kernel)
  BY <1>1 DEF IInv, MainInv
<1>3. done \in Nat /\ done <= phdr_count
  BY <1>1, Headers
<1>4. \/ Undefined
      \/ Go("elf") /\ UNCHANGED <<vars, others>>
      \/ /\ Read(main.kernel, PhdrBytes * Consec, vol.elf.phoff + done * PhdrBytes)
         /\ main' = [main EXCEPT !.at = "phdrs", !.read = done, !.i = 0]
         /\ UNCHANGED scene
  BY DEF ReadPhdrs, UNCHANGEDButCall, others
<1> HIDE DEF done
<1>5. CASE Undefined
  BY <1>1, <1>5, MainEnds
<1>6. CASE Go("elf") /\ UNCHANGED <<vars, others>>
  <2>1. UNCHANGED vars /\ UNCHANGED <<vol, scene>>
    BY <1>6 DEF vars, others
  <2>2. FatInv'
    BY <2>1, ReaderKept DEF IInv
  <2>3. MainInv'
    BY <1>1, <1>6, <2>1, MainMoves DEF IInv
  <2> QED
    BY <2>2, <2>3 DEF IInv
<1>7. CASE /\ Read(main.kernel, PhdrBytes * Consec, vol.elf.phoff + done * PhdrBytes)
           /\ main' = [main EXCEPT !.at = "phdrs", !.read = done, !.i = 0]
           /\ UNCHANGED scene
  <2> DEFINE count == PhdrBytes * Consec
             offset == vol.elf.phoff + done * PhdrBytes
             f == main.kernel
  <2>1. count \in Nat /\ offset \in Nat /\ count + offset < UintMod
    <3> DEFINE P == PhdrBytes
               phoff == vol.elf.phoff
    <3>1. P \in Nat /\ Consec \in Nat /\ phoff \in Nat /\ phdr_count \in Nat
          /\ phoff + (phdr_count + Consec) * P < UintMod /\ UintMod \in Nat
      BY <1>1, LoaderAssumption, Fat32Assumption, Headers DEF IInv, MainInv, IsElf
    <3>2. count = P * Consec /\ offset = phoff + done * P
      OBVIOUS
    <3> HIDE DEF P, phoff, count, offset
    <3>3. done * P \in Nat /\ P * Consec \in Nat /\ done * P <= phdr_count * P /\ phdr_count * P \in Nat
      BY <1>3, <3>1
    <3>4. (phdr_count + Consec) * P = phdr_count * P + P * Consec
      BY <3>1
    <3> QED
      BY <3>1, <3>2, <3>3, <3>4
  <2>2. Read(f, count, offset) /\ IsFile(vol, f)
    BY <1>2, <1>7
  <2>3. MainRec(main') /\ main'.at = "phdrs" /\ main'.kernel = f /\ main'.read = done /\ main'.i = 0
    BY <1>7 DEF IInv, MainInv, MainRec
  <2> HIDE DEF count, offset, f
  <2>4. FatInv' /\ vol' = vol
    BY <2>1, <2>2, KernelRead
  <2>5. MainInv'
    BY <1>1, <1>3, <1>7, <2>2, <2>3, <2>4 DEF IInv, MainInv, phdr_count
  <2> QED
    BY <2>4, <2>5 DEF IInv
<1> QED
  BY <1>4, <1>5, <1>6, <1>7

LEMMA SegmentsOK ==
    ASSUME IInv, PhdrsRead \/ Segment \/ SegmentRead
    PROVE  IInv'
<1>1. /\ scene = "boot" /\ pc = "idle"
      /\ main.at \in {"phdrs", "segments", "segment"} /\ IsFile(vol, main.kernel)
  BY DEF PhdrsRead, Segment, SegmentRead, At, IInv, MainInv
<1>2. CASE PhdrsRead
  <2>1. Undefined \/ (Go("segments") /\ UNCHANGED <<vars, others>>)
    BY <1>2 DEF PhdrsRead
  <2>2. CASE Undefined
    BY <1>1, <2>2, MainEnds
  <2>3. CASE Go("segments") /\ UNCHANGED <<vars, others>>
    <3>1. UNCHANGED vars /\ UNCHANGED <<vol, scene>>
      BY <2>3 DEF vars, others
    <3>2. FatInv'
      BY <3>1, ReaderKept DEF IInv
    <3>3. MainInv'
      BY <1>1, <2>3, <3>1, MainMoves DEF IInv
    <3> QED
      BY <3>2, <3>3 DEF IInv
  <2> QED
    BY <2>1, <2>2, <2>3
<1> DEFINE lowest == IF main.lowest = -1 \/ phdr.vaddr < main.lowest THEN phdr.vaddr ELSE main.lowest
           highest == Max({main.highest, phdr.vaddr + phdr.msize})
<1>3. ASSUME main' = Bounds
      PROVE  /\ MainRec(main') /\ main'.at = "segments" /\ main'.kernel = main.kernel
             /\ main'.read = main.read /\ main'.i = main.i + 1
  <2>1. main' = [main EXCEPT !.lowest = lowest, !.highest = highest, !.i = @ + 1, !.at = "segments"]
    BY <1>3 DEF Bounds
  <2> HIDE DEF lowest, highest
  <2> QED
    BY <2>1 DEF IInv, MainInv, MainRec
<1> HIDE DEF lowest, highest
<1>4. CASE SegmentRead
  <2>1. main.at = "segment" /\ (Undefined \/ (main' = Bounds /\ UNCHANGED <<vars, others>>))
    BY <1>4 DEF SegmentRead, At
  <2>2. CASE Undefined
    BY <1>1, <2>2, MainEnds
  <2>3. CASE main' = Bounds /\ UNCHANGED <<vars, others>>
    BY <1>1, <1>3, <2>1, <2>3, NextHeader
  <2> QED
    BY <2>1, <2>2, <2>3
<1>5. CASE Segment
  <2>1. /\ main.at = "segments" /\ main.i < batch
        /\ \/ main' = [main EXCEPT !.i = @ + 1] /\ UNCHANGED <<vars, others>>
           \/ main' = Bounds /\ UNCHANGED <<vars, others>>
           \/ Read(main.kernel, phdr.fsize, phdr.offset) /\ Go("segment") /\ UNCHANGED scene
           \/ Panic
    BY <1>5 DEF Segment, At, UNCHANGEDButCall, others
  <2>2. CASE main' = [main EXCEPT !.i = @ + 1] /\ UNCHANGED <<vars, others>>
    <3>1. /\ MainRec(main') /\ main'.at = "segments" /\ main'.kernel = main.kernel
          /\ main'.read = main.read /\ main'.i = main.i + 1
      BY <2>1, <2>2 DEF IInv, MainInv, MainRec
    <3> QED
      BY <1>1, <2>1, <2>2, <3>1, NextHeader
  <2>3. CASE main' = Bounds /\ UNCHANGED <<vars, others>>
    BY <1>1, <1>3, <2>1, <2>3, NextHeader
  <2>4. CASE Read(main.kernel, phdr.fsize, phdr.offset) /\ Go("segment") /\ UNCHANGED scene
    <3> DEFINE count == phdr.fsize
               offset == phdr.offset
               f == main.kernel
    <3>1. Read(f, count, offset) /\ IsFile(vol, f) /\ count \in Nat /\ offset \in Nat /\ count + offset < UintMod
      BY <1>1, <2>1, <2>4, Headers
    <3> HIDE DEF count, offset, f
    <3>2. FatInv' /\ vol' = vol
      BY <3>1, KernelRead
    <3>3. MainInv'
      BY <1>1, <2>1, <2>4, <3>2, MainMoves DEF IInv
    <3> QED
      BY <3>2, <3>3 DEF IInv
  <2>5. CASE Panic
    BY <1>1, <2>5, MainEnds
  <2> QED
    BY <2>1, <2>2, <2>3, <2>4, <2>5
<1> QED
  BY <1>2, <1>4, <1>5
-----------------------------------------------------------------------------
(* The invariant, and what it says *)

LEMMA CallsOK ==
    ASSUME IInv, AnyCall
    PROVE  IInv'
<1>1. scene = "calls" /\ UNCHANGED <<scene, main>> /\ main.at = "stage1"
  BY DEF AnyCall, others, IInv, MainInv
<1>2. ASSUME NEW name \in Names, Walk(name) PROVE IInv'
  <2>1. FatInv' /\ vol' = vol
    BY <1>2, WalkOK DEF IInv, MainInv, Walk
  <2>2. MainInv'
    BY <1>1, <2>1, MainKept DEF IInv
  <2> QED
    BY <2>1, <2>2 DEF IInv
<1>3. ASSUME NEW s \in Found, NEW count \in Counts, NEW offset \in Offsets,
             Read([cluster |-> s.cluster, size |-> s.size], count, offset)
      PROVE  IInv'
  <2> DEFINE f == [cluster |-> s.cluster, size |-> s.size]
  <2>1. Read(f, count, offset) /\ IsFile(vol, f) /\ count \in Nat /\ offset \in Nat /\ count + offset < UintMod
    BY <1>3, LoaderAssumption DEF IsFile, Found
  <2> HIDE DEF f
  <2>2. FatInv' /\ vol' = vol
    BY <2>1, KernelRead
  <2>3. MainInv'
    BY <1>1, <2>2, MainKept DEF IInv
  <2> QED
    BY <2>2, <2>3 DEF IInv
<1> QED
  BY <1>2, <1>3 DEF AnyCall

LEMMA NextOK ==
    ASSUME FatReadable, IInv, [LoaderNext]_loaderVars
    PROVE  IInv'
<1>1. ASSUME Onwards \/ \E e \in Errors : BiosFails(e), UNCHANGED <<others, main, memory>>
      PROVE  IInv'
  <2>1. FatInv' /\ vol' = vol /\ job'.op = job.op
    BY <1>1, OnwardsOK DEF IInv, MainInv
  <2>2. UNCHANGED <<scene, main>>
    BY <1>1 DEF others
  <2>3. MainInv'
    BY <2>1, <2>2, MainKept DEF IInv, MainInv
  <2> QED
    BY <2>1, <2>3 DEF IInv
<1>2. CASE FatOnwards
  BY <1>1, <1>2 DEF FatOnwards
<1>3. CASE FatMay /\ (\E e \in Errors : BiosFails(e)) /\ UNCHANGED <<others, main, memory>>
  BY <1>1, <1>3
<1>4. CASE stage2_main
  BY <1>4, MainStarts, MainFiles, MainPlaces, ReadEhdrOK, ReadPhdrsOK, SegmentsOK DEF stage2_main
<1>5. CASE AnyCall
  BY <1>5, CallsOK
<1>6. CASE UNCHANGED loaderVars
  <2>1. UNCHANGED vars /\ UNCHANGED <<vol, scene, main, job>>
    BY <1>6 DEF loaderVars, vars
  <2>2. FatInv'
    BY <2>1, ReaderKept DEF IInv
  <2>3. MainInv'
    BY <2>1, MainKept DEF IInv, MainInv
  <2> QED
    BY <2>2, <2>3 DEF IInv
<1> QED
  BY <1>2, <1>3, <1>4, <1>5, <1>6 DEF LoaderNext

\* The invariant of the reader and of what the loader knows of its files, as long as
\* the FAT can be read.
THEOREM Invariant ==
    ASSUME FatReadable
    PROVE  LoaderSpec => []IInv
<1>1. LoaderInit => IInv
  BY InitOK
<1>2. IInv /\ [LoaderNext]_loaderVars => IInv'
  <2> SUFFICES ASSUME IInv, [LoaderNext]_loaderVars PROVE IInv'
    OBVIOUS
  <2> QED
    BY NextOK
<1> QED
  BY <1>1, <1>2, PTL DEF LoaderSpec

\* The reader's answers are right: WalkExact, that fat32_walk finds a file exactly
\* when the directory has it, and ErrorsReported, that a call during which the BIOS
\* failed returns the BIOS's error, any other read the number of bytes it had to
\* deliver and any other walk FAT32_OK or FAT32_NOENTRY.  It does not say that a
\* caller can tell a number of bytes from an error: it cannot.
THEOREM AnswersAreExact ==
    ASSUME FatReadable
    PROVE  LoaderSpec => []AnswersExact
<1>1. IInv => AnswersExact
  BY DEF IInv, FatInv, Walking, Failures, AnswersExact
<1> QED
  BY <1>1, Invariant, PTL

\* fat32_read delivers the bytes of the file from the offset on, no more and no less,
\* over any chain of clusters, if each cluster is in reach of one BIOS call.
THEOREM ReadsAreExact ==
    ASSUME FatReadable
    PROVE  LoaderSpec => []ReadExact
<1>1. IInv => ReadExact
  BY DEF IInv, FatInv, Reading
<1> QED
  BY <1>1, Invariant, PTL

\* The reader follows no cluster that is not the directory's or the file's: it never
\* needs the mark behind the last one.
THEOREM ClustersAreOwn ==
    ASSUME FatReadable
    PROVE  LoaderSpec => []OnlyOwnClusters
<1>1. ASSUME IInv PROVE OnlyOwnClusters
  <2>1. WellMade(vol) /\ Walking /\ Reading
    BY <1>1 DEF IInv, FatInv, MainInv
  <2>2. ASSUME pc = "walk" PROVE cluster \in RootClusters /\ drive.lba = Sector(cluster, 0)
    BY <2>1, <2>2 DEF Walking, RootClusters
  <2>3. ASSUME pc = "read" PROVE cluster \in Clusters(job.file) /\ drive.lba = Sector(cluster, 0)
    <3>1. PICK q \in Nat : /\ cluster = Nth(job.file.cluster, q) /\ q < Needed(vol, job.file.size)
                           /\ drive.lba = Sector(cluster, 0)
      BY <2>1, <2>3 DEF Reading
    <3>2. IsFile(vol, job.file)
      BY <2>1, <2>3 DEF Reading, Sound
    <3> QED
      BY <2>1, <3>1, <3>2, FileChain
  <2> QED
    BY <2>2, <2>3 DEF OnlyOwnClusters
<1>2. IInv => OnlyOwnClusters
  BY <1>1
<1> QED
  BY <1>2, Invariant, PTL

\* Only a BIOS call makes the number of sectors read grow.
LEMMA OnwardCalls ==
    ASSUME NEW j, NEW c, Onward(j, c)
    PROVE  drive'.read = 0 \/ UNCHANGED drive
BY DEF Onward, ReadFat, Reads, drive_read_sectors, Call, Return

LEMMA ReadCalls ==
    ASSUME NEW f, NEW count, NEW offset, Read(f, count, offset)
    PROVE  drive'.read = 0 \/ UNCHANGED drive
<1> DEFINE i == [[Job("read") EXCEPT !.file = f, !.asked = count, !.offset = offset]
                   EXCEPT !.count = Clamp(f, count, offset), !.wanted = offset \div ClusterBytes,
                          !.head = offset % ClusterBytes]
<1>1. UNCHANGED drive \/ Onward(i, f.cluster)
  BY DEF Read, Return
<1> HIDE DEF i
<1> QED
  BY <1>1, OnwardCalls

LEMMA WalkCalls ==
    ASSUME NEW name, Walk(name)
    PROVE  drive'.read = 0
BY DEF Walk, Reads, drive_read_sectors, Call

LEMMA StepCalls ==
    ASSUME IInv, LoaderNext
    PROVE  Transfer \/ UNCHANGED drive \/ drive'.read = 0 \/ drive'.read = drive.read
<1>1. CASE Onwards
  <2>1. CASE Mount \/ Mounted \/ MountFails
    BY <2>1 DEF Mount, Mounted, MountFails, Reads, drive_read_sectors, Call
  <2>2. CASE WalkSector \/ WalkNext
    BY <2>2 DEF WalkSector, WalkNext, Return, Reads, ReadFat, drive_read_sectors, Call
  <2>3. CASE Skip
    BY <2>3, OnwardCalls DEF Skip
  <2>4. CASE ReadNext
    BY <2>4, OnwardCalls DEF ReadNext
  <2>5. CASE ReadCluster
    BY <2>5 DEF ReadCluster, Return, Reads, ReadFat, drive_read_sectors, Call
  <2>6. CASE BiosReads
    BY <2>6 DEF BiosReads
  <2> QED
    BY <1>1, <2>1, <2>2, <2>3, <2>4, <2>5, <2>6 DEF Onwards
<1>2. ASSUME NEW e \in Errors, BiosFails(e) PROVE drive'.read = drive.read
  BY <1>2, TransferFailsOK DEF BiosFails, IInv, FatInv
<1>3. CASE AnyCall
  BY <1>3, WalkCalls, ReadCalls DEF AnyCall
<1>4. CASE stage2_main
  <2>1. CASE RunStage1 \/ FillOptions \/ ConfigGiven \/ Options
    BY <2>1 DEF RunStage1, FillOptions, ConfigGiven, Options, Undefined, vars
  <2>2. CASE OpenConfig \/ OpenKernel \/ OpenInitrd
    BY <2>2, WalkCalls DEF OpenConfig, OpenKernel, OpenInitrd
  <2>3. CASE ReadConfig \/ ReadInitrd \/ ReadEhdr
    BY <2>3, ReadCalls DEF ReadConfig, ReadInitrd, ReadEhdr, Panic, vars
  <2>4. CASE ReadPhdrs
    BY <2>4, ReadCalls DEF ReadPhdrs, Undefined, vars
  <2>5. CASE PhdrsRead \/ SegmentRead
    BY <2>5 DEF PhdrsRead, SegmentRead, Undefined, vars
  <2>6. CASE Segment
    BY <2>6, ReadCalls DEF Segment, Panic, vars
  <2>7. CASE StoreInitrdAndCmdline \/ MapEnds \/ CallKernel
    BY <2>7 DEF StoreInitrdAndCmdline, MapEnds, CallKernel, Undefined, Panic, vars
  <2>8. CASE MapEntry
    <3>1. UNCHANGED <<vars, others>>
      BY <2>8, Zenon DEF MapEntry
    <3> QED
      BY <3>1 DEF vars
  <2> QED
    BY <1>4, <2>1, <2>2, <2>3, <2>4, <2>5, <2>6, <2>7, <2>8 DEF stage2_main
<1> QED
  BY <1>1, <1>2, <1>3, <1>4 DEF LoaderNext, FatOnwards

\* Every BIOS call delivers the sectors that are next, of one cylinder, and no more
\* than the scratch buffer is made for: on any disk whose files and whose second stage
\* lie below the 1024 cylinders that the call's ten bits can name.
THEOREM TransfersAreLegal ==
    ASSUME FatReadable
    PROVE  LoaderSpec => TransfersLegal
<1> DEFINE Legal == drive'.read > drive.read =>
                       LET at   == drive.lba + drive.read
                           last == drive.lba + drive'.read - 1
                       IN  /\ (at .. last) \subseteq {scratch'[k] : k \in Scratch}
                           /\ cylinder(at) = cylinder(last)
                           /\ last - at < MaxSectors
<1>1. ASSUME IInv, LoaderNext PROVE Legal
  <2>1. DriveOK /\ drive.read \in Nat
    BY <1>1 DEF IInv, FatInv, DriveOK
  <2>2. CASE Transfer
    BY <2>1, <2>2, TransferOK
  <2>3. CASE UNCHANGED drive \/ drive'.read = 0 \/ drive'.read = drive.read
    <3>1. ~(drive'.read > drive.read)
      BY <2>1, <2>3
    <3> QED
      BY <3>1
  <2> QED
    BY <1>1, <2>2, <2>3, StepCalls
<1>2. ASSUME UNCHANGED loaderVars PROVE UNCHANGED <<drive, scratch>>
  BY <1>2 DEF loaderVars, vars
<1>3. IInv /\ [LoaderNext]_loaderVars => [Legal]_<<drive, scratch>>
  <2> HIDE DEF Legal
  <2> QED
    BY <1>1, <1>2
<1>4. LoaderSpec => [][Legal]_<<drive, scratch>>
  <2> HIDE DEF Legal
  <2> QED
    BY <1>3, Invariant, PTL DEF LoaderSpec
<1> QED
  BY <1>4, PTL DEF TransfersLegal
-----------------------------------------------------------------------------
(* BOOT.INI, line by line *)

\* The marks of the two languages differ, and none is the name of an option.
LEMMA Marks ==
    /\ NEWLINE # NUL /\ SPACE # NUL /\ EQUALS # NUL /\ OPEN # NUL /\ CLOSE # NUL /\ SEMICOLON # NUL
    /\ SPACE # NEWLINE /\ EQUALS # NEWLINE /\ OPEN # NEWLINE /\ CLOSE # NEWLINE /\ SEMICOLON # NEWLINE
    /\ EQUALS # SPACE /\ OPEN # SPACE /\ SEMICOLON # SPACE
    /\ EQUALS # OPEN /\ EQUALS # SEMICOLON /\ OPEN # SEMICOLON
BY Zenon DEF NUL, NEWLINE, SPACE, EQUALS, OPEN, CLOSE, SEMICOLON

LEMMA MinIn ==
    ASSUME NEW S, S \subseteq Nat, S # {}
    PROVE  Min(S) \in S /\ \A n \in S : Min(S) <= n
<1>1. \E x \in S : \A y \in S : x <= y
  BY Smallest
<1> QED
  BY <1>1 DEF Min

\* A bounded set of numbers has a largest one.
LEMMA Largest ==
    ASSUME NEW S, S \subseteq Nat, S # {}, NEW b \in Nat, \A x \in S : x <= b
    PROVE  \E x \in S : \A y \in S : y <= x
<1> DEFINE T == {b - x : x \in S}
<1>1. T \subseteq Nat /\ T # {}
  <2>1. ASSUME NEW x \in S PROVE b - x \in Nat
    <3>1. x \in Nat /\ x <= b
      OBVIOUS
    <3> QED
      BY <3>1
  <2> QED
    BY <2>1
<1>2. PICK t \in T : \A u \in T : t <= u
  <2> HIDE DEF T
  <2> QED
    BY <1>1, Smallest
<1>3. PICK x \in S : t = b - x
  BY <1>2
<1>4. ASSUME NEW y \in S PROVE y <= x
  <2>1. b - x <= b - y
    BY <1>2, <1>3
  <2> QED
    BY <2>1
<1> QED
  BY <1>4

LEMMA MaxIs ==
    ASSUME NEW S, S \subseteq Nat, NEW m \in S, \A n \in S : n <= m
    PROVE  Max(S) = m
<1>1. Max(S) \in S /\ \A n \in S : n <= Max(S)
  BY DEF Max
<1>2. m \in Nat /\ Max(S) \in Nat /\ m <= Max(S) /\ Max(S) <= m
  BY <1>1
<1> QED
  BY <1>2

\* A text without NULs.
Letters == STRING \cup {"other"}
IsText(f) == f \in Seq(Letters) /\ \A q \in 1 .. Len(f) : f[q] # NUL

\* The line behind the break p: the break that ends it, and where it begins.
Ends(f, p) == Min({q \in Breaks(f) : q > p})
Begins(f, p) == Min({q \in p + 1 .. Ends(f, p) : q = Ends(f, p) \/ f[q] # SPACE})

LEMMA BreakIs ==
    ASSUME NEW f, IsText(f), NEW q
    PROVE  /\ q \in Breaks(f) => q \in 0 .. Len(f) + 1
           /\ q \in 1 .. Len(f) => (q \in Breaks(f) <=> f[q] = NEWLINE)
           /\ 0 \in Breaks(f) /\ Len(f) + 1 \in Breaks(f) /\ Len(f) \in Nat
<1>1. DOMAIN f = 1 .. Len(f) /\ Len(f) \in Nat
  BY DEF IsText
<1> QED
  BY <1>1 DEF Breaks

LEMMA LineFacts ==
    ASSUME NEW f, IsText(f), NEW p \in Breaks(f), p <= Len(f)
    PROVE  /\ Ends(f, p) \in Breaks(f) /\ Ends(f, p) \in p + 1 .. Len(f) + 1
           /\ \A q \in Breaks(f) : q > p => Ends(f, p) <= q
           /\ \A q \in p + 1 .. Ends(f, p) - 1 : q \in 1 .. Len(f) /\ f[q] # NEWLINE
           /\ Begins(f, p) \in p + 1 .. Ends(f, p)
           /\ \A q \in p + 1 .. Begins(f, p) - 1 : f[q] = SPACE
           /\ Begins(f, p) < Ends(f, p) => f[Begins(f, p)] # SPACE
<1> DEFINE S == {q \in Breaks(f) : q > p}
           e == Min(S)
           B == {q \in p + 1 .. e : q = e \/ f[q] # SPACE}
           b == Min(B)
           N == Len(f)
<1>1. N \in Nat /\ p \in 0 .. N /\ S \subseteq 1 .. N + 1 /\ N + 1 \in S
  BY BreakIs
<1>2. S \subseteq Nat /\ S # {}
  BY <1>1
<1>3. e \in S /\ \A q \in S : e <= q
  <2> HIDE DEF S
  <2> QED
    BY <1>2, MinIn
<1>4. e \in Breaks(f) /\ e \in p + 1 .. N + 1 /\ \A q \in Breaks(f) : q > p => e <= q
  BY <1>1, <1>3
<1> HIDE DEF e
<1>5. ASSUME NEW q \in p + 1 .. e - 1 PROVE q \in 1 .. N /\ f[q] # NEWLINE
  <2>1. q \in 1 .. N /\ q > p /\ ~(e <= q)
    BY <1>1, <1>4
  <2>2. q \notin Breaks(f)
    BY <1>4, <2>1
  <2> QED
    BY <2>1, <2>2, BreakIs
<1>6. B \subseteq Nat /\ e \in B /\ e \in Nat /\ p \in Nat
  <2>1. e \in Nat /\ p \in Nat /\ e \in p + 1 .. e
    BY <1>1, <1>4
  <2> QED
    BY <2>1
<1>7. b \in B /\ \A q \in B : b <= q
  <2> HIDE DEF B
  <2> QED
    BY <1>6, MinIn
<1> HIDE DEF b
<1>8. /\ b \in p + 1 .. e /\ (b = e \/ f[b] # SPACE)
      /\ \A q \in p + 1 .. b - 1 : f[q] = SPACE
  <2>1. b \in p + 1 .. e /\ (b = e \/ f[b] # SPACE)
    BY <1>7
  <2>2. ASSUME NEW q \in p + 1 .. b - 1 PROVE f[q] = SPACE
    <3>1. q \in p + 1 .. e /\ ~(b <= q)
      BY <1>6, <2>1
    <3>2. q \notin B
      BY <1>7, <3>1
    <3> QED
      BY <3>1, <3>2
  <2> QED
    BY <2>1, <2>2
<1>9. Ends(f, p) = e /\ Begins(f, p) = b
  BY DEF Ends, Begins, e, b
<1>10. b < e => f[b] # SPACE
  BY <1>6, <1>8
<1> QED
  BY <1>4, <1>5, <1>8, <1>9, <1>10

LEMMA LineIs ==
    ASSUME NEW f, IsText(f), NEW p \in Breaks(f), p <= Len(f)
    PROVE  /\ LineFrom(f, p) = SubSeq(f, Begins(f, p), Ends(f, p) - 1)
           /\ Len(LineFrom(f, p)) = Ends(f, p) - Begins(f, p)
           /\ \A k \in 1 .. Ends(f, p) - Begins(f, p) : LineFrom(f, p)[k] = f[Begins(f, p) + k - 1]
<1> DEFINE e == Ends(f, p)
           b == Begins(f, p)
<1>1. f \in Seq(Letters) /\ e \in 1 .. Len(f) + 1 /\ p \in Nat /\ b \in 1 .. e /\ Len(f) \in Nat
  BY LineFacts, BreakIs DEF IsText
<1>2. LineFrom(f, p) = SubSeq(f, b, e - 1)
  <2>1. (e - 1) + 1 = e
    BY <1>1
  <2>2. LineFrom(f, p) = SubSeq(f, Min({q \in p + 1 .. (e - 1) + 1 : q = (e - 1) + 1 \/ f[q] # SPACE}), e - 1)
    BY DEF LineFrom, Ends
  <2> QED
    BY <2>1, <2>2 DEF Begins
<1> HIDE DEF e, b
<1>3. Len(SubSeq(f, b, e - 1)) = e - b /\ \A k \in 1 .. e - b : SubSeq(f, b, e - 1)[k] = f[b + k - 1]
  BY <1>1
<1> QED
  BY <1>2, <1>3 DEF e, b

\* A line of spaces is empty.
LEMMA BlankLine ==
    ASSUME NEW f, IsText(f), NEW p \in Breaks(f), p <= Len(f),
           \A q \in p + 1 .. Ends(f, p) - 1 : f[q] \in {SPACE, NEWLINE}
    PROVE  Len(LineFrom(f, p)) = 0
<1>1. Len(LineFrom(f, p)) = Ends(f, p) - Begins(f, p)
  BY LineIs
<1>2. p \in Nat /\ Ends(f, p) \in Nat /\ Begins(f, p) \in p + 1 .. Ends(f, p)
  BY LineFacts, BreakIs
<1>3. ~(Begins(f, p) < Ends(f, p))
  <2> SUFFICES ASSUME Begins(f, p) < Ends(f, p) PROVE FALSE
    OBVIOUS
  <2>1. Begins(f, p) \in p + 1 .. Ends(f, p) - 1
    BY <1>2
  <2>2. f[Begins(f, p)] # NEWLINE /\ f[Begins(f, p)] # SPACE
    BY <2>1, LineFacts
  <2> QED
    BY <2>1, <2>2
<1> QED
  BY <1>1, <1>2, <1>3

\* The place s is where a line begins or at its break.
AtBreak(f, s) == s \in 1 .. Len(f) + 1 /\ (s \in Breaks(f) \/ s - 1 \in Breaks(f))

\* From there over spaces and breaks, the lines on the way are empty.
LEMMA BlankLines ==
    ASSUME NEW f, IsText(f), NEW s, AtBreak(f, s), NEW n \in s .. Len(f) + 1,
           \A q \in s .. n - 1 : f[q] \in {SPACE, NEWLINE},
           NEW l \in Breaks(f), l <= Len(f), s - 1 <= l, Ends(f, l) <= n
    PROVE  Len(LineFrom(f, l)) = 0
<1>1. s \in Nat /\ l \in Nat /\ n \in Nat /\ Ends(f, l) \in Nat
  BY LineFacts, BreakIs DEF AtBreak
<1>2. ASSUME NEW q \in l + 1 .. Ends(f, l) - 1 PROVE f[q] \in {SPACE, NEWLINE}
  <2>1. q \in s .. n - 1
    BY <1>1
  <2> QED
    BY <2>1
<1> QED
  BY <1>2, BlankLine

\* What is found behind them begins a line.
LEMMA LineAt ==
    ASSUME NEW f, IsText(f), NEW s, AtBreak(f, s), NEW n \in s .. Len(f),
           \A q \in s .. n - 1 : f[q] \in {SPACE, NEWLINE}, f[n] \notin {SPACE, NEWLINE}
    PROVE  \E p \in Breaks(f) : /\ p <= Len(f) /\ s - 1 <= p /\ Begins(f, p) = n /\ n < Ends(f, p)
                                 /\ \A l \in Breaks(f) : l < p => Ends(f, l) <= n
<1> DEFINE B == {q \in Breaks(f) : q < n}
<1>1. s \in Nat \ {0} /\ n \in Nat /\ Len(f) \in Nat /\ s <= n /\ n \in 1 .. Len(f)
  BY BreakIs DEF AtBreak
<1>2. n \notin Breaks(f)
  BY <1>1, BreakIs
<1>3. \E q \in Breaks(f) : q < n /\ s - 1 <= q
  <2>1. CASE s \in Breaks(f)
    BY <1>1, <1>2, <2>1
  <2>2. CASE s - 1 \in Breaks(f)
    BY <1>1, <2>2
  <2> QED
    BY <2>1, <2>2 DEF AtBreak
<1>4. B # {} /\ B \subseteq Nat /\ \A q \in B : q <= n
  BY <1>1, <1>3, BreakIs
<1>5. PICK p \in B : \A q \in B : q <= p
  <2> HIDE DEF B
  <2> QED
    BY <1>1, <1>4, Largest
<1>6. p \in Breaks(f) /\ p \in Nat /\ p < n /\ \A q \in Breaks(f) : q < n => q <= p
  BY <1>4, <1>5
<1>7. s - 1 <= p /\ p <= Len(f)
  <2>1. PICK q \in Breaks(f) : q < n /\ s - 1 <= q
    BY <1>3
  <2>2. q <= p /\ q \in Nat
    BY <1>6, <2>1, BreakIs
  <2> QED
    BY <1>1, <1>6, <2>1, <2>2
<1> HIDE DEF B
<1>8. Ends(f, p) \in Breaks(f) /\ Ends(f, p) \in Nat /\ Ends(f, p) > p
  BY <1>6, <1>7, LineFacts, BreakIs
<1>9. n < Ends(f, p)
  <2>1. ~(Ends(f, p) < n) /\ Ends(f, p) # n
    BY <1>2, <1>6, <1>8
  <2> QED
    BY <1>1, <1>8, <2>1
<1>10. ASSUME NEW q \in p + 1 .. n - 1 PROVE f[q] = SPACE
  <2>1. q \in s .. n - 1 /\ q \in p + 1 .. Ends(f, p) - 1
    BY <1>1, <1>6, <1>7, <1>8, <1>9
  <2>2. f[q] # NEWLINE
    BY <1>6, <1>7, <2>1, LineFacts
  <2> QED
    BY <2>1, <2>2
<1>11. Begins(f, p) = n
  <2> DEFINE b == Begins(f, p)
  <2>1. /\ b \in p + 1 .. Ends(f, p) /\ \A q \in p + 1 .. b - 1 : f[q] = SPACE
        /\ (b < Ends(f, p) => f[b] # SPACE)
    BY <1>6, <1>7, LineFacts
  <2> HIDE DEF b
  <2>2. b \in Nat
    BY <1>6, <1>8, <2>1
  <2>3. ~(b < n)
    <3> SUFFICES ASSUME b < n PROVE FALSE
      OBVIOUS
    <3>1. b \in p + 1 .. n - 1 /\ b < Ends(f, p)
      BY <1>1, <1>6, <1>8, <1>9, <2>1, <2>2
    <3> QED
      BY <1>10, <2>1, <3>1
  <2>4. ~(n < b)
    <3> SUFFICES ASSUME n < b PROVE FALSE
      OBVIOUS
    <3>1. n \in p + 1 .. b - 1
      BY <1>1, <1>6, <2>2
    <3> QED
      BY <2>1, <3>1
  <2> QED
    BY <1>1, <2>2, <2>3, <2>4 DEF b
<1>12. ASSUME NEW l \in Breaks(f), l < p PROVE Ends(f, l) <= n
  <2>1. l <= Len(f) /\ l \in Nat
    BY <1>6, <1>7, <1>12, <1>1, BreakIs
  <2>2. Ends(f, l) <= p /\ Ends(f, l) \in Nat
    BY <1>6, <1>12, <2>1, LineFacts, BreakIs
  <2> QED
    BY <1>1, <1>6, <2>2
<1> QED
  BY <1>6, <1>7, <1>9, <1>11, <1>12

\* What eat_until and eat_ws find before the end of the buffer.
LEMMA UntilFinds ==
    ASSUME NEW n \in Nat, Len(text) = n, text[n] = NUL, NEW p \in 1 .. n, NEW c
    PROVE  /\ until(p, c) \in p .. n /\ text[until(p, c)] \in {c, NUL}
           /\ \A q \in p .. until(p, c) - 1 : text[q] \notin {c, NUL}
<1> DEFINE S == {q \in p .. Len(text) : text[q] \in {c, NUL}}
           u == Min(S)
<1>1. n \in S /\ S \subseteq Nat
  OBVIOUS
<1>2. u \in S /\ \A q \in S : u <= q
  <2> HIDE DEF S
  <2> QED
    BY <1>1, MinIn
<1>3. until(p, c) = u
  BY DEF until
<1> HIDE DEF u
<1>4. u \in p .. n /\ text[u] \in {c, NUL}
  BY <1>2
<1>5. ASSUME NEW q \in p .. u - 1 PROVE text[q] \notin {c, NUL}
  <2>1. q \in p .. Len(text) /\ ~(u <= q)
    BY <1>4
  <2> QED
    BY <1>2, <2>1
<1> QED
  BY <1>3, <1>4, <1>5

LEMMA UntilIs ==
    ASSUME NEW n \in Nat, Len(text) = n, text[n] = NUL, NEW p \in 1 .. n, NEW c,
           NEW e \in p .. n, text[e] \in {c, NUL}, \A q \in p .. e - 1 : text[q] \notin {c, NUL}
    PROVE  until(p, c) = e
<1> DEFINE u == until(p, c)
<1>1. u \in p .. n /\ text[u] \in {c, NUL} /\ \A q \in p .. u - 1 : text[q] \notin {c, NUL}
  BY UntilFinds
<1> HIDE DEF u
<1>2. ~(u < e)
  <2> SUFFICES ASSUME u < e PROVE FALSE
    OBVIOUS
  <2>1. u \in p .. e - 1
    BY <1>1
  <2> QED
    BY <1>1, <2>1
<1>3. ~(e < u)
  <2> SUFFICES ASSUME e < u PROVE FALSE
    OBVIOUS
  <2>1. e \in p .. u - 1
    BY <1>1
  <2> QED
    BY <1>1, <2>1
<1> QED
  BY <1>1, <1>2, <1>3 DEF u

LEMMA BehindFinds ==
    ASSUME NEW n \in Nat, Len(text) = n, text[n] = NUL, NEW p \in 1 .. n
    PROVE  /\ behind_ws(p) \in p .. n /\ text[behind_ws(p)] \notin {SPACE, NEWLINE}
           /\ \A q \in p .. behind_ws(p) - 1 : text[q] \in {SPACE, NEWLINE}
<1> DEFINE S == {q \in p .. Len(text) : text[q] \notin {SPACE, NEWLINE}}
           u == Min(S)
<1>1. n \in S /\ S \subseteq Nat
  BY Marks
<1>2. u \in S /\ \A q \in S : u <= q
  <2> HIDE DEF S
  <2> QED
    BY <1>1, MinIn
<1>3. behind_ws(p) = u
  BY DEF behind_ws
<1> HIDE DEF u
<1>4. u \in p .. n /\ text[u] \notin {SPACE, NEWLINE}
  BY <1>2
<1>5. ASSUME NEW q \in p .. u - 1 PROVE text[q] \in {SPACE, NEWLINE}
  <2>1. q \in p .. Len(text) /\ ~(u <= q)
    BY <1>4
  <2> QED
    BY <1>2, <2>1
<1> QED
  BY <1>3, <1>4, <1>5

\* The lines that assign a value to key and begin before the place n.
Given(f, key, n) == {p \in Breaks(f) : p + 1 < n /\ p <= Len(f) /\ Assigns(LineFrom(f, p), key)}

\* The part of f from a on is in the buffer t, and ends before b.
Kept(t, f, a, b) == (\A q \in a .. b - 1 : t[q] = f[q]) /\ t[b] = NUL

\* The option k is what the last of these lines says.
Told(t, o, f, k, n) ==
    /\ Given(f, k, n) = {} => o[k] = 0
    /\ \A p \in Given(f, k, n) :
          (\A l \in Given(f, k, n) : l <= p) =>
              o[k] = Begins(f, p) + 2 /\ Kept(t, f, Begins(f, p) + 2, Ends(f, p))

LEMMA GivenFacts ==
    ASSUME NEW f, IsText(f), NEW key, NEW n, NEW p \in Given(f, key, n)
    PROVE  /\ p \in Breaks(f) /\ p \in Nat /\ p <= Len(f) /\ p + 1 < n
           /\ Begins(f, p) + 1 < Ends(f, p)
           /\ f[Begins(f, p)] = key /\ f[Begins(f, p) + 1] = EQUALS
<1> DEFINE L == LineFrom(f, p)
           b == Begins(f, p)
           e == Ends(f, p)
<1>1. p \in Breaks(f) /\ p \in Nat /\ p <= Len(f) /\ p + 1 < n /\ Assigns(L, key)
  BY BreakIs DEF Given
<1>2. b \in Nat /\ e \in Nat
  BY <1>1, LineFacts, BreakIs
<1>3. Len(L) = e - b /\ \A k \in 1 .. e - b : L[k] = f[b + k - 1]
  BY <1>1, LineIs
<1>4. L \in Seq(Letters)
  <2>1. L = SubSeq(f, b, e - 1)
    BY <1>1, LineIs
  <2>2. f \in Seq(Letters) /\ Len(f) \in Nat
    BY BreakIs DEF IsText
  <2>3. b \in p + 1 .. e /\ e \in p + 1 .. Len(f) + 1
    BY <1>1, LineFacts
  <2> HIDE DEF L, b, e
  <2>4. b \in 1 .. Len(f) + 1 /\ e - 1 \in 0 .. Len(f)
    BY <1>1, <1>2, <2>2, <2>3
  <2> QED
    BY <2>1, <2>2, <2>4
<1> HIDE DEF L, b, e
<1>5. Len(L) >= 2 /\ L[1] = key /\ L[2] = EQUALS
  <2>1. Len(L) >= 2 /\ SubSeq(L, 1, 2) = <<key, EQUALS>>
    BY <1>1 DEF Assigns
  <2>2. SubSeq(L, 1, 2)[1] = L[1] /\ SubSeq(L, 1, 2)[2] = L[2]
    BY <1>4, <2>1
  <2>3. <<key, EQUALS>>[1] = key /\ <<key, EQUALS>>[2] = EQUALS
    OBVIOUS
  <2> QED
    BY <2>1, <2>2, <2>3
<1>6. b + 1 < e /\ f[b] = key /\ f[b + 1] = EQUALS
  <2>1. e - b >= 2 /\ 1 \in 1 .. e - b /\ 2 \in 1 .. e - b /\ b + 1 - 1 = b /\ b + 2 - 1 = b + 1
    BY <1>2, <1>3, <1>5
  <2> QED
    BY <1>2, <1>3, <1>5, <2>1
<1> QED
  BY <1>1, <1>6 DEF b, e

LEMMA NewLines ==
    ASSUME NEW f, IsText(f), NEW s, AtBreak(f, s), NEW key,
           NEW p \in Breaks(f), p <= Len(f), s - 1 <= p,
           \A l \in Breaks(f) : s - 1 <= l /\ l < p => Len(LineFrom(f, l)) = 0,
           NEW m \in {Ends(f, p), Ends(f, p) + 1}
    PROVE  /\ \A l \in Given(f, key, s) : l < p /\ Ends(f, l) <= s
           /\ Assigns(LineFrom(f, p), key) => Given(f, key, m) = Given(f, key, s) \cup {p}
           /\ ~Assigns(LineFrom(f, p), key) => Given(f, key, m) = Given(f, key, s)
<1> DEFINE e == Ends(f, p)
<1>1. s \in Nat /\ p \in Nat /\ e \in Nat /\ p < e /\ e <= Len(f) + 1 /\ Len(f) \in Nat /\ m \in {e, e + 1}
      /\ 1 <= s /\ s <= Len(f) + 1
  BY LineFacts, BreakIs DEF AtBreak
<1>2. ASSUME NEW l \in Given(f, key, s) PROVE l < p /\ Ends(f, l) <= s /\ l \in Given(f, key, m)
  <2>1. l \in Breaks(f) /\ l \in Nat /\ l + 1 < s /\ l <= Len(f) /\ Assigns(LineFrom(f, l), key)
    BY BreakIs DEF Given
  <2>2. l < p /\ l + 1 < m
    BY <1>1, <2>1
  <2>3. \A q \in Breaks(f) : q > l => Ends(f, l) <= q
    BY <2>1, LineFacts
  <2>4. Ends(f, l) \in Nat
    BY <2>1, LineFacts, BreakIs
  <2>5. Ends(f, l) <= s
    <3>1. CASE s \in Breaks(f)
      BY <1>1, <2>1, <2>3, <3>1
    <3>2. CASE s - 1 \in Breaks(f)
      <4>1. s - 1 > l
        BY <1>1, <2>1
      <4> QED
        BY <1>1, <2>3, <2>4, <3>2, <4>1
    <3> QED
      BY <3>1, <3>2 DEF AtBreak
  <2> QED
    BY <2>1, <2>2, <2>5 DEF Given
<1>3. ASSUME NEW l \in Given(f, key, m), l # p PROVE l \in Given(f, key, s)
  <2>1. l \in Breaks(f) /\ l \in Nat /\ l + 1 < m /\ l <= Len(f) /\ Assigns(LineFrom(f, l), key)
    BY BreakIs DEF Given
  <2>2. l < e
    BY <1>1, <2>1
  <2>3. l < p
    <3>1. l > p => e <= l
      BY <2>1, LineFacts
    <3> QED
      BY <1>1, <1>3, <2>1, <2>2, <3>1
  <2>4. Len(LineFrom(f, l)) # 0
    BY <2>1 DEF Assigns
  <2>5. ~(s - 1 <= l)
    BY <2>1, <2>3, <2>4
  <2>6. l + 1 < s
    BY <1>1, <2>1, <2>5
  <2> QED
    BY <2>1, <2>6 DEF Given
<1>4. Assigns(LineFrom(f, p), key) => p \in Given(f, key, m)
  <2> SUFFICES ASSUME Assigns(LineFrom(f, p), key) PROVE p \in Given(f, key, m)
    OBVIOUS
  <2>1. Len(LineFrom(f, p)) >= 2 /\ Len(LineFrom(f, p)) = e - Begins(f, p) /\ Begins(f, p) \in p + 1 .. e
    BY LineIs, LineFacts DEF Assigns
  <2>2. p + 1 < m
    BY <1>1, <2>1
  <2> QED
    BY <2>2 DEF Given
<1>5. ~Assigns(LineFrom(f, p), key) => p \notin Given(f, key, m)
  BY DEF Given
<1> QED
  BY <1>2, <1>3, <1>4, <1>5

\* Only what is behind the place s was overwritten, and no line was added.
LEMMA ToldOn ==
    ASSUME NEW f, IsText(f), NEW s \in Nat, NEW m, NEW k, NEW t, NEW t2, NEW o, NEW o2,
           Told(t, o, f, k, s), o2[k] = o[k], Given(f, k, m) = Given(f, k, s),
           \A l \in Given(f, k, s) : Ends(f, l) <= s,
           \A q \in 1 .. Len(f) + 1 : t2[q] = t[q] \/ (q >= s /\ t2[q] = NUL)
    PROVE  Told(t2, o2, f, k, m)
<1>1. Given(f, k, m) = {} => o2[k] = 0
  BY DEF Told
<1>2. ASSUME NEW p \in Given(f, k, m), \A l \in Given(f, k, m) : l <= p
      PROVE  o2[k] = Begins(f, p) + 2 /\ Kept(t2, f, Begins(f, p) + 2, Ends(f, p))
  <2> DEFINE a == Begins(f, p) + 2
             b == Ends(f, p)
  <2>1. o[k] = a /\ Kept(t, f, a, b) /\ b <= s
    BY <1>2 DEF Told
  <2>2. p \in Nat /\ p \in Breaks(f) /\ p <= Len(f) /\ b \in 1 .. Len(f) + 1 /\ a \in Nat /\ a >= 1
    BY GivenFacts, LineFacts, BreakIs
  <2> HIDE DEF a, b
  <2>3. ASSUME NEW q \in a .. b - 1 PROVE t2[q] = f[q]
    <3>1. q \in 1 .. Len(f) + 1 /\ ~(q >= s)
      BY <2>1, <2>2, BreakIs
    <3> QED
      BY <2>1, <3>1 DEF Kept
  <2>4. t2[b] = NUL
    BY <2>1, <2>2 DEF Kept
  <2>5. o2[k] = a /\ Kept(t2, f, a, b)
    BY <2>1, <2>3, <2>4 DEF Kept
  <2> QED
    BY <2>5 DEF a, b
<1> QED
  BY <1>1, <1>2 DEF Told

\* The option is set from the last of them.
LEMMA ToldNew ==
    ASSUME NEW f, IsText(f), NEW m, NEW k, NEW t2, NEW o2,
           NEW p \in Given(f, k, m), \A l \in Given(f, k, m) : l <= p,
           o2[k] = Begins(f, p) + 2, Kept(t2, f, Begins(f, p) + 2, Ends(f, p))
    PROVE  Told(t2, o2, f, k, m)
<1>1. ASSUME NEW q \in Given(f, k, m), \A l \in Given(f, k, m) : l <= q PROVE q = p
  <2>1. q \in Nat /\ p \in Nat /\ q <= p /\ p <= q
    BY <1>1, GivenFacts
  <2> QED
    BY <2>1
<1> QED
  BY <1>1 DEF Told

\* The buffer t while the parser is at the place s of the file f.
Tokens == Letters \cup {NUL}

Buffer(f, t, s) ==
    /\ t \in Seq(Tokens) /\ Len(t) = Len(f) + 1 /\ t[Len(f) + 1] = NUL
    /\ AtBreak(f, s) /\ \A q \in s .. Len(f) : t[q] = f[q]

LEMMA BufferIs ==
    ASSUME NEW f, IsText(f), NEW s, Buffer(f, text, s)
    PROVE  /\ Len(f) \in Nat /\ s \in 1 .. Len(f) + 1
           /\ Len(text) = Len(f) + 1 /\ Len(f) + 1 \in Nat /\ text[Len(f) + 1] = NUL
           /\ \A q \in s .. Len(f) : text[q] = f[q] /\ f[q] # NUL
<1>1. Len(f) \in Nat /\ s \in 1 .. Len(f) + 1 /\ Len(text) = Len(f) + 1 /\ text[Len(f) + 1] = NUL
  BY BreakIs DEF Buffer, AtBreak
<1>2. ASSUME NEW q \in s .. Len(f) PROVE text[q] = f[q] /\ f[q] # NUL
  <2>1. q \in 1 .. Len(f)
    BY <1>1
  <2> QED
    BY <2>1 DEF Buffer, IsText
<1> QED
  BY <1>1, <1>2

LEMMA EndOfLine ==
    ASSUME NEW f, IsText(f), NEW s, Buffer(f, text, s), NEW p \in Breaks(f), p <= Len(f),
           NEW q \in p + 1 .. Ends(f, p), s <= q
    PROVE  until(q, NEWLINE) = Ends(f, p) /\ (text[Ends(f, p)] = NUL <=> Ends(f, p) = Len(f) + 1)
<1> DEFINE e == Ends(f, p)
           N == Len(f)
<1>1. /\ N \in Nat /\ s \in 1 .. N + 1 /\ Len(text) = N + 1 /\ N + 1 \in Nat /\ text[N + 1] = NUL
      /\ \A x \in s .. N : text[x] = f[x] /\ f[x] # NUL
  BY BufferIs
<1>2. /\ p \in 0 .. N /\ e \in p + 1 .. N + 1 /\ e \in Breaks(f)
      /\ \A x \in p + 1 .. e - 1 : x \in 1 .. N /\ f[x] # NEWLINE
  BY LineFacts, BreakIs
<1>3. e <= N => f[e] = NEWLINE
  BY <1>1, <1>2, BreakIs
<1> HIDE DEF e
<1>4. q \in 1 .. N + 1 /\ q <= e /\ q \in p + 1 .. e
  BY <1>1, <1>2 DEF e
<1>5. e <= N => text[e] = NEWLINE /\ text[e] # NUL
  BY <1>1, <1>2, <1>3, <1>4
<1>6. text[e] \in {NEWLINE, NUL}
  BY <1>1, <1>2, <1>5
<1>7. ASSUME NEW x \in q .. e - 1 PROVE text[x] \notin {NEWLINE, NUL}
  <2>1. x \in s .. N /\ x \in p + 1 .. e - 1
    BY <1>1, <1>2, <1>4
  <2> QED
    BY <1>1, <1>2, <2>1
<1>8. until(q, NEWLINE) = e
  <2>1. e \in q .. N + 1
    BY <1>2, <1>4
  <2> QED
    BY <1>1, <1>4, <1>6, <1>7, <2>1, UntilIs
<1>9. text[e] = NUL <=> e = N + 1
  BY <1>1, <1>2, <1>5
<1> QED
  BY <1>8, <1>9 DEF e

LEMMA MarkOfLine ==
    ASSUME NEW f, IsText(f), NEW s, Buffer(f, text, s), NEW p \in Breaks(f), p <= Len(f),
           NEW q \in p + 1 .. Ends(f, p), s <= q, NEW c, NEW y \in q .. Ends(f, p) - 1, f[y] = c
    PROVE  /\ until(q, c) \in q .. y /\ text[until(q, c)] = c
           /\ \A x \in q .. until(q, c) - 1 : f[x] # c
           /\ f[until(q, c)] = c /\ c # NUL
<1> DEFINE u == until(q, c)
           N == Len(f)
<1>1. /\ N \in Nat /\ s \in 1 .. N + 1 /\ Len(text) = N + 1 /\ N + 1 \in Nat /\ text[N + 1] = NUL
      /\ \A x \in s .. N : text[x] = f[x] /\ f[x] # NUL
  BY BufferIs
<1>2. p \in 0 .. N /\ Ends(f, p) \in p + 1 .. N + 1
  BY LineFacts, BreakIs
<1>3. q \in 1 .. N + 1 /\ y \in q .. N /\ y \in s .. N
  BY <1>1, <1>2
<1>4. /\ u \in q .. N + 1 /\ text[u] \in {c, NUL}
      /\ \A x \in q .. u - 1 : text[x] \notin {c, NUL}
  BY <1>1, <1>3, UntilFinds
<1> HIDE DEF u
<1>5. u \in q .. y
  <2>1. ~(y < u)
    <3> SUFFICES ASSUME y < u PROVE FALSE
      OBVIOUS
    <3>1. y \in q .. u - 1
      BY <1>3, <1>4
    <3> QED
      BY <1>1, <1>3, <1>4, <3>1
  <2> QED
    BY <1>3, <1>4, <2>1
<1>6. u \in s .. N
  BY <1>1, <1>3, <1>5
<1>7. text[u] = f[u] /\ text[u] = c /\ c # NUL
  BY <1>1, <1>3, <1>4, <1>6
<1>8. ASSUME NEW x \in q .. u - 1 PROVE f[x] # c
  <2>1. x \in s .. N
    BY <1>1, <1>3, <1>5
  <2> QED
    BY <1>1, <1>4, <2>1
<1> QED
  BY <1>5, <1>7, <1>8 DEF u

\* What is behind the spaces and breaks at the place s.
LEMMA NextLine ==
    ASSUME NEW f, IsText(f), NEW s, Buffer(f, text, s)
    PROVE  LET p == behind_ws(s) IN
           \/ /\ p = Len(f) + 1 /\ text[p] = NUL
              /\ \A key : Given(f, key, Len(f) + 1) = Given(f, key, s)
              /\ \A key : \A l \in Given(f, key, s) : Ends(f, l) <= s
           \/ \E l \in Breaks(f) :
                 /\ l <= Len(f) /\ s - 1 <= l /\ Begins(f, l) = p /\ p < Ends(f, l)
                 /\ p \in s .. Len(f) /\ text[p] = f[p]
                 /\ \A b \in Breaks(f) : s - 1 <= b /\ b < l => Len(LineFrom(f, b)) = 0
<1> DEFINE p == behind_ws(s)
           N == Len(f)
<1>1. /\ N \in Nat /\ s \in 1 .. N + 1 /\ Len(text) = N + 1 /\ N + 1 \in Nat /\ text[N + 1] = NUL
      /\ \A x \in s .. N : text[x] = f[x] /\ f[x] # NUL
  BY BufferIs
<1>2. /\ p \in s .. N + 1 /\ text[p] \notin {SPACE, NEWLINE}
      /\ \A q \in s .. p - 1 : text[q] \in {SPACE, NEWLINE}
  BY <1>1, BehindFinds
<1> HIDE DEF p
<1>3. \A q \in s .. p - 1 : f[q] \in {SPACE, NEWLINE}
  BY <1>1, <1>2
<1>4. AtBreak(f, s)
  BY DEF Buffer
<1>5. CASE p = N + 1
  <2>1. ASSUME NEW l \in Breaks(f), l <= N, s - 1 <= l PROVE Len(LineFrom(f, l)) = 0
    <3>1. Ends(f, l) <= p
      BY <1>1, <1>5, <2>1, LineFacts, BreakIs
    <3>2. p \in s .. Len(f) + 1
      BY <1>1, <1>2
    <3> QED
      BY <1>3, <1>4, <2>1, <3>1, <3>2, BlankLines
  <2>2. ASSUME NEW key, NEW l \in Breaks(f), l <= N
        PROVE  l \in Given(f, key, N + 1) <=> l \in Given(f, key, s)
    <3>1. l \in Nat
      BY BreakIs
    <3>2. CASE s - 1 <= l
      <4>1. ~Assigns(LineFrom(f, l), key)
        BY <2>1, <2>2, <3>2 DEF Assigns
      <4> QED
        BY <4>1 DEF Given
    <3>3. CASE ~(s - 1 <= l)
      <4>1. l + 1 < s /\ l + 1 < N + 1
        BY <1>1, <3>1, <3>3
      <4> QED
        BY <4>1 DEF Given
    <3> QED
      BY <3>2, <3>3
  <2>3. ASSUME NEW key PROVE Given(f, key, N + 1) = Given(f, key, s)
    <3>1. Given(f, key, N + 1) \subseteq Breaks(f) /\ Given(f, key, s) \subseteq Breaks(f)
      BY DEF Given
    <3>2. \A l \in Given(f, key, N + 1) \cup Given(f, key, s) : l <= N
      BY DEF Given
    <3>3. \A l \in Given(f, key, N + 1) : l \in Given(f, key, s)
      BY <2>2, <3>1, <3>2
    <3>4. \A l \in Given(f, key, s) : l \in Given(f, key, N + 1)
      BY <2>2, <3>1, <3>2
    <3> QED
      BY <3>3, <3>4, Zenon
  <2>4. ASSUME NEW key, NEW l \in Given(f, key, s) PROVE Ends(f, l) <= s
    <3>1. l \in Breaks(f) /\ l \in Nat /\ l + 1 < s /\ l <= N
      BY BreakIs DEF Given
    <3>2. \A q \in Breaks(f) : q > l => Ends(f, l) <= q
      BY <3>1, LineFacts
    <3>3. Ends(f, l) \in Nat
      BY <3>1, LineFacts, BreakIs
    <3> QED
      BY <1>1, <1>4, <3>1, <3>2, <3>3 DEF AtBreak
  <2> QED
    BY <1>1, <1>5, <2>3, <2>4 DEF p
<1>6. CASE p # N + 1
  <2>1. p \in s .. N
    BY <1>1, <1>2, <1>6
  <2>2. text[p] = f[p] /\ f[p] \notin {SPACE, NEWLINE}
    BY <1>1, <1>2, <2>1
  <2>3. PICK l \in Breaks(f) : /\ l <= Len(f) /\ s - 1 <= l /\ Begins(f, l) = p /\ p < Ends(f, l)
                               /\ \A b \in Breaks(f) : b < l => Ends(f, b) <= p
    BY <1>3, <1>4, <2>1, <2>2, LineAt
  <2>4. ASSUME NEW b \in Breaks(f), s - 1 <= b, b < l PROVE Len(LineFrom(f, b)) = 0
    <3>1. b <= Len(f)
      BY <2>3, <2>4, BreakIs
    <3>2. p \in s .. Len(f) + 1 /\ Ends(f, b) <= p
      BY <1>1, <2>1, <2>3, <2>4
    <3> QED
      BY <1>3, <1>4, <2>4, <3>1, <3>2, BlankLines
  <2> QED
    BY <2>1, <2>2, <2>3, <2>4 DEF p
<1> QED
  BY <1>5, <1>6

LEMMA Keys ==
    /\ DOMAIN Defaults = {"kernel", "initrd", "cmd", "gfx"}
    /\ \A k \in DOMAIN Defaults : k # OPEN /\ k # SEMICOLON /\ k # EQUALS
<1>1. DOMAIN Defaults = {"kernel", "initrd", "cmd", "gfx"}
  BY BootOptsAssumption
<1>2. \A k \in {"kernel", "initrd", "cmd", "gfx"} : k # OPEN /\ k # SEMICOLON /\ k # EQUALS
  BY Zenon DEF OPEN, SEMICOLON, EQUALS
<1> QED
  BY <1>1, <1>2

\* The marks of a line, in the file.
LEMMA LineMarks ==
    ASSUME NEW f, IsText(f), NEW p \in Breaks(f), p <= Len(f), Begins(f, p) < Ends(f, p)
    PROVE  /\ LineFrom(f, p) # <<>> /\ LineFrom(f, p)[1] = f[Begins(f, p)]
           /\ \A c \in Range(LineFrom(f, p)) : \E y \in Begins(f, p) .. Ends(f, p) - 1 : f[y] = c
           /\ \A k : Assigns(LineFrom(f, p), k) <=>
                        /\ Begins(f, p) + 1 < Ends(f, p)
                        /\ f[Begins(f, p)] = k /\ f[Begins(f, p) + 1] = EQUALS
<1> DEFINE L == LineFrom(f, p)
           b == Begins(f, p)
           e == Ends(f, p)
<1>1. b \in Nat /\ e \in Nat /\ b < e /\ b >= 1
  BY LineFacts, BreakIs
<1>2. Len(L) = e - b /\ \A k \in 1 .. e - b : L[k] = f[b + k - 1]
  BY LineIs
<1>3. L \in Seq(Letters)
  <2>1. L = SubSeq(f, b, e - 1)
    BY LineIs
  <2>2. f \in Seq(Letters) /\ Len(f) \in Nat
    BY BreakIs DEF IsText
  <2>3. e \in 1 .. Len(f) + 1
    BY LineFacts, BreakIs
  <2> HIDE DEF L, b, e
  <2>4. b \in 1 .. Len(f) + 1 /\ e - 1 \in 0 .. Len(f)
    BY <1>1, <2>2, <2>3
  <2> QED
    BY <2>1, <2>2, <2>4
<1> HIDE DEF L, b, e
<1>4. L # <<>> /\ L[1] = f[b]
  <2>1. Len(L) # 0 /\ 1 \in 1 .. e - b /\ b + 1 - 1 = b
    BY <1>1, <1>2
  <2> QED
    BY <1>2, <1>3, <2>1
<1>5. ASSUME NEW c \in Range(L) PROVE \E y \in b .. e - 1 : f[y] = c
  <2>1. PICK k \in 1 .. e - b : L[k] = c
    BY <1>2, <1>3 DEF Range
  <2>2. b + k - 1 \in b .. e - 1 /\ f[b + k - 1] = c
    BY <1>1, <1>2, <2>1
  <2> QED
    BY <2>2
<1>6. ASSUME NEW k PROVE Assigns(L, k) <=> b + 1 < e /\ f[b] = k /\ f[b + 1] = EQUALS
  <2>1. CASE Len(L) >= 2
    <3>1. SubSeq(L, 1, 2) = <<L[1], L[2]>>
      <4> DEFINE A == SubSeq(L, 1, 2)
                 B == <<L[1], L[2]>>
      <4>1. L[1] \in Letters /\ L[2] \in Letters
        BY <1>3, <2>1
      <4>2. A \in Seq(Letters) /\ Len(A) = 2 /\ A[1] = L[1] /\ A[2] = L[2]
        BY <1>3, <2>1
      <4>3. B \in Seq(Letters) /\ Len(B) = 2 /\ B[1] = L[1] /\ B[2] = L[2]
        BY <4>1
      <4> HIDE DEF A, B
      <4>4. \A i \in 1 .. Len(A) : A[i] = B[i]
        BY <4>2, <4>3
      <4>5. A = B
        BY <4>2, <4>3, <4>4, SeqEqual
      <4> QED
        BY <4>5 DEF A, B
    <3>2. SubSeq(L, 1, 2) = <<k, EQUALS>> <=> L[1] = k /\ L[2] = EQUALS
      BY <3>1
    <3>3. e - b >= 2 /\ 2 \in 1 .. e - b /\ b + 2 - 1 = b + 1 /\ b + 1 < e
      BY <1>1, <1>2, <2>1
    <3>4. L[2] = f[b + 1]
      BY <1>2, <3>3
    <3> QED
      BY <1>4, <2>1, <3>2, <3>3, <3>4 DEF Assigns
  <2>2. CASE ~(Len(L) >= 2)
    BY <1>1, <1>2, <2>2 DEF Assigns
  <2> QED
    BY <2>1, <2>2
<1> QED
  BY <1>4, <1>5, <1>6 DEF L, b, e

\* The parser's state t, o, s while it works on the file f.
ParsingOf(f, t, o, s) ==
    /\ Buffer(f, t, s)
    /\ o \in [DOMAIN Defaults -> Nat]
    /\ \A k \in DOMAIN Defaults : Told(t, o, f, k, s)

\* The line behind the break p is the next, and begins at n.
IsNext(f, s, p, n) ==
    /\ p \in Breaks(f) /\ p <= Len(f) /\ s - 1 <= p /\ Begins(f, p) = n /\ n < Ends(f, p)
    /\ n \in s .. Len(f) /\ text[n] = f[n]
    /\ \A b \in Breaks(f) : s - 1 <= b /\ b < p => Len(LineFrom(f, b)) = 0

\* A line that sets no option: NULs are put behind its beginning only.
LEMMA OtherLine ==
    ASSUME NEW f, IsText(f), ParsingOf(f, text, opts, src), NEW p, NEW n, IsNext(f, src, p, n),
           NEW t2, NEW o2, NEW s2 \in {Ends(f, p), Ends(f, p) + 1}, s2 <= Len(f) + 1,
           t2 \in Seq(Tokens), Len(t2) = Len(f) + 1,
           \A q \in 1 .. Len(f) + 1 : t2[q] = text[q] \/ (q \in n .. Ends(f, p) - 1 /\ t2[q] = NUL),
           o2 = opts, \A k \in DOMAIN Defaults : ~Assigns(LineFrom(f, p), k)
    PROVE  ParsingOf(f, t2, o2, s2)
<1> DEFINE e == Ends(f, p)
           N == Len(f)
<1>1. /\ N \in Nat /\ src \in 1 .. N + 1 /\ Len(text) = N + 1 /\ N + 1 \in Nat /\ text[N + 1] = NUL
      /\ \A x \in src .. N : text[x] = f[x] /\ f[x] # NUL
  BY BufferIs DEF ParsingOf
<1>2. p \in Breaks(f) /\ p \in 0 .. N /\ e \in p + 1 .. N + 1 /\ e \in Breaks(f) /\ n \in src .. N /\ src - 1 <= p /\ n < e
  BY LineFacts, BreakIs DEF IsNext
<1> HIDE DEF e
<1>3. Buffer(f, t2, s2)
  <2>1. s2 \in 1 .. N + 1 /\ (s2 = e \/ s2 - 1 = e)
    BY <1>1, <1>2 DEF e
  <2>2. AtBreak(f, s2)
    BY <1>2, <2>1 DEF AtBreak
  <2>3. t2[N + 1] = NUL
    BY <1>1, <1>2
  <2>4. ASSUME NEW q \in s2 .. N PROVE t2[q] = f[q]
    <3>1. q \in 1 .. N + 1 /\ q \in src .. N /\ q \notin n .. e - 1
      BY <1>1, <1>2, <2>1
    <3> QED
      BY <1>1, <3>1 DEF e
  <2> QED
    BY <2>2, <2>3, <2>4 DEF Buffer
<1>4. ASSUME NEW k \in DOMAIN Defaults PROVE Told(t2, o2, f, k, s2)
  <2>1. AtBreak(f, src) /\ Told(text, opts, f, k, src) /\ p <= N /\ src - 1 <= p
    BY <1>2 DEF ParsingOf, Buffer, IsNext
  <2>2. \A b \in Breaks(f) : src - 1 <= b /\ b < p => Len(LineFrom(f, b)) = 0
    BY DEF IsNext
  <2>3. Given(f, k, s2) = Given(f, k, src) /\ \A l \in Given(f, k, src) : Ends(f, l) <= src
    BY <1>2, <2>1, <2>2, NewLines
  <2>4. ASSUME NEW q \in 1 .. N + 1 PROVE t2[q] = text[q] \/ (q >= src /\ t2[q] = NUL)
    BY <1>1, <1>2 DEF e
  <2>5. src \in Nat /\ o2[k] = opts[k]
    BY <1>1
  <2> QED
    BY <2>1, <2>3, <2>4, <2>5, ToldOn
<1> QED
  BY <1>3, <1>4 DEF ParsingOf

LEMMA NextFacts ==
    ASSUME NEW f, IsText(f), NEW s, Buffer(f, text, s), NEW p, NEW n, IsNext(f, s, p, n)
    PROVE  /\ p \in Breaks(f) /\ p <= Len(f) /\ Begins(f, p) = n /\ n < Ends(f, p)
           /\ n \in p + 1 .. Ends(f, p) /\ n + 1 \in p + 1 .. Ends(f, p) /\ s <= n
           /\ Ends(f, p) \in 1 .. Len(f) + 1 /\ s \in 1 .. Len(f) + 1 /\ n \in 1 .. Len(f)
           /\ Len(f) \in Nat /\ p \in 0 .. Len(f)
<1>1. p \in Breaks(f) /\ p <= Len(f) /\ Begins(f, p) = n /\ n < Ends(f, p) /\ n \in s .. Len(f)
  BY DEF IsNext
<1>2. Len(f) \in Nat /\ p \in 0 .. Len(f) /\ s \in 1 .. Len(f) + 1
  BY <1>1, BreakIs, BufferIs
<1>3. n \in p + 1 .. Ends(f, p) /\ Ends(f, p) \in p + 1 .. Len(f) + 1
  BY <1>1, LineFacts
<1> QED
  BY <1>1, <1>2, <1>3

LEMMA NulPut ==
    ASSUME NEW t \in Seq(Tokens), NEW i \in 1 .. Len(t)
    PROVE  /\ [t EXCEPT ![i] = NUL] \in Seq(Tokens) /\ Len([t EXCEPT ![i] = NUL]) = Len(t)
           /\ [t EXCEPT ![i] = NUL][i] = NUL
           /\ \A x \in 1 .. Len(t) : x # i => [t EXCEPT ![i] = NUL][x] = t[x]
<1> DEFINE u == [t EXCEPT ![i] = NUL]
<1>1. NUL \in Tokens
  BY DEF Tokens
<1>2. u \in Seq(Tokens) /\ Len(u) = Len(t) /\ \A j \in 1 .. Len(t) : u[j] = IF j = i THEN NUL ELSE t[j]
  BY <1>1, ExceptSeq
<1> HIDE DEF u
<1>3. /\ u \in Seq(Tokens) /\ Len(u) = Len(t) /\ u[i] = NUL
      /\ \A x \in 1 .. Len(t) : x # i => u[x] = t[x]
  BY <1>2
<1> QED
  BY <1>3 DEF u

LEMMA SectionOK ==
    ASSUME NEW f, IsText(f), WellFormed(f), ParsingOf(f, text, opts, src),
           NEW p, NEW n, IsNext(f, src, p, n), text[n] = OPEN, IniSection(n)
    PROVE  ParsingOf(f, text', opts', src') /\ conf' = conf
<1> DEFINE e == Ends(f, p)
           N == Len(f)
           m == n + 1
           q == until(m, CLOSE)
<1>1. Buffer(f, text, src) /\ text \in Seq(Tokens) /\ Len(text) = N + 1
  BY DEF ParsingOf, Buffer
<1>2. /\ p \in Breaks(f) /\ p <= N /\ Begins(f, p) = n /\ n < e
      /\ n \in p + 1 .. e /\ n + 1 \in p + 1 .. e /\ src <= n
      /\ e \in 1 .. N + 1 /\ src \in 1 .. N + 1 /\ n \in 1 .. N /\ N \in Nat /\ p \in 0 .. N
  BY <1>1, NextFacts
<1>3. f[n] = OPEN
  BY DEF IsNext
<1>4. PICK y \in n .. e - 1 : f[y] = CLOSE
  <2>1. p # N + 1
    BY <1>2
  <2>2. LineFrom(f, p) # <<>> /\ LineFrom(f, p)[1] = OPEN
    BY <1>2, <1>3, LineMarks
  <2>3. CLOSE \in Range(LineFrom(f, p))
    BY <1>2, <2>1, <2>2, Marks DEF WellFormed
  <2> QED
    BY <1>2, <2>3, LineMarks
<1>5. y \in n + 1 .. e - 1
  <2>1. y # n
    BY <1>3, <1>4, Zenon DEF OPEN, CLOSE
  <2> QED
    BY <1>2, <2>1
<1>6. src <= n + 1
  BY <1>2
<1>7. q \in n + 1 .. y /\ text[q] = CLOSE
  <2>1. m \in p + 1 .. e /\ src <= m /\ y \in m .. e - 1
    BY <1>2, <1>5, <1>6
  <2> HIDE DEF m
  <2>2. q \in m .. y /\ text[q] = CLOSE
    BY <1>1, <1>2, <1>4, <2>1, MarkOfLine
  <2> QED
    BY <2>2 DEF m
<1> HIDE DEF q
<1>8. q \in n .. e - 1 /\ q + 1 \in p + 1 .. e /\ src <= q + 1 /\ q \in 1 .. N + 1
  BY <1>2, <1>5, <1>7
<1>9. until(q + 1, NEWLINE) = e
  BY <1>1, <1>2, <1>8, EndOfLine
<1>10. /\ text' = [text EXCEPT ![q] = NUL] /\ src' = e /\ opts' = opts /\ conf' = conf
  <2>1. text[q] # NUL
    BY <1>7, Marks
  <2> QED
    BY <1>9, <2>1 DEF IniSection, q
<1>11. text' \in Seq(Tokens) /\ Len(text') = N + 1
  BY <1>1, <1>8, <1>10, NulPut
<1>12. \A x \in 1 .. N + 1 : text'[x] = text[x] \/ (x \in n .. e - 1 /\ text'[x] = NUL)
  BY <1>1, <1>8, <1>10, NulPut
<1>13. \A k \in DOMAIN Defaults : ~Assigns(LineFrom(f, p), k)
  BY <1>2, <1>3, LineMarks, Keys
<1> HIDE DEF e
<1>14. ParsingOf(f, text', opts', src')
  <2>1. src' \in {Ends(f, p), Ends(f, p) + 1} /\ src' <= N + 1
    BY <1>2, <1>10 DEF e
  <2> QED
    BY <1>10, <1>11, <1>12, <1>13, <2>1, OtherLine DEF e
<1> QED
  BY <1>10, <1>14

LEMMA CommentOK ==
    ASSUME NEW f, IsText(f), ParsingOf(f, text, opts, src),
           NEW p, NEW n, IsNext(f, src, p, n), text[n] = SEMICOLON, IniComment(n)
    PROVE  ParsingOf(f, text', opts', src') /\ conf' = conf
<1> DEFINE e == Ends(f, p)
           N == Len(f)
<1>1. Buffer(f, text, src) /\ text \in Seq(Tokens) /\ Len(text) = N + 1
  BY DEF ParsingOf, Buffer
<1>2. /\ p \in Breaks(f) /\ p <= N /\ Begins(f, p) = n /\ n < e
      /\ n \in p + 1 .. e /\ src <= n
      /\ e \in 1 .. N + 1 /\ src \in 1 .. N + 1 /\ n \in 1 .. N /\ N \in Nat /\ p \in 0 .. N
  BY <1>1, NextFacts
<1>3. f[n] = SEMICOLON
  BY DEF IsNext
<1>4. until(n, NEWLINE) = e /\ (text[e] = NUL <=> e = N + 1)
  BY <1>1, <1>2, EndOfLine
<1>5. text' = text /\ opts' = opts /\ conf' = conf /\ src' = IF e = N + 1 THEN e ELSE e + 1
  BY <1>4 DEF IniComment
<1>6. \A k \in DOMAIN Defaults : ~Assigns(LineFrom(f, p), k)
  BY <1>2, <1>3, LineMarks, Keys
<1> HIDE DEF e
<1>7. src' \in {e, e + 1} /\ src' <= N + 1
  BY <1>2, <1>5
<1>8. ParsingOf(f, text', opts', src')
  BY <1>1, <1>5, <1>6, <1>7, OtherLine DEF e
<1> QED
  BY <1>5, <1>8

LEMMA AssignmentOK ==
    ASSUME NEW f, IsText(f), WellFormed(f), ParsingOf(f, text, opts, src),
           NEW p, NEW n, IsNext(f, src, p, n), text[n] \notin {OPEN, SEMICOLON}, IniAssignment(n)
    PROVE  ParsingOf(f, text', opts', src') /\ conf' = conf
<1> DEFINE e == Ends(f, p)
           N == Len(f)
           q == until(n, EQUALS)
           key == SubSeq(text, n, q - 1)
           L == LineFrom(f, p)
<1>1. Buffer(f, text, src) /\ text \in Seq(Tokens) /\ Len(text) = N + 1 /\ opts \in [DOMAIN Defaults -> Nat]
  BY DEF ParsingOf, Buffer
<1>2. /\ p \in Breaks(f) /\ p <= N /\ Begins(f, p) = n /\ n < e
      /\ n \in p + 1 .. e /\ n + 1 \in p + 1 .. e /\ src <= n
      /\ e \in 1 .. N + 1 /\ src \in 1 .. N + 1 /\ n \in 1 .. N /\ N \in Nat /\ p \in 0 .. N
  BY <1>1, NextFacts
<1>3. f[n] \notin {OPEN, SEMICOLON} /\ text[n] = f[n]
  BY DEF IsNext
<1>4. PICK y \in n .. e - 1 : f[y] = EQUALS
  <2>1. p # N + 1
    BY <1>2
  <2>2. L # <<>> /\ L[1] \notin {OPEN, SEMICOLON}
    BY <1>2, <1>3, LineMarks
  <2>3. EQUALS \in Range(L)
    BY <1>2, <2>1, <2>2 DEF WellFormed
  <2> QED
    BY <1>2, <2>3, LineMarks
<1>16. n \in Nat /\ n >= 1 /\ e \in Nat /\ p \in Nat /\ src \in Nat /\ N \in Nat
       /\ p + 1 <= n /\ src <= n /\ n <= e - 1 /\ e - 1 <= N
  BY <1>2
<1>17. y \in Nat /\ n <= y /\ y <= e - 1
  BY <1>16
<1>5. q \in n .. y /\ text[q] = EQUALS /\ f[q] = EQUALS
  <2>1. src <= n /\ n \in p + 1 .. Ends(f, p) /\ y \in n .. Ends(f, p) - 1
    BY <1>2
  <2>2. q \in n .. y /\ text[q] = EQUALS
    BY <1>1, <1>2, <1>4, <2>1, MarkOfLine, SMTT(30)
  <2>3. f[q] = EQUALS
    BY <1>1, <1>2, <1>4, <2>1, MarkOfLine
  <2> QED
    BY <2>2, <2>3
<1>15. ASSUME NEW x \in n .. q - 1 PROVE f[x] # EQUALS
  <2>1. src <= n /\ n \in p + 1 .. Ends(f, p) /\ y \in n .. Ends(f, p) - 1
    BY <1>2
  <2> QED
    BY <1>1, <1>2, <1>4, <2>1, MarkOfLine
<1> HIDE DEF q
<1>6. q \in n .. e - 1 /\ q + 1 \in p + 1 .. e /\ src <= q + 1 /\ q \in 1 .. N
  BY <1>16, <1>17, <1>5
<1>7. until(q + 1, NEWLINE) = e /\ (text[e] = NUL <=> e = N + 1)
  BY <1>1, <1>2, <1>6, EndOfLine
<1>8. /\ text' = [text EXCEPT ![q] = NUL, ![e] = NUL] /\ conf' = conf
      /\ src' = IF e = N + 1 THEN e ELSE e + 1
      /\ opts' = [k \in DOMAIN opts |-> IF key = <<k>> THEN q + 1 ELSE opts[k]]
  <2>1. text[q] # NUL
    BY <1>5, Marks
  <2> QED
    BY <1>7, <2>1 DEF IniAssignment, SetOption, q
<1> HIDE DEF key, e, L
<1>9. /\ text' \in Seq(Tokens) /\ Len(text') = N + 1
      /\ \A x \in 1 .. N + 1 : IF x = q \/ x = e THEN text'[x] = NUL ELSE text'[x] = text[x]
  <2> DEFINE t == [text EXCEPT ![q] = NUL]
  <2>1. q \in 1 .. Len(text) /\ e \in 1 .. Len(text)
    BY <1>1, <1>2, <1>6
  <2>2. /\ t \in Seq(Tokens) /\ Len(t) = N + 1 /\ t[q] = NUL
        /\ \A x \in 1 .. N + 1 : x # q => t[x] = text[x]
    BY <1>1, <2>1, NulPut
  <2>3. text' = [t EXCEPT ![e] = NUL]
    BY <1>8
  <2> HIDE DEF t
  <2>4. /\ text' \in Seq(Tokens) /\ Len(text') = N + 1 /\ text'[e] = NUL
        /\ \A x \in 1 .. N + 1 : x # e => text'[x] = t[x]
    BY <1>1, <2>1, <2>2, <2>3, NulPut
  <2> QED
    BY <2>2, <2>4
<1>10. ASSUME NEW k \in DOMAIN Defaults PROVE key = <<k>> <=> Assigns(L, k)
  <2>1. Assigns(L, k) <=> n + 1 < e /\ f[n] = k /\ f[n + 1] = EQUALS
    BY <1>2, LineMarks DEF L, e
  <2>2. Len(key) = q - n /\ \A i \in 1 .. q - n : key[i] = text[n + i - 1]
    <3>1. q \in 1 .. Len(text) + 1 /\ n \in 1 .. q /\ Len(text) \in Nat
      BY <1>1, <1>2, <1>6
    <3>2. text \in Seq(Tokens)
      BY <1>1
    <3>3. /\ Len(SubSeq(text, n, q - 1)) = q - n
          /\ \A i \in 1 .. q - n : SubSeq(text, n, q - 1)[i] = text[n + i - 1]
      BY <3>1, <3>2
    <3> QED
      BY <3>3 DEF key
  <2>3. key = <<k>> => q = n + 1 /\ f[n] = k
    <3> SUFFICES ASSUME key = <<k>> PROVE q = n + 1 /\ f[n] = k
      OBVIOUS
    <3>1. Len(<<k>>) = 1 /\ <<k>>[1] = k
      OBVIOUS
    <3>2. q - n = 1 /\ n + 1 - 1 = n
      BY <1>2, <1>6, <2>2, <3>1
    <3> QED
      BY <1>2, <1>3, <1>6, <2>2, <3>1, <3>2
  <2>4. n + 1 < e /\ f[n + 1] = EQUALS /\ f[n] # EQUALS => q = n + 1
    <3> SUFFICES ASSUME n + 1 < e, f[n + 1] = EQUALS, f[n] # EQUALS PROVE q = n + 1
      OBVIOUS
    <3>1. ~(n + 1 < q)
      <4> SUFFICES ASSUME n + 1 < q PROVE FALSE
        OBVIOUS
      <4>1. n + 1 \in n .. q - 1
        BY <1>2, <1>6
      <4> QED
        BY <1>15, <2>1, <4>1
    <3>2. q # n
      BY <1>5
    <3> QED
      BY <1>2, <1>6, <3>1, <3>2
  <2>5. Assigns(L, k) => q = n + 1
    <3>1. k # EQUALS
      BY Keys
    <3> QED
      BY <2>1, <2>4, <3>1
  <2>6. Assigns(L, k) => key = <<k>>
    <3> SUFFICES ASSUME Assigns(L, k) PROVE key = <<k>>
      OBVIOUS
    <3>1. q = n + 1 /\ n + 1 - 1 = n
      BY <1>2, <2>5
    <3>2. key \in Seq(Tokens) /\ Len(key) = 1 /\ key[1] = text[n] /\ text[n] \in Tokens
      <4>1. Len(key) = 1 /\ key[1] = text[n]
        BY <1>2, <2>2, <3>1
      <4>2. n \in 1 .. Len(text) /\ q - 1 \in 1 .. Len(text)
        BY <1>1, <1>2, <3>1
      <4>3. text[n] \in Tokens
        BY <1>1, <4>2
      <4>4. key \in Seq(Tokens)
        BY <1>1, <4>2 DEF key
      <4> QED
        BY <4>1, <4>3, <4>4
    <3>3. text[n] = k
      BY <1>3, <2>1
    <3>4. <<k>> \in Seq(Tokens) /\ Len(<<k>>) = 1 /\ <<k>>[1] = k
      BY <3>2, <3>3
    <3>5. \A i \in 1 .. Len(key) : key[i] = <<k>>[i]
      BY <3>2, <3>3, <3>4
    <3> HIDE DEF key
    <3> QED
      BY <3>2, <3>4, <3>5, SeqEqual
  <2>7. key = <<k>> => Assigns(L, k)
    BY <1>2, <1>5, <1>6, <2>1, <2>3
  <2> QED
    BY <2>6, <2>7
<1>11. src' \in {e, e + 1} /\ src' \in 1 .. N + 1 /\ (src' = e \/ src' - 1 = e)
  BY <1>2, <1>8
<1>12. Buffer(f, text', src')
  <2>1. e \in Breaks(f)
    BY <1>2, LineFacts DEF e
  <2>2. AtBreak(f, src')
    BY <1>11, <2>1 DEF AtBreak
  <2>3. text'[N + 1] = NUL
    <3>1. N + 1 \in 1 .. N + 1 /\ text[N + 1] = NUL
      BY <1>1, <1>2 DEF Buffer
    <3> QED
      BY <1>9, <3>1
  <2>4. ASSUME NEW x \in src' .. N PROVE text'[x] = f[x]
    <3>1. x \in 1 .. N + 1 /\ x \in src .. N /\ x # q
      BY <1>2, <1>6, <1>11, <2>4
    <3>2. x # e
      <4>1. CASE x = e
        <5>1. src' = e /\ e = N + 1
          BY <1>2, <1>8, <1>11, <2>4, <4>1
        <5> QED
          BY <1>2, <2>4, <4>1, <5>1
      <4> QED
        BY <4>1
    <3>3. text'[x] = text[x] /\ text[x] = f[x]
      BY <1>1, <1>9, <3>1, <3>2 DEF Buffer
    <3> QED
      BY <3>3
  <2> QED
    BY <1>9, <2>2, <2>3, <2>4 DEF Buffer
<1>13. opts' \in [DOMAIN Defaults -> Nat]
  BY <1>1, <1>2, <1>6, <1>8
<1>14. ASSUME NEW k \in DOMAIN Defaults PROVE Told(text', opts', f, k, src')
  <2>1. AtBreak(f, src) /\ Told(text, opts, f, k, src) /\ src - 1 <= p
    BY DEF ParsingOf, Buffer, IsNext
  <2>2. \A b \in Breaks(f) : src - 1 <= b /\ b < p => Len(LineFrom(f, b)) = 0
    BY DEF IsNext
  <2>3. /\ \A l \in Given(f, k, src) : l < p /\ Ends(f, l) <= src
        /\ Assigns(L, k) => Given(f, k, src') = Given(f, k, src) \cup {p}
        /\ ~Assigns(L, k) => Given(f, k, src') = Given(f, k, src)
    BY <1>2, <1>11, <2>1, <2>2, NewLines, SMTT(30) DEF e, L
  <2>4. CASE Assigns(L, k)
    <3>1. key = <<k>> /\ q = n + 1
      <4>1. key = <<k>>
        BY <1>10, <2>4
      <4>2. n + 1 < e /\ f[n] = k
        BY <1>2, <2>4, LineMarks DEF L, e
      <4>3. Len(key) = q - n
        BY <1>1, <1>2, <1>6 DEF key
      <4>4. Len(<<k>>) = 1
        OBVIOUS
      <4> QED
        BY <1>2, <1>6, <4>1, <4>3, <4>4
    <3>2. opts'[k] = n + 2
      BY <1>1, <1>2, <1>8, <3>1
    <3>3. ASSUME NEW x \in n + 2 .. e - 1 PROVE text'[x] = f[x]
      <4>1. x \in 1 .. N + 1 /\ x \in src .. N /\ x # q /\ x # e
        BY <1>2, <3>1
      <4> QED
        BY <1>1, <1>9, <4>1 DEF Buffer
    <3>4. text'[e] = NUL
      BY <1>2, <1>9
    <3>5. Kept(text', f, n + 2, e)
      BY <3>3, <3>4 DEF Kept
    <3>6. p \in Given(f, k, src') /\ \A l \in Given(f, k, src') : l <= p
      <4>1. \A l \in Given(f, k, src) : l \in Nat
        BY GivenFacts
      <4> QED
        BY <1>2, <2>3, <2>4, <4>1
    <3> QED
      BY <1>2, <3>2, <3>5, <3>6, ToldNew DEF e
  <2>5. CASE ~Assigns(L, k)
    <3>1. opts'[k] = opts[k]
      BY <1>1, <1>8, <1>10, <2>5
    <3>2. ASSUME NEW x \in 1 .. N + 1 PROVE text'[x] = text[x] \/ (x >= src /\ text'[x] = NUL)
      <4>1. q >= src /\ e >= src
        BY <1>2, <1>6
      <4> QED
        BY <1>9, <4>1
    <3>3. src \in Nat
      BY <1>2
    <3> QED
      BY <2>1, <2>3, <2>5, <3>1, <3>2, <3>3, ToldOn
  <2> QED
    BY <2>4, <2>5
<1> QED
  BY <1>8, <1>12, <1>13, <1>14 DEF ParsingOf

\* One iteration: it takes the next line, or it was the last.
LEMMA IterationOK ==
    ASSUME NEW f, IsText(f), WellFormed(f), ParsingOf(f, text, opts, src), ini_iter
    PROVE  ParsingOf(f, text', opts', src') /\ (conf' = "ini" \/ (conf' = "options" /\ src' = Len(f) + 1))
<1> DEFINE N == Len(f)
           p == behind_ws(src)
<1>1. /\ Buffer(f, text, src) /\ N \in Nat /\ src \in 1 .. N + 1 /\ Len(text) = N + 1 /\ N + 1 \in Nat
      /\ text[N + 1] = NUL /\ \A x \in src .. N : text[x] = f[x] /\ f[x] # NUL
  BY BufferIs DEF ParsingOf
<1>2. conf = "ini"
  BY DEF ini_iter
<1>3. ASSUME IniEnds(N + 1), ParsingOf(f, text, opts, N + 1)
      PROVE  ParsingOf(f, text', opts', src') /\ conf' = "options" /\ src' = N + 1
  <2>1. text' = text /\ opts' = opts /\ src' = N + 1 /\ conf' = "options"
    BY <1>3 DEF IniEnds
  <2> QED
    BY <1>3, <2>1
<1>4. CASE text[src] = NUL
  <2>1. src = N + 1
    <3>1. src \notin src .. N
      BY <1>1, <1>4
    <3> QED
      BY <1>1, <3>1
  <2>2. IniEnds(src)
    BY <1>4 DEF ini_iter
  <2>3. IniEnds(N + 1) /\ ParsingOf(f, text, opts, N + 1)
    BY <2>1, <2>2
  <2> QED
    BY <1>3, <2>3
<1>5. CASE text[src] # NUL
  <2>1. \/ text[p] = OPEN /\ IniSection(p)
        \/ text[p] = SEMICOLON /\ IniComment(p)
        \/ text[p] \notin {OPEN, SEMICOLON} /\ IniAssignment(p)
    BY <1>5 DEF ini_iter
  <2> HIDE DEF p
  <2>2. \/ /\ p = N + 1 /\ text[p] = NUL
           /\ \A key : Given(f, key, N + 1) = Given(f, key, src)
           /\ \A key : \A l \in Given(f, key, src) : Ends(f, l) <= src
        \/ \E l : IsNext(f, src, l, p)
    BY <1>1, NextLine DEF p, IsNext
  <2>3. CASE /\ p = N + 1 /\ text[p] = NUL
             /\ \A key : Given(f, key, N + 1) = Given(f, key, src)
             /\ \A key : \A l \in Given(f, key, src) : Ends(f, l) <= src
    <3>1. until(p, EQUALS) = N + 1
      <4>1. N + 1 \in 1 .. N + 1 /\ N + 1 \in p .. N + 1 /\ p \in 1 .. N + 1
            /\ text[N + 1] \in {EQUALS, NUL} /\ \A x \in p .. (N + 1) - 1 : text[x] \notin {EQUALS, NUL}
        BY <1>1, <2>3
      <4> QED
        BY <1>1, <4>1, UntilIs
    <3>2. IniAssignment(p)
      BY <2>1, <2>3, Marks
    <3>3. IniEnds(N + 1)
      BY <1>1, <3>1, <3>2 DEF IniAssignment
    <3>4. Buffer(f, text, N + 1)
      <4>1. AtBreak(f, N + 1) /\ \A x \in N + 1 .. N : text[x] = f[x]
        BY <1>1, BreakIs DEF AtBreak
      <4> QED
        BY <1>1, <4>1 DEF Buffer
    <3>5. ASSUME NEW k \in DOMAIN Defaults PROVE Told(text, opts, f, k, N + 1)
      <4>1. Told(text, opts, f, k, src) /\ src \in Nat
        BY <1>1 DEF ParsingOf
      <4>2. Given(f, k, N + 1) = Given(f, k, src) /\ \A l \in Given(f, k, src) : Ends(f, l) <= src
        BY <2>3
      <4> QED
        BY <4>1, <4>2, ToldOn
    <3>6. ParsingOf(f, text, opts, N + 1)
      BY <3>4, <3>5 DEF ParsingOf
    <3> QED
      BY <1>3, <3>3, <3>6
  <2>4. ASSUME NEW l, IsNext(f, src, l, p) PROVE ParsingOf(f, text', opts', src') /\ conf' = conf
    BY <2>1, <2>4, SectionOK, CommentOK, AssignmentOK
  <2> QED
    BY <1>2, <2>2, <2>3, <2>4
<1> QED
  BY <1>4, <1>5

\* The first.
LEMMA FillOK ==
    ASSUME NEW f, IsText(f), NEW t, t = Append(f, NUL), NEW o, o = [k \in DOMAIN Defaults |-> 0]
    PROVE  ParsingOf(f, t, o, 1)
<1> DEFINE N == Len(f)
<1>1. f \in Seq(Tokens) /\ NUL \in Tokens /\ N \in Nat
  <2>1. f \in Seq(Letters) /\ Letters \subseteq Tokens /\ NUL \in Tokens
    BY DEF IsText, Tokens
  <2>2. f \in Seq(Tokens)
    BY <2>1, SeqMonotonic
  <2>3. N \in Nat
    BY BreakIs
  <2> QED
    BY <2>1, <2>2, <2>3
<1>2. t \in Seq(Tokens) /\ Len(t) = N + 1 /\ t[N + 1] = NUL /\ \A q \in 1 .. N : t[q] = f[q]
  BY <1>1
<1>3. AtBreak(f, 1)
  BY <1>1, BreakIs DEF AtBreak
<1>4. Buffer(f, t, 1)
  BY <1>2, <1>3 DEF Buffer
<1>5. ASSUME NEW k \in DOMAIN Defaults PROVE Told(t, o, f, k, 1)
  <2>1. Given(f, k, 1) = {}
    <3> SUFFICES ASSUME NEW p \in Given(f, k, 1) PROVE FALSE
      OBVIOUS
    <3>1. p \in Nat /\ p + 1 < 1
      BY GivenFacts
    <3> QED
      BY <3>1
  <2> QED
    BY <2>1 DEF Told
<1> QED
  BY <1>4, <1>5 DEF ParsingOf

\* Behind the last line every option is what the file says.
LEMMA AllSaid ==
    ASSUME NEW f, IsText(f), ParsingOf(f, text, opts, Len(f) + 1), NEW k \in DOMAIN Defaults
    PROVE  Option(k) = Said(f, k)
<1> DEFINE N == Len(f)
           G == Given(f, k, N + 1)
           places == {p \in Breaks(f) \ {N + 1} : Assigns(LineFrom(f, p), k)}
<1>1. N \in Nat
  BY BreakIs
<1>2. places = G
  <2>1. ASSUME NEW p \in Breaks(f), p # N + 1, Assigns(LineFrom(f, p), k) PROVE p \in G
    <3>1. p \in Nat /\ p <= N
      BY <1>1, <2>1, BreakIs
    <3>2. Len(LineFrom(f, p)) >= 2 /\ Len(LineFrom(f, p)) = Ends(f, p) - Begins(f, p)
      BY <2>1, <3>1, LineIs DEF Assigns
    <3>3. Begins(f, p) \in p + 1 .. Ends(f, p) /\ Ends(f, p) \in p + 1 .. N + 1
      BY <3>1, LineFacts
    <3>4. p + 1 < N + 1
      BY <1>1, <3>1, <3>2, <3>3
    <3> QED
      BY <2>1, <3>1, <3>4 DEF Given
  <2>2. ASSUME NEW p \in G PROVE p \in places
    <3>1. p \in Breaks(f) /\ p <= N /\ Assigns(LineFrom(f, p), k)
      BY DEF Given
    <3>2. p # N + 1
      BY <1>1, <3>1
    <3> QED
      BY <3>1, <3>2
  <2> HIDE DEF G
  <2> QED
    BY <2>1, <2>2
<1>3. Told(text, opts, f, k, N + 1) /\ Buffer(f, text, N + 1)
  BY DEF ParsingOf
<1>4. CASE G = {}
  <2>1. opts[k] = 0
    BY <1>3, <1>4 DEF Told
  <2>2. Option(k) = Defaults[k]
    BY <2>1 DEF Option
  <2>3. Said(f, k) = Defaults[k]
    BY <1>2, <1>4 DEF Said
  <2> QED
    BY <2>2, <2>3
<1>5. CASE G # {}
  <2> HIDE DEF G
  <2>1. G \subseteq Nat /\ \A p \in G : p <= N
    BY <1>1, GivenFacts DEF G
  <2>2. PICK m \in G : \A p \in G : p <= m
    BY <1>1, <1>5, <2>1, Largest
  <2>3. Max(G) = m
    BY <2>1, <2>2, MaxIs
  <2> DEFINE b == Begins(f, m)
             e == Ends(f, m)
             L == LineFrom(f, m)
             a == b + 2
  <2>4. m \in Breaks(f) /\ m \in Nat /\ m <= N /\ b + 1 < e
    BY <2>2, GivenFacts DEF G
  <2>5. b \in Nat /\ e \in Nat /\ b >= 1 /\ e <= N + 1
    BY <1>1, <2>4, LineFacts
  <2>6. opts[k] = a /\ Kept(text, f, a, e)
    BY <1>3, <2>2 DEF Told, G
  <2>7. Len(L) = e - b /\ \A i \in 1 .. e - b : L[i] = f[b + i - 1]
    BY <2>4, LineIs
  <2>8. L \in Seq(Tokens)
    <3>1. L = SubSeq(f, b, e - 1)
      BY <2>4, LineIs
    <3>2. f \in Seq(Tokens)
      <4>1. f \in Seq(Letters) /\ Letters \subseteq Tokens
        BY DEF IsText, Tokens
      <4> QED
        BY <4>1, SeqMonotonic
    <3> HIDE DEF L, b, e
    <3>3. b \in 1 .. Len(f) + 1 /\ e - 1 \in 0 .. Len(f)
      BY <1>1, <2>4, <2>5
    <3> QED
      BY <3>1, <3>2, <3>3
  <2> HIDE DEF L, b, e
  <2>9. Said(f, k) = SubSeq(L, 3, e - b)
    <3>1. places # {} /\ Max(places) = m
      BY <1>2, <1>5, <2>3
    <3> HIDE DEF places
    <3>2. Said(f, k) = SubSeq(LineFrom(f, m), 3, Len(LineFrom(f, m)))
      BY <3>1 DEF Said, places
    <3> QED
      BY <2>7, <3>2 DEF L
  <2>10. a \in Nat /\ a >= 1 /\ a <= e /\ e <= N + 1 /\ text \in Seq(Tokens) /\ Len(text) = N + 1
    BY <1>3, <2>4, <2>5 DEF Buffer
  <2>11. until(a, NUL) = e
    <3>1. text[e] = NUL /\ \A q \in a .. e - 1 : text[q] = f[q]
      BY <2>6 DEF Kept
    <3>2. \A q \in a .. e - 1 : text[q] \notin {NUL, NUL}
      <4>1. \A q \in a .. e - 1 : q \in 1 .. N
        BY <1>1, <2>5, <2>10
      <4> QED
        BY <3>1, <4>1 DEF IsText
    <3>3. a \in 1 .. N + 1 /\ e \in a .. N + 1 /\ text[e] \in {NUL, NUL} /\ N + 1 \in Nat
      BY <1>1, <2>5, <2>10, <3>1
    <3>4. text[N + 1] = NUL
      BY <1>3 DEF Buffer
    <3> QED
      BY <2>10, <3>2, <3>3, <3>4, UntilIs
  <2>12. Option(k) = SubSeq(text, a, e - 1)
    <3>1. opts[k] # 0
      BY <2>6, <2>10
    <3> QED
      BY <2>6, <2>11, <3>1 DEF Option, StringAt
  <2>13. SubSeq(text, a, e - 1) = SubSeq(L, 3, e - b)
    <3> DEFINE s == SubSeq(text, a, e - 1)
               t == SubSeq(L, 3, e - b)
    <3>1. s \in Seq(Tokens) /\ Len(s) = e - a /\ \A i \in 1 .. e - a : s[i] = text[a + i - 1]
      <4>1. a \in 1 .. e /\ e \in 1 .. Len(text) + 1 /\ Len(text) \in Nat
        BY <1>1, <2>5, <2>10
      <4>2. text \in Seq(Tokens)
        BY <2>10
      <4> HIDE DEF a
      <4> QED
        BY <4>1, <4>2
    <3>2. t \in Seq(Tokens) /\ Len(t) = e - a /\ \A i \in 1 .. e - a : t[i] = L[i + 2]
      <4> DEFINE n == e - b
      <4>1. n \in 2 .. n /\ Len(L) = n /\ n - 2 = e - a
        BY <2>4, <2>5, <2>7
      <4> HIDE DEF n
      <4>2. SubSeq(L, 3, n) \in Seq(Tokens) /\ Len(SubSeq(L, 3, n)) = n - 2
            /\ \A i \in 1 .. n - 2 : SubSeq(L, 3, n)[i] = L[i + 2]
        BY <2>8, <4>1
      <4> QED
        BY <4>1, <4>2 DEF n
    <3> HIDE DEF s, t
    <3>3. ASSUME NEW i \in 1 .. e - a PROVE s[i] = t[i]
      <4>1. i + 2 \in 1 .. e - b /\ a + i - 1 \in a .. e - 1 /\ a + i - 1 = b + (i + 2) - 1
        BY <2>5, <2>10
      <4>2. text[a + i - 1] = f[a + i - 1]
        BY <2>6, <4>1 DEF Kept
      <4>3. L[i + 2] = f[b + (i + 2) - 1]
        BY <2>7, <4>1
      <4> QED
        BY <3>1, <3>2, <4>1, <4>2, <4>3
    <3>4. s = t
      BY <3>1, <3>2, <3>3, SeqEqual
    <3> QED
      BY <3>4 DEF s, t
  <2> QED
    BY <2>9, <2>12, <2>13
<1> QED
  BY <1>4, <1>5

-----------------------------------------------------------------------------
(* The options, and the invariant *)

ConfInv ==
    /\ scene \in {"boot", "config", "calls"}
    /\ scene # "calls" => IsText(vol.ini)
    /\ scene = "calls" => conf = "off"
    /\ conf = "off" => opts = [k \in DOMAIN Defaults |-> 0]
    /\ IsText(ini) /\ WellFormed(ini) =>
          /\ conf \in {"ini", "options"} => ParsingOf(ini, text, opts, src)
          /\ conf = "options" => src = Len(ini) + 1

\* What was read is a text.
TextInv == conf # "off" => IsText(ini)

\* The partition stays, and only three parts of the loader deal with the options.
LEMMA OptsMove ==
    ASSUME [LoaderNext]_loaderVars
    PROVE  /\ UNCHANGED <<vol, scene>>
           /\ \/ UNCHANGED optVars
              \/ scene = "config" /\ bootopts_fill(vol.ini)
              \/ scene = "boot" /\ FillOptions /\ bootopts_fill(ConfigRead)
              \/ (ini_iter \/ Video) /\ UNCHANGED ini
<1>1. ASSUME NEW name, Walk(name) PROVE UNCHANGED vol
  BY <1>1 DEF Walk
<1>2. ASSUME NEW f, NEW n, NEW o, Read(f, n, o) PROVE UNCHANGED vol
  BY <1>2 DEF Read
<1>3. CASE FatOnwards
  <2>1. UNCHANGED vol
    <3>1. CASE Mount \/ Mounted \/ MountFails
      BY <3>1 DEF Mount, Mounted, MountFails
    <3>2. CASE WalkSector \/ WalkNext
      BY <3>2 DEF WalkSector, WalkNext
    <3>3. CASE Skip \/ ReadCluster \/ ReadNext
      BY <3>3 DEF Skip, ReadCluster, ReadNext
    <3>4. CASE BiosReads
      BY <3>4 DEF BiosReads
    <3> QED
      BY <1>3, <3>1, <3>2, <3>3, <3>4 DEF FatOnwards, Onwards
  <2> QED
    BY <1>3, <2>1 DEF FatOnwards, others
<1>4. CASE FatMay /\ (\E e \in Errors : BiosFails(e)) /\ UNCHANGED <<others, main, memory>>
  BY <1>4 DEF BiosFails, others
<1>5. CASE AnyCall
  <2>1. UNCHANGED <<others, main, memory>>
    BY <1>5 DEF AnyCall
  <2>2. UNCHANGED vol
    BY <1>1, <1>2, <1>5 DEF AnyCall
  <2> QED
    BY <2>1, <2>2 DEF others
<1>6. CASE RunStage1 \/ FillOptions \/ ConfigGiven \/ Options
  <2>1. UNCHANGED <<vol, scene>>
    BY <1>6 DEF RunStage1, FillOptions, ConfigGiven, Options, Undefined, vars, others
  <2>2. CASE RunStage1
    BY <2>1, <2>2 DEF RunStage1
  <2>3. CASE FillOptions
    BY <2>1, <2>3 DEF FillOptions, Undefined, At, others
  <2>4. CASE ConfigGiven
    BY <2>1, <2>4 DEF ConfigGiven
  <2>5. CASE Options
    BY <2>1, <2>5 DEF Options, ini_iter, Video
  <2> QED
    BY <1>6, <2>2, <2>3, <2>4, <2>5
<1>7. CASE OpenConfig \/ OpenKernel \/ OpenInitrd
  BY <1>1, <1>7 DEF OpenConfig, OpenKernel, OpenInitrd, UNCHANGEDButCall, others
<1>8. CASE ReadConfig \/ ReadInitrd \/ ReadEhdr \/ ReadPhdrs \/ Segment
  <2>1. UNCHANGED others
    BY <1>8 DEF ReadConfig, ReadInitrd, ReadEhdr, ReadPhdrs, Segment, UNCHANGEDButCall, Panic, Undefined
  <2>2. UNCHANGED vol
    BY <1>2, <1>8 DEF ReadConfig, ReadInitrd, ReadEhdr, ReadPhdrs, Segment, Panic, Undefined, vars
  <2> QED
    BY <2>1, <2>2 DEF others
<1>9. CASE PhdrsRead \/ SegmentRead \/ StoreInitrdAndCmdline \/ MapEnds \/ CallKernel
  <2>1. UNCHANGED <<vars, others>>
    BY <1>9 DEF PhdrsRead, SegmentRead, StoreInitrdAndCmdline, MapEnds, CallKernel, Panic, Undefined
  <2> QED
    BY <2>1 DEF vars, others
<1>10. CASE MapEntry
  <2>1. UNCHANGED <<vars, others>>
    BY <1>10, Zenon DEF MapEntry
  <2> QED
    BY <2>1 DEF vars, others
<1>11. CASE UNCHANGED loaderVars
  BY <1>11 DEF loaderVars, vars
<1> QED
  BY <1>3, <1>4, <1>5, <1>6, <1>7, <1>8, <1>9, <1>10, <1>11 DEF LoaderNext, stage2_main

LEMMA TextsAreTexts ==
    ASSUME NEW v \in BootVolumes \cup ConfigVolumes
    PROVE  IsText(v.ini)
<1>1. v.ini \in Seq(STRING \ {NUL})
  BY LoaderAssumption
<1>2. v.ini \in Seq(Letters)
  <2>1. STRING \ {NUL} \subseteq Letters
    BY DEF Letters
  <2> QED
    BY <1>1, <2>1, SeqMonotonic
<1>3. \A q \in 1 .. Len(v.ini) : v.ini[q] \in STRING \ {NUL}
  BY <1>1, ElementOfSeq
<1> QED
  BY <1>2, <1>3 DEF IsText

LEMMA ConfInit ==
    ASSUME LoaderInit
    PROVE  ConfInv
<1>1. conf = "off" /\ opts = [k \in DOMAIN Defaults |-> 0]
  BY DEF LoaderInit, OptsOff
<1>2. scene \in {"boot", "config", "calls"} /\ (scene # "calls" => vol \in BootVolumes \cup ConfigVolumes)
  BY DEF LoaderInit
<1>3. scene # "calls" => IsText(vol.ini)
  BY <1>2, TextsAreTexts
<1> QED
  BY <1>1, <1>2, <1>3 DEF ConfInv

LEMMA ConfFilled ==
    ASSUME ConfInv, scene # "calls", UNCHANGED <<vol, scene>>, NEW t, bootopts_fill(t)
    PROVE  ConfInv'
<1>1. conf = "off" /\ opts = [k \in DOMAIN Defaults |-> 0]
  BY DEF ConfInv, bootopts_fill
<1>2. ini' = t /\ text' = Append(t, NUL) /\ src' = 1 /\ conf' = "ini" /\ opts' = opts
  BY DEF bootopts_fill
<1>3. ASSUME IsText(t) PROVE ParsingOf(t, text', opts', src')
  <2>1. text' = Append(t, NUL) /\ opts' = [k \in DOMAIN Defaults |-> 0] /\ src' = 1
    BY <1>1, <1>2
  <2>2. ParsingOf(t, text', opts', 1)
    BY <1>3, <2>1, FillOK
  <2> QED
    BY <2>1, <2>2
<1> QED
  BY <1>1, <1>2, <1>3 DEF ConfInv

LEMMA ConfOK ==
    ASSUME ConfInv, [LoaderNext]_loaderVars
    PROVE  ConfInv'
<1>1. vol' = vol /\ scene' = scene
  BY OptsMove
<1>2. CASE UNCHANGED optVars
  BY <1>1, <1>2 DEF ConfInv, optVars
<1>3. CASE \/ scene = "config" /\ bootopts_fill(vol.ini)
           \/ scene = "boot" /\ FillOptions /\ bootopts_fill(ConfigRead)
  BY <1>1, <1>3, ConfFilled
<1>4. CASE ini_iter /\ UNCHANGED ini
  <2>1. conf = "ini" /\ scene # "calls"
    BY <1>4 DEF ConfInv, ini_iter
  <2>2. conf' \in {"ini", "options"}
    BY <1>4, <2>1 DEF ini_iter, IniEnds, IniSection, IniComment, IniAssignment
  <2>3. ASSUME IsText(ini), WellFormed(ini)
        PROVE  ParsingOf(ini, text', opts', src') /\ (conf' = "options" => src' = Len(ini) + 1)
    <3> DEFINE f == ini
    <3>1. IsText(f) /\ WellFormed(f) /\ ParsingOf(f, text, opts, src)
      BY <2>1, <2>3 DEF ConfInv
    <3> HIDE DEF f
    <3>2. ParsingOf(f, text', opts', src') /\ (conf' = "options" => src' = Len(f) + 1)
      BY <1>4, <3>1, IterationOK
    <3> QED
      BY <3>2 DEF f
  <2> QED
    BY <1>1, <1>4, <2>1, <2>2, <2>3 DEF ConfInv
<1>5. CASE Video
  <2>1. conf \notin {"off", "ini"} /\ conf' \notin {"off", "ini", "options"}
    BY <1>5 DEF Video, StartVideo, ParseQuery, QueryParsed, vbe_mode_search, NoMode
  <2> QED
    BY <1>1, <2>1 DEF ConfInv
<1> QED
  BY <1>2, <1>3, <1>4, <1>5, OptsMove

LEMMA ConfAlways == LoaderSpec => []ConfInv
<1>1. LoaderInit => ConfInv
  BY ConfInit
<1>2. ConfInv /\ [LoaderNext]_loaderVars => ConfInv'
  BY ConfOK
<1> QED
  BY <1>1, <1>2, PTL DEF LoaderSpec

LEMMA ConfigIsText ==
    ASSUME IInv, ConfInv, scene = "boot"
    PROVE  IsText(ConfigRead)
<1> DEFINE f == vol.ini
           out == job.out
<1>1. f \in Seq(Letters) /\ (\A q \in 1 .. Len(f) : f[q] # NUL) /\ DOMAIN f = 1 .. Len(f)
  <2>1. f \in Seq(Letters) /\ (\A q \in 1 .. Len(f) : f[q] # NUL)
    BY DEF ConfInv, IsText
  <2> HIDE DEF f
  <2> QED
    BY <2>1
<1>2. out \in Seq(Int \X Nat)
  BY DEF IInv, FatInv, JobType, JobRec
<1>3. ASSUME NEW b PROVE Token(b) \in Letters /\ Token(b) # NUL
  <2> DEFINE places == {k \in DOMAIN f : ByteAt(job.file, k - 1) = b}
             x == CHOOSE k \in places : TRUE
  <2>1. Token(b) = IF places = {} THEN "other" ELSE f[x]
    BY DEF Token
  <2> HIDE DEF f
  <2>2. ASSUME places # {} PROVE x \in places
    BY <2>2
  <2>3. ASSUME NEW k \in places PROVE f[k] \in Letters /\ f[k] # NUL
    <3>1. k \in 1 .. Len(f)
      BY <1>1
    <3> QED
      BY <1>1, <3>1
  <2>4. "other" # NUL /\ "other" \in Letters
    <3>1. "other" # NUL
      BY DEF NUL
    <3>2. "other" \in Letters
      BY DEF Letters
    <3> QED
      BY <3>1, <3>2
  <2> HIDE DEF places, x, f
  <2>5. CASE places = {}
    <3>1. Token(b) = "other"
      BY <2>1, <2>5
    <3> QED
      BY <2>4, <3>1
  <2>6. CASE places # {}
    <3>1. Token(b) = f[x] /\ x \in places
      BY <2>1, <2>2, <2>6
    <3> QED
      BY <2>3, <3>1
  <2> QED
    BY <2>5, <2>6
<1> DEFINE T(b) == Token(b)
<1>4. \A b : T(b) \in Letters /\ T(b) # NUL
  BY <1>3
<1>5. ConfigRead = [k \in DOMAIN out |-> T(out[k])]
  BY DEF ConfigRead
<1> HIDE DEF T, out
<1>6. DOMAIN out = 1 .. Len(out) /\ Len(out) \in Nat
  BY <1>2
<1> DEFINE c == [k \in 1 .. Len(out) |-> T(out[k])]
<1>7. c \in Seq(Letters) /\ Len(c) = Len(out) /\ \A q \in 1 .. Len(c) : c[q] # NUL
  BY <1>4, <1>6
<1>8. ConfigRead = c
  BY <1>5, <1>6
<1> HIDE DEF c
<1> QED
  BY <1>7, <1>8 DEF IsText

LEMMA TextOK ==
    ASSUME IInv, ConfInv, TextInv, [LoaderNext]_loaderVars
    PROVE  TextInv'
<1>1. CASE UNCHANGED optVars
  BY <1>1 DEF TextInv, optVars
<1>2. CASE scene = "config" /\ bootopts_fill(vol.ini)
  BY <1>2 DEF TextInv, ConfInv, bootopts_fill
<1>3. CASE scene = "boot" /\ FillOptions /\ bootopts_fill(ConfigRead)
  BY <1>3, ConfigIsText DEF TextInv, bootopts_fill
<1>4. CASE (ini_iter \/ Video) /\ UNCHANGED ini
  <2>1. conf # "off"
    BY <1>4 DEF ini_iter, Video, StartVideo, ParseQuery, QueryParsed, vbe_mode_search, NoMode
  <2> QED
    BY <1>4, <2>1 DEF TextInv
<1> QED
  BY <1>1, <1>2, <1>3, <1>4, OptsMove

\* Whatever was read of BOOT.INI: of a text whose lines are each blank, a comment, a
\* section or an assignment the parser gives each option the value of its last line,
\* or its default, however it cuts its own buffer up on the way.
THEOREM OptionsAreExact ==
    ASSUME FatReadable
    PROVE  LoaderSpec => []OptionsExact
<1>1. ASSUME ConfInv, TextInv PROVE OptionsExact
  <2> SUFFICES ASSUME conf = "options", WellFormed(ini), NEW k \in DOMAIN Defaults
               PROVE  Option(k) = Said(ini, k)
    BY DEF OptionsExact
  <2> DEFINE f == ini
  <2>1. IsText(f) /\ ParsingOf(f, text, opts, src) /\ src = Len(f) + 1
    BY <1>1 DEF ConfInv, TextInv
  <2> HIDE DEF f
  <2>2. Option(k) = Said(f, k)
    BY <2>1, AllSaid
  <2> QED
    BY <2>2 DEF f
<1>2. ConfInv /\ TextInv => OptionsExact
  BY <1>1
<1>3. LoaderInit => TextInv
  BY DEF LoaderInit, OptsOff, TextInv
<1>4. IInv /\ ConfInv /\ TextInv /\ [LoaderNext]_loaderVars => TextInv'
  BY TextOK
<1>5. LoaderSpec => []IInv
  BY Invariant
<1> QED
  BY <1>2, <1>3, <1>4, <1>5, ConfAlways, PTL DEF LoaderSpec
-----------------------------------------------------------------------------
(* What is in memory *)

HoldsIn(mem, base, bytes) == \A k \in 1 .. Len(bytes) : mem[base + k - 1] = bytes[k]

\* n bytes.
IsBytes(bytes, n) == n \in Nat /\ DOMAIN bytes = 1 .. n /\ Len(bytes) = n

\* What is copied is there afterwards.
LEMMA StoredHolds ==
    ASSUME NEW mem, NEW base \in Int, NEW bytes, NEW n, IsBytes(bytes, n),
           \A k \in 0 .. n - 1 : base + k \in Memory
    PROVE  HoldsIn(Stored(mem, base, bytes), base, bytes)
<1> SUFFICES ASSUME NEW k \in 1 .. n
             PROVE  Stored(mem, base, bytes)[base + k - 1] = bytes[k]
  BY DEF HoldsIn, IsBytes
<1> DEFINE a == base + k - 1
<1>1. a \in Memory /\ a \in base .. base + n - 1 /\ a - base + 1 = k /\ Len(bytes) = n
  <2>1. k - 1 \in 0 .. n - 1 /\ n \in Nat /\ Len(bytes) = n
    BY DEF IsBytes
  <2>2. base + (k - 1) \in Memory
    BY <2>1
  <2>3. base + (k - 1) = a
    BY <2>1
  <2> QED
    BY <2>1, <2>2, <2>3
<1> HIDE DEF a
<1>2. Stored(mem, base, bytes)[a] = bytes[k]
  BY <1>1 DEF Stored
<1> QED
  BY <1>2 DEF a

\* What lies elsewhere stays.
LEMMA StoredApart ==
    ASSUME NEW mem, NEW base \in Int, NEW bytes, NEW n, IsBytes(bytes, n),
           NEW b \in Int, NEW kept, NEW m, IsBytes(kept, m), HoldsIn(mem, b, kept),
           \A k \in 0 .. m - 1 : b + k \in Memory /\ b + k \notin base .. base + n - 1
    PROVE  HoldsIn(Stored(mem, base, bytes), b, kept)
<1> SUFFICES ASSUME NEW k \in 1 .. m
             PROVE  Stored(mem, base, bytes)[b + k - 1] = kept[k]
  BY DEF HoldsIn, IsBytes
<1> DEFINE a == b + k - 1
<1>1. a \in Memory /\ a \notin base .. base + n - 1 /\ Len(bytes) = n
  <2>1. k - 1 \in 0 .. m - 1 /\ m \in Nat /\ Len(bytes) = n
    BY DEF IsBytes
  <2>2. b + (k - 1) \in Memory /\ b + (k - 1) \notin base .. base + n - 1
    BY <2>1
  <2>3. b + (k - 1) = a
    BY <2>1
  <2> QED
    BY <2>1, <2>2, <2>3
<1>2. mem[a] = kept[k]
  BY DEF HoldsIn, IsBytes, a
<1> HIDE DEF a
<1>3. Stored(mem, base, bytes)[a] = mem[a]
  BY <1>1 DEF Stored
<1> QED
  BY <1>2, <1>3 DEF a

\* Bytes of a file, as they lie in memory.
Content(v, f, from, n) == [k \in 1 .. n |-> FileByte(ByteIn(v, f, from + k - 1))]

\* The clusters of a file are in reach.
LEMMA Reachable ==
    ASSUME WellMade(vol), NEW f, IsFile(vol, f), InReach(vol, f)
    PROVE  AtOnce(f)
<1> SUFFICES ASSUME NEW k \in 0 .. Needed(vol, f.size) - 1
             PROVE  OneTransfer(Sector(Nth(f.cluster, k), 0), vol.spc)
  BY DEF AtOnce, Clusters
<1> DEFINE c == Nth(f.cluster, k)
<1>1. OneTransfer(Begin(vol, c), vol.spc)
  BY DEF InReach, Nth
<1>2. Begin(vol, c) = Sector(c, 0)
  <2>1. k \in Nat /\ k < Needed(vol, f.size)
    <3>1. Needed(vol, f.size) \in Int
      <4> DEFINE b == BytesPerSector * vol.spc
      <4>1. b \in Nat \ {0} /\ f.size \in Nat
        BY VolumeNumbers, FileSize DEF PerCluster
      <4> HIDE DEF b
      <4>2. (f.size + (b - 1)) \div b \in Int
        BY <4>1
      <4> QED
        BY <4>2 DEF Needed, b
    <3> QED
      BY <3>1
  <2>2. c \in Nat
    BY <2>1, FileChain
  <2>3. vol.spc \in Nat /\ DataBegin \in Nat
    BY VolumeNumbers
  <2> HIDE DEF c
  <2>4. (c - 2) * vol.spc \in Int
    BY <2>2, <2>3
  <2>5. DataBegin + (c - 2) * vol.spc + 0 = DataBegin + (c - 2) * vol.spc
    BY <2>3, <2>4
  <2> QED
    BY <2>5 DEF Sector, DataBegin, Begin
<1> QED
  BY <1>1, <1>2

LEMMA ContentIs ==
    ASSUME NEW f, NEW from, NEW n
    PROVE  BytesOf(f, from, n) = Content(vol, f, from, n)
BY DEF BytesOf, Content, ByteIn, ByteAt, Sector, DataBegin, Begin, Nth

LEMMA ContentBytes ==
    ASSUME NEW v, NEW f, NEW from, NEW n \in Nat
    PROVE  IsBytes(Content(v, f, from, n), n)
<1> DEFINE g == [k \in 1 .. n |-> FileByte(ByteIn(v, f, from + k - 1))]
<1>1. DOMAIN g = 1 .. n /\ Len(g) = n
  OBVIOUS
<1> QED
  BY <1>1 DEF IsBytes, Content

\* A read that is done and did not fail.
LEMMA ReadBytes ==
    ASSUME IInv, pc = "idle", job.op = "read", job.failed = FALSE, InReach(vol, job.file),
           IsFile(vol, job.file), NEW n \in Nat, job.asked = n, job.offset \in Nat, job.file.size \in Nat,
           job.offset + n <= job.file.size
    PROVE  job.out = [k \in 1 .. n |-> ByteAt(job.file, job.offset + k - 1)]
<1>1. AtOnce(job.file)
  BY Reachable DEF IInv, MainInv
<1>2. job.out = [k \in 1 .. Max({0, Min({job.asked, job.file.size - job.offset})}) |->
                    ByteAt(job.file, job.offset + k - 1)]
  BY <1>1 DEF IInv, FatInv, Reading, ReadExact, Available
<1> DEFINE size == job.file.size
           from == job.offset
<1>3. Max({0, Min({job.asked, size - from})}) = n
  <2>1. size \in Nat /\ from \in Nat /\ from + n <= size
    OBVIOUS
  <2> HIDE DEF size, from
  <2>2. Min({n, size - from}) = n
    <3>1. {n, size - from} \subseteq Nat /\ \A x \in {n, size - from} : n <= x
      BY <2>1
    <3>2. Min({n, size - from}) \in {n, size - from} /\ \A x \in {n, size - from} : Min({n, size - from}) <= x
      BY <3>1, MinIn
    <3> QED
      BY <3>1, <3>2
  <2>3. Max({0, n}) = n
    BY MaxIs
  <2> QED
    BY <2>2, <2>3
<1> QED
  BY <1>2, <1>3

LEMMA ReadGives ==
    ASSUME IInv, pc = "idle", job.op = "read", job.failed = FALSE, InReach(vol, job.file),
           IsFile(vol, job.file), NEW n \in Nat, job.asked = n, job.offset \in Nat, job.file.size \in Nat,
           job.offset + n <= job.file.size
    PROVE  Bytes(job.out, FileByte) = Content(vol, job.file, job.offset, n)
<1>1. job.out = [k \in 1 .. n |-> ByteAt(job.file, job.offset + k - 1)]
  BY ReadBytes
<1>2. Bytes(job.out, FileByte) = [k \in 1 .. n |-> FileByte(ByteAt(job.file, job.offset + k - 1))]
  BY <1>1 DEF Bytes
<1> QED
  BY <1>2, ContentIs DEF BytesOf

-----------------------------------------------------------------------------
(* The kernel's segments *)

Header(v, k) == v.elf.phdrs[k]
LoadsTo(v, n) == {k \in 1 .. n : Header(v, k).type = "load"}
Highest(h) == h.vaddr + h.msize

\* What is known of lowest and highest behind the first n headers.
BoundsTo(v, lowest, highest, n) ==
    /\ LoadsTo(v, n) = {} => lowest = -1 /\ highest = 0
    /\ LoadsTo(v, n) # {} => lowest \in Nat /\ \E k \in LoadsTo(v, n) : highest = Highest(Header(v, k))
    /\ \A k \in LoadsTo(v, n) : lowest <= Header(v, k).vaddr /\ Highest(Header(v, k)) <= highest

\* The segments of the first n headers are in memory.
Loaded(v, mem, kernel, k) ==
    HoldsIn(mem, Header(v, k).vaddr, Content(v, kernel, Header(v, k).offset, Header(v, k).fsize))
SegmentsTo(v, mem, kernel, n) == \A k \in LoadsTo(v, n) : Loaded(v, mem, kernel, k)

\* The numbers of a header that is loaded.
LEMMA HeaderNumbers ==
    ASSUME NEW v \in BootVolumes, Loadable(v), NEW k \in 1 .. Len(v.elf.phdrs), Header(v, k).type = "load"
    PROVE  /\ Header(v, k).vaddr \in Nat /\ Header(v, k).fsize \in Nat /\ Header(v, k).msize \in Nat
           /\ Header(v, k).offset \in Nat /\ Header(v, k).fsize <= Header(v, k).msize
           /\ \A n \in 0 .. Header(v, k).msize - 1 : Header(v, k).vaddr + n \in Memory
           /\ Highest(Header(v, k)) \in Nat
<1> DEFINE R == [type : STRING, vaddr : Int, fsize : Nat, msize : Nat, offset : Nat]
           phdrs == v.elf.phdrs
           h == phdrs[k]
<1>1. phdrs \in Seq(R) /\ k \in 1 .. Len(phdrs)
  BY LoaderAssumption
<1>2. h \in R /\ k \in DOMAIN phdrs
  <2> HIDE DEF R, phdrs
  <2> QED
    BY <1>1
<1>3. h.type = "load"
  BY DEF Header
<1>4. /\ h.vaddr \in Nat /\ h.fsize <= h.msize
      /\ h.vaddr .. h.vaddr + h.msize - 1 \subseteq Memory
  BY <1>2, <1>3 DEF Loadable, LoadsOf
<1>5. h.fsize \in Nat /\ h.msize \in Nat /\ h.offset \in Nat
  BY <1>2
<1> HIDE DEF h
<1>6. ASSUME NEW n \in 0 .. h.msize - 1 PROVE h.vaddr + n \in Memory
  <2> DEFINE base == h.vaddr
             size == h.msize
  <2>1. base \in Nat /\ size \in Nat /\ n \in 0 .. size - 1
    BY <1>4, <1>5, <1>6
  <2> HIDE DEF base, size
  <2>2. base + n \in base .. base + size - 1
    BY <2>1
  <2> QED
    BY <1>4, <2>2 DEF base, size
<1>7. h.vaddr + h.msize \in Nat
  BY <1>4, <1>5
<1>8. Header(v, k) = h
  BY DEF Header, h
<1> QED
  BY <1>4, <1>5, <1>6, <1>7, <1>8 DEF Highest

LEMMA LoadIndex ==
    ASSUME NEW v \in BootVolumes, NEW n \in Nat, n <= Len(v.elf.phdrs), NEW k \in LoadsTo(v, n)
    PROVE  k \in 1 .. Len(v.elf.phdrs) /\ k \in Nat /\ k <= n /\ Header(v, k).type = "load"
           /\ k \in LoadsOf(v)
<1> DEFINE len == Len(v.elf.phdrs)
<1>1. v.elf.phdrs \in Seq([type : STRING, vaddr : Int, fsize : Nat, msize : Nat, offset : Nat])
  BY LoaderAssumption
<1>2. len \in Nat /\ DOMAIN v.elf.phdrs = 1 .. len
  BY <1>1
<1>3. k \in 1 .. n /\ n <= len /\ Header(v, k).type = "load"
  BY DEF LoadsTo
<1> HIDE DEF len
<1>4. k \in 1 .. len /\ k \in Nat /\ k <= n
  BY <1>2, <1>3
<1> QED
  BY <1>2, <1>3, <1>4 DEF len, LoadsOf, Header

LEMMA NextLoads ==
    ASSUME NEW v, NEW n \in Nat
    PROVE  /\ Header(v, n + 1).type = "load" => LoadsTo(v, n + 1) = LoadsTo(v, n) \cup {n + 1}
           /\ Header(v, n + 1).type # "load" => LoadsTo(v, n + 1) = LoadsTo(v, n)
<1>1. 1 .. n + 1 = (1 .. n) \cup {n + 1}
  OBVIOUS
<1> QED
  BY <1>1 DEF LoadsTo

\* No header yet.
LEMMA NoHeaders ==
    ASSUME NEW v, NEW mem, NEW kernel
    PROVE  BoundsTo(v, -1, 0, 0) /\ SegmentsTo(v, mem, kernel, 0)
<1>1. LoadsTo(v, 0) = {}
  BY DEF LoadsTo
<1> QED
  BY <1>1 DEF BoundsTo, SegmentsTo

\* The bounds behind one header more.
LEMMA BoundsOn ==
    ASSUME NEW v \in BootVolumes, Loadable(v), NEW n \in Nat, n <= Len(v.elf.phdrs), n + 1 \in 1 .. Len(v.elf.phdrs),
           NEW lowest, NEW highest, BoundsTo(v, lowest, highest, n), Header(v, n + 1).type = "load"
    PROVE  BoundsTo(v, IF lowest = -1 \/ Header(v, n + 1).vaddr < lowest
                       THEN Header(v, n + 1).vaddr ELSE lowest,
                    Max({highest, Highest(Header(v, n + 1))}), n + 1)
<1> DEFINE h == Header(v, n + 1)
           low == IF lowest = -1 \/ h.vaddr < lowest THEN h.vaddr ELSE lowest
           high == Max({highest, Highest(h)})
<1>1. h.vaddr \in Nat /\ Highest(h) \in Nat
  BY HeaderNumbers
<1>2. LoadsTo(v, n + 1) = LoadsTo(v, n) \cup {n + 1}
  BY NextLoads
<1>3. ASSUME NEW k \in LoadsTo(v, n)
      PROVE  Header(v, k).vaddr \in Nat /\ Highest(Header(v, k)) \in Nat
  BY LoadIndex, HeaderNumbers
<1>4. highest \in Nat
  BY <1>3 DEF BoundsTo
<1>5. high \in {highest, Highest(h)} /\ highest <= high /\ Highest(h) <= high
  <2> DEFINE g == Highest(h)
  <2>1. g \in Nat
    BY <1>1
  <2> HIDE DEF g
  <2>2. \E m \in {highest, g} : \A x \in {highest, g} : x <= m
    BY <1>4, <2>1
  <2>3. Max({highest, g}) \in {highest, g} /\ \A x \in {highest, g} : x <= Max({highest, g})
    BY <2>2 DEF Max
  <2> QED
    BY <2>3 DEF g
<1> HIDE DEF h, high
<1>6. low \in Nat /\ low <= h.vaddr /\ (LoadsTo(v, n) # {} => low <= lowest)
  <2>1. lowest = -1 \/ lowest \in Nat
    BY DEF BoundsTo
  <2> QED
    BY <1>1, <2>1 DEF BoundsTo
<1>7. \A k \in LoadsTo(v, n + 1) : low <= Header(v, k).vaddr /\ Highest(Header(v, k)) <= high
  <2> SUFFICES ASSUME NEW k \in LoadsTo(v, n + 1)
               PROVE  low <= Header(v, k).vaddr /\ Highest(Header(v, k)) <= high
    OBVIOUS
  <2>1. CASE k = n + 1
    BY <1>5, <1>6, <2>1 DEF h
  <2>2. CASE k \in LoadsTo(v, n)
    <3>1. lowest <= Header(v, k).vaddr /\ Highest(Header(v, k)) <= highest /\ low <= lowest
      BY <1>6, <2>2 DEF BoundsTo
    <3>2. lowest \in Nat /\ Header(v, k).vaddr \in Nat /\ Highest(Header(v, k)) \in Nat
      BY <1>3, <2>2 DEF BoundsTo
    <3>3. high \in Nat
      BY <1>1, <1>4, <1>5
    <3> HIDE DEF low
    <3> QED
      BY <1>4, <1>5, <1>6, <3>1, <3>2, <3>3
  <2> QED
    BY <1>2, <2>1, <2>2
<1>8. \E k \in LoadsTo(v, n + 1) : high = Highest(Header(v, k))
  <2>1. CASE high = Highest(h)
    BY <1>2, <2>1 DEF h
  <2>2. CASE high = highest /\ LoadsTo(v, n) # {}
    BY <1>2, <2>2 DEF BoundsTo
  <2>3. CASE high = highest /\ LoadsTo(v, n) = {}
    <3>1. highest = 0
      BY <2>3 DEF BoundsTo
    <3>2. Highest(h) = high
      BY <1>1, <1>5, <2>3, <3>1
    <3> QED
      BY <2>1, <3>2
  <2> QED
    BY <1>5, <2>1, <2>2, <2>3
<1> HIDE DEF low
<1>9. BoundsTo(v, low, high, n + 1)
  BY <1>2, <1>6, <1>7, <1>8 DEF BoundsTo
<1> QED
  BY <1>9 DEF low, high, h

\* A segment is loaded, the others stay.
LEMMA SegmentsOn ==
    ASSUME NEW v \in BootVolumes, Loadable(v), NEW n \in Nat, n <= Len(v.elf.phdrs), n + 1 \in 1 .. Len(v.elf.phdrs),
           NEW mem, NEW kernel, SegmentsTo(v, mem, kernel, n), Header(v, n + 1).type = "load"
    PROVE  /\ Header(v, n + 1).fsize = 0 => SegmentsTo(v, mem, kernel, n + 1)
           /\ SegmentsTo(v, Stored(mem, Header(v, n + 1).vaddr,
                                   Content(v, kernel, Header(v, n + 1).offset, Header(v, n + 1).fsize)),
                         kernel, n + 1)
<1> DEFINE h == Header(v, n + 1)
           bytes == Content(v, kernel, h.offset, h.fsize)
           mem1 == Stored(mem, h.vaddr, bytes)
<1>1. LoadsTo(v, n + 1) = LoadsTo(v, n) \cup {n + 1}
  BY NextLoads
<1>2. /\ h.vaddr \in Nat /\ h.fsize \in Nat /\ h.fsize <= h.msize /\ h.msize \in Nat
      /\ \A i \in 0 .. h.msize - 1 : h.vaddr + i \in Memory
  BY HeaderNumbers
<1>3. IsBytes(bytes, h.fsize)
  BY <1>2, ContentBytes
<1>4. \A i \in 0 .. h.fsize - 1 : h.vaddr + i \in Memory
  BY <1>2
<1>5. HoldsIn(mem1, h.vaddr, bytes)
  <2> HIDE DEF bytes, h
  <2> QED
    BY <1>2, <1>3, <1>4, StoredHolds
<1>6. ASSUME NEW k \in LoadsTo(v, n) PROVE Loaded(v, mem1, kernel, k)
  <2> DEFINE g == Header(v, k)
             kept == Content(v, kernel, g.offset, g.fsize)
  <2>1. k \in 1 .. Len(v.elf.phdrs) /\ g.type = "load" /\ k # n + 1 /\ k \in LoadsOf(v)
    BY LoadIndex
  <2>2. /\ g.vaddr \in Nat /\ g.fsize \in Nat /\ g.fsize <= g.msize /\ g.msize \in Nat
        /\ \A i \in 0 .. g.msize - 1 : g.vaddr + i \in Memory
    BY <2>1, HeaderNumbers
  <2>3. IsBytes(kept, g.fsize)
    BY <2>2, ContentBytes
  <2>4. (g.vaddr .. g.vaddr + g.fsize - 1) \cap (h.vaddr .. h.vaddr + h.fsize - 1) = {}
    <3>1. v.elf.phdrs \in Seq([type : STRING, vaddr : Int, fsize : Nat, msize : Nat, offset : Nat])
      BY LoaderAssumption
    <3>2. DOMAIN v.elf.phdrs = 1 .. Len(v.elf.phdrs)
      BY <3>1
    <3>3. k \in LoadsOf(v) /\ n + 1 \in LoadsOf(v)
      BY <2>1, <3>2 DEF LoadsOf, Header
    <3> QED
      BY <2>1, <3>3 DEF Loadable, Header
  <2>5. \A i \in 0 .. g.fsize - 1 : g.vaddr + i \in Memory /\ g.vaddr + i \notin h.vaddr .. h.vaddr + h.fsize - 1
    <3> SUFFICES ASSUME NEW i \in 0 .. g.fsize - 1
                 PROVE  g.vaddr + i \in Memory /\ g.vaddr + i \notin h.vaddr .. h.vaddr + h.fsize - 1
      OBVIOUS
    <3> DEFINE base == g.vaddr
               fsize == g.fsize
               msize == g.msize
    <3>1. i \in 0 .. msize - 1 /\ base + i \in base .. base + fsize - 1
      <4>1. base \in Nat /\ fsize \in Nat /\ msize \in Nat /\ fsize <= msize /\ i \in 0 .. fsize - 1
        BY <2>2
      <4> HIDE DEF base, fsize, msize
      <4> QED
        BY <4>1
    <3>2. base + i \in Memory
      BY <2>2, <3>1
    <3> QED
      BY <2>2, <2>4, <3>1, <3>2
  <2>6. HoldsIn(mem, g.vaddr, kept)
    BY DEF SegmentsTo, Loaded
  <2>7. HoldsIn(mem1, g.vaddr, kept)
    <3> DEFINE base == h.vaddr
               n1 == h.fsize
               b == g.vaddr
               m == g.fsize
    <3>1. /\ base \in Int /\ b \in Int /\ IsBytes(bytes, n1) /\ IsBytes(kept, m) /\ HoldsIn(mem, b, kept)
          /\ \A i \in 0 .. m - 1 : b + i \in Memory /\ b + i \notin base .. base + n1 - 1
      BY <1>2, <1>3, <2>2, <2>3, <2>5, <2>6
    <3> HIDE DEF base, n1, b, m, kept, bytes
    <3>2. HoldsIn(Stored(mem, base, bytes), b, kept)
      BY <3>1, StoredApart
    <3> QED
      BY <3>2 DEF base, b
  <2> QED
    BY <2>7 DEF Loaded
<1>7. SegmentsTo(v, mem1, kernel, n + 1)
  BY <1>1, <1>5, <1>6 DEF SegmentsTo, Loaded
<1>8. ASSUME h.fsize = 0 PROVE SegmentsTo(v, mem, kernel, n + 1)
  <2>1. HoldsIn(mem, h.vaddr, bytes)
    <3>1. Len(bytes) = 0
      BY <1>3, <1>8 DEF IsBytes
    <3> HIDE DEF bytes, h
    <3> QED
      BY <3>1 DEF HoldsIn
  <2> QED
    BY <1>1, <2>1 DEF SegmentsTo, Loaded
<1> QED
  BY <1>7, <1>8

-----------------------------------------------------------------------------
(* The pieces behind the kernel *)

LEMMA SaidSeq ==
    ASSUME NEW v \in BootVolumes, NEW key \in {"kernel", "initrd", "cmd", "gfx"}
    PROVE  Said(v.ini, key) \in Seq(Letters)
<1> DEFINE f == v.ini
           places == {p \in Breaks(f) \ {Len(f) + 1} : Assigns(LineFrom(f, p), key)}
<1>1. IsText(f)
  BY TextsAreTexts
<1>2. CASE places = {}
  <2>1. Said(f, key) = Defaults[key]
    BY <1>2 DEF Said
  <2>2. Defaults[key] \in Seq(STRING)
    BY BootOptsAssumption
  <2>3. STRING \subseteq Letters
    BY DEF Letters
  <2>4. Defaults[key] \in Seq(Letters)
    BY <2>2, <2>3, SeqMonotonic
  <2> QED
    BY <2>1, <2>4
<1>3. CASE places # {}
  <2>1. Len(f) \in Nat /\ places \subseteq 0 .. Len(f)
    BY <1>1, BreakIs
  <2>2. \E x \in places : \A y \in places : y <= x
    <3> HIDE DEF places
    <3>1. places \subseteq Nat /\ \A x \in places : x <= Len(f)
      BY <2>1
    <3> QED
      BY <1>3, <2>1, <3>1, Largest
  <2> DEFINE m == Max(places)
             L == LineFrom(f, m)
             b == Begins(f, m)
             e == Ends(f, m)
  <2>3. m \in places
    <3> HIDE DEF places
    <3> QED
      BY <2>2 DEF Max
  <2>4. m \in Breaks(f) /\ m <= Len(f) /\ Len(L) >= 2
    <3>1. m \in 0 .. Len(f) /\ m \in Breaks(f) /\ Assigns(L, key)
      BY <2>1, <2>3
    <3> QED
      BY <2>1, <3>1 DEF Assigns
  <2>5. L \in Seq(Letters)
    <3> HIDE DEF m, f
    <3>1. L = SubSeq(f, b, e - 1) /\ b \in 1 .. e /\ e \in 1 .. Len(f) + 1 /\ f \in Seq(Letters) /\ Len(f) \in Nat
      <4>1. m \in Nat /\ m + 1 \in Nat
        BY <1>1, <2>4, BreakIs
      <4>2. b \in m + 1 .. e /\ e \in m + 1 .. Len(f) + 1 /\ Len(f) \in Nat
        BY <1>1, <2>4, LineFacts, BreakIs
      <4>3. L = SubSeq(f, b, e - 1) /\ f \in Seq(Letters)
        BY <1>1, <2>4, LineIs DEF IsText
      <4> HIDE DEF b, e, L
      <4> QED
        BY <4>1, <4>2, <4>3
    <3> HIDE DEF b, e, L
    <3>2. SubSeq(f, b, e - 1) \in Seq(Letters)
      BY <3>1
    <3> QED
      BY <3>1, <3>2
  <2>6. SubSeq(L, 3, Len(L)) \in Seq(Letters)
    <3> HIDE DEF L
    <3> QED
      BY <2>4, <2>5
  <2>7. Said(f, key) = SubSeq(L, 3, Len(L))
    BY <1>3 DEF Said
  <2> QED
    BY <2>6, <2>7
<1> QED
  BY <1>2, <1>3

\* The command line with its terminator.
CmdBytes(v) == Bytes(Append(Said(v.ini, "cmd"), NUL), Char)
CmdLen(v) == Len(Said(v.ini, "cmd"))

LEMMA CmdIsBytes ==
    ASSUME NEW v \in BootVolumes
    PROVE  CmdLen(v) \in Nat /\ IsBytes(CmdBytes(v), CmdLen(v) + 1)
<1> DEFINE cmd == Said(v.ini, "cmd")
           whole == Append(cmd, NUL)
           n == Len(cmd)
<1>1. cmd \in Seq(Letters)
  BY SaidSeq
<1>2. cmd \in Seq(Letters \cup {NUL})
  <2> HIDE DEF cmd
  <2>1. Letters \subseteq Letters \cup {NUL}
    OBVIOUS
  <2> QED
    BY <1>1, <2>1, SeqMonotonic
<1>3. n \in Nat /\ DOMAIN whole = 1 .. n + 1
  <2> HIDE DEF cmd
  <2> QED
    BY <1>2
<1>4. Bytes(whole, Char) = [k \in 1 .. n + 1 |-> Char(whole[k])]
  <2> HIDE DEF n, whole
  <2> QED
    BY <1>3 DEF Bytes
<1> DEFINE g == [k \in 1 .. n + 1 |-> Char(whole[k])]
<1>5. DOMAIN g = 1 .. n + 1 /\ Len(g) = n + 1
  <2> HIDE DEF n, whole
  <2> QED
    BY <1>3
<1> HIDE DEF g, whole
<1>6. Bytes(whole, Char) = g
  BY <1>4 DEF g
<1> QED
  BY <1>3, <1>5, <1>6 DEF IsBytes, CmdBytes, CmdLen, whole

\* One entry of the firmware's map.
Entry(n) == [k \in 1 .. EntryBytes |-> MapByte(n, k)]

LEMMA EntryIsBytes ==
    ASSUME NEW n
    PROVE  EntryBytes \in Nat \ {0} /\ IsBytes(Entry(n), EntryBytes)
<1>1. EntryBytes \in Nat \ {0}
  BY BootInfoAssumption
<1> DEFINE g == [k \in 1 .. EntryBytes |-> MapByte(n, k)]
<1>2. DOMAIN g = 1 .. EntryBytes /\ Len(g) = EntryBytes
  BY <1>1
<1> QED
  BY <1>1, <1>2 DEF IsBytes, Entry

MapAt(v, high, f) == high + f.size + (CmdLen(v) + 1)
PlacedIn(v, mem, high, f, count) ==
    /\ HoldsIn(mem, high, Content(v, f, 0, f.size))
    /\ HoldsIn(mem, high + f.size, CmdBytes(v))
    /\ \A n \in 0 .. count - 1 : HoldsIn(mem, MapAt(v, high, f) + n * EntryBytes, Entry(n))

\* The addresses they need.
Room(v, high, f) ==
    \A n \in 0 .. (f.size + (CmdLen(v) + 1) + Max(MapCounts) * EntryBytes + InfoBytes) - 1 : high + n \in Memory

\* Where all headers are dealt with, there is room behind the kernel.
LEMMA RoomIs ==
    ASSUME NEW v \in BootVolumes, Loadable(v), NEW low, NEW high,
           BoundsTo(v, low, high, Len(v.elf.phdrs))
    PROVE  /\ low \in Nat /\ high \in Nat
           /\ \A f \in Candidates(v, "initrd") : Room(v, high, f)
<1>1. v.elf.phdrs \in Seq([type : STRING, vaddr : Int, fsize : Nat, msize : Nat, offset : Nat])
  BY LoaderAssumption
<1>2. DOMAIN v.elf.phdrs = 1 .. Len(v.elf.phdrs) /\ Len(v.elf.phdrs) \in Nat
  BY <1>1
<1>3. LoadsTo(v, Len(v.elf.phdrs)) = LoadsOf(v) /\ LoadsOf(v) # {}
  BY <1>2 DEF LoadsTo, LoadsOf, Header, Loadable
<1>4. low \in Nat
  BY <1>3 DEF BoundsTo
<1>5. PICK k \in LoadsOf(v) : high = Highest(Header(v, k))
  BY <1>3 DEF BoundsTo
<1>6. high \in Nat
  BY <1>2, <1>3, <1>5, LoadIndex, HeaderNumbers
<1>7. ASSUME NEW f \in Candidates(v, "initrd") PROVE Room(v, high, f)
  <2> DEFINE behind == f.size + (Len(Said(v.ini, "cmd")) + 1) + Max(MapCounts) * EntryBytes + InfoBytes
  <2>1. \A n \in 0 .. behind - 1 : v.elf.phdrs[k].vaddr + v.elf.phdrs[k].msize + n \in Memory
    BY DEF Loadable
  <2>2. high = v.elf.phdrs[k].vaddr + v.elf.phdrs[k].msize
    BY <1>5 DEF Highest, Header
  <2> QED
    BY <2>1, <2>2 DEF Room, CmdLen
<1> QED
  BY <1>4, <1>6, <1>7

\* What is written behind the kernel leaves its segments alone.
LEMMA SegmentsStay ==
    ASSUME NEW v \in BootVolumes, Loadable(v), NEW low, NEW high, NEW mem, NEW kernel,
           BoundsTo(v, low, high, Len(v.elf.phdrs)), SegmentsTo(v, mem, kernel, Len(v.elf.phdrs)),
           NEW base \in Int, high <= base, NEW bytes, NEW n, IsBytes(bytes, n)
    PROVE  SegmentsTo(v, Stored(mem, base, bytes), kernel, Len(v.elf.phdrs))
<1>1. v.elf.phdrs \in Seq([type : STRING, vaddr : Int, fsize : Nat, msize : Nat, offset : Nat])
  BY LoaderAssumption
<1>2. Len(v.elf.phdrs) \in Nat
  BY <1>1
<1> SUFFICES ASSUME NEW k \in LoadsTo(v, Len(v.elf.phdrs))
             PROVE  Loaded(v, Stored(mem, base, bytes), kernel, k)
  BY DEF SegmentsTo
<1> DEFINE g == Header(v, k)
           kept == Content(v, kernel, g.offset, g.fsize)
           b == g.vaddr
           m == g.fsize
           s == g.msize
<1>3. k \in 1 .. Len(v.elf.phdrs) /\ Header(v, k).type = "load"
  BY <1>2, LoadIndex
<1>4. b \in Nat /\ m \in Nat /\ s \in Nat /\ m <= s /\ \A i \in 0 .. s - 1 : b + i \in Memory
  BY <1>3, HeaderNumbers
<1>5. b + s <= high /\ high \in Nat
  BY RoomIs DEF BoundsTo, Highest
<1>6. IsBytes(kept, m) /\ HoldsIn(mem, b, kept)
  BY <1>4, ContentBytes DEF SegmentsTo, Loaded
<1> HIDE DEF kept, b, m, s
<1>7. n \in Nat
  BY DEF IsBytes
<1>8. ASSUME NEW i \in 0 .. m - 1 PROVE b + i \in Memory /\ b + i \notin base .. base + n - 1
  <2>1. i \in 0 .. s - 1 /\ b + i < base
    BY <1>4, <1>5
  <2> QED
    BY <1>4, <1>7, <2>1
<1>9. HoldsIn(Stored(mem, base, bytes), b, kept)
  <2>1. b \in Int /\ \A i \in 0 .. m - 1 : b + i \in Memory /\ b + i \notin base .. base + n - 1
    BY <1>4, <1>8
  <2> QED
    BY <1>6, <2>1, StoredApart
<1> QED
  BY <1>9 DEF Loaded, b, kept

LEMMA Times ==
    ASSUME NEW n \in Nat, NEW m \in Nat, n <= m
    PROVE  n * EntryBytes \in Nat /\ m * EntryBytes \in Nat /\ n * EntryBytes <= m * EntryBytes
           /\ (n + 1) * EntryBytes = n * EntryBytes + EntryBytes
<1>1. EntryBytes \in Nat
  BY EntryIsBytes
<1> DEFINE e == EntryBytes
<1>2. e \in Nat
  BY <1>1
<1> HIDE DEF e
<1>3. n * e \in Nat /\ m * e \in Nat /\ (n + 1) * e = n * e + e
  BY <1>2
<1>4. PICK d \in Nat : m = n + d
  <2>1. m - n \in Nat /\ m = n + (m - n)
    OBVIOUS
  <2> QED
    BY <2>1
<1>5. d * e \in Nat /\ m * e = n * e + d * e
  BY <1>2, <1>4
<1>6. n * e <= m * e
  BY <1>3, <1>5
<1> QED
  BY <1>3, <1>6 DEF e

\* What is written behind the last entry leaves the pieces alone.
LEMMA PiecesStay ==
    ASSUME NEW v \in BootVolumes, NEW high \in Nat, NEW f, f.size \in Nat, Room(v, high, f), NEW mem,
           NEW count \in Nat, Max(MapCounts) \in Nat, count <= Max(MapCounts),
           PlacedIn(v, mem, high, f, count), NEW bytes, NEW n, IsBytes(bytes, n)
    PROVE  PlacedIn(v, Stored(mem, MapAt(v, high, f) + count * EntryBytes, bytes), high, f, count)
<1> DEFINE size == f.size
           cmd == CmdLen(v)
           at == high + size + (cmd + 1)
           total == count * EntryBytes
           most == Max(MapCounts) * EntryBytes
           base == at + total
           all == size + (cmd + 1) + most + InfoBytes
           mem1 == Stored(mem, base, bytes)
<1>1. size \in Nat /\ cmd \in Nat /\ IsBytes(CmdBytes(v), cmd + 1) /\ EntryBytes \in Nat \ {0} /\ InfoBytes \in Nat
  BY CmdIsBytes, EntryIsBytes, BootInfoAssumption
<1>2. total \in Nat /\ most \in Nat /\ total <= most
  BY Times
<1>3. at \in Nat /\ base \in Nat /\ all \in Nat /\ high <= at /\ at <= base
  <2> HIDE DEF size, cmd, total, most
  <2> QED
    BY <1>1, <1>2
<1>4. n \in Nat /\ MapAt(v, high, f) = at /\ \A i \in 0 .. all - 1 : high + i \in Memory
  BY DEF IsBytes, MapAt, Room
<1>5. HoldsIn(mem1, high, Content(v, f, 0, f.size))
  <2> DEFINE kept == Content(v, f, 0, f.size)
  <2>1. IsBytes(kept, size) /\ HoldsIn(mem, high, kept)
    BY <1>1, ContentBytes DEF PlacedIn
  <2>2. \A i \in 0 .. size - 1 : high + i \in Memory /\ high + i \notin base .. base + n - 1
    <3>1. ASSUME NEW i \in 0 .. size - 1 PROVE high + i \in Memory /\ high + i \notin base .. base + n - 1
      <4>1. i \in 0 .. all - 1 /\ high + i < base
        <5> HIDE DEF size, cmd, total, most
        <5> QED
          BY <1>1, <1>2, <3>1
      <4> HIDE DEF base, all
      <4> QED
        BY <1>3, <1>4, <4>1
    <3> QED
      BY <3>1
  <2> HIDE DEF kept, base, size
  <2> QED
    BY <1>3, <2>1, <2>2, StoredApart DEF kept
<1>6. HoldsIn(mem1, high + f.size, CmdBytes(v))
  <2> DEFINE b == high + size
             m == cmd + 1
  <2>1. HoldsIn(mem, b, CmdBytes(v)) /\ IsBytes(CmdBytes(v), m) /\ b \in Int
    BY <1>1 DEF PlacedIn
  <2>2. \A i \in 0 .. m - 1 : b + i \in Memory /\ b + i \notin base .. base + n - 1
    <3>1. ASSUME NEW i \in 0 .. m - 1 PROVE b + i \in Memory /\ b + i \notin base .. base + n - 1
      <4>1. size + i \in 0 .. all - 1 /\ b + i < base /\ b + i = high + (size + i)
        <5> HIDE DEF size, cmd, total, most
        <5> QED
          BY <1>1, <1>2, <3>1
      <4> HIDE DEF base, all, b, size
      <4> QED
        BY <1>3, <1>4, <4>1
    <3> QED
      BY <3>1
  <2>3. HoldsIn(mem1, b, CmdBytes(v))
    <3> HIDE DEF base, size, b, m
    <3> QED
      BY <1>3, <2>1, <2>2, StoredApart
  <2> QED
    BY <2>3
<1>7. ASSUME NEW l \in 0 .. count - 1
      PROVE  HoldsIn(mem1, MapAt(v, high, f) + l * EntryBytes, Entry(l))
  <2> DEFINE here == l * EntryBytes
             b == at + here
             e == EntryBytes
  <2>1. here \in Nat /\ here + e <= total /\ e \in Nat
    <3>1. l \in Nat /\ l + 1 \in Nat /\ l + 1 <= count
      OBVIOUS
    <3>2. (l + 1) * e <= total /\ (l + 1) * e = here + e /\ here \in Nat
      BY <3>1, Times
    <3> QED
      BY <1>1, <3>2
  <2>2. HoldsIn(mem, b, Entry(l)) /\ IsBytes(Entry(l), e)
    BY <1>4, EntryIsBytes DEF PlacedIn
  <2>3. \A i \in 0 .. e - 1 : b + i \in Memory /\ b + i \notin base .. base + n - 1
    <3>1. ASSUME NEW i \in 0 .. e - 1 PROVE b + i \in Memory /\ b + i \notin base .. base + n - 1
      <4>1. /\ size + (cmd + 1) + (here + i) \in 0 .. all - 1 /\ b + i < base
            /\ b + i = high + (size + (cmd + 1) + (here + i))
        <5> HIDE DEF size, cmd, total, most, here, e
        <5> QED
          BY <1>1, <1>2, <2>1, <3>1
      <4> DEFINE j == size + (cmd + 1) + (here + i)
      <4>2. j \in 0 .. all - 1 /\ b + i < base /\ b + i = high + j
        BY <4>1
      <4> HIDE DEF base, all, b, j
      <4> QED
        BY <1>3, <1>4, <4>2
    <3> QED
      BY <3>1
  <2>4. b \in Int
    BY <1>3, <2>1
  <2>5. HoldsIn(mem1, b, Entry(l))
    <3> HIDE DEF base, b, e
    <3> QED
      BY <1>3, <2>2, <2>3, <2>4, StoredApart
  <2> QED
    BY <1>4, <2>5
<1>8. Stored(mem, MapAt(v, high, f) + count * EntryBytes, bytes) = mem1
  BY <1>4
<1> HIDE DEF mem1
<1> QED
  BY <1>5, <1>6, <1>7, <1>8 DEF PlacedIn

\* One entry more.
LEMMA EntryAdded ==
    ASSUME NEW v \in BootVolumes, NEW high \in Nat, NEW f, f.size \in Nat, Room(v, high, f), NEW mem,
           NEW count \in Nat, Max(MapCounts) \in Nat, count < Max(MapCounts),
           PlacedIn(v, mem, high, f, count)
    PROVE  PlacedIn(v, Stored(mem, MapAt(v, high, f) + count * EntryBytes, Entry(count)), high, f, count + 1)
<1> DEFINE size == f.size
           cmd == CmdLen(v)
           e == EntryBytes
           total == count * e
           most == Max(MapCounts) * e
           behind == size + (cmd + 1)
           base == high + behind + total
           mem1 == Stored(mem, MapAt(v, high, f) + count * EntryBytes, Entry(count))
<1>1. size \in Nat /\ cmd \in Nat /\ e \in Nat \ {0} /\ InfoBytes \in Nat /\ IsBytes(Entry(count), e)
  BY CmdIsBytes, EntryIsBytes, BootInfoAssumption
<1>2. total \in Nat /\ most \in Nat /\ total + e <= most
  <2>1. count + 1 \in Nat /\ count + 1 <= Max(MapCounts)
    OBVIOUS
  <2> DEFINE more == (count + 1) * e
  <2>2. more \in Nat /\ most \in Nat /\ more <= most
    BY <2>1, Times
  <2>3. total \in Nat /\ more = total + e
    BY Times
  <2> HIDE DEF total, most, more
  <2> QED
    BY <2>2, <2>3
<1>3. MapAt(v, high, f) + count * EntryBytes = base
  <2>1. high + size + (cmd + 1) = high + behind
    <3> HIDE DEF size, cmd
    <3> QED
      BY <1>1
  <2> QED
    BY <2>1 DEF MapAt
<1>4. PlacedIn(v, mem1, high, f, count)
  BY <1>1, PiecesStay
<1>5. HoldsIn(mem1, base, Entry(count))
  <2>1. ASSUME NEW i \in 0 .. e - 1 PROVE base + i \in Memory
    <3> DEFINE j == behind + (total + i)
    <3>1. j \in 0 .. (size + (cmd + 1) + most + InfoBytes) - 1 /\ base + i = high + j
      <4> HIDE DEF size, cmd, total, most, e
      <4> QED
        BY <1>1, <1>2, <2>1
    <3> QED
      BY <3>1 DEF Room
  <2>2. base \in Int
    <3> HIDE DEF size, cmd, total
    <3> QED
      BY <1>1, <1>2
  <2> HIDE DEF base, e
  <2>3. HoldsIn(Stored(mem, base, Entry(count)), base, Entry(count))
    BY <1>1, <2>1, <2>2, StoredHolds
  <2> QED
    BY <1>3, <2>3
<1>6. ASSUME NEW l \in 0 .. count
      PROVE  HoldsIn(mem1, MapAt(v, high, f) + l * EntryBytes, Entry(l))
  <2>1. CASE l = count
    BY <1>3, <1>5, <2>1
  <2>2. CASE l \in 0 .. count - 1
    BY <1>4, <2>2 DEF PlacedIn
  <2> QED
    BY <2>1, <2>2
<1>7. 0 .. (count + 1) - 1 = 0 .. count
  OBVIOUS
<1> HIDE DEF mem1
<1>8. PlacedIn(v, mem1, high, f, count + 1)
  BY <1>4, <1>6, <1>7 DEF PlacedIn
<1> QED
  BY <1>8 DEF mem1

\* The initrd, and the command line behind it.
LEMMA BothStored ==
    ASSUME NEW v \in BootVolumes, NEW high \in Nat, NEW f, f.size \in Nat, Room(v, high, f), NEW mem,
           Max(MapCounts) \in Nat
    PROVE  PlacedIn(v, Stored(Stored(mem, high, Content(v, f, 0, f.size)), high + f.size, CmdBytes(v)), high, f, 0)
<1> DEFINE size == f.size
           cmd == CmdLen(v)
           most == Max(MapCounts) * EntryBytes
           behind == high + size
           initrd == Content(v, f, 0, f.size)
           mem1 == Stored(mem, high, initrd)
           mem2 == Stored(mem1, behind, CmdBytes(v))
<1>1. /\ size \in Nat /\ cmd \in Nat /\ most \in Nat /\ InfoBytes \in Nat
      /\ IsBytes(CmdBytes(v), cmd + 1) /\ IsBytes(initrd, size)
  <2>1. IsBytes(initrd, size) /\ size \in Nat
    BY ContentBytes
  <2>2. cmd \in Nat /\ IsBytes(CmdBytes(v), cmd + 1)
    BY CmdIsBytes
  <2>3. most \in Nat
    BY Times
  <2> QED
    BY <2>1, <2>2, <2>3, BootInfoAssumption
<1>2. ASSUME NEW i \in 0 .. size - 1
      PROVE  high + i \in Memory /\ high + i \notin behind .. behind + (cmd + 1) - 1
  <2>1. i \in 0 .. (size + (cmd + 1) + most + InfoBytes) - 1 /\ high + i < behind
    <3> HIDE DEF size, cmd, most
    <3> QED
      BY <1>1, <1>2
  <2>2. high + i \in Memory
    BY <2>1 DEF Room
  <2>3. high + i \notin behind .. behind + (cmd + 1) - 1
    BY <2>1
  <2> QED
    BY <2>2, <2>3
<1>3. ASSUME NEW i \in 0 .. (cmd + 1) - 1
      PROVE  behind + i \in Memory
  <2>1. size + i \in 0 .. (size + (cmd + 1) + most + InfoBytes) - 1 /\ behind + i = high + (size + i)
    <3> HIDE DEF size, cmd, most
    <3> QED
      BY <1>1, <1>3
  <2> QED
    BY <2>1 DEF Room
<1>4. behind \in Int /\ high \in Int
  BY <1>1
<1>5. HoldsIn(mem1, high, initrd)
  <2> HIDE DEF initrd, size
  <2> QED
    BY <1>1, <1>2, <1>4, StoredHolds
<1>6. HoldsIn(mem2, high, initrd)
  <2> DEFINE n == cmd + 1
  <2>1. IsBytes(CmdBytes(v), n) /\ \A i \in 0 .. size - 1 : high + i \in Memory /\ high + i \notin behind .. behind + n - 1
    BY <1>1, <1>2
  <2> HIDE DEF initrd, size, behind, mem1, n
  <2> QED
    BY <1>1, <1>4, <1>5, <2>1, StoredApart
<1>7. HoldsIn(mem2, behind, CmdBytes(v))
  <2> DEFINE n == cmd + 1
  <2>1. IsBytes(CmdBytes(v), n) /\ \A i \in 0 .. n - 1 : behind + i \in Memory
    BY <1>1, <1>3
  <2> HIDE DEF mem1, n, behind
  <2> QED
    BY <1>4, <2>1, StoredHolds
<1>8. 0 .. 0 - 1 = {}
  OBVIOUS
<1> QED
  BY <1>6, <1>7, <1>8 DEF PlacedIn

-----------------------------------------------------------------------------
(* A call keeps its parameters *)

Shape(j) ==
    j = [op |-> j.op, name |-> j.name, file |-> j.file, count |-> j.count, asked |-> j.asked,
         offset |-> j.offset, wanted |-> j.wanted, head |-> j.head, out |-> j.out,
         ret |-> j.ret, failed |-> j.failed]

SameCall(j, i) ==
    /\ i.op = j.op /\ i.name = j.name /\ i.asked = j.asked /\ i.offset = j.offset
    /\ j.op = "read" => i.file = j.file

LEMMA OnwardKeeps ==
    ASSUME NEW j, Shape(j), NEW c, Onward(j, c)
    PROVE  SameCall(j, job') /\ job'.file = j.file
<1>1. \/ job' = [j EXCEPT !.wanted = @ - 1]
      \/ job' = j
      \/ job' = [j EXCEPT !.ret = Len(j.out)]
  BY DEF Onward, Return
<1> QED
  BY <1>1 DEF Shape, SameCall

LEMMA CallKept ==
    ASSUME IInv, Onwards \/ \E e \in Errors : BiosFails(e)
    PROVE  SameCall(job, job')
<1>1. Shape(job)
  BY DEF IInv, FatInv, JobType, JobRec, Shape
<1>2. CASE Mount \/ Mounted \/ MountFails \/ (WalkNext /\ UNCHANGED job) \/ BiosReads
  <2>1. job' = job
    BY <1>2 DEF Mount, Mounted, MountFails, BiosReads
  <2> QED
    BY <2>1 DEF SameCall
<1>3. CASE WalkNext /\ ~UNCHANGED job
  <2>1. job' = [job EXCEPT !.ret = NOENTRY]
    BY <1>3 DEF WalkNext, Return
  <2>2. job'.op = job.op /\ job'.name = job.name /\ job'.asked = job.asked /\ job'.offset = job.offset
        /\ job'.file = job.file
    BY <1>1, <2>1 DEF Shape
  <2> QED
    BY <2>2 DEF SameCall
<1>4. CASE WalkSector
  <2>1. job.op = "walk"
    BY <1>4 DEF WalkSector, IInv, FatInv, Phase
  <2> DEFINE slots == DirAt(drive.buf[1])
             stop == Stops(slots, job.name)
             ent == [cluster |-> slots[Min(stop)].cluster, size |-> slots[Min(stop)].size]
  <2>2. \/ job' = [job EXCEPT !.ret = drive.ret]
        \/ job' = [job EXCEPT !.ret = NOENTRY]
        \/ job' = [[job EXCEPT !.file = ent] EXCEPT !.ret = OK]
        \/ job' = job
    BY <1>4 DEF WalkSector, Return
  <2> HIDE DEF ent
  <2>3. job'.op = job.op /\ job'.name = job.name /\ job'.asked = job.asked /\ job'.offset = job.offset
    BY <1>1, <2>2 DEF Shape
  <2> QED
    BY <2>1, <2>3 DEF SameCall
<1>5. CASE Skip
  BY <1>1, <1>5, OnwardKeeps DEF Skip
<1>6. CASE ReadNext
  BY <1>1, <1>6, OnwardKeeps DEF ReadNext
<1>7. CASE ReadCluster
  <2>1. job' = [job EXCEPT !.ret = drive.ret] \/ job' = Copy(job)
    BY <1>7 DEF ReadCluster, Return
  <2>2. CASE job' = [job EXCEPT !.ret = drive.ret]
    BY <1>1, <2>2 DEF Shape, SameCall
  <2>3. CASE job' = Copy(job)
    <3> DEFINE n == Min({ClusterBytes - job.head, job.count})
               more == [k \in 1 .. n |-> ws(job.head + k - 1)]
    <3>1. job' = [job EXCEPT !.out = @ \o more, !.count = @ - n, !.head = 0]
      BY <2>3 DEF Copy
    <3> HIDE DEF n, more
    <3>2. job'.op = job.op /\ job'.name = job.name /\ job'.asked = job.asked /\ job'.offset = job.offset
          /\ job'.file = job.file
      BY <1>1, <3>1 DEF Shape
    <3> QED
      BY <3>2 DEF SameCall
  <2> QED
    BY <2>1, <2>2, <2>3
<1>8. ASSUME NEW e \in Errors, BiosFails(e) PROVE SameCall(job, job')
  <2>1. job' = [job EXCEPT !.failed = TRUE]
    BY <1>8 DEF BiosFails
  <2> QED
    BY <1>1, <2>1 DEF Shape, SameCall
<1> QED
  <2>1. CASE WalkNext
    BY <2>1, <1>2, <1>3
  <2> QED
    BY <2>1, <1>2, <1>4, <1>5, <1>6, <1>7, <1>8 DEF Onwards, Mount, Mounted, MountFails

\* The parameters of a call that is made.
LEMMA ReadStarts ==
    ASSUME NEW f, NEW n, NEW o, Read(f, n, o)
    PROVE  job'.op = "read" /\ job'.file = f /\ job'.asked = n /\ job'.offset = o
<1> DEFINE count == Clamp(f, n, o)
           wanted == o \div ClusterBytes
           within == o % ClusterBytes
           none == Job("read")
           a == [none EXCEPT !.file = f]
           b == [a EXCEPT !.asked = n]
           j == [b EXCEPT !.offset = o]
           c == [j EXCEPT !.count = count]
           d == [c EXCEPT !.wanted = wanted]
           i == [d EXCEPT !.head = within]
<1>1. Return(j, 0) \/ Onward(i, f.cluster)
  BY DEF Read
<1>2. Shape(none) /\ none.op = "read"
  BY DEF Job, Shape
<1> HIDE DEF count, wanted, within, none
<1>3. Shape(j) /\ j.op = "read" /\ j.file = f /\ j.asked = n /\ j.offset = o
  <2>1. Shape(a) /\ a.op = "read" /\ a.file = f
    BY <1>2 DEF Shape
  <2> HIDE DEF a
  <2>2. Shape(b) /\ b.op = "read" /\ b.file = f /\ b.asked = n
    BY <2>1 DEF Shape
  <2> HIDE DEF b
  <2> QED
    BY <2>2 DEF Shape
<1> HIDE DEF j
<1>4. Shape(i) /\ i.op = "read" /\ i.file = f /\ i.asked = n /\ i.offset = o
  <2>1. Shape(c) /\ c.op = "read" /\ c.file = f /\ c.asked = n /\ c.offset = o
    BY <1>3 DEF Shape
  <2> HIDE DEF c
  <2>2. Shape(d) /\ d.op = "read" /\ d.file = f /\ d.asked = n /\ d.offset = o
    BY <2>1 DEF Shape
  <2> HIDE DEF d
  <2> QED
    BY <2>2 DEF Shape
<1> HIDE DEF i
<1>5. CASE Return(j, 0)
  <2>1. job' = [j EXCEPT !.ret = 0]
    BY <1>5 DEF Return
  <2> QED
    BY <1>3, <2>1 DEF Shape
<1>6. CASE Onward(i, f.cluster)
  <2>1. SameCall(i, job') /\ job'.file = i.file
    BY <1>4, <1>6, OnwardKeeps
  <2> QED
    BY <1>4, <2>1 DEF SameCall
<1> QED
  BY <1>1, <1>5, <1>6

LEMMA WalkStarts ==
    ASSUME NEW name, Walk(name)
    PROVE  job'.op = "walk" /\ job'.name = name
BY DEF Walk, Job
-----------------------------------------------------------------------------
(* The first stage *)

SectorsTo(p, n) == \A k \in 0 .. n - 1 : 2016 + 32 * k \in DOMAIN p /\ p[2016 + 32 * k] = 1 + k

FirstStage ==
    /\ StageFits(stage2) /\ stage2.bytes \in Nat \ {0}
    /\ st1.at = "load" => /\ st1 = [at |-> "load", eax |-> st1.eax, cx |-> 2016 + 32 * (st1.eax - 1),
                                    size |-> ((stage2.bytes - 1) \div SectorBytes) + 1]
                          /\ st1.eax \in Nat \ {0} /\ SectorsTo(paras, st1.eax)
                          /\ st1.eax = 1 \/ st1.eax < st1.size
    /\ st1.at = "jump" => Stage2Complete
    /\ main.at # "stage1" => st1.at = "jump"

LEMMA SectorPut ==
    ASSUME NEW n \in Nat, 1 + n < BiosSectors, NEW p, SectorsTo(p, n), NEW q,
           q = [a \in DOMAIN p \cup {2016 + 32 * n} |-> IF a = 2016 + 32 * n THEN SectorAt(1 + n) ELSE p[a]]
    PROVE  SectorsTo(q, n + 1)
<1> SUFFICES ASSUME NEW k \in 0 .. n
             PROVE  2016 + 32 * k \in DOMAIN q /\ q[2016 + 32 * k] = 1 + k
  <2>1. (n + 1) - 1 = n
    OBVIOUS
  <2> QED
    BY <2>1 DEF SectorsTo
<1>1. SectorAt(1 + n) = 1 + n
  BY Chs
<1> DEFINE a == 2016 + 32 * k
           b == 2016 + 32 * n
<1>2. CASE k = n
  <2>1. a = b
    BY <1>2
  <2> HIDE DEF a
  <2> QED
    BY <1>1, <1>2, <2>1
<1>3. CASE k # n
  <2>1. k \in 0 .. n - 1 /\ a # b
    BY <1>3
  <2>2. a \in DOMAIN p /\ p[a] = 1 + k
    BY <2>1 DEF SectorsTo
  <2> HIDE DEF a, b
  <2>3. a \in DOMAIN q /\ q[a] = p[a]
    BY <2>1, <2>2 DEF b
  <2>4. a \in DOMAIN q /\ q[a] = 1 + k
    BY <2>2, <2>3
  <2> QED
    BY <2>4 DEF a
<1> QED
  BY <1>2, <1>3

LEMMA RunStage1OK ==
    ASSUME FirstStage, RunStage1
    PROVE  FirstStage'
<1>1. main.at = "stage1" /\ stage2' = stage2 /\ stage2.bytes \in Nat \ {0}
  BY DEF RunStage1, DecodeHeader, LoadSector, Stage1Fails, stage1Vars, FirstStage
<1> DEFINE size == ((stage2.bytes - 1) \div SectorBytes) + 1
<1>2. size \in Nat \ {0} /\ size < BiosSectors /\ StageFits(stage2)'
  BY <1>1 DEF SectorBytes, FirstStage, StageFits
<1> HIDE DEF size
<1>3. CASE DecodeHeader /\ UNCHANGED main
  <2>1. CASE stage2.valid
    <3>1. SectorsTo(paras, 0)
      BY DEF SectorsTo
    <3>2. paras' = [p \in DOMAIN paras \cup {2016 + 32 * 0} |->
                        IF p = 2016 + 32 * 0 THEN SectorAt(1 + 0) ELSE paras[p]]
      BY <1>3 DEF DecodeHeader, PutSector
    <3>3. SectorsTo(paras', 0 + 1)
      <4>1. 1 + 0 < BiosSectors
        BY Geometry
      <4> QED
        BY <3>1, <3>2, <4>1, SectorPut
    <3>4. st1' = [at |-> "load", eax |-> 1, cx |-> 2016, size |-> size]
      BY <1>3, <2>1 DEF DecodeHeader, size
    <3>5. st1'.at = "load" /\ st1'.eax = 1
          /\ st1' = [at |-> "load", eax |-> 1, cx |-> 2016 + 32 * (1 - 1), size |-> size]
      BY <3>4
    <3>6. main'.at = "stage1" /\ SectorsTo(paras', 1)
      BY <1>1, <1>3, <3>3
    <3> QED
      BY <1>1, <1>2, <3>5, <3>6 DEF FirstStage, size
  <2>2. CASE ~stage2.valid
    <3>1. st1' = [st1 EXCEPT !.at = "halt"]
      BY <1>3, <2>2 DEF DecodeHeader
    <3> QED
      BY <1>1, <1>2, <1>3, <3>1 DEF FirstStage
  <2> QED
    BY <2>1, <2>2
<1>4. CASE LoadSector /\ UNCHANGED main
  <2> DEFINE n == st1.eax
  <2>1. /\ st1 = [at |-> "load", eax |-> n, cx |-> 2016 + 32 * (n - 1), size |-> size]
        /\ n \in Nat \ {0} /\ SectorsTo(paras, n) /\ (n = 1 \/ n < size)
    BY <1>4 DEF FirstStage, LoadSector, size
  <2> HIDE DEF n
  <2>2. st1.cx + 32 = 2016 + 32 * n /\ st1.eax + 1 = 1 + n
    BY <2>1
  <2>3. paras' = [p \in DOMAIN paras \cup {2016 + 32 * n} |->
                      IF p = 2016 + 32 * n THEN SectorAt(1 + n) ELSE paras[p]]
    BY <1>4, <2>2 DEF LoadSector, PutSector
  <2>4. SectorsTo(paras', n + 1)
    <3>1. 1 + n < BiosSectors
      BY <1>2, <2>1, Geometry
    <3> QED
      BY <2>1, <2>3, <3>1, SectorPut
  <2>5. st1' = [at |-> IF n + 1 < size THEN "load" ELSE "jump", eax |-> n + 1, cx |-> 2016 + 32 * n,
                size |-> size]
    <3> DEFINE cx == 2016 + 32 * (n - 1)
               to == 2016 + 32 * n
               next == IF n + 1 < size THEN "load" ELSE "jump"
               a == [st1 EXCEPT !.eax = n + 1]
               b == [a EXCEPT !.cx = to]
    <3>1. st1 = [at |-> "load", eax |-> n, cx |-> cx, size |-> size]
      BY <2>1
    <3>2. st1' = [b EXCEPT !.at = next]
      <4>1. st1.eax = n /\ st1.eax + 1 = n + 1 /\ st1.cx + 32 = to /\ st1.size = size
        BY <2>1, <2>2
      <4> HIDE DEF to
      <4>2. st1' = [st1 EXCEPT !.eax = @ + 1, !.cx = @ + 32,
                               !.at = IF st1.eax + 1 < st1.size THEN "load" ELSE "jump"]
        BY <1>4 DEF LoadSector
      <4> QED
        BY <4>1, <4>2
    <3> HIDE DEF cx, to, next
    <3>3. a = [at |-> "load", eax |-> n + 1, cx |-> cx, size |-> size]
      BY <3>1
    <3> HIDE DEF a
    <3>4. b = [at |-> "load", eax |-> n + 1, cx |-> to, size |-> size]
      BY <3>3
    <3> HIDE DEF b
    <3>5. st1' = [at |-> next, eax |-> n + 1, cx |-> to, size |-> size]
      BY <3>2, <3>4
    <3> QED
      BY <3>5 DEF next, to
  <2>6. main'.at = "stage1"
    BY <1>1, <1>4
  <2>7. CASE n + 1 < size
    <3>1. st1'.at = "load" /\ st1'.eax = n + 1
          /\ st1' = [at |-> "load", eax |-> n + 1, cx |-> 2016 + 32 * ((n + 1) - 1), size |-> size]
      BY <2>1, <2>5, <2>7
    <3>2. n + 1 \in Nat \ {0} /\ SectorsTo(paras', n + 1) /\ st1'.size = size
      BY <2>1, <2>4, <3>1
    <3> QED
      BY <1>1, <1>2, <2>6, <2>7, <3>1, <3>2 DEF FirstStage, size
  <2>8. CASE ~(n + 1 < size)
    <3>1. st1'.at = "jump"
      BY <2>5, <2>8
    <3>2. ASSUME NEW k \in 0 .. (stage2.bytes - 1) \div SectorBytes
          PROVE  2016 + 32 * k \in DOMAIN paras' /\ paras'[2016 + 32 * k] = 1 + k
      <4>1. k \in 0 .. (n + 1) - 1
        BY <1>1, <1>2, <2>1, <2>8, <3>2 DEF size, SectorBytes
      <4> QED
        BY <2>4, <4>1 DEF SectorsTo
    <3>3. Stage2Complete'
      BY <1>1, <3>2 DEF Stage2Complete
    <3> QED
      BY <1>1, <1>2, <2>6, <3>1, <3>3 DEF FirstStage
  <2> QED
    BY <2>7, <2>8
<1>5. CASE Stage1Fails /\ UNCHANGED main
  <2>1. st1' = [st1 EXCEPT !.at = "halt"] /\ st1.at \in {"header", "load"} /\ main'.at = "stage1"
    BY <1>1, <1>5 DEF Stage1Fails
  <2>2. st1'.at # "load" /\ st1'.at # "jump"
    BY <2>1 DEF Stage1Fails
  <2> QED
    BY <1>1, <1>2, <2>1, <2>2 DEF FirstStage
<1>6. CASE st1.at = "jump" /\ Go("mount") /\ UNCHANGED stage1Vars
  <2>1. st1' = st1 /\ paras' = paras
    BY <1>6 DEF stage1Vars
  <2> QED
    BY <1>1, <1>2, <1>6, <2>1 DEF FirstStage, Stage2Complete
<1> QED
  BY <1>3, <1>4, <1>5, <1>6 DEF RunStage1

-----------------------------------------------------------------------------
(* What is known on the way to the kernel *)

Early     == {"stage1", "mount", "bootini", "bootconf", "options", "kernel", "ehdr"}
Loading   == {"phdrs", "segments", "segment"}
Following == {"elf", "initrd", "cmdline"}
Placing   == {"mmap", "video", "kmain"}

KernelFile(v, f) == IsNamed(v, NameOf(Said(v.ini, "kernel")), f)
InitrdFile(v, f) == IsNamed(v, NameOf(Said(v.ini, "initrd")), f)

\* The files are those that BOOT.INI names.
FilesKnown ==
    /\ main.at = "kernel" => job.name = NameOf(Said(vol.ini, "kernel"))
    /\ main.at = "initrd" => job.name = NameOf(Said(vol.ini, "initrd"))
    /\ main.at \in {"ehdr"} \cup Loading \cup Following \cup Placing => KernelFile(vol, main.kernel)
    /\ main.at \in {"cmdline"} \cup Placing => InitrdFile(vol, main.initrd)
    /\ main.at \in {"kernel", "ehdr"} \cup Loading \cup Following => conf = "options"

\* What is being read.
CallsKnown ==
    /\ main.at = "segment" => /\ job.op = "read" /\ job.file = main.kernel
                              /\ job.asked = phdr.fsize /\ job.offset = phdr.offset /\ phdr.type = "load"
    /\ main.at = "cmdline" => /\ job.op = "read" /\ job.file = main.initrd
                              /\ job.asked = main.initrd.size /\ job.offset = 0

\* The kernel's segments, as far as its headers have been dealt with.
LoadedTo(v, m, mem, n) == BoundsTo(v, m.lowest, m.highest, n) /\ SegmentsTo(v, mem, m.kernel, n)
KernelPlaced ==
    /\ main.at \in Early => main.lowest = -1 /\ main.highest = 0
    /\ main.at \in Loading => LoadedTo(vol, main, memory, main.read + main.i)
    /\ main.at \in Following \cup Placing => LoadedTo(vol, main, memory, phdr_count)

\* The pieces behind it.
RestPlaced ==
    /\ main.at \in Early \cup Loading \cup Following => main.count = 0
    /\ main.at \in Placing => /\ main.count \in Nat /\ main.count <= Max(MapCounts)
                              /\ main.cmdlen = CmdLen(vol)
                              /\ PlacedIn(vol, memory, main.highest, main.initrd, main.count)

OnTheWay == vol \in BootVolumes /\ FirstStage /\ FilesKnown /\ CallsKnown /\ KernelPlaced /\ RestPlaced
HandInv == scene = "boot" => OnTheWay

LEMMA FirstKept ==
    ASSUME FirstStage, UNCHANGED stage1Vars, main.at = "stage1" => main'.at = "stage1"
    PROVE  FirstStage'
BY DEF FirstStage, stage1Vars, Stage2Complete, StageFits

LEMMA HandInit ==
    ASSUME LoaderInit
    PROVE  HandInv
<1> SUFFICES ASSUME scene = "boot" PROVE OnTheWay
  BY DEF HandInv
<1>1. main.at = "stage1" /\ main.lowest = -1 /\ main.highest = 0 /\ main.count = 0 /\ vol \in BootVolumes
      /\ st1 = [at |-> "header", eax |-> 1, cx |-> 0, size |-> 0] /\ stage2 \in Stages
  BY DEF LoaderInit, Stage1Init
<1>2. FirstStage
  <2>1. StageFits(stage2) /\ stage2.bytes \in Nat \ {0} /\ st1.at = "header"
    BY <1>1, LoaderAssumption DEF StageFits
  <2> QED
    BY <1>1, <2>1 DEF FirstStage
<1>3. FilesKnown /\ CallsKnown
  BY <1>1 DEF FilesKnown, CallsKnown, Loading, Following, Placing
<1>4. KernelPlaced /\ RestPlaced
  BY <1>1 DEF KernelPlaced, RestPlaced, Early, Loading, Following, Placing
<1> QED
  BY <1>1, <1>2, <1>3, <1>4 DEF OnTheWay

\* A step that goes on with a call, or with the options.
LEMMA HandKept ==
    ASSUME OnTheWay, UNCHANGED <<vol, main, memory, stage1Vars>>, SameCall(job, job'),
           UNCHANGED conf \/ main.at \in {"options", "video"}
    PROVE  OnTheWay'
<1>1. FirstStage'
  BY FirstKept DEF OnTheWay
<1>2. FilesKnown'
  BY DEF OnTheWay, FilesKnown, SameCall, Loading, Following, Placing
<1>3. CallsKnown'
  <2>1. phdr' = phdr
    BY DEF phdr
  <2> QED
    BY <2>1 DEF OnTheWay, CallsKnown, SameCall
<1>4. KernelPlaced' /\ RestPlaced'
  BY DEF OnTheWay, KernelPlaced, RestPlaced, phdr_count
<1> QED
  BY <1>1, <1>2, <1>3, <1>4 DEF OnTheWay

\* The end: a panic, or what the model does not say.
LEMMA HandEnds ==
    ASSUME OnTheWay, vol' = vol, UNCHANGED stage1Vars, main.at # "stage1", main'.at \in {"panic", "undefined"}
    PROVE  OnTheWay'
<1>1. FirstStage'
  BY FirstKept DEF OnTheWay
<1>2. FilesKnown' /\ CallsKnown'
  BY DEF FilesKnown, CallsKnown, Loading, Following, Placing
<1>3. KernelPlaced' /\ RestPlaced'
  BY DEF KernelPlaced, RestPlaced, Early, Loading, Following, Placing
<1> QED
  BY <1>1, <1>2, <1>3 DEF OnTheWay

\* A step before the kernel is looked for.
LEMMA HandEarly ==
    ASSUME OnTheWay, main.at \in Early, vol' = vol, FirstStage',
           main'.at \in {"stage1", "mount", "bootini", "bootconf", "options"},
           main'.lowest = main.lowest, main'.highest = main.highest, main'.count = main.count
    PROVE  OnTheWay'
<1>1. FilesKnown' /\ CallsKnown'
  BY DEF FilesKnown, CallsKnown, Loading, Following, Placing
<1>2. main.lowest = -1 /\ main.highest = 0 /\ main.count = 0
  BY DEF OnTheWay, KernelPlaced, RestPlaced
<1>3. KernelPlaced' /\ RestPlaced'
  BY <1>2 DEF KernelPlaced, RestPlaced, Early, Loading, Following, Placing
<1> QED
  BY <1>1, <1>3 DEF OnTheWay

LEMMA Going ==
    ASSUME IInv, NEW place, Go(place)
    PROVE  /\ main'.at = place /\ main'.kernel = main.kernel /\ main'.lowest = main.lowest
           /\ main'.highest = main.highest /\ main'.read = main.read /\ main'.i = main.i
           /\ main'.initrd = main.initrd /\ main'.cmdlen = main.cmdlen /\ main'.count = main.count
BY DEF Go, IInv, MainInv, MainRec

LEMMA MainEndsWay ==
    ASSUME IInv, OnTheWay, Panic \/ Undefined, main.at # "stage1"
    PROVE  OnTheWay'
<1>1. vol' = vol /\ UNCHANGED stage1Vars /\ (Go("panic") \/ Go("undefined"))
  BY DEF Panic, Undefined, vars, others
<1>2. main'.at \in {"panic", "undefined"}
  BY <1>1, Going
<1> QED
  BY <1>1, <1>2, HandEnds

\* The reader's steps.
LEMMA ReaderWay ==
    ASSUME FatReadable, IInv, OnTheWay, Onwards \/ \E e \in Errors : BiosFails(e), UNCHANGED <<others, main, memory>>
    PROVE  OnTheWay'
<1>1. vol' = vol
  BY OnwardsOK DEF IInv, MainInv
<1>2. SameCall(job, job')
  BY CallKept
<1>3. UNCHANGED <<main, memory, stage1Vars, conf>>
  BY DEF others, optVars
<1> QED
  BY <1>1, <1>2, <1>3, HandKept

\* Up to the options.
LEMMA StartsWay ==
    ASSUME IInv, OnTheWay, scene = "boot",
           RunStage1 \/ OpenConfig \/ ReadConfig \/ FillOptions \/ ConfigGiven \/ Options
    PROVE  OnTheWay'
<1>1. CASE RunStage1
  <2>1. main.at = "stage1" /\ vol' = vol /\ (UNCHANGED main \/ Go("mount"))
    BY <1>1 DEF RunStage1, vars
  <2>2. FirstStage'
    BY <1>1, RunStage1OK DEF OnTheWay
  <2>3. /\ main'.at \in {"stage1", "mount"}
        /\ main'.lowest = main.lowest /\ main'.highest = main.highest /\ main'.count = main.count
    BY <2>1, Going
  <2> QED
    BY <2>1, <2>2, <2>3, HandEarly DEF Early
<1>2. CASE (ReadConfig /\ job.ret # OK) \/ (FillOptions /\ job.failed)
  <2>1. main.at # "stage1" /\ (Panic \/ Undefined)
    BY <1>2 DEF ReadConfig, FillOptions, At
  <2> QED
    BY <2>1, MainEndsWay
<1>3. CASE OpenConfig \/ (ReadConfig /\ job.ret = OK) \/ (FillOptions /\ ~job.failed)
  <2>1. /\ main.at \in {"mount", "bootini", "bootconf"} /\ UNCHANGED stage1Vars
        /\ Go("bootini") \/ Go("bootconf") \/ Go("options")
    BY <1>3 DEF OpenConfig, ReadConfig, FillOptions, At, UNCHANGEDButCall, others
  <2>2. vol' = vol
    BY <1>3 DEF OpenConfig, ReadConfig, FillOptions, vars, Walk, Read
  <2>3. /\ main'.at \in {"bootini", "bootconf", "options"}
        /\ main'.lowest = main.lowest /\ main'.highest = main.highest /\ main'.count = main.count
    BY <2>1, Going
  <2>4. FirstStage'
    BY <2>1, FirstKept DEF OnTheWay
  <2> QED
    BY <2>1, <2>2, <2>3, <2>4, HandEarly DEF Early
<1>4. CASE Options
  <2>1. UNCHANGED <<vol, main, memory, stage1Vars, job>> /\ main.at \in {"options", "video"}
    BY <1>4 DEF Options, vars
  <2>2. SameCall(job, job')
    BY <2>1 DEF SameCall
  <2> QED
    BY <2>1, <2>2, HandKept
<1> QED
  BY <1>1, <1>2, <1>3, <1>4 DEF ConfigGiven

-----------------------------------------------------------------------------
(* BOOT.INI is read as it is *)

IniInv ==
    scene = "boot" =>
        /\ vol \in BootVolumes
        /\ main.at = "bootini" => job.name = "BOOT.INI"
        /\ main.at = "bootconf" => /\ job.op = "read" /\ IsNamed(vol, "BOOT.INI", job.file)
                                   /\ job.asked = job.file.size /\ job.offset = 0
        /\ conf # "off" => ini = vol.ini

LEMMA BytesAre ==
    ASSUME NEW f, NEW k
    PROVE  ByteIn(vol, f, k) = ByteAt(f, k)
BY DEF ByteIn, ByteAt, Sector, DataBegin, Begin, Nth

LEMMA TextIsRead ==
    ASSUME IInv, ConfInv, IniInv, scene = "boot", Loadable(vol), At("bootconf"), ~job.failed
    PROVE  ConfigRead = vol.ini
<1> DEFINE f == job.file
           t == vol.ini
           N == Len(t)
<1>1. /\ vol \in BootVolumes /\ IsNamed(vol, "BOOT.INI", f) /\ IsFile(vol, f) /\ WellMade(vol)
      /\ job.op = "read" /\ job.asked = f.size /\ job.offset = 0 /\ pc = "idle"
  BY DEF IniInv, At, IsNamed, IsFile, IInv, MainInv
<1>2. f \in FilesNamed(vol, "BOOT.INI")
  BY <1>1 DEF IsNamed, FilesNamed
<1>3. HoldsIni(vol, f) /\ InReach(vol, f)
  BY <1>1, <1>2, LoaderAssumption DEF Loadable
<1>4. N \in Nat /\ DOMAIN t = 1 .. N /\ t = [k \in 1 .. N |-> t[k]]
  <2>1. t \in Seq(Letters)
    BY DEF ConfInv, IsText
  <2> HIDE DEF t
  <2> QED
    BY <2>1
<1>5. f.size = N /\ \A k, l \in 1 .. N : ByteAt(f, k - 1) = ByteAt(f, l - 1) => t[k] = t[l]
  <2>1. /\ f.size = N
        /\ \A k, l \in DOMAIN t : ByteIn(vol, f, k - 1) = ByteIn(vol, f, l - 1) => t[k] = t[l]
    BY <1>3 DEF HoldsIni
  <2> HIDE DEF f, t, N
  <2>2. ASSUME NEW k \in 1 .. N, NEW l \in 1 .. N, ByteAt(f, k - 1) = ByteAt(f, l - 1)
        PROVE  t[k] = t[l]
    <3>1. k \in DOMAIN t /\ l \in DOMAIN t
      BY <1>4
    <3>2. ByteIn(vol, f, k - 1) = ByteIn(vol, f, l - 1)
      BY <2>2, BytesAre
    <3> QED
      BY <2>1, <3>1, <3>2
  <2> QED
    BY <2>1, <2>2
<1>6. job.out = [k \in 1 .. N |-> ByteAt(f, k - 1)]
  <2>1. job.failed = FALSE
    BY DEF IInv, FatInv, JobType, JobRec
  <2>2. 0 \in Nat /\ 0 + N <= N
    BY <1>4
  <2> HIDE DEF N
  <2>3. job.out = [k \in 1 .. N |-> ByteAt(f, 0 + k - 1)]
    BY <1>1, <1>3, <1>4, <1>5, <2>1, <2>2, ReadBytes
  <2>4. \A k \in 1 .. N : 0 + k - 1 = k - 1
    BY <1>4
  <2> HIDE DEF f
  <2> QED
    BY <2>3, <2>4
<1>7. ASSUME NEW k \in 1 .. N PROVE Token(ByteAt(f, k - 1)) = t[k]
  <2> DEFINE places == {l \in DOMAIN t : ByteAt(f, l - 1) = ByteAt(f, k - 1)}
             x == CHOOSE l \in places : TRUE
  <2>1. Token(ByteAt(f, k - 1)) = IF places = {} THEN "other" ELSE t[x]
    BY DEF Token
  <2>2. k \in places
    BY <1>4
  <2>3. x \in places
    BY <2>2
  <2>4. x \in 1 .. N /\ ByteAt(f, x - 1) = ByteAt(f, k - 1)
    BY <1>4, <2>3
  <2> HIDE DEF places, x, t, N, f
  <2>5. t[x] = t[k]
    BY <1>5, <2>4
  <2> QED
    BY <2>1, <2>2, <2>5
<1> DEFINE T(b) == Token(b)
<1>8. ConfigRead = [k \in DOMAIN job.out |-> T(job.out[k])]
  BY DEF ConfigRead
<1>9. \A k \in 1 .. N : T(ByteAt(f, k - 1)) = t[k]
  BY <1>7
<1> HIDE DEF T, t, N, f
<1>10. ConfigRead = [k \in 1 .. N |-> T(ByteAt(f, k - 1))]
  BY <1>6, <1>8
<1>11. ConfigRead = [k \in 1 .. N |-> t[k]]
  BY <1>9, <1>10
<1> QED
  BY <1>4, <1>11 DEF t

\* Where the loader opens and reads BOOT.INI.
LEMMA ConfigCalls ==
    ASSUME IInv, scene = "boot", [LoaderNext]_loaderVars, main'.at \in {"bootini", "bootconf"}
    PROVE  \/ main' = main /\ SameCall(job, job')
           \/ OpenConfig /\ main'.at = "bootini"
           \/ ReadConfig /\ job.ret = OK /\ main'.at = "bootconf"
<1>1. CASE FatOnwards \/ (FatMay /\ (\E e \in Errors : BiosFails(e)) /\ UNCHANGED <<others, main, memory>>)
  BY <1>1, CallKept DEF FatOnwards
<1>2. CASE AnyCall
  BY <1>2 DEF AnyCall
<1>3. CASE UNCHANGED loaderVars
  <2>1. main' = main /\ job' = job
    BY <1>3 DEF loaderVars, vars
  <2> QED
    BY <2>1 DEF SameCall
<1>4. CASE RunStage1 \/ FillOptions \/ ConfigGiven \/ Options
  <2>1. job' = job
    BY <1>4 DEF RunStage1, FillOptions, ConfigGiven, Options, Undefined, vars
  <2>2. UNCHANGED main \/ Go("mount") \/ Go("options") \/ Go("undefined")
    BY <1>4 DEF RunStage1, FillOptions, ConfigGiven, Options, Undefined
  <2>3. UNCHANGED main
    BY <2>2, Going
  <2> QED
    BY <2>1, <2>3 DEF SameCall
<1>5. CASE OpenConfig \/ OpenKernel \/ OpenInitrd
  <2>1. (OpenConfig /\ Go("bootini")) \/ Go("kernel") \/ Go("initrd")
    BY <1>5 DEF OpenConfig, OpenKernel, OpenInitrd
  <2> QED
    BY <2>1, Going
<1>6. CASE ReadConfig
  <2>1. (job.ret = OK /\ Go("bootconf")) \/ Go("panic")
    BY <1>6 DEF ReadConfig, Panic
  <2> QED
    BY <1>6, <2>1, Going
<1>7. MainRec(main)
  BY DEF IInv, MainInv
<1>8. ASSUME Panic \/ Undefined PROVE FALSE
  <2>1. Go("panic") \/ Go("undefined")
    BY <1>8 DEF Panic, Undefined
  <2> QED
    BY <2>1, Going
<1>9. CASE ReadEhdr \/ ReadInitrd
  <2>1. \/ Panic
        \/ main' = [main EXCEPT !.at = "ehdr", !.kernel = job.file]
        \/ main' = [main EXCEPT !.at = "cmdline", !.initrd = job.file]
    BY <1>9 DEF ReadEhdr, ReadInitrd
  <2>2. Panic
    BY <1>7, <2>1 DEF MainRec
  <2> QED
    BY <1>8, <2>2
<1>10. CASE ReadPhdrs
  <2> DEFINE done == IF main.at = "ehdr" THEN 0 ELSE main.read + batch
  <2>1. Undefined \/ Go("elf") \/ main' = [main EXCEPT !.at = "phdrs", !.read = done, !.i = 0]
    BY <1>10 DEF ReadPhdrs
  <2> HIDE DEF done
  <2>2. Undefined \/ Go("elf")
    BY <1>7, <2>1 DEF MainRec
  <2> QED
    BY <1>8, <2>2, Going
<1>11. CASE PhdrsRead
  <2>1. Undefined \/ Go("segments")
    BY <1>11 DEF PhdrsRead
  <2> QED
    BY <1>8, <2>1, Going
<1>12. Bounds.at = "segments"
  <2> DEFINE low == IF main.lowest = -1 \/ phdr.vaddr < main.lowest THEN phdr.vaddr ELSE main.lowest
             high == Max({main.highest, phdr.vaddr + phdr.msize})
             i == main.i + 1
  <2>1. Bounds = [main EXCEPT !.lowest = low, !.highest = high, !.i = i, !.at = "segments"]
    BY DEF Bounds
  <2> HIDE DEF low, high, i
  <2> QED
    BY <1>7, <2>1 DEF MainRec
<1>13. CASE Segment \/ SegmentRead
  <2>1. \/ main.at = "segments" /\ main' = [main EXCEPT !.i = @ + 1]
        \/ main' = Bounds \/ Go("segment") \/ Panic \/ Undefined
    BY <1>13 DEF Segment, SegmentRead, At
  <2>2. Go("segment") \/ Panic \/ Undefined
    BY <1>7, <1>12, <2>1 DEF MainRec
  <2> QED
    BY <1>8, <2>2, Going
<1>14. CASE StoreInitrdAndCmdline
  <2> DEFINE length == Len(Option("cmd"))
  <2>1. Undefined \/ main' = [main EXCEPT !.cmdlen = length, !.at = "mmap"]
    BY <1>14 DEF StoreInitrdAndCmdline
  <2> HIDE DEF length
  <2>2. Undefined
    BY <1>7, <2>1 DEF MainRec
  <2> QED
    BY <1>8, <2>2
<1>15. CASE MapEntry \/ MapEnds
  <2>1. \/ main' = [main EXCEPT !.count = @ + 1, !.at = "video"]
        \/ main' = [main EXCEPT !.count = @ + 1, !.at = "mmap"]
        \/ main' = [main EXCEPT !.count = -1, !.at = "video"]
        \/ Go("video")
    BY <1>15 DEF MapEntry, MapEnds
  <2>2. Go("video")
    BY <1>7, <2>1 DEF MainRec
  <2> QED
    BY <2>2, Going
<1>16. CASE CallKernel
  <2>1. Panic \/ Go("kmain")
    BY <1>16 DEF CallKernel
  <2> QED
    BY <1>8, <2>1, Going
<1>17. CASE stage2_main
  BY <1>4, <1>5, <1>6, <1>9, <1>10, <1>11, <1>13, <1>14, <1>15, <1>16, <1>17 DEF stage2_main
<1> QED
  BY <1>1, <1>2, <1>3, <1>17 DEF LoaderNext

LEMMA IniNext ==
    ASSUME \A v \in BootVolumes : Loadable(v), IInv, ConfInv, IniInv, [LoaderNext]_loaderVars
    PROVE  IniInv'
<1>1. vol' = vol /\ scene' = scene
  BY OptsMove
<1> SUFFICES ASSUME scene = "boot" PROVE IniInv'
  BY <1>1 DEF IniInv
<1>2. ASSUME conf' # "off" PROVE ini' = vol.ini
  <2>1. CASE UNCHANGED optVars
    BY <1>2, <2>1 DEF IniInv, optVars
  <2>2. CASE FillOptions /\ bootopts_fill(ConfigRead)
    <3>1. ~job.failed
      <4> SUFFICES ASSUME job.failed PROVE FALSE
        OBVIOUS
      <4>1. conf' = conf
        BY <2>2 DEF FillOptions, Undefined, others, optVars
      <4> QED
        BY <2>2, <4>1 DEF bootopts_fill
    <3>2. At("bootconf") /\ Loadable(vol)
      BY <2>2 DEF FillOptions, IniInv
    <3>3. ini' = ConfigRead
      BY <2>2 DEF bootopts_fill
    <3> QED
      BY <3>1, <3>2, <3>3, TextIsRead
  <2>3. CASE (ini_iter \/ Video) /\ UNCHANGED ini
    <3>1. conf # "off"
      BY <2>3 DEF ini_iter, Video, StartVideo, ParseQuery, QueryParsed, vbe_mode_search, NoMode
    <3> QED
      BY <2>3, <3>1 DEF IniInv
  <2> QED
    BY <2>1, <2>2, <2>3, OptsMove
<1>3. ASSUME main'.at = "bootini" PROVE job'.name = "BOOT.INI"
  <2>1. (main' = main /\ SameCall(job, job')) \/ OpenConfig
    BY <1>3, ConfigCalls
  <2>2. CASE main' = main /\ SameCall(job, job')
    BY <1>3, <2>2 DEF IniInv, SameCall
  <2>3. CASE OpenConfig
    BY <2>3, WalkStarts DEF OpenConfig
  <2> QED
    BY <2>1, <2>2, <2>3
<1>4. ASSUME main'.at = "bootconf"
      PROVE  /\ job'.op = "read" /\ IsNamed(vol, "BOOT.INI", job'.file)
             /\ job'.asked = job'.file.size /\ job'.offset = 0
  <2>1. (main' = main /\ SameCall(job, job')) \/ (ReadConfig /\ job.ret = OK)
    BY <1>4, ConfigCalls
  <2>2. CASE main' = main /\ SameCall(job, job')
    BY <1>4, <2>2 DEF IniInv, SameCall
  <2>3. CASE ReadConfig /\ job.ret = OK
    <3>1. main.at = "bootini" /\ pc = "idle" /\ Read(job.file, job.file.size, 0)
      BY <2>3 DEF ReadConfig, At
    <3>2. IsNamed(vol, "BOOT.INI", job.file)
      BY <2>3, <3>1 DEF IniInv, IInv, FatInv, Walking, MainInv
    <3>3. job'.op = "read" /\ job'.file = job.file /\ job'.asked = job.file.size /\ job'.offset = 0
      BY <3>1, ReadStarts
    <3> QED
      BY <3>2, <3>3
  <2> QED
    BY <2>1, <2>2, <2>3
<1>5. vol \in BootVolumes
  BY DEF IniInv
<1>6. IsNamed(vol, "BOOT.INI", job.file)' <=> IsNamed(vol, "BOOT.INI", job'.file)
  BY <1>1 DEF IsNamed
<1> QED
  BY <1>1, <1>2, <1>3, <1>4, <1>5, <1>6 DEF IniInv

\* What BOOT.INI says is what the options are.
LEMMA OptionsAreSaid ==
    ASSUME ConfInv, scene # "calls", ini = vol.ini, WellFormed(vol.ini), conf = "options",
           NEW key \in {"kernel", "initrd", "cmd", "gfx"}
    PROVE  Option(key) = Said(vol.ini, key)
<1> DEFINE f == vol.ini
<1>1. IsText(f) /\ ParsingOf(f, text, opts, src) /\ src = Len(f) + 1 /\ key \in DOMAIN Defaults
  BY BootOptsAssumption DEF ConfInv
<1> HIDE DEF f
<1>2. Option(key) = Said(f, key)
  BY <1>1, AllSaid
<1> QED
  BY <1>2 DEF f

\* The kernel's file.
LEMMA OpenKernelWay ==
    ASSUME IInv, ConfInv, IniInv, OnTheWay, scene = "boot", Loadable(vol), OpenKernel
    PROVE  OnTheWay'
<1>1. /\ main.at = "options" /\ conf = "options" /\ Walk(NameOf(Option("kernel"))) /\ Go("kernel")
      /\ UNCHANGED stage1Vars /\ UNCHANGED conf
  BY DEF OpenKernel, At, UNCHANGEDButCall, others, optVars
<1>2. vol' = vol /\ Option("kernel") = Said(vol.ini, "kernel")
  BY <1>1, OptionsAreSaid DEF Walk, Loadable, IniInv
<1>3. job'.name = NameOf(Said(vol.ini, "kernel"))
  BY <1>1, <1>2, WalkStarts
<1>4. main'.at = "kernel" /\ main'.lowest = main.lowest /\ main'.highest = main.highest /\ main'.count = main.count
  BY <1>1, Going
<1>5. FirstStage'
  BY <1>1, FirstKept DEF OnTheWay
<1>6. FilesKnown' /\ CallsKnown'
  BY <1>1, <1>2, <1>3, <1>4 DEF FilesKnown, CallsKnown, Loading, Following, Placing
<1>7. main.lowest = -1 /\ main.highest = 0 /\ main.count = 0
  BY <1>1 DEF OnTheWay, KernelPlaced, RestPlaced, Early
<1>8. KernelPlaced' /\ RestPlaced'
  BY <1>4, <1>7 DEF KernelPlaced, RestPlaced, Early, Loading, Following, Placing
<1> QED
  BY <1>2, <1>5, <1>6, <1>8 DEF OnTheWay

LEMMA ReadEhdrWay ==
    ASSUME IInv, OnTheWay, scene = "boot", ReadEhdr
    PROVE  OnTheWay'
<1>1. main.at = "kernel" /\ pc = "idle" /\ conf = "options"
  BY DEF ReadEhdr, At, OnTheWay, FilesKnown
<1>2. CASE job.ret # OK
  BY <1>1, <1>2, MainEndsWay DEF ReadEhdr
<1>3. CASE job.ret = OK
  <2> DEFINE f == job.file
  <2>1. /\ Read(f, EhdrBytes, 0) /\ main' = [main EXCEPT !.at = "ehdr", !.kernel = f]
        /\ UNCHANGED stage1Vars /\ UNCHANGED conf
    BY <1>3 DEF ReadEhdr, UNCHANGEDButCall, others, optVars
  <2>2. vol' = vol
    BY <2>1 DEF Read
  <2>3. job.op = "walk" /\ job.name = NameOf(Said(vol.ini, "kernel"))
    BY <1>1 DEF IInv, MainInv, OnTheWay, FilesKnown
  <2>4. KernelFile(vol, f)
    BY <1>1, <1>3, <2>3 DEF IInv, FatInv, Walking, KernelFile
  <2> HIDE DEF f
  <2>5. /\ main'.at = "ehdr" /\ main'.kernel = f /\ main'.lowest = main.lowest
        /\ main'.highest = main.highest /\ main'.count = main.count
    BY <2>1 DEF IInv, MainInv, MainRec
  <2>6. FirstStage'
    BY <1>1, <2>1, FirstKept DEF OnTheWay
  <2>7. FilesKnown' /\ CallsKnown'
    BY <1>1, <2>1, <2>2, <2>4, <2>5 DEF FilesKnown, CallsKnown, Loading, Following, Placing
  <2>8. main.lowest = -1 /\ main.highest = 0 /\ main.count = 0
    BY <1>1 DEF OnTheWay, KernelPlaced, RestPlaced, Early
  <2>9. KernelPlaced' /\ RestPlaced'
    BY <2>5, <2>8 DEF KernelPlaced, RestPlaced, Early, Loading, Following, Placing
  <2> QED
    BY <2>2, <2>6, <2>7, <2>9 DEF OnTheWay
<1> QED
  BY <1>2, <1>3

\* A step from one header to the next, which leaves the reader alone.
LEMMA LoadingGoes ==
    ASSUME OnTheWay, main.at \in {"ehdr"} \cup Loading, vol' = vol, UNCHANGED stage1Vars, UNCHANGED conf,
           main'.at \in {"phdrs", "segments"}, main'.kernel = main.kernel, main'.count = main.count,
           LoadedTo(vol, main', memory', main'.read + main'.i)
    PROVE  OnTheWay'
<1>1. FirstStage'
  BY FirstKept DEF OnTheWay, Loading
<1>2. FilesKnown' /\ CallsKnown'
  BY DEF OnTheWay, FilesKnown, CallsKnown, Loading, Following, Placing
<1>3. main.count = 0
  BY DEF OnTheWay, RestPlaced, Early
<1>4. KernelPlaced' /\ RestPlaced'
  BY <1>3 DEF KernelPlaced, RestPlaced, Early, Loading, Following, Placing
<1> QED
  BY <1>1, <1>2, <1>4 DEF OnTheWay

LEMMA ReadPhdrsWay ==
    ASSUME IInv, OnTheWay, scene = "boot", ReadPhdrs
    PROVE  OnTheWay'
<1> DEFINE done == IF main.at = "ehdr" THEN 0 ELSE main.read + batch
           n == IF main.at = "ehdr" THEN 0 ELSE main.read + main.i
<1>1. main.at \in {"ehdr", "segments"} /\ (main.at = "segments" => main.i = batch)
  BY DEF ReadPhdrs, At
<1>2. done = n /\ done \in Nat
  BY <1>1, Headers
<1>3. LoadedTo(vol, main, memory, n) /\ main.count = 0 /\ conf = "options" /\ KernelFile(vol, main.kernel)
  <2>1. CASE main.at = "ehdr"
    <3>1. main.lowest = -1 /\ main.highest = 0
      BY <2>1 DEF OnTheWay, KernelPlaced, Early
    <3>2. LoadedTo(vol, main, memory, 0)
      BY <3>1, NoHeaders DEF LoadedTo
    <3> QED
      BY <2>1, <3>2 DEF OnTheWay, RestPlaced, FilesKnown, Early
  <2>2. CASE main.at = "segments"
    BY <2>2 DEF OnTheWay, KernelPlaced, RestPlaced, FilesKnown, Loading
  <2> QED
    BY <1>1, <2>1, <2>2
<1>4. \/ Undefined
      \/ done = phdr_count /\ Go("elf") /\ UNCHANGED <<vars, others, memory>>
      \/ /\ Read(main.kernel, PhdrBytes * Consec, vol.elf.phoff + done * PhdrBytes)
         /\ main' = [main EXCEPT !.at = "phdrs", !.read = done, !.i = 0]
         /\ UNCHANGED <<others, memory>>
  BY DEF ReadPhdrs, UNCHANGEDButCall
<1> HIDE DEF done, n
<1>5. CASE Undefined
  BY <1>1, <1>5, MainEndsWay
<1>6. CASE done = phdr_count /\ Go("elf") /\ UNCHANGED <<vars, others, memory>>
  <2>1. vol' = vol /\ UNCHANGED stage1Vars /\ UNCHANGED conf
    BY <1>6 DEF vars, others, optVars
  <2>2. /\ main'.at = "elf" /\ main'.kernel = main.kernel /\ main'.lowest = main.lowest
        /\ main'.highest = main.highest /\ main'.count = main.count
    BY <1>6, Going
  <2>3. FirstStage'
    BY <1>1, <2>1, FirstKept DEF OnTheWay
  <2>4. FilesKnown' /\ CallsKnown'
    BY <1>3, <2>1, <2>2 DEF FilesKnown, CallsKnown, Loading, Following, Placing
  <2>5. LoadedTo(vol, main, memory, phdr_count)'
    BY <1>2, <1>3, <1>6, <2>1, <2>2 DEF LoadedTo, phdr_count
  <2>6. KernelPlaced' /\ RestPlaced'
    BY <1>3, <2>2, <2>5 DEF KernelPlaced, RestPlaced, Early, Loading, Following, Placing
  <2> QED
    BY <2>1, <2>3, <2>4, <2>6 DEF OnTheWay
<1>7. CASE /\ Read(main.kernel, PhdrBytes * Consec, vol.elf.phoff + done * PhdrBytes)
           /\ main' = [main EXCEPT !.at = "phdrs", !.read = done, !.i = 0]
           /\ UNCHANGED <<others, memory>>
  <2>1. vol' = vol /\ UNCHANGED stage1Vars /\ UNCHANGED conf
    BY <1>7 DEF Read, others, optVars
  <2>2. /\ main'.at = "phdrs" /\ main'.kernel = main.kernel /\ main'.lowest = main.lowest
        /\ main'.highest = main.highest /\ main'.count = main.count /\ main'.read = done /\ main'.i = 0
    BY <1>7 DEF IInv, MainInv, MainRec
  <2>3. main'.read + main'.i = n
    BY <1>2, <2>2
  <2>4. LoadedTo(vol, main', memory', main'.read + main'.i)
    BY <1>3, <1>7, <2>2, <2>3 DEF LoadedTo
  <2> QED
    BY <1>1, <2>1, <2>2, <2>4, LoadingGoes DEF Loading
<1> QED
  BY <1>4, <1>5, <1>6, <1>7

\* The header being dealt with.
LEMMA ThisHeader ==
    ASSUME IInv, scene = "boot", OnTheWay, main.at \in {"segments", "segment"}, main.i < batch
    PROVE  /\ main.read + main.i \in Nat /\ main.read + main.i <= Len(vol.elf.phdrs)
           /\ main.read + main.i + 1 \in 1 .. Len(vol.elf.phdrs)
           /\ phdr = Header(vol, main.read + main.i + 1)
           /\ LoadedTo(vol, main, memory, main.read + main.i)
<1> DEFINE read == main.read
           i == main.i
           count == phdr_count
<1>1. read \in Nat /\ i \in Nat /\ batch \in Nat /\ count \in Nat /\ read + batch <= count /\ i < batch
  BY Headers
<1>2. phdr = Header(vol, read + i + 1) /\ count = Len(vol.elf.phdrs)
  BY DEF phdr, Header, phdr_count
<1>3. LoadedTo(vol, main, memory, read + i)
  BY DEF OnTheWay, KernelPlaced, Loading
<1> HIDE DEF read, i, count
<1>4. read + i \in Nat /\ read + i <= count /\ read + i + 1 \in 1 .. count
  BY <1>1
<1> QED
  BY <1>2, <1>3, <1>4 DEF read, i

\* A header that is not loaded.
LEMMA SkippedHeader ==
    ASSUME IInv, scene = "boot", OnTheWay, main.at = "segments", main.i < batch, phdr.type # "load",
           main' = [main EXCEPT !.i = @ + 1], UNCHANGED <<vars, others, memory>>
    PROVE  OnTheWay'
<1> DEFINE n == main.read + main.i
           read == main.read
           i == main.i
<1>1. n \in Nat /\ phdr = Header(vol, n + 1) /\ LoadedTo(vol, main, memory, n)
  BY ThisHeader
<1>2. vol' = vol /\ UNCHANGED stage1Vars /\ UNCHANGED conf
  BY DEF vars, others, optVars
<1>3. /\ main'.at = "segments" /\ main'.kernel = main.kernel /\ main'.lowest = main.lowest
      /\ main'.highest = main.highest /\ main'.count = main.count /\ main'.read = read /\ main'.i = i + 1
  BY DEF IInv, MainInv, MainRec
<1>4. read \in Nat /\ i \in Nat /\ n = read + i
  BY DEF IInv, MainInv
<1> HIDE DEF n, read, i
<1>5. main'.read + main'.i = n + 1
  BY <1>3, <1>4
<1>6. LoadsTo(vol, n + 1) = LoadsTo(vol, n)
  BY <1>1, NextLoads
<1>7. LoadedTo(vol, main', memory', n + 1)
  BY <1>1, <1>3, <1>6 DEF LoadedTo, BoundsTo, SegmentsTo
<1> QED
  BY <1>2, <1>3, <1>5, <1>7, LoadingGoes DEF Loading

\* One that is: the bounds move, and its bytes are in memory.
LEMMA LoadedHeader ==
    ASSUME IInv, scene = "boot", Loadable(vol), OnTheWay, main.at \in {"segments", "segment"}, main.i < batch,
           phdr.type = "load", main' = Bounds, UNCHANGED <<vars, others>>,
           \/ phdr.fsize = 0 /\ memory' = memory
           \/ memory' = Stored(memory, phdr.vaddr, Content(vol, main.kernel, phdr.offset, phdr.fsize))
    PROVE  OnTheWay'
<1> DEFINE n == main.read + main.i
           read == main.read
           i == main.i
           h == phdr
           lowest == IF main.lowest = -1 \/ h.vaddr < main.lowest THEN h.vaddr ELSE main.lowest
           highest == Max({main.highest, h.vaddr + h.msize})
<1>1. /\ n \in Nat /\ n <= Len(vol.elf.phdrs) /\ n + 1 \in 1 .. Len(vol.elf.phdrs)
      /\ h = Header(vol, n + 1) /\ LoadedTo(vol, main, memory, n)
  BY ThisHeader
<1>2. vol' = vol /\ UNCHANGED stage1Vars /\ UNCHANGED conf /\ vol \in BootVolumes
  BY DEF vars, others, optVars, OnTheWay
<1>3. main' = [main EXCEPT !.lowest = lowest, !.highest = highest, !.i = @ + 1, !.at = "segments"]
  BY DEF Bounds
<1> HIDE DEF h
<1>4. BoundsTo(vol, lowest, highest, n + 1)
  <2>1. BoundsTo(vol, main.lowest, main.highest, n) /\ h.type = "load" /\ highest = Max({main.highest, Highest(h)})
    BY <1>1 DEF LoadedTo, h, Highest
  <2> HIDE DEF n
  <2> QED
    BY <1>1, <1>2, <2>1, BoundsOn
<1> HIDE DEF lowest, highest
<1>5. /\ main'.at = "segments" /\ main'.kernel = main.kernel /\ main'.lowest = lowest
      /\ main'.highest = highest /\ main'.count = main.count /\ main'.read = read /\ main'.i = i + 1
  BY <1>3 DEF IInv, MainInv, MainRec
<1>6. read \in Nat /\ i \in Nat /\ n = read + i
  BY DEF IInv, MainInv
<1> HIDE DEF n, read, i
<1>7. main'.read + main'.i = n + 1
  BY <1>5, <1>6
<1>8. SegmentsTo(vol, memory', main.kernel, n + 1)
  <2>1. SegmentsTo(vol, memory, main.kernel, n) /\ h.type = "load"
    BY <1>1 DEF LoadedTo, h
  <2>2. /\ h.fsize = 0 => SegmentsTo(vol, memory, main.kernel, n + 1)
        /\ SegmentsTo(vol, Stored(memory, h.vaddr, Content(vol, main.kernel, h.offset, h.fsize)),
                      main.kernel, n + 1)
    BY <1>1, <1>2, <2>1, SegmentsOn
  <2> QED
    BY <2>2 DEF h
<1>9. LoadedTo(vol, main', memory', n + 1)
  BY <1>4, <1>5, <1>8 DEF LoadedTo
<1> QED
  BY <1>2, <1>5, <1>7, <1>9, LoadingGoes DEF Loading

\* The files that may be opened.
LEMMA Candidate ==
    ASSUME NEW v, NEW f, WellMade(v)
    PROVE  /\ KernelFile(v, f) => f \in Candidates(v, "kernel") /\ IsFile(v, f)
           /\ InitrdFile(v, f) => f \in Candidates(v, "initrd") /\ IsFile(v, f)
BY DEF KernelFile, InitrdFile, IsNamed, IsFile, Candidates, FilesNamed

LEMMA SegmentWay ==
    ASSUME IInv, OnTheWay, scene = "boot", Loadable(vol), PhdrsRead \/ Segment
    PROVE  OnTheWay'
<1>1. main.at \in {"phdrs", "segments"} /\ (Segment => main.at = "segments" /\ main.i < batch)
  BY DEF PhdrsRead, Segment, At
<1>2. CASE Panic \/ Undefined
  BY <1>1, <1>2, MainEndsWay
<1>3. CASE PhdrsRead /\ Go("segments") /\ UNCHANGED <<vars, others, memory>>
  <2>1. vol' = vol /\ UNCHANGED stage1Vars /\ UNCHANGED conf
    BY <1>3 DEF vars, others, optVars
  <2>2. /\ main'.at = "segments" /\ main'.kernel = main.kernel /\ main'.lowest = main.lowest
        /\ main'.highest = main.highest /\ main'.count = main.count /\ main'.read = main.read /\ main'.i = main.i
    BY <1>3, Going
  <2>3. LoadedTo(vol, main, memory, main.read + main.i)
    BY <1>1 DEF OnTheWay, KernelPlaced, Loading
  <2>4. LoadedTo(vol, main', memory', main'.read + main'.i)
    BY <1>3, <2>2, <2>3 DEF LoadedTo
  <2> QED
    BY <1>1, <2>1, <2>2, <2>4, LoadingGoes DEF Loading
<1>4. CASE Segment /\ phdr.type \in {"null", "note"} /\ main' = [main EXCEPT !.i = @ + 1]
           /\ UNCHANGED <<vars, others, memory>>
  BY <1>1, <1>4, SkippedHeader
<1>5. CASE Segment /\ phdr.type = "load" /\ phdr.fsize = 0 /\ main' = Bounds /\ UNCHANGED <<vars, others, memory>>
  BY <1>1, <1>5, LoadedHeader
<1>6. CASE /\ Segment /\ phdr.type = "load" /\ Read(main.kernel, phdr.fsize, phdr.offset) /\ Go("segment")
           /\ UNCHANGED <<others, memory>>
  <2>1. vol' = vol /\ UNCHANGED stage1Vars /\ UNCHANGED conf
    BY <1>6 DEF Read, others, optVars
  <2>2. /\ main'.at = "segment" /\ main'.kernel = main.kernel /\ main'.lowest = main.lowest
        /\ main'.highest = main.highest /\ main'.count = main.count /\ main'.read = main.read /\ main'.i = main.i
    BY <1>6, Going
  <2>3. job'.op = "read" /\ job'.file = main.kernel /\ job'.asked = phdr.fsize /\ job'.offset = phdr.offset
    BY <1>6, ReadStarts
  <2>4. phdr' = phdr
    BY <2>1, <2>2 DEF phdr
  <2>5. FirstStage'
    BY <1>1, <2>1, FirstKept DEF OnTheWay
  <2>6. FilesKnown'
    BY <1>1, <2>1, <2>2 DEF OnTheWay, FilesKnown, Loading, Following, Placing
  <2>7. CallsKnown'
    BY <1>6, <2>2, <2>3, <2>4 DEF CallsKnown
  <2>8. main.count = 0 /\ LoadedTo(vol, main, memory, main.read + main.i)
    BY <1>1 DEF OnTheWay, KernelPlaced, RestPlaced, Loading
  <2>9. LoadedTo(vol, main, memory, main.read + main.i)'
    BY <1>6, <2>1, <2>2, <2>8 DEF LoadedTo
  <2>10. KernelPlaced' /\ RestPlaced'
    BY <2>2, <2>8, <2>9 DEF KernelPlaced, RestPlaced, Early, Loading, Following, Placing
  <2> QED
    BY <2>1, <2>5, <2>6, <2>7, <2>10 DEF OnTheWay
<1> QED
  BY <1>2, <1>3, <1>4, <1>5, <1>6 DEF PhdrsRead, Segment, UNCHANGEDButCall

\* The read has delivered what is in the file.
LEMMA SegmentReadWay ==
    ASSUME IInv, OnTheWay, scene = "boot", Loadable(vol), SegmentRead
    PROVE  OnTheWay'
<1>1. main.at = "segment" /\ pc = "idle" /\ main.i < batch
  BY DEF SegmentRead, At, IInv, MainInv
<1>2. CASE job.failed
  BY <1>1, <1>2, MainEndsWay DEF SegmentRead
<1>3. CASE ~job.failed
  <2> DEFINE k == main.read + main.i + 1
             h == phdr
  <2>1. job.op = "read" /\ job.file = main.kernel /\ job.asked = h.fsize /\ job.offset = h.offset /\ h.type = "load"
    BY <1>1 DEF OnTheWay, CallsKnown
  <2>2. k \in 1 .. Len(vol.elf.phdrs) /\ h = Header(vol, k)
    BY <1>1, ThisHeader
  <2>3. WellMade(vol) /\ KernelFile(vol, main.kernel) /\ vol \in BootVolumes
    BY <1>1 DEF IInv, MainInv, OnTheWay, FilesKnown, Loading
  <2>4. main.kernel \in Candidates(vol, "kernel") /\ IsFile(vol, main.kernel)
    BY <2>3, Candidate
  <2>5. main.kernel.size \in Nat
    BY <2>3, <2>4, FileSize
  <2>6. main' = Bounds /\ UNCHANGED <<vars, others>> /\ memory' = Stored(memory, h.vaddr, Bytes(job.out, FileByte))
    BY <1>3 DEF SegmentRead
  <2> HIDE DEF k, h
  <2>7. h.fsize \in Nat /\ h.offset \in Nat /\ h.offset + h.fsize <= main.kernel.size /\ InReach(vol, main.kernel)
    <3>1. h.fsize \in Nat /\ h.offset \in Nat
      BY <2>1, <2>2, <2>3, HeaderNumbers
    <3>2. k \in LoadsOf(vol) /\ h = vol.elf.phdrs[k]
      <4>1. vol.elf.phdrs \in Seq([type : STRING, vaddr : Int, fsize : Nat, msize : Nat, offset : Nat])
        BY <2>3, LoaderAssumption
      <4> DEFINE phdrs == vol.elf.phdrs
      <4>2. DOMAIN phdrs = 1 .. Len(phdrs)
        BY <4>1
      <4> QED
        BY <2>1, <2>2, <4>2 DEF LoadsOf, Header
    <3>3. h.offset + h.fsize <= main.kernel.size
      BY <2>4, <3>2 DEF Loadable
    <3>4. InReach(vol, main.kernel)
      BY <2>4 DEF Loadable
    <3> QED
      BY <3>1, <3>3, <3>4
  <2>8. Bytes(job.out, FileByte) = Content(vol, main.kernel, h.offset, h.fsize)
    <3> DEFINE n == h.fsize
               o == h.offset
               f == main.kernel
    <3>1. job.failed = FALSE
      BY <1>3 DEF IInv, FatInv, JobType, JobRec
    <3>2. /\ InReach(vol, job.file) /\ IsFile(vol, job.file) /\ n \in Nat /\ job.asked = n /\ job.offset \in Nat
          /\ job.file.size \in Nat /\ job.offset + n <= job.file.size
      BY <2>1, <2>4, <2>5, <2>7
    <3> HIDE DEF n
    <3>3. Bytes(job.out, FileByte) = Content(vol, job.file, job.offset, n)
      BY <1>1, <2>1, <3>1, <3>2, ReadGives
    <3> QED
      BY <2>1, <3>3 DEF n
  <2> QED
    BY <1>1, <2>1, <2>6, <2>8, LoadedHeader DEF h
<1> QED
  BY <1>2, <1>3

\* Behind the kernel.
LEMMA OpenInitrdWay ==
    ASSUME IInv, ConfInv, IniInv, OnTheWay, scene = "boot", Loadable(vol), OpenInitrd
    PROVE  OnTheWay'
<1>1. /\ main.at = "elf" /\ Walk(NameOf(Option("initrd"))) /\ Go("initrd")
      /\ UNCHANGED stage1Vars /\ UNCHANGED conf /\ UNCHANGED memory
  BY DEF OpenInitrd, At, UNCHANGEDButCall, others, optVars
<1>2. conf = "options" /\ KernelFile(vol, main.kernel) /\ main.count = 0 /\ LoadedTo(vol, main, memory, phdr_count)
  BY <1>1 DEF OnTheWay, FilesKnown, KernelPlaced, RestPlaced, Following
<1>3. vol' = vol /\ Option("initrd") = Said(vol.ini, "initrd")
  BY <1>1, <1>2, OptionsAreSaid DEF Walk, Loadable, IniInv
<1>4. job'.name = NameOf(Said(vol.ini, "initrd"))
  BY <1>1, <1>3, WalkStarts
<1>5. /\ main'.at = "initrd" /\ main'.kernel = main.kernel /\ main'.lowest = main.lowest
      /\ main'.highest = main.highest /\ main'.count = main.count
  BY <1>1, Going
<1>6. FirstStage'
  BY <1>1, FirstKept DEF OnTheWay
<1>7. FilesKnown' /\ CallsKnown'
  BY <1>1, <1>2, <1>3, <1>4, <1>5 DEF FilesKnown, CallsKnown, Loading, Following, Placing
<1>8. LoadedTo(vol, main, memory, phdr_count)'
  BY <1>1, <1>2, <1>3, <1>5 DEF LoadedTo, phdr_count
<1>9. KernelPlaced' /\ RestPlaced'
  BY <1>2, <1>5, <1>8 DEF KernelPlaced, RestPlaced, Early, Loading, Following, Placing
<1> QED
  BY <1>3, <1>6, <1>7, <1>9 DEF OnTheWay

LEMMA ReadInitrdWay ==
    ASSUME IInv, OnTheWay, scene = "boot", ReadInitrd
    PROVE  OnTheWay'
<1>1. main.at = "initrd" /\ pc = "idle"
  BY DEF ReadInitrd, At
<1>2. CASE job.ret # OK
  BY <1>1, <1>2, MainEndsWay DEF ReadInitrd
<1>3. CASE job.ret = OK
  <2> DEFINE f == job.file
  <2>1. /\ Read(f, f.size, 0) /\ main' = [main EXCEPT !.at = "cmdline", !.initrd = f]
        /\ UNCHANGED stage1Vars /\ UNCHANGED conf /\ UNCHANGED memory
    BY <1>3 DEF ReadInitrd, UNCHANGEDButCall, others, optVars
  <2>2. vol' = vol
    BY <2>1 DEF Read
  <2>3. /\ job.op = "walk" /\ job.name = NameOf(Said(vol.ini, "initrd")) /\ conf = "options"
        /\ KernelFile(vol, main.kernel) /\ main.count = 0 /\ LoadedTo(vol, main, memory, phdr_count)
    BY <1>1 DEF IInv, MainInv, OnTheWay, FilesKnown, KernelPlaced, RestPlaced, Following
  <2>4. InitrdFile(vol, f)
    BY <1>1, <1>3, <2>3 DEF IInv, FatInv, Walking, InitrdFile
  <2>5. job'.op = "read" /\ job'.file = f /\ job'.asked = f.size /\ job'.offset = 0
    BY <2>1, ReadStarts
  <2> HIDE DEF f
  <2>6. /\ main'.at = "cmdline" /\ main'.kernel = main.kernel /\ main'.lowest = main.lowest
        /\ main'.highest = main.highest /\ main'.count = main.count /\ main'.initrd = f
    BY <2>1 DEF IInv, MainInv, MainRec
  <2>7. FirstStage'
    BY <1>1, <2>1, FirstKept DEF OnTheWay
  <2>8. FilesKnown' /\ CallsKnown'
    BY <2>1, <2>2, <2>3, <2>4, <2>5, <2>6 DEF FilesKnown, CallsKnown, Loading, Following, Placing
  <2>9. LoadedTo(vol, main, memory, phdr_count)'
    BY <2>1, <2>2, <2>3, <2>6 DEF LoadedTo, phdr_count
  <2>10. KernelPlaced' /\ RestPlaced'
    BY <2>3, <2>6, <2>9 DEF KernelPlaced, RestPlaced, Early, Loading, Following, Placing
  <2> QED
    BY <2>2, <2>7, <2>8, <2>10 DEF OnTheWay
<1> QED
  BY <1>2, <1>3

-----------------------------------------------------------------------------
(* The pieces behind the kernel *)

LEMMA Layout ==
    ASSUME NEW low, NEW high, NEW size, NEW cmd, NEW count, NEW p, p = Placed(low, high, size, cmd, count)
    PROVE  /\ p.kernel.base = low /\ p.kernel.size = high - low
           /\ p.initrd.base = high
           /\ p.cmdline.base = high + size
           /\ p.mmap.base = high + size + (cmd + 1)
           /\ p.binfo.base = high + size + (cmd + 1) + count * EntryBytes
BY DEF Placed, piece, EndOf

\* When they are written, there is room for them.
LEMMA ThereIsRoom ==
    ASSUME IInv, OnTheWay, scene = "boot", Loadable(vol), main.at \in {"cmdline"} \cup Placing
    PROVE  /\ main.lowest \in Nat /\ main.highest \in Nat /\ Max(MapCounts) \in Nat
           /\ main.initrd.size \in Nat /\ Room(vol, main.highest, main.initrd)
           /\ IsFile(vol, main.initrd) /\ InReach(vol, main.initrd)
           /\ BoundsTo(vol, main.lowest, main.highest, Len(vol.elf.phdrs))
           /\ SegmentsTo(vol, memory, main.kernel, Len(vol.elf.phdrs))
<1>1. WellMade(vol) /\ vol \in BootVolumes /\ InitrdFile(vol, main.initrd)
  BY DEF IInv, MainInv, OnTheWay, FilesKnown
<1>2. main.initrd \in Candidates(vol, "initrd") /\ IsFile(vol, main.initrd)
  BY <1>1, Candidate
<1>3. main.initrd.size \in Nat /\ InReach(vol, main.initrd)
  BY <1>1, <1>2, FileSize DEF Loadable
<1>4. /\ BoundsTo(vol, main.lowest, main.highest, Len(vol.elf.phdrs))
      /\ SegmentsTo(vol, memory, main.kernel, Len(vol.elf.phdrs))
  BY DEF OnTheWay, KernelPlaced, LoadedTo, Following, phdr_count
<1>5. Max(MapCounts) \in Nat
  <2>1. PICK m \in MapCounts : \A n \in MapCounts : n <= m
    BY LoaderAssumption
  <2>2. MapCounts \subseteq Nat
    BY LoaderAssumption
  <2>3. Max(MapCounts) = m
    BY <2>1, <2>2, MaxIs
  <2> QED
    BY <2>1, <2>2, <2>3
<1> DEFINE v == vol
           low == main.lowest
           high == main.highest
<1>6. BoundsTo(v, low, high, Len(v.elf.phdrs)) /\ v \in BootVolumes /\ Loadable(v)
  BY <1>1, <1>4
<1> HIDE DEF v, low, high
<1>7. low \in Nat /\ high \in Nat /\ \A f \in Candidates(v, "initrd") : Room(v, high, f)
  BY <1>6, RoomIs
<1> QED
  BY <1>2, <1>3, <1>4, <1>5, <1>7 DEF v, low, high

\* One more piece is written, or none.
LEMMA PlacingGoes ==
    ASSUME OnTheWay, main.at \in {"cmdline"} \cup Placing, vol' = vol, UNCHANGED stage1Vars,
           main'.at \in Placing, main'.kernel = main.kernel, main'.initrd = main.initrd,
           main'.lowest = main.lowest, main'.highest = main.highest,
           main'.cmdlen = CmdLen(vol), main'.count \in Nat, main'.count <= Max(MapCounts),
           SegmentsTo(vol, memory', main.kernel, Len(vol.elf.phdrs)),
           PlacedIn(vol, memory', main.highest, main.initrd, main'.count)
    PROVE  OnTheWay'
<1>1. FirstStage'
  BY FirstKept DEF OnTheWay, Placing
<1>2. FilesKnown' /\ CallsKnown'
  BY DEF OnTheWay, FilesKnown, CallsKnown, Loading, Following, Placing
<1>3. LoadedTo(vol, main, memory, phdr_count)
  BY DEF OnTheWay, KernelPlaced, Following
<1>4. LoadedTo(vol, main, memory, phdr_count)'
  BY <1>3 DEF LoadedTo, phdr_count
<1>5. KernelPlaced' /\ RestPlaced'
  BY <1>4 DEF KernelPlaced, RestPlaced, Early, Loading, Following, Placing
<1> QED
  BY <1>1, <1>2, <1>5 DEF OnTheWay

LEMMA StoreWay ==
    ASSUME IInv, ConfInv, IniInv, OnTheWay, scene = "boot", Loadable(vol), StoreInitrdAndCmdline
    PROVE  OnTheWay'
<1>1. main.at = "cmdline" /\ pc = "idle"
  BY DEF StoreInitrdAndCmdline, At
<1>2. CASE job.failed
  BY <1>1, <1>2, MainEndsWay DEF StoreInitrdAndCmdline
<1>3. CASE ~job.failed
  <2> DEFINE f == main.initrd
             n == f.size
             cmdline == Option("cmd")
             to == Placed(main.lowest, main.highest, n, Len(cmdline), 0)
             high == main.highest
             length == Len(cmdline)
             image == Content(vol, f, 0, n)
             mem1 == Stored(memory, high, image)
             mem2 == Stored(mem1, high + n, CmdBytes(vol))
  <2>1. /\ memory' = Stored(Stored(memory, to.initrd.base, Bytes(job.out, FileByte)),
                            to.cmdline.base, Bytes(Append(cmdline, NUL), Char))
        /\ main' = [main EXCEPT !.cmdlen = length, !.at = "mmap"]
        /\ UNCHANGED <<vars, others>>
    BY <1>3 DEF StoreInitrdAndCmdline
  <2>2. /\ high \in Nat /\ Max(MapCounts) \in Nat /\ n \in Nat /\ Room(vol, high, f)
        /\ IsFile(vol, f) /\ InReach(vol, f)
        /\ BoundsTo(vol, main.lowest, high, Len(vol.elf.phdrs))
        /\ SegmentsTo(vol, memory, main.kernel, Len(vol.elf.phdrs))
    BY <1>1, ThereIsRoom
  <2>3. vol \in BootVolumes /\ cmdline = Said(vol.ini, "cmd") /\ main.count = 0
    BY <1>1, OptionsAreSaid DEF OnTheWay, FilesKnown, RestPlaced, Following, Loadable, IniInv
  <2>4. length = CmdLen(vol) /\ Bytes(Append(cmdline, NUL), Char) = CmdBytes(vol)
    BY <2>3 DEF CmdLen, CmdBytes
  <2>5. to.initrd.base = high /\ to.cmdline.base = high + n
    <3> DEFINE low == main.lowest
               none == 0
    <3>1. to = Placed(low, high, n, length, none)
      OBVIOUS
    <3> HIDE DEF to, low, high, n, length, none
    <3> QED
      BY <3>1, Layout
  <2>6. Bytes(job.out, FileByte) = image
    <3>1. job.op = "read" /\ job.file = f /\ job.asked = n /\ job.offset = 0
      BY <1>1 DEF OnTheWay, CallsKnown
    <3>2. job.failed = FALSE
      BY <1>3 DEF IInv, FatInv, JobType, JobRec
    <3>3. /\ InReach(vol, job.file) /\ IsFile(vol, job.file) /\ job.asked = n /\ job.offset \in Nat
          /\ job.file.size \in Nat /\ job.offset + n <= job.file.size
      <4>1. job.offset + n <= job.file.size
        <5>1. job.file.size = n
          BY <3>1
        <5> HIDE DEF n
        <5> QED
          BY <2>2, <3>1, <5>1
      <4> QED
        BY <2>2, <3>1, <4>1
    <3> HIDE DEF n, f
    <3>4. Bytes(job.out, FileByte) = Content(vol, job.file, job.offset, n)
      BY <1>1, <2>2, <3>1, <3>2, <3>3, ReadGives
    <3> QED
      BY <3>1, <3>4
  <2> HIDE DEF length, to
  <2>7. memory' = mem2
    BY <2>1, <2>4, <2>5, <2>6
  <2>8. PlacedIn(vol, mem2, high, f, 0)
    <3> HIDE DEF f, high
    <3> QED
      BY <2>2, <2>3, BothStored DEF n
  <2>9. SegmentsTo(vol, mem1, main.kernel, Len(vol.elf.phdrs))
    <3>1. IsBytes(image, n)
      BY <2>2, ContentBytes
    <3>2. high \in Int /\ high <= high
      BY <2>2
    <3> HIDE DEF high, image, n
    <3> QED
      BY <2>2, <2>3, <3>1, <3>2, SegmentsStay
  <2>10. SegmentsTo(vol, mem2, main.kernel, Len(vol.elf.phdrs))
    <3> DEFINE base == high + n
               cmd == CmdBytes(vol)
               m == CmdLen(vol) + 1
    <3>1. IsBytes(cmd, m)
      BY <2>3, CmdIsBytes
    <3>2. base \in Int /\ high <= base
      <4> HIDE DEF n, high
      <4> QED
        BY <2>2
    <3> HIDE DEF base, cmd, m, high, mem1
    <3>3. SegmentsTo(vol, Stored(mem1, base, cmd), main.kernel, Len(vol.elf.phdrs))
      BY <2>2, <2>3, <2>9, <3>1, <3>2, SegmentsStay
    <3> QED
      BY <3>3 DEF base, cmd
  <2>11. /\ main'.at = "mmap" /\ main'.kernel = main.kernel /\ main'.initrd = f /\ main'.lowest = main.lowest
         /\ main'.highest = high /\ main'.count = 0 /\ main'.cmdlen = CmdLen(vol)
    BY <2>1, <2>3, <2>4 DEF IInv, MainInv, MainRec
  <2>12. vol' = vol /\ UNCHANGED stage1Vars
    BY <2>1 DEF vars, others
  <2> HIDE DEF mem1, mem2
  <2> QED
    BY <1>1, <2>2, <2>7, <2>8, <2>10, <2>11, <2>12, PlacingGoes DEF Placing
<1> QED
  BY <1>2, <1>3

\* The pieces' places while they are written.
LEMMA PiecesAre ==
    ASSUME main.cmdlen = CmdLen(vol)
    PROVE  /\ Pieces.kernel.base = main.lowest /\ Pieces.kernel.size = main.highest - main.lowest
           /\ Pieces.initrd.base = main.highest
           /\ Pieces.cmdline.base = main.highest + main.initrd.size
           /\ Pieces.mmap.base = MapAt(vol, main.highest, main.initrd)
           /\ Pieces.binfo.base = MapAt(vol, main.highest, main.initrd) + main.count * EntryBytes
<1> DEFINE p == Pieces
           low == main.lowest
           high == main.highest
           size == main.initrd.size
           cmd == CmdLen(vol)
           count == main.count
<1>1. p = Placed(low, high, size, cmd, count)
  BY DEF Pieces
<1>2. MapAt(vol, main.highest, main.initrd) = high + size + (cmd + 1)
  BY DEF MapAt
<1> HIDE DEF p, low, high, size, cmd, count
<1>3. /\ p.kernel.base = low /\ p.kernel.size = high - low
      /\ p.initrd.base = high
      /\ p.cmdline.base = high + size
      /\ p.mmap.base = high + size + (cmd + 1)
      /\ p.binfo.base = high + size + (cmd + 1) + count * EntryBytes
  BY <1>1, Layout
<1> QED
  BY <1>2, <1>3 DEF p, low, high, size, count

\* What is written behind the last entry leaves everything alone.
LEMMA Behind ==
    ASSUME IInv, OnTheWay, scene = "boot", Loadable(vol), main.at \in Placing, NEW bytes, NEW n, IsBytes(bytes, n)
    PROVE  LET at == MapAt(vol, main.highest, main.initrd) + main.count * EntryBytes
           IN  /\ SegmentsTo(vol, Stored(memory, at, bytes), main.kernel, Len(vol.elf.phdrs))
               /\ PlacedIn(vol, Stored(memory, at, bytes), main.highest, main.initrd, main.count)
<1> DEFINE f == main.initrd
           low == main.lowest
           high == main.highest
           count == main.count
           v == vol
           at == MapAt(v, high, f) + count * EntryBytes
<1>1. /\ low \in Nat /\ high \in Nat /\ Max(MapCounts) \in Nat /\ f.size \in Nat /\ Room(v, high, f)
      /\ BoundsTo(v, low, high, Len(v.elf.phdrs))
      /\ SegmentsTo(v, memory, main.kernel, Len(v.elf.phdrs))
  BY ThereIsRoom
<1>2. v \in BootVolumes /\ count \in Nat /\ count <= Max(MapCounts) /\ PlacedIn(v, memory, high, f, count)
  BY DEF OnTheWay, RestPlaced
<1>3. Loadable(v)
  OBVIOUS
<1>4. at \in Int /\ high <= at
  <2>1. count * EntryBytes \in Nat
    <3> HIDE DEF count
    <3> QED
      BY <1>1, <1>2, Times
  <2>2. CmdLen(v) \in Nat
    BY <1>2, CmdIsBytes
  <2> DEFINE total == count * EntryBytes
             cmd == CmdLen(v)
             size == f.size
  <2>3. /\ at = high + size + (cmd + 1) + total
        /\ high \in Nat /\ total \in Nat /\ cmd \in Nat /\ size \in Nat
    BY <1>1, <2>1, <2>2 DEF MapAt
  <2> HIDE DEF at, total, cmd, size, high
  <2> QED
    BY <2>3
<1> HIDE DEF f, low, high, count, v
<1>5. PlacedIn(v, Stored(memory, at, bytes), high, f, count)
  BY <1>1, <1>2, PiecesStay
<1>6. SegmentsTo(v, Stored(memory, at, bytes), main.kernel, Len(v.elf.phdrs))
  <2> HIDE DEF at
  <2> QED
    BY <1>1, <1>2, <1>3, <1>4, SegmentsStay
<1> QED
  BY <1>5, <1>6 DEF f, high, count, v

LEMMA MapEntryWay ==
    ASSUME IInv, OnTheWay, scene = "boot", Loadable(vol), MapEntry
    PROVE  OnTheWay'
<1> DEFINE f == main.initrd
           high == main.highest
           count == main.count
           at == MapAt(vol, high, f) + count * EntryBytes
           mem == Stored(memory, at, Entry(count))
<1>1. main.at = "mmap" /\ count < Max(MapCounts) /\ UNCHANGED <<vars, others>>
  BY Zenon DEF MapEntry, At
<1>2. main.cmdlen = CmdLen(vol) /\ count \in Nat /\ PlacedIn(vol, memory, high, f, count) /\ vol \in BootVolumes
  BY <1>1 DEF OnTheWay, RestPlaced, Placing
<1>3. memory' = mem
  <2>1. memory' = Stored(memory, Pieces.mmap.base + count * EntryBytes, Entry(count))
    BY Zenon DEF MapEntry, Entry
  <2>2. Pieces.mmap.base = MapAt(vol, high, f)
    BY <1>2, PiecesAre
  <2> QED
    BY <2>1, <2>2
<1>4. PICK last \in (IF count + 1 \in MapCounts THEN BOOLEAN ELSE {FALSE}) :
            main' = [main EXCEPT !.count = count + 1, !.at = IF last THEN "video" ELSE "mmap"]
  BY Zenon DEF MapEntry
<1>5. main.at \in {"cmdline"} \cup Placing /\ main.at \in Placing
  BY <1>1 DEF Placing
<1>6. high \in Nat /\ Max(MapCounts) \in Nat /\ f.size \in Nat /\ Room(vol, high, f)
  BY <1>5, ThereIsRoom
<1>7. SegmentsTo(vol, mem, main.kernel, Len(vol.elf.phdrs))
  <2> DEFINE entry == Entry(count)
  <2>1. IsBytes(entry, EntryBytes)
    BY EntryIsBytes
  <2> HIDE DEF entry
  <2>2. SegmentsTo(vol, Stored(memory, at, entry), main.kernel, Len(vol.elf.phdrs))
    BY <1>5, <2>1, Behind
  <2> QED
    BY <2>2 DEF entry
<1>8. PlacedIn(vol, mem, high, f, count + 1)
  <2> HIDE DEF f, high, count
  <2> QED
    BY <1>1, <1>2, <1>6, EntryAdded
<1> DEFINE place == IF last THEN "video" ELSE "mmap"
           next == count + 1
<1>9. main' = [main EXCEPT !.count = next, !.at = place] /\ place \in Placing
  BY <1>4 DEF Placing
<1> HIDE DEF place, next
<1>10. /\ main'.at = place /\ main'.kernel = main.kernel /\ main'.initrd = f /\ main'.lowest = main.lowest
       /\ main'.highest = high /\ main'.count = next /\ main'.cmdlen = main.cmdlen
  BY <1>9 DEF IInv, MainInv, MainRec
<1>11. next \in Nat /\ next <= Max(MapCounts)
  <2> HIDE DEF count
  <2> QED
    BY <1>1, <1>2, <1>6 DEF next
<1>12. vol' = vol /\ UNCHANGED stage1Vars
  BY <1>1 DEF vars, others
<1>13. PlacedIn(vol, memory', high, f, next) /\ SegmentsTo(vol, memory', main.kernel, Len(vol.elf.phdrs))
  BY <1>3, <1>7, <1>8 DEF next
<1> HIDE DEF mem
<1> QED
  BY <1>2, <1>5, <1>9, <1>10, <1>11, <1>12, <1>13, PlacingGoes

\* The list ends, and the kernel is called.
LEMMA CallWay ==
    ASSUME MmapCallFails = FALSE, IInv, OnTheWay, scene = "boot", Loadable(vol), MapEnds \/ CallKernel
    PROVE  OnTheWay'
<1> DEFINE count == main.count
           at == MapAt(vol, main.highest, main.initrd) + count * EntryBytes
           info == [k \in 1 .. InfoBytes |-> InfoByte(k)]
<1>1. main.at \in {"mmap", "video"} /\ main.at \in {"cmdline"} \cup Placing
  BY DEF MapEnds, CallKernel, At, Placing
<1>2. CASE Panic
  BY <1>1, <1>2, MainEndsWay
<1>3. /\ main.cmdlen = CmdLen(vol) /\ count \in Nat /\ count <= Max(MapCounts)
      /\ PlacedIn(vol, memory, main.highest, main.initrd, count)
      /\ SegmentsTo(vol, memory, main.kernel, Len(vol.elf.phdrs))
  BY <1>1, ThereIsRoom DEF OnTheWay, RestPlaced, Placing
<1>4. CASE Go("video") /\ UNCHANGED <<vars, others, memory>>
  <2>1. vol' = vol /\ UNCHANGED stage1Vars /\ memory' = memory
    BY <1>4 DEF vars, others
  <2>2. /\ main'.at = "video" /\ main'.kernel = main.kernel /\ main'.initrd = main.initrd
        /\ main'.lowest = main.lowest /\ main'.highest = main.highest /\ main'.count = count
        /\ main'.cmdlen = main.cmdlen
    BY <1>4, Going
  <2> HIDE DEF count
  <2> QED
    BY <1>1, <1>3, <2>1, <2>2, PlacingGoes DEF Placing
<1>5. CASE /\ memory' = Stored(memory, Pieces.binfo.base, info)
           /\ Go("kmain") /\ UNCHANGED <<vars, others>>
  <2>1. vol' = vol /\ UNCHANGED stage1Vars
    BY <1>5 DEF vars, others
  <2>2. /\ main'.at = "kmain" /\ main'.kernel = main.kernel /\ main'.initrd = main.initrd
        /\ main'.lowest = main.lowest /\ main'.highest = main.highest /\ main'.count = count
        /\ main'.cmdlen = main.cmdlen
    BY <1>5, Going
  <2>3. memory' = Stored(memory, at, info)
    BY <1>3, <1>5, PiecesAre
  <2>4. IsBytes(info, InfoBytes)
    <3>1. InfoBytes \in Nat
      BY BootInfoAssumption
    <3> QED
      BY <3>1 DEF IsBytes
  <2> HIDE DEF info
  <2>5. /\ SegmentsTo(vol, memory', main.kernel, Len(vol.elf.phdrs))
        /\ PlacedIn(vol, memory', main.highest, main.initrd, count)
    BY <1>1, <2>3, <2>4, Behind DEF Placing
  <2> HIDE DEF count
  <2> QED
    BY <1>1, <1>3, <2>1, <2>2, <2>5, PlacingGoes DEF Placing
<1>6. CASE MapEnds
  BY <1>4, <1>6 DEF MapEnds
<1>7. CASE CallKernel
  BY <1>2, <1>5, <1>7 DEF CallKernel
<1> QED
  BY <1>6, <1>7

-----------------------------------------------------------------------------
(* The jump into the kernel *)

LEMMA HandNext ==
    ASSUME FatReadable, MmapCallFails = FALSE, \A v \in BootVolumes : Loadable(v),
           IInv, ConfInv, IniInv, HandInv, [LoaderNext]_loaderVars
    PROVE  HandInv'
<1>1. vol' = vol /\ scene' = scene
  BY OptsMove
<1> SUFFICES ASSUME scene = "boot"
             PROVE  OnTheWay'
  BY <1>1 DEF HandInv
<1>2. OnTheWay /\ Loadable(vol)
  BY DEF HandInv, OnTheWay
<1>3. CASE FatOnwards
  BY <1>2, <1>3, ReaderWay DEF FatOnwards
<1>4. CASE FatMay /\ (\E e \in Errors : BiosFails(e)) /\ UNCHANGED <<others, main, memory>>
  BY <1>2, <1>4, ReaderWay
<1>5. CASE stage2_main
  <2>1. CASE RunStage1 \/ OpenConfig \/ ReadConfig \/ FillOptions \/ ConfigGiven \/ Options
    BY <1>2, <2>1, StartsWay
  <2>2. CASE OpenKernel
    BY <1>2, <2>2, OpenKernelWay
  <2>3. CASE ReadEhdr
    BY <1>2, <2>3, ReadEhdrWay
  <2>4. CASE ReadPhdrs
    BY <1>2, <2>4, ReadPhdrsWay
  <2>5. CASE PhdrsRead \/ Segment
    BY <1>2, <2>5, SegmentWay
  <2>6. CASE SegmentRead
    BY <1>2, <2>6, SegmentReadWay
  <2>7. CASE OpenInitrd
    BY <1>2, <2>7, OpenInitrdWay
  <2>8. CASE ReadInitrd
    BY <1>2, <2>8, ReadInitrdWay
  <2>9. CASE StoreInitrdAndCmdline
    BY <1>2, <2>9, StoreWay
  <2>10. CASE MapEntry
    BY <1>2, <2>10, MapEntryWay
  <2>11. CASE MapEnds \/ CallKernel
    BY <1>2, <2>11, CallWay
  <2> QED
    BY <1>5, <2>1, <2>2, <2>3, <2>4, <2>5, <2>6, <2>7, <2>8, <2>9, <2>10, <2>11 DEF stage2_main
<1>6. CASE AnyCall
  BY <1>6 DEF AnyCall
<1>7. CASE UNCHANGED loaderVars
  <2>1. UNCHANGED <<vol, main, memory, stage1Vars, conf, job>>
    BY <1>7 DEF loaderVars, vars, optVars
  <2>2. SameCall(job, job')
    BY <2>1 DEF SameCall
  <2> QED
    BY <1>2, <2>1, <2>2, HandKept
<1> QED
  BY <1>3, <1>4, <1>5, <1>6, <1>7 DEF LoaderNext

LEMMA HoldsIs ==
    ASSUME NEW p, NEW base, p.base = base, NEW bytes, HoldsIn(memory, base, bytes)
    PROVE  Holds(p, bytes)
BY DEF Holds, HoldsIn

\* What the invariant says when the kernel is called.
LEMMA HandedOver ==
    ASSUME IInv, HandInv, \A v \in BootVolumes : Loadable(v)
    PROVE  Handover
<1> SUFFICES ASSUME main.at = "kmain"
             PROVE  /\ Stage2Complete
                    /\ \A s \in {t \in {vol.elf.phdrs[k] : k \in 1 .. phdr_count} : t.type = "load"} :
                          /\ Holds([base |-> s.vaddr], BytesOf(main.kernel, s.offset, s.fsize))
                          /\ Pieces.kernel.base <= s.vaddr /\ s.vaddr + s.msize <= EndOf(Pieces.kernel)
                    /\ Holds(Pieces.initrd, BytesOf(main.initrd, 0, main.initrd.size))
                    /\ Holds(Pieces.cmdline, Bytes(Append(Said(vol.ini, "cmd"), NUL), Char))
                    /\ \A n \in 0 .. main.count - 1 :
                          Holds([base |-> Pieces.mmap.base + n * EntryBytes],
                                [k \in 1 .. EntryBytes |-> MapByte(n, k)])
  BY DEF Handover
<1> DEFINE f == main.initrd
           low == main.lowest
           high == main.highest
<1>1. scene = "boot" /\ OnTheWay /\ Loadable(vol) /\ vol \in BootVolumes
      /\ main.at \in {"cmdline"} \cup Placing /\ main.at \in Placing
  BY DEF IInv, MainInv, HandInv, OnTheWay, Placing
<1>2. main.cmdlen = CmdLen(vol) /\ PlacedIn(vol, memory, high, f, main.count)
  BY <1>1 DEF OnTheWay, RestPlaced
<1>3. /\ low \in Nat /\ high \in Nat
      /\ BoundsTo(vol, low, high, Len(vol.elf.phdrs))
      /\ SegmentsTo(vol, memory, main.kernel, Len(vol.elf.phdrs))
  BY <1>1, ThereIsRoom
<1>4. /\ Pieces.kernel.base = low /\ Pieces.kernel.size = high - low /\ Pieces.initrd.base = high
      /\ Pieces.cmdline.base = high + f.size /\ Pieces.mmap.base = MapAt(vol, high, f)
  BY <1>2, PiecesAre
<1>5. Stage2Complete
  BY <1>1 DEF OnTheWay, FirstStage
<1>6. ASSUME NEW s \in {t \in {vol.elf.phdrs[k] : k \in 1 .. phdr_count} : t.type = "load"}
      PROVE  /\ Holds([base |-> s.vaddr], BytesOf(main.kernel, s.offset, s.fsize))
             /\ Pieces.kernel.base <= s.vaddr /\ s.vaddr + s.msize <= EndOf(Pieces.kernel)
  <2>1. PICK k \in 1 .. phdr_count : s = vol.elf.phdrs[k] /\ s.type = "load"
    BY <1>6
  <2>2. k \in LoadsTo(vol, Len(vol.elf.phdrs)) /\ s = Header(vol, k)
    BY <2>1 DEF LoadsTo, Header, phdr_count
  <2>3. low <= s.vaddr /\ s.vaddr + s.msize <= high /\ Loaded(vol, memory, main.kernel, k)
    BY <1>3, <2>2 DEF BoundsTo, SegmentsTo, Highest
  <2>4. HoldsIn(memory, s.vaddr, BytesOf(main.kernel, s.offset, s.fsize))
    BY <2>2, <2>3, ContentIs DEF Loaded
  <2>5. Holds([base |-> s.vaddr], BytesOf(main.kernel, s.offset, s.fsize))
    <3> DEFINE base == s.vaddr
               bytes == BytesOf(main.kernel, s.offset, s.fsize)
               p == [base |-> base]
    <3>1. p.base = base /\ HoldsIn(memory, base, bytes)
      BY <2>4
    <3> HIDE DEF base, bytes, p
    <3>2. Holds(p, bytes)
      BY <3>1, HoldsIs
    <3> QED
      BY <3>2 DEF base, bytes, p
  <2>6. EndOf(Pieces.kernel) = high
    <3> DEFINE p == Pieces.kernel
    <3>1. p.base = low /\ p.size = high - low
      BY <1>4
    <3> HIDE DEF low, high, p
    <3>2. EndOf(p) = high
      BY <1>3, <3>1 DEF EndOf
    <3> QED
      BY <3>2 DEF p
  <2> QED
    BY <1>4, <2>3, <2>5, <2>6
<1>7. Holds(Pieces.initrd, BytesOf(f, 0, f.size))
  <2> DEFINE p == Pieces.initrd
             bytes == BytesOf(f, 0, f.size)
  <2>1. p.base = high /\ HoldsIn(memory, high, bytes)
    BY <1>2, <1>4, ContentIs DEF PlacedIn
  <2> HIDE DEF p, bytes, high
  <2>2. Holds(p, bytes)
    BY <2>1, HoldsIs
  <2> QED
    BY <2>2 DEF p, bytes
<1>8. Holds(Pieces.cmdline, CmdBytes(vol))
  <2> DEFINE p == Pieces.cmdline
             bytes == CmdBytes(vol)
             base == high + f.size
  <2>1. p.base = base /\ HoldsIn(memory, base, bytes)
    BY <1>2, <1>4 DEF PlacedIn
  <2> HIDE DEF p, bytes, base
  <2>2. Holds(p, bytes)
    BY <2>1, HoldsIs
  <2> QED
    BY <2>2 DEF p, bytes
<1>9. ASSUME NEW n \in 0 .. main.count - 1
      PROVE  Holds([base |-> Pieces.mmap.base + n * EntryBytes], Entry(n))
  <2> DEFINE base == Pieces.mmap.base + n * EntryBytes
             bytes == Entry(n)
             p == [base |-> base]
  <2>1. HoldsIn(memory, base, bytes)
    BY <1>2, <1>4 DEF PlacedIn
  <2>2. p.base = base
    OBVIOUS
  <2> HIDE DEF base, bytes, p
  <2>3. Holds(p, bytes)
    BY <2>1, <2>2, HoldsIs
  <2> QED
    BY <2>3 DEF base, bytes, p
<1> QED
  BY <1>5, <1>6, <1>7, <1>8, <1>9 DEF CmdBytes, Entry

\* Of every start that can succeed: whatever the partition, its files, BOOT.INI and
\* what it says, the kernel's segments, the command line, the second stage and the
\* firmware's map, the kernel is called only with all of it in memory, each piece where
\* the boot info says and none over another.
THEOREM HandoverIsComplete ==
    ASSUME FatReadable, MmapCallFails = FALSE, \A v \in BootVolumes : Loadable(v)
    PROVE  LoaderSpec => []Handover
<1>1. LoaderInit => HandInv
  BY HandInit
<1>2. LoaderSpec => []IInv
  BY Invariant
<1>3. IInv /\ ConfInv /\ IniInv /\ HandInv /\ [LoaderNext]_loaderVars => HandInv'
  <2> SUFFICES ASSUME IInv, ConfInv, IniInv, HandInv, [LoaderNext]_loaderVars PROVE HandInv'
    OBVIOUS
  <2> QED
    BY HandNext
<1>4. IInv /\ HandInv => Handover
  <2> SUFFICES ASSUME IInv, HandInv PROVE Handover
    OBVIOUS
  <2> QED
    BY HandedOver
<1>5. LoaderInit => IniInv
  BY DEF LoaderInit, OptsOff, IniInv
<1>6. IInv /\ ConfInv /\ IniInv /\ [LoaderNext]_loaderVars => IniInv'
  <2> SUFFICES ASSUME IInv, ConfInv, IniInv, [LoaderNext]_loaderVars PROVE IniInv'
    OBVIOUS
  <2> QED
    BY IniNext
<1> QED
  BY <1>1, <1>2, <1>3, <1>4, <1>5, <1>6, ConfAlways, PTL DEF LoaderSpec


-----------------------------------------------------------------------------
(* The query *)

\* Where the separators of n conditions c are, of a query that begins at b: P[n + 1]
\* is the place behind it.
QueryLayout(P, c, n, b) ==
    /\ n \in 1 .. 3 /\ b \in Nat \ {0} /\ P[1] = b + 1
    /\ \A k \in 1 .. n + 1 : P[k] \in Nat /\ P[k] > b
    /\ \A k \in 1 .. n : P[k + 1] = P[k] + 1 + Width(c[k]) /\ c[k].op \in {EQUALS, LESS, MORE}
    /\ \A k \in 1 .. n : \A l \in 1 .. n + 1 : k < l => P[k] + Width(c[k]) < P[l]

\* The condition k in the buffer tx: its separator and inequality, and its number.
Marked(tx, P, c, k) ==
    /\ tx[P[k]] \in {COLON, "x"}
    /\ c[k].op = EQUALS => (tx[P[k]] = "x" \/ k = 1 \/ c[k - 1].op = EQUALS)
    /\ c[k].op # EQUALS => tx[P[k] + 1] = c[k].op /\ tx[P[k] + 2] = EQUALS

Numbered(tx, P, c, k) ==
    LET numeral == tx[P[k] + Width(c[k])] IN numeral \in Numerals /\ NumberOf[numeral] = c[k].n

\* Where the separators of the query w are, of a query that begins at b.
Places(w, b) == [k \in 1 .. Len(Conditions(w)) + 1 |-> b + Separators(w)[k] - 1]

\* Places one behind the other.
LEMMA NextPlace ==
    ASSUME NEW p \in Nat, p > 1, NEW w \in Nat, NEW q, q = p + 1 + w
    PROVE  q \in Nat /\ q > 1 /\ p + w < q /\ p < q
  OBVIOUS

LEMMA LaterPlace ==
    ASSUME NEW p \in Nat, NEW w \in Nat, NEW q \in Nat, NEW r \in Nat, p + w < q, q < r
    PROVE  p + w < r
  OBVIOUS

\* The same places, counted from b.
LEMMA PlaceMoves ==
    ASSUME NEW b \in Nat \ {0}, NEW x \in Nat, x > 1, NEW y \in Nat, NEW w \in Nat,
           NEW p, p = b + x - 1, NEW q, q = b + y - 1
    PROVE  p \in Nat /\ p > b /\ (y = x + 1 + w => q = p + 1 + w)
OBVIOUS

\* Where the conditions of a written query begin.
LEMMA SeparatorsAre ==
    ASSUME NEW w, NEW t, Writes(t, w), Len(t) \in Nat
    PROVE  /\ QueryLayout(Separators(w), Conditions(w), Len(Conditions(w)), 1)
           /\ Len(t) = Separators(w)[Len(Conditions(w)) + 1] - 1
           /\ Len(Conditions(w)) = IF w.type = "mode" THEN 1 ELSE 3
<1> DEFINE c == Conditions(w)
           s == Separators(w)
           n == Len(c)
           W == [k \in 1 .. 3 |-> Width(c[k])]
<1>1. \A k \in 1 .. 3 : W[k] = Width(c[k]) /\ W[k] \in {1, 3}
  BY DEF Width
<1>2. \A k \in 1 .. n : c[k].op \in {EQUALS, LESS, MORE}
  <2> HIDE DEF n
  <2>1. \A k \in 1 .. n : c[k].op = EQUALS \/ c[k].op \in {LESS, MORE}
    BY DEF Writes, n
  <2> QED
    BY <2>1
<1>3. CASE w.type = "mode"
  <2>1. s = <<2, 2 + 1 + W[1]>>
    BY <1>1, <1>3 DEF Separators
  <2>2. n = 1 /\ Len(t) = s[2] - 1
    BY <1>3, <2>1 DEF Writes, Conditions
  <2> HIDE DEF c, n, s, W
  <2>3. s[1] = 2 /\ s[2] = s[1] + 1 + W[1] /\ W[1] \in {1, 3} /\ s[2] \in Nat
    BY <1>1, <2>1
  <2>4. \A k \in 1 .. n : s[k + 1] = s[k] + 1 + W[k]
    BY <2>2, <2>3
  <2>5. \A k \in 1 .. n + 1 : s[k] \in Nat /\ s[k] > 1
    BY <2>2, <2>3
  <2>6. \A k \in 1 .. n : \A l \in 1 .. n + 1 : k < l => s[k] + W[k] < s[l]
    BY <2>2, <2>3
  <2>7. QueryLayout(s, c, n, 1)
    BY <1>1, <1>2, <2>2, <2>3, <2>4, <2>5, <2>6 DEF QueryLayout
  <2>8. Len(t) = s[n + 1] - 1
    BY <2>2
  <2> QED
    BY <1>3, <2>2, <2>7, <2>8 DEF c, n, s
<1>4. CASE w.type # "mode"
  <2>1. s = <<2, 2 + 1 + W[1], 2 + 1 + W[1] + 1 + W[2], 2 + 1 + W[1] + 1 + W[2] + 1 + W[3]>>
    BY <1>1, <1>4 DEF Separators
  <2>2. n = 3 /\ Len(t) = s[4] - 1
    <3>1. Len(s) = 4
      <4> HIDE DEF s
      <4> QED
        BY <2>1
    <3> QED
      BY <3>1 DEF Writes
  <2> HIDE DEF c, n, s, W
  <2>3. W[1] \in Nat /\ W[2] \in Nat /\ W[3] \in Nat
    BY <1>1
  <2>4. s[1] = 2
    BY <2>1
  <2>5. s[2] = s[1] + 1 + W[1]
    BY <2>1
  <2>6. s[3] = s[2] + 1 + W[2]
    BY <2>1
  <2>7. s[4] = s[3] + 1 + W[3]
    BY <2>1
  <2>8. s[1] \in Nat /\ s[1] > 1
    BY <2>4
  <2>9. s[2] \in Nat /\ s[2] > 1 /\ s[1] + W[1] < s[2] /\ s[1] < s[2]
    BY <2>3, <2>8, <2>5, NextPlace
  <2>10. s[3] \in Nat /\ s[3] > 1 /\ s[2] + W[2] < s[3] /\ s[2] < s[3]
    BY <2>3, <2>9, <2>6, NextPlace
  <2>11. s[4] \in Nat /\ s[4] > 1 /\ s[3] + W[3] < s[4] /\ s[3] < s[4]
    BY <2>3, <2>10, <2>7, NextPlace
  <2>12. s[1] + W[1] < s[3]
    BY <2>3, <2>8, <2>9, <2>10, LaterPlace
  <2>13. s[1] + W[1] < s[4]
    BY <2>3, <2>8, <2>10, <2>11, <2>12, LaterPlace
  <2>14. s[2] + W[2] < s[4]
    BY <2>3, <2>9, <2>10, <2>11, LaterPlace
  <2>15. ASSUME NEW k \in 1 .. n PROVE k = 1 \/ k = 2 \/ k = 3
    BY <2>2
  <2>16. ASSUME NEW k \in 1 .. n + 1 PROVE k = 1 \/ k = 2 \/ k = 3 \/ k = 4
    BY <2>2
  <2>17. \A k \in 1 .. n : s[k + 1] = s[k] + 1 + W[k]
    <3> TAKE k \in 1 .. n
    <3>1. CASE k = 1
      BY <2>5, <3>1
    <3>2. CASE k = 2
      BY <2>6, <3>2
    <3>3. CASE k = 3
      BY <2>7, <3>3
    <3> QED
      BY <2>15, <3>1, <3>2, <3>3
  <2>18. \A k \in 1 .. n + 1 : s[k] \in Nat /\ s[k] > 1
    BY <2>16, <2>8, <2>9, <2>10, <2>11
  <2>19. \A k \in 1 .. n : \A l \in 1 .. n + 1 : k < l => s[k] + W[k] < s[l]
    <3> SUFFICES ASSUME NEW k \in 1 .. n, NEW l \in 1 .. n + 1, k < l
                 PROVE  s[k] + W[k] < s[l]
      OBVIOUS
    <3>1. CASE k = 1
      <4>1. l = 2 \/ l = 3 \/ l = 4
        BY <2>16, <3>1
      <4> QED
        BY <2>9, <2>12, <2>13, <3>1, <4>1
    <3>2. CASE k = 2
      <4>1. l = 3 \/ l = 4
        BY <2>16, <3>2
      <4> QED
        BY <2>10, <2>14, <3>2, <4>1
    <3>3. CASE k = 3
      <4>1. l = 4
        BY <2>16, <3>3
      <4> QED
        BY <2>11, <3>3, <4>1
    <3> QED
      BY <2>15, <3>1, <3>2, <3>3
  <2>20. QueryLayout(s, c, n, 1)
    BY <1>1, <1>2, <2>2, <2>4, <2>17, <2>18, <2>19 DEF QueryLayout
  <2>21. Len(t) = s[n + 1] - 1
    BY <2>2
  <2> QED
    BY <1>4, <2>2, <2>20, <2>21 DEF c, n, s
<1> QED
  BY <1>3, <1>4

\* The query t in the buffer tx, from b on.
AsWritten(tx, P, c, n, b, t, w) ==
    /\ QueryLayout(P, c, n, b) /\ P[n + 1] = b + Len(t) /\ tx[b] = w.type /\ w.type \in {"mode", "find"}
    /\ n = IF w.type = "mode" THEN 1 ELSE 3
    /\ \A k \in 1 .. n : Marked(tx, P, c, k) /\ Numbered(tx, P, c, k)

LEMMA PlacesAre ==
    ASSUME NEW w, NEW t, Writes(t, w), Len(t) \in Nat, NEW b \in Nat \ {0},
           NEW c, c = Conditions(w), NEW n, n = Len(c), NEW P, P = Places(w, b),
           NEW tx, \A i \in 1 .. Len(t) : tx[b + i - 1] = t[i]
    PROVE  AsWritten(tx, P, c, n, b, t, w)
<1> DEFINE s == Separators(w)
           W(k) == Width(c[k])
<1>1. QueryLayout(s, c, n, 1) /\ Len(t) = s[n + 1] - 1 /\ n = IF w.type = "mode" THEN 1 ELSE 3
  BY SeparatorsAre
<1>2. P = [k \in 1 .. n + 1 |-> b + s[k] - 1]
  BY DEF Places
<1> HIDE DEF s
<1>3. n \in Nat /\ n \in 1 .. 3 /\ \A k \in 1 .. n : k \in 1 .. n + 1 /\ k + 1 \in 1 .. n + 1 /\ k < n + 1
  BY <1>1 DEF QueryLayout
<1>4. \A k \in 1 .. n + 1 : P[k] = b + s[k] - 1 /\ s[k] \in Nat /\ s[k] > 1 /\ P[k] \in Nat /\ P[k] > b
  <2> SUFFICES ASSUME NEW k \in 1 .. n + 1
               PROVE  P[k] = b + s[k] - 1 /\ s[k] \in Nat /\ s[k] > 1 /\ P[k] \in Nat /\ P[k] > b
    OBVIOUS
  <2>1. P[k] = b + s[k] - 1
    BY <1>2
  <2>2. s[k] \in Nat /\ s[k] > 1
    BY <1>1 DEF QueryLayout
  <2> QED
    BY <2>1, <2>2
<1>5. \A k \in 1 .. n : W(k) \in {1, 3}
  BY DEF Width
<1> HIDE DEF W
<1>6. \A k \in 1 .. n : P[k + 1] = P[k] + 1 + W(k)
  <2> SUFFICES ASSUME NEW k \in 1 .. n PROVE P[k + 1] = P[k] + 1 + W(k)
    OBVIOUS
  <2>1. s[k + 1] = s[k] + 1 + W(k)
    BY <1>1 DEF QueryLayout, W
  <2>2. /\ P[k] = b + s[k] - 1 /\ s[k] \in Nat /\ s[k] > 1
        /\ P[k + 1] = b + s[k + 1] - 1 /\ s[k + 1] \in Nat /\ W(k) \in Nat
    <3>1. k \in 1 .. n + 1 /\ k + 1 \in 1 .. n + 1
      BY <1>3
    <3>2. P[k + 1] = b + s[k + 1] - 1 /\ s[k + 1] \in Nat
      BY <1>4, <3>1
    <3>3. P[k] = b + s[k] - 1 /\ s[k] \in Nat /\ s[k] > 1
      BY <1>4, <3>1
    <3>4. W(k) \in Nat
      BY <1>5
    <3> QED
      BY <3>2, <3>3, <3>4
  <2> QED
    BY <2>1, <2>2, PlaceMoves
<1>7. \A k \in 1 .. n : \A l \in 1 .. n + 1 : k < l => P[k] + W(k) < P[l]
  <2> SUFFICES ASSUME NEW k \in 1 .. n, NEW l \in 1 .. n + 1, k < l PROVE P[k] + W(k) < P[l]
    OBVIOUS
  <2>1. s[k] + W(k) < s[l]
    BY <1>1 DEF QueryLayout, W
  <2>2. /\ P[k] = b + s[k] - 1 /\ s[k] \in Nat /\ s[k] > 1
        /\ P[l] = b + s[l] - 1 /\ s[l] \in Nat /\ W(k) \in Nat
    <3>1. k \in 1 .. n + 1
      BY <1>3
    <3>2. P[k] = b + s[k] - 1 /\ s[k] \in Nat /\ s[k] > 1
      BY <1>4, <3>1
    <3>3. P[l] = b + s[l] - 1 /\ s[l] \in Nat
      BY <1>4
    <3>4. W(k) \in Nat
      BY <1>5
    <3> QED
      BY <3>2, <3>3, <3>4
  <2> QED
    BY <2>1, <2>2
<1>8. QueryLayout(P, c, n, b)
  <2>1. P[1] = b + 1
    <3>1. s[1] = 2 /\ 1 \in 1 .. n + 1
      BY <1>1, <1>3 DEF QueryLayout
    <3> QED
      BY <1>4, <3>1
  <2>2. \A k \in 1 .. n : c[k].op \in {EQUALS, LESS, MORE}
    BY <1>1 DEF QueryLayout
  <2> QED
    BY <1>3, <1>4, <1>6, <1>7, <2>1, <2>2 DEF QueryLayout, W
<1>9. P[n + 1] = b + Len(t)
  <2>1. n + 1 \in 1 .. n + 1
    BY <1>3
  <2> QED
    BY <1>1, <1>4, <2>1
<1>10. Len(t) >= 1 /\ \A k \in 1 .. n : s[k] + W(k) <= Len(t)
  <2>1. n + 1 \in 1 .. n + 1
    BY <1>3
  <2>2. s[n + 1] \in Nat /\ s[n + 1] > 1
    BY <1>4, <2>1
  <2>3. ASSUME NEW k \in 1 .. n PROVE s[k] + W(k) <= Len(t)
    <3>1. s[k] + W(k) < s[n + 1]
      BY <1>1, <1>3, <2>1 DEF QueryLayout, W
    <3>2. s[k] \in Nat
      BY <1>3, <1>4
    <3> QED
      BY <1>1, <1>5, <2>2, <3>1, <3>2
  <2> QED
    BY <1>1, <2>2, <2>3
<1>11. tx[b] = w.type /\ w.type \in {"mode", "find"}
  <2>1. 1 \in 1 .. Len(t) /\ b + 1 - 1 = b
    BY <1>10
  <2>2. tx[b] = t[1]
    BY <2>1
  <2> QED
    BY <2>2 DEF Writes
<1>12. ASSUME NEW k \in 1 .. n PROVE Marked(tx, P, c, k) /\ Numbered(tx, P, c, k)
  <2>1. /\ t[s[k]] \in {COLON, "x"}
        /\ \/ c[k].op = EQUALS /\ (t[s[k]] = "x" \/ k = 1 \/ c[k - 1].op = EQUALS)
           \/ c[k].op \in {LESS, MORE} /\ t[s[k] + 1] = c[k].op /\ t[s[k] + 2] = EQUALS
        /\ t[s[k] + W(k)] \in Numerals /\ NumberOf[t[s[k] + W(k)]] = c[k].n
    BY DEF Writes, s, W
  <2>2. s[k] \in Nat /\ s[k] > 1 /\ P[k] = b + s[k] - 1 /\ s[k] + W(k) <= Len(t) /\ W(k) \in {1, 3}
    BY <1>3, <1>4, <1>5, <1>10
  <2>3. ASSUME NEW d \in 0 .. W(k) PROVE tx[P[k] + d] = t[s[k] + d]
    <3>1. s[k] + d \in 1 .. Len(t) /\ P[k] + d = b + (s[k] + d) - 1
      <4>1. /\ s[k] \in Nat /\ s[k] > 1 /\ W(k) \in Nat /\ P[k] = b + s[k] - 1
            /\ s[k] + W(k) <= Len(t) /\ Len(t) \in Nat
        BY <1>1, <2>2
      <4>2. d \in Nat /\ d <= W(k)
        BY <4>1
      <4>3. s[k] + d \in 1 .. Len(t)
        BY <4>1, <4>2
      <4>4. P[k] + d = b + (s[k] + d) - 1
        BY <4>1, <4>2
      <4> QED
        BY <4>3, <4>4
    <3> QED
      BY <3>1
  <2>4. tx[P[k]] = t[s[k]] /\ tx[P[k] + W(k)] = t[s[k] + W(k)]
    <3>1. 0 \in 0 .. W(k) /\ W(k) \in 0 .. W(k) /\ P[k] + 0 = P[k] /\ s[k] + 0 = s[k]
      BY <2>2
    <3> QED
      BY <2>3, <3>1
  <2>5. Numbered(tx, P, c, k)
    BY <2>1, <2>4 DEF Numbered, W
  <2>6. c[k].op # EQUALS => tx[P[k] + 1] = t[s[k] + 1] /\ tx[P[k] + 2] = t[s[k] + 2]
    <3> SUFFICES ASSUME c[k].op # EQUALS PROVE 1 \in 0 .. W(k) /\ 2 \in 0 .. W(k)
      BY <2>3
    <3>1. W(k) = 3
      BY DEF W, Width
    <3> QED
      BY <3>1
  <2>7. Marked(tx, P, c, k)
    <3>1. LESS # EQUALS /\ MORE # EQUALS
      BY DEF LESS, MORE, EQUALS
    <3> QED
      BY <2>1, <2>4, <2>6, <3>1 DEF Marked
  <2> QED
    BY <2>5, <2>7
<1> QED
  BY <1>1, <1>8, <1>9, <1>11, <1>12 DEF AsWritten

\* The parser's locals.
Ineqs == {EQUALS, LESS, MORE}
Parts == Seq([at : Int, ineq : Ineqs])
QueryRecords == [at : Int, type : Int, ineq : Ineqs, parts : Parts, mode : Int, tried : Nat]

\* What of the query q the part k is.
IsPart(q, k, at, op) == q.parts[k].at = at /\ q.parts[k].ineq = op

Updated(q, at, ineq, parts) == [q EXCEPT !.at = at, !.ineq = ineq, !.parts = parts]

\* What an update leaves.
HasUpdates(q, r, at, ineq, parts) ==
    /\ r \in QueryRecords /\ r.at = at /\ r.ineq = ineq /\ r.parts = parts
    /\ r.type = q.type /\ r.tried = q.tried /\ r.mode = q.mode

LEMMA UpdatedQuery ==
    ASSUME NEW q \in QueryRecords, NEW a \in Int, NEW i \in Ineqs, NEW p \in Parts,
           NEW r, r = Updated(q, a, i, p)
    PROVE  \* What an update leaves.
HasUpdates(q, r, a, i, p)
  BY DEF QueryRecords, Updated, HasUpdates

\* One more part, or none.
MorePart(q, r, at, op) ==
    /\ Len(r.parts) = Len(q.parts) + 1 /\ IsPart(r, Len(q.parts) + 1, at, op)
    /\ \A k \in 1 .. Len(q.parts) : r.parts[k] = q.parts[k]

LEMMA Appended ==
    ASSUME NEW q \in QueryRecords, NEW at \in Int, NEW op \in Ineqs, NEW r,
           r.parts = Append(q.parts, [at |-> at, ineq |-> op])
    PROVE  r.parts \in Parts /\ MorePart(q, r, at, op)
<1> DEFINE S == [at : Int, ineq : Ineqs]
           e == [at |-> at, ineq |-> op]
<1>1. q.parts \in Seq(S) /\ e \in S /\ e.at = at /\ e.ineq = op
  BY DEF QueryRecords, Parts
<1> DEFINE s == q.parts
<1> HIDE DEF S, e, s
<1>2. /\ Append(s, e) \in Seq(S) /\ Len(Append(s, e)) = Len(s) + 1 /\ Append(s, e)[Len(s) + 1] = e
      /\ \A k \in 1 .. Len(s) : Append(s, e)[k] = s[k]
  BY <1>1 DEF s
<1>3. r.parts = Append(s, e)
  BY DEF s, e
<1>4. r.parts[Len(s) + 1].at = at /\ r.parts[Len(s) + 1].ineq = op
  BY <1>1, <1>2, <1>3
<1>5. r.parts \in Parts
  BY <1>2, <1>3 DEF Parts, S
<1>6. Len(r.parts) = Len(s) + 1 /\ \A k \in 1 .. Len(s) : r.parts[k] = s[k]
  BY <1>2, <1>3
<1> QED
  BY <1>4, <1>5, <1>6 DEF MorePart, IsPart, s

\* What the next iteration makes of the query: an inequality and a number, ...
LEMMA PartWithIneq ==
    ASSUME query \in QueryRecords, text \in Seq(Tokens), NEW p \in Nat \ {0}, NEW sep,
           p < Len(text), text[p + 1] = EQUALS, text[p] \in {LESS, MORE}, Len(query.parts) < 3
    PROVE  LET r == NextPart(p, sep) IN
           /\ r \in QueryRecords /\ r.at = p + 2 /\ r.ineq = text[p] /\ MorePart(query, r, p + 2, text[p])
           /\ r.type = query.type /\ r.tried = query.tried /\ r.mode = query.mode
<1> DEFINE parts == Append(query.parts, [at |-> p + 2, ineq |-> text[p]])
           r == Updated(query, p + 2, text[p], parts)
<1>1. IneqAt(p) = text[p]
  BY DEF IneqAt
<1>2. NextPart(p, sep) = r
  BY <1>1 DEF NextPart, Updated
<1>3. text[p] \in Ineqs /\ p + 2 \in Int
  BY DEF Ineqs
<1>4. parts \in Parts
  BY <1>3 DEF QueryRecords, Parts
<1>5. r = Updated(query, p + 2, text[p], parts)
  OBVIOUS
<1> HIDE DEF parts, r
<1>6. HasUpdates(query, r, p + 2, text[p], parts)
  BY <1>3, <1>4, <1>5, UpdatedQuery
<1>7. MorePart(query, r, p + 2, text[p])
  BY <1>3, <1>6, Appended DEF parts, HasUpdates
<1> QED
  BY <1>2, <1>6, <1>7 DEF HasUpdates

\* a number behind a separator, ...
LEMMA PartWithout ==
    ASSUME query \in QueryRecords, text \in Seq(Tokens), NEW p \in Nat \ {0}, NEW sep, sep # NUL,
           text[p] \notin {LESS, MORE}, Len(query.parts) < 3,
           NEW op, op = IF sep = "x" THEN EQUALS ELSE query.ineq
    PROVE  LET r == NextPart(p, sep) IN
           /\ r \in QueryRecords /\ r.at = p + 1 /\ r.ineq = op /\ MorePart(query, r, p, op)
           /\ r.type = query.type /\ r.tried = query.tried /\ r.mode = query.mode
<1> DEFINE parts == Append(query.parts, [at |-> p, ineq |-> op])
           r == Updated(query, p + 1, op, parts)
<1>1. IneqAt(p) \notin {LESS, MORE}
  BY DEF IneqAt, LESS, MORE, NUL
<1>2. NextPart(p, sep) = r
  BY <1>1 DEF NextPart, Updated
<1>3. op \in Ineqs /\ p + 1 \in Int /\ p \in Int
  <2>1. query.ineq \in Ineqs
    BY DEF QueryRecords
  <2>2. EQUALS \in Ineqs
    BY DEF Ineqs
  <2>3. op \in Ineqs
    BY <2>1, <2>2
  <2> QED
    BY <2>3
<1>4. parts \in Parts
  BY <1>3 DEF QueryRecords, Parts
<1>5. r = Updated(query, p + 1, op, parts)
  OBVIOUS
<1> HIDE DEF parts, r
<1>6. HasUpdates(query, r, p + 1, op, parts)
  BY <1>3, <1>4, <1>5, UpdatedQuery
<1>7. MorePart(query, r, p, op)
  BY <1>3, <1>6, Appended DEF parts, HasUpdates
<1> QED
  BY <1>2, <1>6, <1>7 DEF HasUpdates

\* or neither of them.
LEMMA NoPart ==
    ASSUME query \in QueryRecords, text \in Seq(Tokens), NEW p \in Nat \ {0},
           text[p + 1] # EQUALS \/ text[p] \notin {LESS, MORE}
    PROVE  LET r == NextPart(p, NUL) IN
           /\ r \in QueryRecords /\ r.at = p + 1 /\ r.ineq = query.ineq /\ r.parts = query.parts
           /\ r.type = query.type /\ r.tried = query.tried /\ r.mode = query.mode
<1> DEFINE r == Updated(query, p + 1, query.ineq, query.parts)
<1>1. IneqAt(p) \notin {LESS, MORE}
  BY DEF IneqAt, LESS, MORE, NUL
<1>2. NextPart(p, NUL) = r
  BY <1>1 DEF NextPart, Updated, NUL
<1>3. query.ineq \in Ineqs /\ p + 1 \in Int /\ query.parts \in Parts
  BY DEF QueryRecords
<1>4. r = Updated(query, p + 1, query.ineq, query.parts)
  OBVIOUS
<1> HIDE DEF r
<1>5. HasUpdates(query, r, p + 1, query.ineq, query.parts)
  BY <1>3, <1>4, UpdatedQuery
<1> QED
  BY <1>2, <1>5 DEF HasUpdates

\* The buffer and the query behind j of its n conditions: the separators up to there
\* are NULs.
CutText(tx, P, c, n, b, type, j) ==
    /\ tx \in Seq(Tokens) /\ tx[Len(tx)] = NUL /\ P[n + 1] <= Len(tx) /\ tx[P[n + 1]] = NUL
    /\ tx[b] = type /\ type \in {"mode", "find"}
    /\ \A k \in 1 .. n : Numbered(tx, P, c, k)
    /\ \A k \in 1 .. n : IF k <= j THEN tx[P[k]] = NUL ELSE Marked(tx, P, c, k)

CutQuery(q, P, c, b, j) ==
    /\ q \in QueryRecords /\ q.type = b /\ Len(q.parts) = j
    /\ \A k \in 1 .. j : IsPart(q, k, P[k] + Width(c[k]), c[k].op)

\* The next iteration is for a separator, or for the token in front of it.
Reached(q, P, c, j) ==
    /\ q.tried = 0
    /\ q.ineq = IF j = 0 THEN EQUALS ELSE c[j].op
    /\ q.at = P[j + 1] \/ (q.at = P[j + 1] - 1 /\ (j = 0 \/ c[j].op # EQUALS))

\* Neither the end of the buffer nor a mark of the syntax.
NotMark(x) == x \notin {NUL, COLON, "x", LESS, MORE, EQUALS}

LEMMA NumeralsAreNoMarks ==
    /\ \A x \in Numerals : NotMark(x)
    /\ NotMark("mode") /\ NotMark("find")
<1>1. \A x \in Numerals : NotMark(x)
  BY DEF Numerals, NotMark
<1>2. NotMark("mode") /\ NotMark("find")
  BY DEF NotMark, COLON, LESS, MORE, EQUALS, NUL
<1> QED
  BY <1>1, <1>2

\* Places that are in the buffer.
LEMMA PlaceWithin ==
    ASSUME NEW p \in Nat, NEW w \in Nat, NEW e \in Nat, NEW b \in Nat, NEW n \in Nat, p > b, p + w < e, e <= n
    PROVE  \A d \in 0 .. w : p + d \in 1 .. n
  OBVIOUS

\* A NUL at the next separator leaves the conditions behind it, and every number.
LEMMA NextSeparator ==
    ASSUME NEW tx, NEW P, NEW c, NEW n, NEW b, NEW type, NEW j \in 0 .. n - 1,
           QueryLayout(P, c, n, b), CutText(tx, P, c, n, b, type, j)
    PROVE  CutText([tx EXCEPT ![P[j + 1]] = NUL], P, c, n, b, type, j + 1)
<1> DEFINE k == j + 1
           tz == [tx EXCEPT ![P[k]] = NUL]
           W(l) == Width(c[l])
<1>1. k \in 1 .. n /\ k \in 1 .. n + 1 /\ n \in Nat /\ n + 1 \in 1 .. n + 1
  BY DEF QueryLayout
<1>2. \A l \in 1 .. n + 1 : P[l] \in Nat /\ P[l] > b
  BY DEF QueryLayout
<1>3. \A l \in 1 .. n : \A m \in 1 .. n + 1 : l < m => P[l] + W(l) < P[m]
  BY DEF QueryLayout
<1>4. \A l : W(l) \in {1, 3}
  BY DEF Width
<1>5. b \in Nat
  BY DEF QueryLayout
<1> HIDE DEF k, W
<1>6. \A l \in 1 .. n : l \in 1 .. n + 1
  BY <1>1
<1>7. \A l \in 1 .. n : \A d \in 0 .. W(l) : l # k => P[l] + d # P[k]
  <2> SUFFICES ASSUME NEW l \in 1 .. n, NEW d \in 0 .. W(l), l # k PROVE P[l] + d # P[k]
    OBVIOUS
  <2>1. P[l] \in Nat /\ P[k] \in Nat /\ W(l) \in {1, 3} /\ W(k) \in {1, 3}
    BY <1>1, <1>2, <1>4, <1>6
  <2>2. l < k \/ k < l
    BY <1>1
  <2>3. CASE l < k
    <3>1. P[l] + W(l) < P[k]
      BY <1>1, <1>3, <2>3
    <3> QED
      BY <2>1, <3>1
  <2>4. CASE k < l
    <3>1. P[k] + W(k) < P[l]
      BY <1>1, <1>3, <1>6, <2>4
    <3> QED
      BY <2>1, <3>1
  <2> QED
    BY <2>2, <2>3, <2>4
<1>8. P[k] + W(k) # P[k] /\ P[n + 1] # P[k] /\ P[k] <= Len(tx) /\ b # P[k] /\ P[k] \in 1 .. Len(tx)
  <2>1. P[k] \in Nat /\ P[n + 1] \in Nat /\ P[k] > b /\ W(k) \in {1, 3}
    BY <1>1, <1>2, <1>4
  <2>2. P[k] + W(k) < P[n + 1]
    BY <1>1, <1>3
  <2>3. P[n + 1] <= Len(tx) /\ Len(tx) \in Nat
    BY DEF CutText
  <2> QED
    BY <1>5, <2>1, <2>2, <2>3
<1>9. tx \in Seq(Tokens)
  BY DEF CutText
<1>10. /\ tz \in Seq(Tokens) /\ Len(tz) = Len(tx) /\ tz[P[k]] = NUL
       /\ \A i \in 1 .. Len(tx) : i # P[k] => tz[i] = tx[i]
  <2> DEFINE x == P[k]
  <2>1. x \in 1 .. Len(tx)
    BY <1>8
  <2> HIDE DEF x
  <2>2. [tx EXCEPT ![x] = NUL] \in Seq(Tokens) /\ Len([tx EXCEPT ![x] = NUL]) = Len(tx)
    BY <1>9, <2>1 DEF Tokens
  <2>3. [tx EXCEPT ![x] = NUL][x] = NUL /\ \A i \in 1 .. Len(tx) : i # x => [tx EXCEPT ![x] = NUL][i] = tx[i]
    BY <1>9, <2>1
  <2> QED
    BY <2>2, <2>3 DEF x
<1> HIDE DEF tz
<1>11. \A l \in 1 .. n : \A d \in 0 .. W(l) : P[l] + d \in 1 .. Len(tx)
  <2> SUFFICES ASSUME NEW l \in 1 .. n, NEW d \in 0 .. W(l) PROVE P[l] + d \in 1 .. Len(tx)
    OBVIOUS
  <2>1. P[l] \in Nat /\ P[n + 1] \in Nat /\ P[l] > b /\ W(l) \in {1, 3}
    BY <1>1, <1>2, <1>4, <1>6
  <2>2. P[l] + W(l) < P[n + 1]
    BY <1>1, <1>3
  <2>3. P[n + 1] <= Len(tx) /\ Len(tx) \in Nat
    BY DEF CutText
  <2>4. W(l) \in Nat
    BY <2>1
  <2> QED
    BY <1>5, <2>1, <2>2, <2>3, <2>4, PlaceWithin
<1>12. \A l \in 1 .. n : l # k => \A d \in 0 .. W(l) : tz[P[l] + d] = tx[P[l] + d]
  BY <1>7, <1>10, <1>11
<1>13. ASSUME NEW l \in 1 .. n PROVE tz[P[l] + W(l)] = tx[P[l] + W(l)]
  <2>1. W(l) \in 0 .. W(l)
    BY <1>4
  <2>2. CASE l = k
    BY <1>8, <1>10, <1>11, <2>1, <2>2
  <2>3. CASE l # k
    BY <1>12, <2>1, <2>3
  <2> QED
    BY <2>2, <2>3
<1>14. \A l \in 1 .. n : Numbered(tz, P, c, l)
  <2> SUFFICES ASSUME NEW l \in 1 .. n PROVE Numbered(tz, P, c, l)
    OBVIOUS
  <2>1. Numbered(tx, P, c, l)
    BY DEF CutText
  <2> QED
    BY <1>13, <2>1 DEF Numbered, W
<1>15. ASSUME NEW l \in 1 .. n, l # k
       PROVE  /\ tz[P[l]] = tx[P[l]]
              /\ Marked(tx, P, c, l) => Marked(tz, P, c, l)
  <2>1. P[l] \in Nat
    BY <1>2, <1>6
  <2>2. 0 \in 0 .. W(l) /\ P[l] + 0 = P[l]
    BY <1>4, <2>1
  <2>3. tz[P[l]] = tx[P[l]]
    BY <1>12, <1>15, <2>2
  <2>4. c[l].op # EQUALS => tz[P[l] + 1] = tx[P[l] + 1] /\ tz[P[l] + 2] = tx[P[l] + 2]
    <3> SUFFICES ASSUME c[l].op # EQUALS PROVE 1 \in 0 .. W(l) /\ 2 \in 0 .. W(l)
      BY <1>12, <1>15
    <3>1. W(l) = 3
      BY DEF W, Width
    <3> QED
      BY <3>1
  <2> QED
    BY <2>3, <2>4 DEF Marked
<1>16. ASSUME NEW l \in 1 .. n PROVE IF l <= k THEN tz[P[l]] = NUL ELSE Marked(tz, P, c, l)
  <2>1. IF l <= j THEN tx[P[l]] = NUL ELSE Marked(tx, P, c, l)
    BY DEF CutText
  <2>2. CASE l = k
    BY <1>1, <1>10, <2>2
  <2>3. CASE l # k
    <3>1. l <= k <=> l <= j
      BY <1>1, <2>3 DEF k
    <3> QED
      BY <1>15, <2>1, <2>3, <3>1
  <2> QED
    BY <2>2, <2>3
<1>17. P[n + 1] <= Len(tz) /\ tz[P[n + 1]] = NUL /\ tz[b] = type /\ type \in {"mode", "find"}
  <2>1. P[n + 1] <= Len(tx) /\ tx[P[n + 1]] = NUL /\ tx[b] = type /\ type \in {"mode", "find"} /\ Len(tx) \in Nat
    BY DEF CutText
  <2>2. P[n + 1] \in Nat /\ P[n + 1] > b /\ b \in Nat \ {0}
    BY <1>1, <1>2 DEF QueryLayout
  <2>3. P[n + 1] \in 1 .. Len(tx) /\ b \in 1 .. Len(tx)
    BY <2>1, <2>2
  <2> QED
    BY <1>8, <1>10, <2>1, <2>3
<1>18. tz[Len(tz)] = NUL
  <2>1. tx[Len(tx)] = NUL /\ Len(tx) \in 1 .. Len(tx)
    BY <1>1, <1>2, <1>8 DEF CutText
  <2> QED
    BY <1>10, <2>1
<1>19. CutText(tz, P, c, n, b, type, k)
  BY <1>10, <1>14, <1>16, <1>17, <1>18 DEF CutText
<1> QED
  BY <1>19 DEF tz, k

\* The parser at the place of the token in front of a separator: it goes on by one.
LEMMA TokenStep ==
    ASSUME NEW P, NEW c, NEW n, NEW b, NEW type, NEW j \in 0 .. n, QueryLayout(P, c, n, b),
           CutText(text, P, c, n, b, type, j), CutQuery(query, P, c, b, j), Reached(query, P, c, j),
           ParseQuery, query.at # P[j + 1]
    PROVE  text' = text /\ CutQuery(query', P, c, b, j) /\ Reached(query', P, c, j)
<1> DEFINE p == query.at
           W(l) == Width(c[l])
<1>1. p = P[j + 1] - 1 /\ P[j + 1] \in Nat /\ P[j + 1] > b /\ b \in Nat \ {0}
  <2>1. j + 1 \in 1 .. n + 1
    BY DEF QueryLayout
  <2> QED
    BY <2>1 DEF Reached, QueryLayout
<1> HIDE DEF p
<1>2. NotMark(text[p])
  <2>1. CASE j = 0
    <3>1. P[1] = b + 1 /\ j + 1 = 1
      BY <2>1 DEF QueryLayout
    <3>2. p = b
      BY <1>1, <3>1
    <3>3. text[b] \in {"mode", "find"}
      BY DEF CutText
    <3> QED
      BY <3>2, <3>3, NumeralsAreNoMarks
  <2>2. CASE j # 0
    <3>1. j \in 1 .. n /\ j \in 1 .. n + 1
      BY <2>2 DEF QueryLayout
    <3>2. P[j + 1] = P[j] + 1 + W(j) /\ P[j] \in Nat
      BY <3>1 DEF QueryLayout
    <3>3. W(j) \in {1, 3}
      BY DEF Width
    <3> HIDE DEF W
    <3>4. p = P[j] + W(j)
      <4>1. W(j) \in Nat
        BY <3>3
      <4> QED
        BY <1>1, <3>2, <4>1
    <3>5. Numbered(text, P, c, j)
      BY <3>1 DEF CutText
    <3>6. text[p] \in Numerals
      BY <3>4, <3>5 DEF Numbered, W
    <3> QED
      BY <3>6, NumeralsAreNoMarks
  <2> QED
    BY <2>1, <2>2
<1>3. p \in Nat \ {0} /\ text \in Seq(Tokens) /\ query \in QueryRecords
  BY <1>1 DEF CutText, CutQuery
<1>4. text' = text /\ query' = NextPart(p, NUL)
  BY <1>2 DEF ParseQuery, NotMark, p
<1>5. text[p] \notin {LESS, MORE}
  BY <1>2 DEF NotMark
<1> DEFINE r == NextPart(p, NUL)
<1>6. /\ r \in QueryRecords /\ r.at = p + 1 /\ r.ineq = query.ineq /\ r.parts = query.parts
      /\ r.type = query.type /\ r.tried = query.tried
  BY <1>3, <1>5, NoPart
<1> HIDE DEF r
<1>7. CutQuery(r, P, c, b, j)
  BY <1>6 DEF CutQuery, IsPart
<1>8. p + 1 = P[j + 1]
  BY <1>1
<1>9. Reached(r, P, c, j)
  BY <1>6, <1>8 DEF Reached
<1> QED
  BY <1>4, <1>7, <1>9 DEF r

\* At a separator: the condition behind it becomes a part.
LEMMA SeparatorStep ==
    ASSUME NEW P, NEW c, NEW n, NEW b, NEW type, NEW j \in 0 .. n, QueryLayout(P, c, n, b),
           CutText(text, P, c, n, b, type, j), CutQuery(query, P, c, b, j), Reached(query, P, c, j),
           ParseQuery, query.at = P[j + 1]
    PROVE  /\ j < n /\ CutText(text', P, c, n, b, type, j + 1) /\ CutQuery(query', P, c, b, j + 1)
           /\ Reached(query', P, c, j + 1)
<1> DEFINE k == j + 1
           p == P[k] + 1
           W(l) == Width(c[l])
           sep == text[P[k]]
           op == c[k].op
<1>1. n \in 1 .. 3 /\ n \in Nat
  BY DEF QueryLayout
<1>2. j < n
  <2> SUFFICES ASSUME ~(j < n) PROVE FALSE
    OBVIOUS
  <2>1. j = n
    BY <1>1
  <2> QED
    BY <2>1 DEF ParseQuery, CutText
<1>3. k \in 1 .. n /\ k \in 1 .. n + 1 /\ k + 1 \in 1 .. n + 1 /\ n + 1 \in 1 .. n + 1 /\ k # 0 /\ k - 1 = j /\ ~(k <= j)
  BY <1>1, <1>2
<1>4. Marked(text, P, c, k) /\ Numbered(text, P, c, k)
  BY <1>3 DEF CutText
<1>5. /\ P[k] \in Nat /\ P[k + 1] = P[k] + 1 + W(k) /\ op \in {EQUALS, LESS, MORE}
      /\ P[k] + W(k) < P[n + 1] /\ P[n + 1] \in Nat
  BY <1>2, <1>3 DEF QueryLayout
<1>6. sep \in {COLON, "x"} /\ sep # NUL
  <2>1. sep \in {COLON, "x"}
    BY <1>4 DEF Marked
  <2> QED
    BY <2>1 DEF COLON, NUL
<1>7. text' = [text EXCEPT ![P[k]] = NUL] /\ query' = NextPart(p, sep)
  BY <1>6 DEF ParseQuery
<1>8. CutText(text', P, c, n, b, type, j + 1)
  <2>1. j \in 0 .. n - 1
    BY <1>1, <1>2
  <2> QED
    BY <1>7, <2>1, NextSeparator
<1> DEFINE r == NextPart(p, sep)
<1>9. query \in QueryRecords /\ text \in Seq(Tokens) /\ p \in Nat \ {0} /\ Len(query.parts) = j /\ j < 3
  <2>1. query \in QueryRecords /\ text \in Seq(Tokens) /\ Len(query.parts) = j
    BY DEF CutText, CutQuery
  <2> QED
    BY <1>1, <1>2, <1>5, <2>1
<1>10. query.ineq = (IF j = 0 THEN EQUALS ELSE c[j].op) /\ query.tried = 0 /\ query.type = b
  BY DEF Reached, CutQuery
<1> HIDE DEF k, p, W, sep, op, r
<1>11. /\ r \in QueryRecords /\ r.type = b /\ r.tried = 0 /\ r.ineq = op
       /\ MorePart(query, r, P[k] + W(k), op)
       /\ r.at = P[k + 1] \/ (r.at = P[k + 1] - 1 /\ op # EQUALS)
  <2>1. CASE op = EQUALS
    <3>1. W(k) = 1
      BY <2>1 DEF W, Width, op
    <3>2. p = P[k] + W(k) /\ p + 1 = P[k + 1]
      BY <1>5, <3>1 DEF p
    <3>3. text[p] \notin {LESS, MORE}
      <4>1. text[p] \in Numerals
        BY <1>4, <3>2 DEF Numbered, W
      <4> QED
        BY <4>1, NumeralsAreNoMarks DEF NotMark
    <3>4. op = IF sep = "x" THEN EQUALS ELSE query.ineq
      <4>1. sep = "x" \/ k = 1 \/ c[k - 1].op = EQUALS
        BY <1>4, <2>1 DEF Marked, op, sep
      <4>2. k = 1 <=> j = 0
        BY <1>3
      <4> QED
        BY <1>3, <1>10, <2>1, <4>1, <4>2
    <3>5. /\ r \in QueryRecords /\ r.at = p + 1 /\ r.ineq = op /\ MorePart(query, r, p, op)
          /\ r.type = query.type /\ r.tried = query.tried
      BY <1>6, <1>9, <3>3, <3>4, PartWithout DEF r
    <3> QED
      BY <1>10, <3>2, <3>5
  <2>2. CASE op # EQUALS
    <3>1. W(k) = 3
      BY <2>2 DEF W, Width, op
    <3>2. p + 2 = P[k] + W(k) /\ p + 2 = P[k + 1] - 1 /\ p + 1 = P[k] + 2
      BY <1>5, <3>1 DEF p
    <3>3. text[p] = op /\ text[p + 1] = EQUALS
      BY <1>4, <2>2, <3>2 DEF Marked, p, op
    <3>4. text[p] \in {LESS, MORE}
      BY <1>5, <2>2, <3>3
    <3>5. p < Len(text)
      <4>1. P[n + 1] <= Len(text) /\ Len(text) \in Nat
        BY DEF CutText
      <4> QED
        BY <1>5, <1>9, <3>1, <3>2, <4>1
    <3>6. /\ r \in QueryRecords /\ r.at = p + 2 /\ r.ineq = text[p] /\ MorePart(query, r, p + 2, text[p])
          /\ r.type = query.type /\ r.tried = query.tried
      BY <1>9, <3>3, <3>4, <3>5, PartWithIneq DEF r
    <3> QED
      BY <1>10, <2>2, <3>2, <3>3, <3>6
  <2> QED
    BY <2>1, <2>2
<1>12. CutQuery(r, P, c, b, k)
  <2>1. Len(r.parts) = k
    BY <1>9, <1>11 DEF MorePart, k
  <2>2. ASSUME NEW l \in 1 .. k PROVE IsPart(r, l, P[l] + Width(c[l]), c[l].op)
    <3>1. CASE l = k
      BY <1>9, <1>11, <3>1 DEF MorePart, k, W, op
    <3>2. CASE l # k
      <4>1. l \in 1 .. j /\ j = Len(query.parts)
        BY <1>9, <3>2 DEF k
      <4>2. IsPart(query, l, P[l] + Width(c[l]), c[l].op)
        BY <4>1 DEF CutQuery
      <4>3. r.parts[l] = query.parts[l]
        BY <1>11, <4>1 DEF MorePart
      <4> QED
        BY <4>2, <4>3 DEF IsPart
    <3> QED
      BY <3>1, <3>2
  <2> QED
    BY <1>11, <2>1, <2>2 DEF CutQuery
<1>13. Reached(r, P, c, k)
  BY <1>3, <1>11 DEF Reached, op
<1>14. query' = r
  BY <1>7 DEF r
<1> QED
  BY <1>2, <1>8, <1>12, <1>13, <1>14 DEF k

LEMMA OneElement ==
    ASSUME NEW S, NEW s \in Seq(S), NEW a \in 1 .. Len(s)
    PROVE  SubSeq(s, a, a) = <<s[a]>>
<1> DEFINE u == SubSeq(s, a, a)
           v == <<s[a]>>
<1>1. u \in Seq(S) /\ Len(u) = 1 /\ u[1] = s[a]
  <2>1. Len(u) = 1 /\ u[1] = s[a]
    OBVIOUS
  <2>2. u \in Seq(S)
    OBVIOUS
  <2> QED
    BY <2>1, <2>2
<1>2. v \in Seq(S) /\ Len(v) = 1 /\ v[1] = s[a]
  OBVIOUS
<1> HIDE DEF u, v
<1>3. \A i \in 1 .. Len(u) : u[i] = v[i]
  BY <1>1, <1>2
<1>4. u = v
  BY <1>1, <1>2, <1>3, SeqEqual
<1> QED
  BY <1>4 DEF u, v

\* A token with a NUL behind it.
LEMMA OneToken ==
    ASSUME text \in Seq(Tokens), text[Len(text)] = NUL, NEW a \in 1 .. Len(text) - 1, text[a] # NUL, text[a + 1] = NUL
    PROVE  StringAt(a) = <<text[a]>>
<1> DEFINE n == Len(text)
<1>1. n \in Nat /\ text[n] = NUL /\ a \in 1 .. n /\ a + 1 \in a .. n /\ a \in Nat
  OBVIOUS
<1>2. \A q \in a .. (a + 1) - 1 : text[q] \notin {NUL, NUL}
  <2> SUFFICES ASSUME NEW q \in a .. (a + 1) - 1 PROVE text[q] # NUL
    OBVIOUS
  <2>1. q = a
    BY <1>1
  <2> QED
    BY <2>1
<1>3. text[a + 1] \in {NUL, NUL}
  OBVIOUS
<1>4. until(a, NUL) = a + 1
  <2> HIDE DEF n
  <2>1. n = Len(text)
    BY DEF n
  <2> QED
    BY <1>1, <1>2, <1>3, <2>1, UntilIs
<1>5. StringAt(a) = SubSeq(text, a, a)
  <2>1. (a + 1) - 1 = a
    BY <1>1
  <2> QED
    BY <1>4, <2>1 DEF StringAt
<1>6. SubSeq(text, a, a) = <<text[a]>>
  BY <1>1, OneElement
<1> QED
  BY <1>5, <1>6

\* Behind the last condition: the query's type, and its parts.
LEMMA QueryRead ==
    ASSUME NEW P, NEW c, NEW n, NEW b, NEW type, QueryLayout(P, c, n, b),
           CutText(text, P, c, n, b, type, n), CutQuery(query, P, c, b, n)
    PROVE  /\ StringAt(query.type) = <<type>>
           /\ \A k \in 1 .. n : query.parts[k].ineq = c[k].op /\ Value(query.parts[k]) = c[k].n
<1> DEFINE W(k) == Width(c[k])
<1>1. n \in 1 .. 3 /\ n \in Nat /\ 1 \in 1 .. n /\ 1 \in 1 .. n + 1 /\ n + 1 \in 1 .. n + 1
  BY DEF QueryLayout
<1>2. \A k \in 1 .. n : text[P[k]] = NUL
  <2> SUFFICES ASSUME NEW k \in 1 .. n PROVE text[P[k]] = NUL
    OBVIOUS
  <2>1. k <= n
    BY <1>1
  <2> QED
    BY <2>1 DEF CutText
<1>3. /\ text \in Seq(Tokens) /\ text[Len(text)] = NUL /\ Len(text) \in Nat
      /\ P[n + 1] <= Len(text) /\ text[P[n + 1]] = NUL /\ P[n + 1] \in Nat
  BY <1>1 DEF CutText, QueryLayout
<1>4. \A k \in 1 .. n + 1 : text[P[k]] = NUL
  <2> SUFFICES ASSUME NEW k \in 1 .. n + 1 PROVE text[P[k]] = NUL
    OBVIOUS
  <2>1. k \in 1 .. n \/ k = n + 1
    BY <1>1
  <2> QED
    BY <1>2, <1>3, <2>1
<1>5. \A k \in 1 .. n : W(k) \in {1, 3}
  BY DEF Width
<1>6. StringAt(query.type) = <<type>>
  <2>1. b \in Nat \ {0} /\ P[1] = b + 1 /\ P[1] \in Nat
    BY <1>1 DEF QueryLayout
  <2>2. P[1] + W(1) < P[n + 1]
    BY <1>1 DEF QueryLayout
  <2> HIDE DEF W
  <2>3. b \in 1 .. Len(text) - 1
    BY <1>1, <1>3, <1>5, <2>1, <2>2
  <2>4. text[b] = type /\ type # NUL
    <3>1. text[b] = type /\ type \in {"mode", "find"}
      BY DEF CutText
    <3> QED
      BY <3>1, NumeralsAreNoMarks DEF NotMark
  <2>5. text[b + 1] = NUL
    BY <1>1, <1>2, <2>1
  <2>6. query.type = b
    BY DEF CutQuery
  <2> QED
    BY <1>3, <2>3, <2>4, <2>5, <2>6, OneToken
<1>7. ASSUME NEW k \in 1 .. n
      PROVE  query.parts[k].ineq = c[k].op /\ Value(query.parts[k]) = c[k].n
  <2> DEFINE a == P[k] + W(k)
  <2>1. query.parts[k].at = a /\ query.parts[k].ineq = c[k].op
    BY DEF CutQuery, IsPart
  <2>2. k \in 1 .. n + 1 /\ k + 1 \in 1 .. n + 1 /\ k < n + 1
    BY <1>1
  <2>3. P[k] \in Nat /\ P[k + 1] = P[k] + 1 + W(k) /\ P[k] + W(k) < P[n + 1] /\ P[k] > b /\ b \in Nat
    BY <1>1, <2>2 DEF QueryLayout
  <2>4. text[a] \in Numerals /\ NumberOf[text[a]] = c[k].n
    <3>1. Numbered(text, P, c, k)
      BY DEF CutText
    <3> QED
      BY <3>1 DEF Numbered
  <2> HIDE DEF a, W
  <2>5. a + 1 = P[k + 1] /\ a \in 1 .. Len(text) - 1
    <3>1. W(k) \in Nat
      BY <1>5
    <3>2. a = P[k] + W(k)
      BY DEF a
    <3>3. a \in Nat /\ a >= 1 /\ a + 1 = P[k + 1]
      BY <2>3, <3>1, <3>2
    <3>4. a < P[n + 1]
      BY <2>3, <3>2
    <3> QED
      BY <1>3, <3>3, <3>4
  <2>6. text[a] # NUL
    BY <2>4, NumeralsAreNoMarks DEF NotMark
  <2>7. text[a + 1] = NUL
    BY <1>4, <2>2, <2>5
  <2>8. StringAt(a) = <<text[a]>>
    BY <1>3, <2>5, <2>6, <2>7, OneToken
  <2>9. Value(query.parts[k]) = c[k].n
    <3>1. Head(StringAt(a)) = text[a]
      BY <2>8
    <3> QED
      BY <2>1, <2>4, <3>1 DEF Value
  <2> QED
    BY <2>1, <2>9
<1> QED
  BY <1>6, <1>7

\* The loop ends behind the last condition, and with a query.
IsQuery(j, n) == j = n /\ conf' = "search" /\ text' = text /\ query' = query

LEMMA EndStep ==
    ASSUME NEW P, NEW c, NEW n, NEW b, NEW type, NEW j \in 0 .. n, QueryLayout(P, c, n, b),
           n = IF type = "mode" THEN 1 ELSE 3,
           CutText(text, P, c, n, b, type, j), CutQuery(query, P, c, b, j), Reached(query, P, c, j),
           QueryParsed
    PROVE  IsQuery(j, n)
<1> DEFINE p == query.at
           W(l) == Width(c[l])
<1>1. n \in 1 .. 3 /\ n \in Nat /\ j \in Nat
  BY DEF QueryLayout
<1>2. text[p] = NUL
  BY DEF QueryParsed
<1> HIDE DEF p
<1>3. p = P[j + 1]
  <2> SUFFICES ASSUME p # P[j + 1] PROVE FALSE
    OBVIOUS
  <2>1. p = P[j + 1] - 1 /\ P[j + 1] \in Nat /\ b \in Nat \ {0}
    <3>1. j + 1 \in 1 .. n + 1
      BY <1>1
    <3> QED
      BY <3>1 DEF Reached, QueryLayout, p
  <2>2. CASE j = 0
    <3>1. P[1] = b + 1 /\ j + 1 = 1
      BY <2>2 DEF QueryLayout
    <3>2. p = b
      BY <2>1, <3>1
    <3>3. text[b] \in {"mode", "find"}
      BY DEF CutText
    <3> QED
      BY <1>2, <3>2, <3>3, NumeralsAreNoMarks DEF NotMark
  <2>3. CASE j # 0
    <3>1. j \in 1 .. n /\ j \in 1 .. n + 1
      BY <1>1, <2>3
    <3>2. P[j + 1] = P[j] + 1 + W(j) /\ P[j] \in Nat
      BY <3>1 DEF QueryLayout
    <3>3. W(j) \in Nat
      BY DEF Width
    <3> HIDE DEF W
    <3>4. p = P[j] + W(j)
      BY <2>1, <3>2, <3>3
    <3>5. Numbered(text, P, c, j)
      BY <3>1 DEF CutText
    <3>6. text[p] \in Numerals
      BY <3>4, <3>5 DEF Numbered, W
    <3> QED
      BY <1>2, <3>6, NumeralsAreNoMarks DEF NotMark
  <2> QED
    BY <2>2, <2>3
<1>4. j = n
  <2> SUFFICES ASSUME j # n PROVE FALSE
    OBVIOUS
  <2>1. j + 1 \in 1 .. n /\ ~(j + 1 <= j)
    BY <1>1
  <2>2. text[P[j + 1]] \in {COLON, "x"}
    BY <2>1 DEF CutText, Marked
  <2> QED
    BY <1>2, <1>3, <2>2 DEF COLON, NUL
<1>5. StringAt(query.type) = <<type>>
  BY <1>4, QueryRead
<1>6. Len(query.parts) = n /\ query.parts # <<>> /\ type \in {"mode", "find"}
  BY <1>1, <1>4 DEF CutQuery, CutText
<1>7. conf' = "search"
  <2>1. CASE type = "mode"
    BY <1>5, <1>6, <2>1 DEF QueryParsed
  <2>2. CASE type = "find"
    <3>1. n = 3
      BY <2>2
    <3> QED
      BY <1>5, <1>6, <2>2, <3>1 DEF QueryParsed
  <2> QED
    BY <1>6, <2>1, <2>2
<1> QED
  BY <1>4, <1>7 DEF QueryParsed, IsQuery

\* A mode fits the query if it is asked for.
LEMMA FitsIsAsked ==
    ASSUME NEW P, NEW c, c = Conditions(vol.wants), NEW n, NEW b, NEW type, type = vol.wants.type,
           n = IF type = "mode" THEN 1 ELSE 3, QueryLayout(P, c, n, b),
           CutText(text, P, c, n, b, type, n), CutQuery(query, P, c, b, n), NEW m
    PROVE  Fits(m) <=> Asked(m)
<1>1. /\ StringAt(query.type) = <<type>>
      /\ \A k \in 1 .. n : query.parts[k].ineq = c[k].op /\ Value(query.parts[k]) = c[k].n
  BY QueryRead
<1>2. type \in {"mode", "find"}
  BY DEF CutText
<1>3. CASE type = "mode"
  <2>1. n = 1 /\ c = <<[op |-> EQUALS, n |-> vol.wants.mode]>>
    BY <1>3 DEF Conditions
  <2>2. c[1].n = vol.wants.mode /\ 1 \in 1 .. n
    BY <2>1
  <2>3. Value(query.parts[1]) = vol.wants.mode
    BY <1>1, <2>2
  <2> QED
    BY <1>1, <1>3, <2>3 DEF Fits, Asked
<1>4. CASE type = "find"
  <2>1. n = 3 /\ c = vol.wants.parts /\ StringAt(query.type) # <<"mode">> /\ vol.wants.type # "mode"
    BY <1>1, <1>4 DEF Conditions
  <2> DEFINE N(k) == <<m.width, m.height, m.depth>>[k]
             w(k) == vol.wants.parts[k]
             A(k) == (w(k).op = EQUALS /\ N(k) = w(k).n) \/ (w(k).op = MORE /\ N(k) >= w(k).n)
                       \/ (w(k).op = LESS /\ N(k) <= w(k).n)
  <2>2. ASSUME NEW k \in 1 .. 3 PROVE Meets(N(k), query.parts[k]) <=> A(k)
    <3> HIDE DEF N
    <3>1. /\ query.parts[k].ineq = c[k].op /\ Value(query.parts[k]) = c[k].n
          /\ c[k].op \in {EQUALS, LESS, MORE} /\ c[k] = w(k)
      BY <1>1, <2>1 DEF QueryLayout
    <3>2. EQUALS # LESS /\ EQUALS # MORE /\ LESS # MORE
      BY DEF EQUALS, LESS, MORE
    <3> HIDE DEF w
    <3> QED
      BY <3>1, <3>2 DEF Meets
  <2>3. Fits(m) <=> \A k \in 1 .. 3 : Meets(N(k), query.parts[k])
    BY <2>1 DEF Fits
  <2>4. Asked(m) <=> \A k \in 1 .. 3 : A(k)
    BY <2>1 DEF Asked
  <2> QED
    BY <2>2, <2>3, <2>4
<1> QED
  BY <1>2, <1>3, <1>4

\* The value of an option that is set begins in the buffer.
LEMMA OptionPlace ==
    ASSUME NEW f, IsText(f), ParsingOf(f, text, opts, Len(f) + 1), NEW k \in DOMAIN Defaults, opts[k] # 0
    PROVE  opts[k] \in 1 .. Len(text)
<1> DEFINE N == Len(f)
           G == Given(f, k, N + 1)
<1>1. N \in Nat
  BY BreakIs
<1>2. Told(text, opts, f, k, N + 1) /\ Len(text) = N + 1
  BY DEF ParsingOf, Buffer
<1>3. G # {}
  BY <1>2 DEF Told
<1>4. G \subseteq Nat /\ \A p \in G : p <= N
  <2> SUFFICES ASSUME NEW p \in G PROVE p \in Nat /\ p <= N
    OBVIOUS
  <2> QED
    BY GivenFacts
<1>5. \E m \in G : \A p \in G : p <= m
  <2> HIDE DEF G
  <2> QED
    BY <1>1, <1>3, <1>4, Largest
<1>6. PICK m \in G : \A p \in G : p <= m
  BY <1>5
<1>7. opts[k] = Begins(f, m) + 2
  BY <1>2, <1>6 DEF Told
<1>8. m \in Nat /\ m <= N /\ Begins(f, m) + 1 < Ends(f, m)
  BY <1>6, GivenFacts
<1>9. Begins(f, m) \in m + 1 .. Ends(f, m) /\ Ends(f, m) \in m + 1 .. N + 1
  BY <1>6, <1>8, GivenFacts, LineFacts
<1> QED
  BY <1>1, <1>2, <1>7, <1>8, <1>9

\* The query's cut at its condition j, with the places that its beginning gives.
CutAt(w, tx, q, j) ==
    LET b == q.type
        c == Conditions(w)
        n == Len(c)
        P == Places(w, b)
    IN  /\ QueryLayout(P, c, n, b) /\ n = IF w.type = "mode" THEN 1 ELSE 3
        /\ CutText(tx, P, c, n, b, w.type, j) /\ CutQuery(q, P, c, b, j)

ReachedAt(w, q, j) == Reached(q, Places(w, q.type), Conditions(w), j)

\* The option is the query as it is written.
LEMMA StartStep ==
    ASSUME ConfInv, scene # "calls", ini = vol.ini, query = NoQuery, StartVideo,
           NEW w, WellFormed(vol.ini), Writes(Said(vol.ini, "gfx"), w)
    PROVE  conf' = "gfx" /\ CutAt(w, text', query', 0) /\ ReachedAt(w, query', 0)
<1> DEFINE f == vol.ini
           t == Said(f, "gfx")
           b == opts["gfx"]
           u == until(b, NUL)
           N == Len(text)
<1>1. conf = "options"
  BY DEF StartVideo
<1>2. IsText(f) /\ ParsingOf(f, text, opts, Len(f) + 1)
  BY <1>1 DEF ConfInv
<1>3. "gfx" \in DOMAIN Defaults /\ Defaults["gfx"] = <<"text">>
  BY BootOptsAssumption
<1>4. Option("gfx") = t
  BY <1>1, OptionsAreSaid
<1>5. t[1] = w.type /\ w.type \in {"mode", "find"}
  BY DEF Writes
<1>6. t # <<"text">>
  <2> SUFFICES ASSUME t = <<"text">> PROVE FALSE
    OBVIOUS
  <2>1. t[1] = "text"
    <3> HIDE DEF t
    <3> QED
      OBVIOUS
  <2> QED
    BY <1>5, <2>1
<1>7. b # 0
  BY <1>3, <1>4, <1>6 DEF Option
<1> HIDE DEF f
<1>8. b \in 1 .. N
  BY <1>2, <1>3, <1>7, OptionPlace
<1>9. text \in Seq(Tokens) /\ N \in Nat /\ text[N] = NUL
  <2>1. text \in Seq(Tokens) /\ Len(text) = Len(f) + 1 /\ text[Len(f) + 1] = NUL
    BY <1>2 DEF ParsingOf, Buffer
  <2> QED
    BY <2>1
<1>10. u \in b .. N /\ text[u] = NUL
  <2>1. u \in b .. N /\ text[u] \in {NUL, NUL}
    <3> HIDE DEF b
    <3> QED
      BY <1>8, <1>9, UntilFinds
  <2> QED
    BY <2>1
<1>11. t = SubSeq(text, b, u - 1)
  BY <1>4, <1>7 DEF Option, StringAt
<1> HIDE DEF t, b, u
<1>12. Len(t) = u - b /\ Len(t) \in Nat /\ \A i \in 1 .. Len(t) : text[b + i - 1] = t[i]
  <2>1. b \in 1 .. u /\ u \in 1 .. N
    BY <1>8, <1>9, <1>10
  <2>2. Len(t) = u - b /\ \A i \in 1 .. u - b : t[i] = text[b + i - 1]
    BY <1>9, <1>11, <2>1
  <2> QED
    BY <2>1, <2>2
<1> DEFINE c == Conditions(w)
           n == Len(c)
           P == Places(w, b)
<1>13. /\ QueryLayout(P, c, n, b) /\ P[n + 1] = b + Len(t) /\ text[b] = w.type
       /\ n = IF w.type = "mode" THEN 1 ELSE 3
       /\ \A k \in 1 .. n : Marked(text, P, c, k) /\ Numbered(text, P, c, k)
  <2> DEFINE cc == c
             nn == n
             PP == P
  <2>1. cc = Conditions(w) /\ nn = Len(cc) /\ PP = Places(w, b)
    OBVIOUS
  <2>2. Writes(t, w) /\ b \in Nat \ {0}
    BY <1>8 DEF t, f
  <2> HIDE DEF cc, nn, PP
  <2>3. AsWritten(text, PP, cc, nn, b, t, w)
    BY <1>12, <2>1, <2>2, PlacesAre
  <2> QED
    BY <2>3 DEF cc, nn, PP, AsWritten
<1>14. P[n + 1] <= N /\ text[P[n + 1]] = NUL
  <2>1. P[n + 1] = u
    BY <1>8, <1>10, <1>12, <1>13
  <2> QED
    BY <1>8, <1>9, <1>10, <2>1
<1>15. CutText(text, P, c, n, b, w.type, 0)
  <2>1. ASSUME NEW k \in 1 .. n PROVE ~(k <= 0)
    BY <1>13 DEF QueryLayout
  <2> HIDE DEF P, c, n
  <2> QED
    BY <1>5, <1>9, <1>13, <1>14, <2>1 DEF CutText
<1>16. text' = text /\ conf' = "gfx" /\ query' = [query EXCEPT !.at = b, !.type = b]
  BY <1>4, <1>6 DEF StartVideo, b
<1>17. query' = [at |-> b, type |-> b, ineq |-> EQUALS, parts |-> <<>>, mode |-> 0, tried |-> 0]
  BY <1>16 DEF NoQuery
<1>18. /\ query'.at = b /\ query'.type = b /\ query'.ineq = EQUALS /\ query'.parts = <<>> /\ query'.tried = 0
       /\ query' \in QueryRecords
  BY <1>8, <1>17 DEF QueryRecords, Ineqs, Parts
<1>19. CutQuery(query', P, c, b, 0)
  <2>1. Len(query'.parts) = 0 /\ 1 .. 0 = {}
    BY <1>18
  <2> QED
    BY <1>18, <2>1 DEF CutQuery
<1>20. Reached(query', P, c, 0)
  <2>1. P[1] = b + 1 /\ 0 + 1 = 1
    BY <1>13 DEF QueryLayout
  <2>2. query'.at = P[0 + 1] - 1
    BY <1>8, <1>18, <2>1
  <2> QED
    BY <1>18, <2>2 DEF Reached
<1>21. CutAt(w, text', query', 0)
  BY <1>13, <1>15, <1>16, <1>18, <1>19 DEF CutAt
<1>22. ReachedAt(w, query', 0)
  BY <1>18, <1>20 DEF ReachedAt
<1> QED
  BY <1>16, <1>21, <1>22

\* The query while it is parsed, then while a mode is looked for.
QueryInv ==
    vol.wants.type # "none" =>
        /\ scene # "calls" => WellFormed(vol.ini) /\ Writes(Said(vol.ini, "gfx"), vol.wants)
        /\ conf \in {"off", "ini", "options"} => query = NoQuery
        /\ conf = "gfx" /\ ini = vol.ini =>
              \E j \in 0 .. Len(Conditions(vol.wants)) :
                 CutAt(vol.wants, text, query, j) /\ ReachedAt(vol.wants, query, j)
        /\ conf = "search" /\ ini = vol.ini =>
              /\ CutAt(vol.wants, text, query, Len(Conditions(vol.wants))) /\ query.tried <= Len(Modes)
              /\ \A l \in 1 .. query.tried : ~Asked(Modes[l])
        /\ ModeFits

LEMMA QueryInit ==
    ASSUME LoaderInit,
           \A v \in BootVolumes \cup ConfigVolumes :
               v.wants.type # "none" => WellFormed(v.ini) /\ Writes(Said(v.ini, "gfx"), v.wants)
    PROVE  QueryInv
<1>1. conf = "off" /\ query = NoQuery
  BY DEF LoaderInit, OptsOff
<1>2. scene # "calls" => vol \in BootVolumes \cup ConfigVolumes
  BY DEF LoaderInit
<1>3. vol.wants.type # "none" /\ scene # "calls" => WellFormed(vol.ini) /\ Writes(Said(vol.ini, "gfx"), vol.wants)
  BY <1>2
<1> QED
  BY <1>1, <1>3 DEF QueryInv, ModeFits

\* The parser's loop.
LEMMA ParseStep ==
    ASSUME NEW w, NEW j \in 0 .. Len(Conditions(w)), CutAt(w, text, query, j), ReachedAt(w, query, j), ParseQuery
    PROVE  \E i \in 0 .. Len(Conditions(w)) : CutAt(w, text', query', i) /\ ReachedAt(w, query', i)
<1> DEFINE b == query.type
           c == Conditions(w)
           n == Len(c)
           P == Places(w, b)
<1>1. /\ QueryLayout(P, c, n, b) /\ n = IF w.type = "mode" THEN 1 ELSE 3
      /\ CutText(text, P, c, n, b, w.type, j) /\ CutQuery(query, P, c, b, j) /\ Reached(query, P, c, j)
  BY DEF CutAt, ReachedAt
<1>2. \E i \in 0 .. n : CutText(text', P, c, n, b, w.type, i) /\ CutQuery(query', P, c, b, i) /\ Reached(query', P, c, i)
  <2> HIDE DEF b, c, n, P
  <2>1. j \in 0 .. n
    BY DEF n, c
  <2>2. CASE query.at # P[j + 1]
    <3>1. text' = text /\ CutQuery(query', P, c, b, j) /\ Reached(query', P, c, j)
      BY <1>1, <2>1, <2>2, TokenStep
    <3> QED
      BY <1>1, <2>1, <3>1
  <2>3. CASE query.at = P[j + 1]
    <3>1. /\ j < n /\ CutText(text', P, c, n, b, w.type, j + 1) /\ CutQuery(query', P, c, b, j + 1)
          /\ Reached(query', P, c, j + 1)
      BY <1>1, <2>1, <2>3, SeparatorStep
    <3>2. j + 1 \in 0 .. n
      <4>1. n \in Nat
        BY <1>1 DEF QueryLayout
      <4> QED
        BY <2>1, <3>1, <4>1
    <3> QED
      BY <3>1, <3>2
  <2> QED
    BY <2>2, <2>3
<1>3. PICK i \in 0 .. n : CutText(text', P, c, n, b, w.type, i) /\ CutQuery(query', P, c, b, i) /\ Reached(query', P, c, i)
  BY <1>2
<1>4. query'.type = b
  BY <1>3 DEF CutQuery
<1> HIDE DEF b
<1>5. CutAt(w, text', query', i)
  BY <1>1, <1>3, <1>4 DEF CutAt
<1>6. ReachedAt(w, query', i)
  BY <1>3, <1>4 DEF ReachedAt
<1> QED
  BY <1>5, <1>6

LEMMA ParsedStep ==
    ASSUME NEW w, NEW j \in 0 .. Len(Conditions(w)), CutAt(w, text, query, j), ReachedAt(w, query, j), QueryParsed
    PROVE  /\ conf' = "search" /\ text' = text /\ query' = query /\ query.tried = 0
           /\ CutAt(w, text, query, Len(Conditions(w)))
<1> DEFINE b == query.type
           c == Conditions(w)
           n == Len(c)
           P == Places(w, b)
           type == w.type
<1>1. /\ QueryLayout(P, c, n, b) /\ n = IF type = "mode" THEN 1 ELSE 3
      /\ CutText(text, P, c, n, b, type, j) /\ CutQuery(query, P, c, b, j) /\ Reached(query, P, c, j)
  BY DEF CutAt, ReachedAt
<1>2. IsQuery(j, n)
  <2> HIDE DEF b, c, n, P, type
  <2>1. j \in 0 .. n
    BY DEF n, c
  <2> QED
    BY <1>1, <2>1, EndStep
<1>3. query.tried = 0
  BY <1>1 DEF Reached
<1> QED
  BY <1>2, <1>3 DEF IsQuery

LEMMA FitsAt ==
    ASSUME CutAt(vol.wants, text, query, Len(Conditions(vol.wants))), NEW m
    PROVE  Fits(m) <=> Asked(m)
<1> DEFINE w == vol.wants
           b == query.type
           c == Conditions(w)
           n == Len(c)
           P == Places(w, b)
           type == w.type
<1>1. /\ c = Conditions(vol.wants) /\ type = vol.wants.type
      /\ QueryLayout(P, c, n, b) /\ n = IF type = "mode" THEN 1 ELSE 3
      /\ CutText(text, P, c, n, b, type, n) /\ CutQuery(query, P, c, b, n)
  BY DEF CutAt
<1> HIDE DEF w, b, c, n, P, type
<1> QED
  BY <1>1, FitsIsAsked

LEMMA ModesAre ==
    ASSUME NEW i \in Nat, i < Len(Modes)
    PROVE  Modes[i + 1].mode \in Nat
<1> DEFINE S == [mode : Nat, width : Nat, height : Nat, depth : Nat]
<1>1. Modes \in Seq(S)
  BY BootOptsAssumption
<1>2. \A x \in S : x.mode \in Nat
  OBVIOUS
<1> HIDE DEF S
<1>3. Len(Modes) \in Nat
  BY <1>1
<1>4. i + 1 \in 1 .. Len(Modes)
  BY <1>3
<1>5. Modes[i + 1] \in S
  BY <1>1, <1>4
<1> QED
  BY <1>2, <1>5

Tried(q, tried, mode) == [q EXCEPT !.tried = tried, !.mode = mode]

HasTried(q, r, tried, mode) ==
    r \in QueryRecords /\ r.type = q.type /\ r.parts = q.parts /\ r.tried = tried /\ r.mode = mode

LEMMA TriedQuery ==
    ASSUME NEW q \in QueryRecords, NEW mode \in Int, NEW tried \in Nat, NEW r,
           r = Tried(q, tried, mode)
    PROVE  HasTried(q, r, tried, mode)
  BY DEF QueryRecords, Tried, HasTried

\* A mode is tried.
LEMMA SearchStep ==
    ASSUME NEW w, CutAt(w, text, query, Len(Conditions(w))), vbe_mode_search
    PROVE  LET m == Modes[query.tried + 1] IN
           /\ CutAt(w, text', query', Len(Conditions(w)))
           /\ query.tried \in Nat /\ query.tried < Len(Modes) /\ query'.tried = query.tried + 1
           /\ Fits(m) => conf' = "graphic" /\ query'.mode = m.mode
           /\ ~Fits(m) => conf' = "search"
<1> DEFINE m == Modes[query.tried + 1]
           mode == IF Fits(m) THEN m.mode ELSE VBE_MODE_END
           r == [query EXCEPT !.tried = @ + 1, !.mode = mode]
<1>1. query \in QueryRecords
  BY DEF CutAt, CutQuery
<1>2. query.tried \in Nat /\ query.tried < Len(Modes)
  BY <1>1 DEF QueryRecords, vbe_mode_search
<1>3. m.mode \in Nat
  BY <1>2, ModesAre
<1>4. mode \in Int
  BY <1>3 DEF VBE_MODE_END
<1>5. /\ query' = r /\ text' = text
      /\ Fits(m) => conf' = "graphic" /\ mode = m.mode
      /\ ~Fits(m) => conf' = "search"
  BY DEF vbe_mode_search
<1>6. r = Tried(query, query.tried + 1, mode) /\ query.tried + 1 \in Nat
  BY <1>2 DEF Tried
<1> HIDE DEF m, mode, r
<1>7. HasTried(query, r, query.tried + 1, mode)
  BY <1>1, <1>4, <1>6, TriedQuery
<1>8. CutAt(w, text', query', Len(Conditions(w)))
  BY <1>5, <1>7 DEF CutAt, CutQuery, IsPart, HasTried
<1> QED
  BY <1>2, <1>5, <1>7, <1>8 DEF m, HasTried

LEMMA QueryNext ==
    ASSUME ConfInv, QueryInv, [LoaderNext]_loaderVars
    PROVE  QueryInv'
<1> SUFFICES ASSUME vol.wants.type # "none" PROVE QueryInv'
  BY OptsMove DEF QueryInv
<1> DEFINE w == vol.wants
           n == Len(Conditions(w))
<1>1. vol' = vol /\ scene' = scene
  BY OptsMove
<1>2. scene # "calls" => WellFormed(vol.ini) /\ Writes(Said(vol.ini, "gfx"), w)
  BY DEF QueryInv
<1>3. \A m : Asked(m)' <=> Asked(m)
  BY <1>1 DEF Asked
<1>4. CASE UNCHANGED optVars
  <2>1. text' = text /\ query' = query /\ conf' = conf /\ ini' = ini
    BY <1>4 DEF optVars
  <2>2. QueryInv'
    BY <1>1, <1>3, <2>1 DEF QueryInv, ModeFits
  <2> QED
    BY <2>2
<1>5. CASE ini_iter \/ \E t : bootopts_fill(t)
  <2>1. conf \in {"off", "ini"} /\ conf' \in {"ini", "options"} /\ query' = query
    BY <1>5 DEF bootopts_fill, ini_iter, IniEnds, IniSection, IniComment, IniAssignment
  <2>2. query' = NoQuery
    BY <2>1 DEF QueryInv
  <2> QED
    BY <1>1, <1>2, <2>1, <2>2 DEF QueryInv, ModeFits
<1>6. CASE StartVideo /\ UNCHANGED ini /\ ini = vol.ini
  <2>1. conf = "options" /\ query = NoQuery /\ scene # "calls"
    BY <1>6 DEF StartVideo, QueryInv, ConfInv
  <2>2. conf' = "gfx" /\ CutAt(w, text', query', 0) /\ ReachedAt(w, query', 0)
    BY <1>2, <1>6, <2>1, StartStep
  <2>3. 0 \in 0 .. n
    BY <2>2 DEF CutAt, QueryLayout
  <2> QED
    BY <1>1, <1>2, <1>6, <2>2, <2>3 DEF QueryInv, ModeFits
<1>7. CASE ParseQuery /\ UNCHANGED ini /\ ini = vol.ini
  <2>1. conf = "gfx" /\ conf' = "gfx"
    BY <1>7 DEF ParseQuery
  <2>2. PICK j \in 0 .. n : CutAt(w, text, query, j) /\ ReachedAt(w, query, j)
    BY <1>7, <2>1 DEF QueryInv
  <2>3. \E i \in 0 .. n : CutAt(w, text', query', i) /\ ReachedAt(w, query', i)
    BY <1>7, <2>2, ParseStep
  <2> QED
    BY <1>1, <1>2, <2>1, <2>3 DEF QueryInv, ModeFits
<1>8. CASE QueryParsed /\ UNCHANGED ini /\ ini = vol.ini
  <2>1. conf = "gfx"
    BY <1>8 DEF QueryParsed
  <2>2. PICK j \in 0 .. n : CutAt(w, text, query, j) /\ ReachedAt(w, query, j)
    BY <1>8, <2>1 DEF QueryInv
  <2>3. conf' = "search" /\ text' = text /\ query' = query /\ query.tried = 0 /\ CutAt(w, text, query, n)
    BY <1>8, <2>2, ParsedStep
  <2>4. Len(Modes) \in Nat
    BY BootOptsAssumption
  <2>5. query'.tried <= Len(Modes) /\ 1 .. query'.tried = {}
    BY <2>3, <2>4
  <2> QED
    BY <1>1, <1>2, <2>3, <2>5 DEF QueryInv, ModeFits
<1>9. CASE vbe_mode_search /\ UNCHANGED ini /\ ini = vol.ini
  <2> DEFINE m == Modes[query.tried + 1]
  <2>1. conf = "search"
    BY <1>9 DEF vbe_mode_search
  <2>2. CutAt(w, text, query, n) /\ \A l \in 1 .. query.tried : ~Asked(Modes[l])
    BY <1>9, <2>1 DEF QueryInv
  <2>3. /\ CutAt(w, text', query', n)
        /\ query.tried \in Nat /\ query.tried < Len(Modes) /\ query'.tried = query.tried + 1
        /\ Fits(m) => conf' = "graphic" /\ query'.mode = m.mode
        /\ ~Fits(m) => conf' = "search"
    BY <1>9, <2>2, SearchStep
  <2>4. Fits(m) <=> Asked(m)
    BY <2>2, FitsAt
  <2>5. Len(Modes) \in Nat /\ DOMAIN Modes = 1 .. Len(Modes)
    BY BootOptsAssumption
  <2>6. CASE Fits(m)
    <3> DEFINE k == query.tried + 1
    <3>1. k \in DOMAIN Modes /\ \A l \in 1 .. k - 1 : l \in 1 .. query.tried
      BY <2>3, <2>5
    <3>2. Modes[k].mode = query'.mode /\ Asked(Modes[k]) /\ \A l \in 1 .. k - 1 : ~Asked(Modes[l])
      BY <2>2, <2>3, <2>4, <2>6, <3>1
    <3> HIDE DEF k
    <3>3. \E i \in DOMAIN Modes : /\ Modes[i].mode = query'.mode /\ Asked(Modes[i])'
                                  /\ \A l \in 1 .. i - 1 : ~Asked(Modes[l])'
      BY <1>3, <3>1, <3>2
    <3>4. conf' = "graphic"
      BY <2>3, <2>6
    <3>5. ModeFits'
      BY <3>3, <3>4 DEF ModeFits
    <3> QED
      BY <1>1, <1>2, <3>4, <3>5 DEF QueryInv
  <2>7. CASE ~Fits(m)
    <3>1. conf' = "search" /\ query'.tried <= Len(Modes)
      BY <2>3, <2>5, <2>7
    <3>2. ASSUME NEW l \in 1 .. query'.tried PROVE ~Asked(Modes[l])'
      <4>1. l \in 1 .. query.tried \/ l = query.tried + 1
        BY <2>3
      <4>2. ~Asked(Modes[l])
        BY <2>2, <2>4, <2>7, <4>1
      <4> QED
        BY <1>3, <4>2
    <3> QED
      BY <1>1, <1>2, <2>3, <3>1, <3>2 DEF QueryInv, ModeFits
  <2> QED
    BY <2>6, <2>7
<1>10. CASE NoMode /\ UNCHANGED ini /\ ini = vol.ini
  <2>1. conf = "search" /\ query.tried = Len(Modes) /\ conf' = "panic"
    BY <1>10 DEF NoMode
  <2>2. \A l \in 1 .. query.tried : ~Asked(Modes[l])
    BY <1>10, <2>1 DEF QueryInv
  <2>3. DOMAIN Modes = 1 .. Len(Modes)
    BY BootOptsAssumption
  <2>4. \A k \in DOMAIN Modes : ~Asked(Modes[k])'
    BY <1>3, <2>1, <2>2, <2>3
  <2>5. ModeFits'
    BY <2>1, <2>4 DEF ModeFits
  <2> QED
    BY <1>1, <1>2, <2>1, <2>5 DEF QueryInv
<1>11. CASE Video /\ UNCHANGED ini /\ ini # vol.ini
  <2>1. conf' \notin {"off", "ini", "options"}
    BY <1>11 DEF Video, StartVideo, ParseQuery, QueryParsed, vbe_mode_search, NoMode
  <2> QED
    BY <1>1, <1>2, <1>11, <2>1 DEF QueryInv, ModeFits
<1> QED
  BY <1>4, <1>5, <1>6, <1>7, <1>8, <1>9, <1>10, <1>11, OptsMove DEF Video

\* Of every query that is written as the parser wants it, whatever else the file says:
\* the mode that is set is the first of the BIOS's list that meets each condition, and
\* the loader panics only when none does.
THEOREM ModeIsAsked ==
    ASSUME \A v \in BootVolumes \cup ConfigVolumes :
               v.wants.type # "none" => WellFormed(v.ini) /\ Writes(Said(v.ini, "gfx"), v.wants)
    PROVE  LoaderSpec => []ModeFits
<1>1. LoaderInit => QueryInv
  BY QueryInit
<1>2. ConfInv /\ QueryInv /\ [LoaderNext]_loaderVars => QueryInv'
  BY QueryNext
<1>3. QueryInv => ModeFits
  BY DEF QueryInv, ModeFits
<1> QED
  BY <1>1, <1>2, <1>3, ConfAlways, PTL DEF LoaderSpec
=============================================================================
