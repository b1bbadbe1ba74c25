----------------------------- MODULE SlabProofs -----------------------------
(***************************************************************************)
(* The slab allocator's invariants, for any page size, header sizes, set   *)
(* of size classes, pool and set of requests.                              *)
(***************************************************************************)
EXTENDS Slab, NatLemmas, FiniteSetTheorems, TLAPS

-----------------------------------------------------------------------------
\* Addresses

\* An offset below the page size stays on the page.
LEMMA PageOfAddr ==
  ASSUME NEW page \in Nat, NEW x \in 0 .. PAGE_SIZE - 1
  PROVE  /\ Base(page) \in Nat /\ Base(page) + x \in Nat
         /\ PageOf(Base(page) + x) = page
<1> DEFINE s == PAGE_SIZE
<1>1. s \in Nat /\ s > 0
  BY SizesAssumption
<1>2. x \in Nat /\ x < s
  BY <1>1
<1> HIDE DEF s
<1>3. page * s \in Nat /\ (page + 1) * s = page * s + s
  BY <1>1
<1>4. page * s <= page * s + x /\ page * s + x < (page + 1) * s
  BY <1>1, <1>2, <1>3
<1>5. (page * s + x) \div s = page
  BY <1>1, <1>2, <1>3, <1>4
<1> QED BY <1>2, <1>3, <1>5 DEF Base, PageOf, s

\* Every address is on its page.
LEMMA PageBounds ==
  ASSUME NEW a \in Nat
  PROVE  /\ PageOf(a) \in Nat /\ Base(PageOf(a)) \in Nat
         /\ Base(PageOf(a)) <= a /\ a < Base(PageOf(a)) + PAGE_SIZE
<1> DEFINE s == PAGE_SIZE
           q == a \div s
<1>1. s \in Nat /\ s > 0
  BY SizesAssumption
<1> HIDE DEF s
<1>2. q \in Nat /\ q * s <= a /\ a < q * s + s
  BY <1>1, SMTT(30)
<1> HIDE DEF q
<1>3. q * s \in Nat
  BY <1>1, <1>2
<1> QED BY <1>2, <1>3 DEF Base, PageOf, q, s

\* The addresses of a block of n pages are on its pages.
LEMMA BlockPages ==
  ASSUME NEW page \in Nat, NEW n \in Nat \ {0},
         NEW a \in Base(page) .. (Base(page) + PAGE_SIZE * n) - 1
  PROVE  a \in Nat /\ PageOf(a) \in page .. page + n - 1
<1> DEFINE s == PAGE_SIZE
           q == a \div s
<1>1. s \in Nat /\ s > 0
  BY SizesAssumption
<1>2. Base(page) = page * s
  BY DEF Base
<1>3. page * s \in Nat /\ s * n \in Nat
  BY <1>1
<1>4. a \in Nat /\ page * s <= a /\ a < page * s + s * n
  BY <1>2, <1>3
<1> HIDE DEF s
<1>5. q \in Nat /\ q * s <= a /\ a < q * s + s
  BY <1>1, <1>4, SMTT(30)
<1> HIDE DEF q
<1>6. page <= q
  <2> SUFFICES ASSUME q + 1 <= page PROVE FALSE
    BY <1>5
  <2>1. (q + 1) * s <= page * s /\ (q + 1) * s = q * s + s
    BY <1>1, <1>5
  <2>2. q * s \in Nat
    BY <1>1, <1>5
  <2> QED BY <1>1, <1>3, <1>4, <1>5, <2>1, <2>2
<1>7. q < page + n
  <2> SUFFICES ASSUME page + n <= q PROVE FALSE
    BY <1>5
  <2>1. (page + n) * s <= q * s /\ (page + n) * s = page * s + s * n
    BY <1>1, <1>5
  <2>2. q * s \in Nat
    BY <1>1, <1>5
  <2> QED BY <1>1, <1>3, <1>4, <1>5, <2>1, <2>2
<1>8. q \in page .. page + n - 1
  BY <1>5, <1>6, <1>7
<1> QED BY <1>4, <1>8 DEF PageOf, q, s

\* A slab has at least one slot, and its slots fit behind its header.
LEMMA ClassFacts ==
  ASSUME NEW c \in Classes
  PROVE  /\ c \in Nat \ {0} /\ class_sizes[c] \in Nat \ {0}
         /\ SlotsOf(c) \in Nat \ {0}
         /\ SlotsOf(c) * class_sizes[c] <= PAGE_SIZE - SLAB_DATA
<1> DEFINE room == PAGE_SIZE - SLAB_DATA
           z == class_sizes[c]
           n == room \div z
<1>1. room \in Nat /\ class_sizes \in Seq(1 .. room)
  BY SizesAssumption
<1>2. c \in Nat \ {0} /\ z \in 1 .. room
  <2> HIDE DEF room
  <2>1. DOMAIN class_sizes = 1 .. Len(class_sizes) /\ Len(class_sizes) \in Nat
    BY <1>1
  <2>2. c \in 1 .. Len(class_sizes)
    BY <2>1 DEF Classes
  <2> QED BY <1>1, <2>1, <2>2
<1> HIDE DEF room, z
<1>3. z \in Nat \ {0} /\ z <= room
  BY <1>1, <1>2
<1>4. n \in Nat /\ n * z <= room /\ room < n * z + z
  BY <1>1, <1>3, SMTT(30)
<1> HIDE DEF n
<1>5. n # 0
  <2> SUFFICES ASSUME n = 0 PROVE FALSE
    OBVIOUS
  <2>1. n * z = 0
    BY <1>3
  <2> QED BY <1>1, <1>3, <1>4, <2>1
<1> QED BY <1>2, <1>3, <1>4, <1>5 DEF n, room, z, SlotsOf

\* Every slot lies on its page, behind the header.
LEMMA SlotFacts ==
  ASSUME NEW page \in Nat, NEW c \in Classes, NEW i \in 0 .. SlotsOf(c) - 1
  PROVE  /\ SlotAddr(page, c, i) \in Nat
         /\ Base(page) \in Nat
         /\ Base(page) + SLAB_DATA <= SlotAddr(page, c, i)
         /\ SlotAddr(page, c, i) + class_sizes[c] <= Base(page) + PAGE_SIZE
         /\ PageOf(SlotAddr(page, c, i)) = page
         /\ \A a \in SlotAddr(page, c, i) .. (SlotAddr(page, c, i) + class_sizes[c]) - 1 :
              PageOf(a) = page
<1> DEFINE z == class_sizes[c]
           n == SlotsOf(c)
           x == SLAB_DATA + i * z
<1>1. z \in Nat \ {0} /\ n \in Nat \ {0} /\ n * z <= PAGE_SIZE - SLAB_DATA
  BY ClassFacts
<1>2. SLAB_DATA \in Nat /\ PAGE_SIZE \in Nat /\ SLAB_DATA < PAGE_SIZE /\ i \in Nat /\ i + 1 <= n
  BY <1>1, SizesAssumption
<1>3. SlotAddr(page, c, i) = Base(page) + x
  BY DEF SlotAddr, SlotOffset
<1> HIDE DEF z, n
<1>4. i * z \in Nat /\ (i + 1) * z = i * z + z /\ (i + 1) * z <= n * z
  BY <1>1, <1>2
<1>5. x \in Nat /\ SLAB_DATA <= x /\ x + z <= PAGE_SIZE
  <2> DEFINE iz == i * z
             nz == n * z
  <2>1. iz \in Nat /\ iz + z <= nz /\ nz \in Nat /\ nz <= PAGE_SIZE - SLAB_DATA /\ x = SLAB_DATA + iz
    BY <1>1, <1>2, <1>4
  <2> HIDE DEF iz, nz, x
  <2> QED BY <1>1, <1>2, <2>1
<1> HIDE DEF x
<1>6. x \in 0 .. PAGE_SIZE - 1
  BY <1>1, <1>2, <1>5
<1>7. Base(page) \in Nat /\ PageOf(Base(page) + x) = page
  BY <1>6, PageOfAddr
<1>8. ASSUME NEW a \in (Base(page) + x) .. ((Base(page) + x) + z) - 1 PROVE PageOf(a) = page
  <2>1. a - Base(page) \in 0 .. PAGE_SIZE - 1 /\ a = Base(page) + (a - Base(page))
    BY <1>1, <1>2, <1>5, <1>7
  <2> QED BY <2>1, PageOfAddr
<1> QED BY <1>1, <1>2, <1>3, <1>5, <1>7, <1>8 DEF z

\* Two slots of a slab share no word.
LEMMA SlotsApart ==
  ASSUME NEW page \in Nat, NEW c \in Classes, NEW i \in Nat, NEW j \in Nat, i < j
  PROVE  SlotAddr(page, c, i) + class_sizes[c] <= SlotAddr(page, c, j)
<1> DEFINE z == class_sizes[c]
<1>1. z \in Nat \ {0} /\ SLAB_DATA \in Nat /\ PAGE_SIZE \in Nat \ {0}
  BY ClassFacts, SizesAssumption
<1>2. Base(page) \in Nat
  BY <1>1, PageOfAddr
<1>3. SlotAddr(page, c, i) = Base(page) + (SLAB_DATA + i * z)
      /\ SlotAddr(page, c, j) = Base(page) + (SLAB_DATA + j * z)
  BY DEF SlotAddr, SlotOffset
<1> HIDE DEF z
<1>4. i * z \in Nat /\ j * z \in Nat /\ (i + 1) * z = i * z + z /\ (i + 1) * z <= j * z
  BY <1>1
<1>5. Base(page) + (SLAB_DATA + i * z) + z <= Base(page) + (SLAB_DATA + j * z)
  <2> DEFINE iz == i * z
             jz == j * z
             b == Base(page)
  <2>1. iz \in Nat /\ jz \in Nat /\ iz + z <= jz /\ b \in Nat
    BY <1>2, <1>4
  <2>2. b + (SLAB_DATA + iz) + z <= b + (SLAB_DATA + jz)
    <3> HIDE DEF iz, jz, b
    <3> QED BY <1>1, <2>1
  <2> QED BY <2>2
<1> QED BY <1>3, <1>5 DEF z

\* Slot numbers and slot addresses match one to one.
LEMMA SlotsDiffer ==
  ASSUME NEW page \in Nat, NEW c \in Classes, NEW i \in Nat, NEW j \in Nat,
         SlotAddr(page, c, i) = SlotAddr(page, c, j), 0 < SlotsOf(c)
  PROVE  i = j
<1>1. class_sizes[c] \in Nat \ {0}
  BY ClassFacts
<1>2. \A k \in Nat : SlotAddr(page, c, k) \in Int
  <2> SUFFICES ASSUME NEW k \in Nat PROVE SlotAddr(page, c, k) \in Int
    OBVIOUS
  <2>1. SLAB_DATA \in Nat /\ PAGE_SIZE \in Nat
    BY SizesAssumption
  <2>2. page * PAGE_SIZE \in Nat /\ k * class_sizes[c] \in Nat
    BY <1>1, <2>1
  <2> QED BY <2>1, <2>2 DEF SlotAddr, SlotOffset, Base
<1>3. ~(i < j)
  BY <1>1, <1>2, SlotsApart
<1>4. ~(j < i)
  BY <1>1, <1>2, SlotsApart
<1> QED BY <1>3, <1>4

\* A slab has SlotsOf(c) slots.
LEMMA SlotCount ==
  ASSUME NEW page \in Nat, NEW c \in Classes
  PROVE  /\ IsFiniteSet(SlotAddrs(page, c)) /\ Cardinality(SlotAddrs(page, c)) = SlotsOf(c)
         /\ \A a \in SlotAddrs(page, c) : a \in Nat /\ a # NULL /\ PageOf(a) = page
<1> DEFINE n == SlotsOf(c)
           I == 0 .. n - 1
           f == [i \in I |-> SlotAddr(page, c, i)]
<1>1. n \in Nat \ {0}
  BY ClassFacts
<1>2. IsFiniteSet(I) /\ Cardinality(I) = n
  <2>1. Cardinality(I) = IF 0 > n - 1 THEN 0 ELSE ((n - 1) - 0) + 1
    <3>1. 0 \in Int /\ n - 1 \in Int
      BY <1>1
    <3> QED BY <3>1, FS_Interval, SMTT(30)
  <2>2. IsFiniteSet(I)
    BY <1>1, FS_Interval, SMTT(30)
  <2> HIDE DEF I, n
  <2> QED BY <1>1, <2>1, <2>2
<1>3. f \in Bijection(I, SlotAddrs(page, c))
  <2>1. f \in [I -> SlotAddrs(page, c)]
    BY DEF SlotAddrs
  <2>2. ASSUME NEW i \in I, NEW j \in I, f[i] = f[j] PROVE i = j
    <3>1. i \in Nat /\ j \in Nat /\ SlotAddr(page, c, i) = SlotAddr(page, c, j)
      BY <2>2
    <3> QED BY <1>1, <3>1, SlotsDiffer
  <2>3. ASSUME NEW a \in SlotAddrs(page, c) PROVE \E i \in I : f[i] = a
    BY DEF SlotAddrs
  <2> HIDE DEF f, I
  <2> QED BY <2>1, <2>2, <2>3 DEF Bijection, Injection, Surjection, IsInjective
<1>4. ExistsBijection(I, SlotAddrs(page, c))
  BY <1>3 DEF ExistsBijection
<1>5. IsFiniteSet(SlotAddrs(page, c)) /\ Cardinality(SlotAddrs(page, c)) = n
  <2> HIDE DEF I, n
  <2> QED BY <1>2, <1>4, FS_Bijection, FS_CardinalityType
<1>6. ASSUME NEW a \in SlotAddrs(page, c) PROVE a \in Nat /\ a # NULL /\ PageOf(a) = page
  <2>1. PICK i \in I : a = SlotAddr(page, c, i)
    BY DEF SlotAddrs
  <2>2. a \in Nat /\ Base(page) \in Nat /\ Base(page) + SLAB_DATA <= a /\ PageOf(a) = page
    BY <2>1, SlotFacts
  <2>3. SLAB_DATA \in Nat \ {0}
    BY SizesAssumption
  <2> QED BY <2>2, <2>3 DEF NULL
<1> QED BY <1>5, <1>6

\* The class that serves a request holds it.
LEMMA ServingClass ==
  ASSUME NEW size, FittingClasses(size) # {}
  PROVE  ClassFor(size) \in Classes /\ size <= class_sizes[ClassFor(size)]
<1>1. FittingClasses(size) \in SUBSET Nat
  BY ClassFacts DEF FittingClasses
<1>2. ClassFor(size) \in FittingClasses(size)
  BY <1>1, MinNat DEF ClassFor
<1> QED BY <1>2 DEF FittingClasses

\* The block that serves a large request holds header and object.
LEMMA ServingOrder ==
  ASSUME NEW size \in Nat
  PROVE  /\ LargeOrder(size) \in Nat
         /\ LargeOrder(size) <= MaxOrder =>
              /\ LargeOrder(size) \in 0 .. MaxOrder
              /\ LARGE_DATA + size <= PAGE_SIZE * BlockFrames[LargeOrder(size)]
<1> DEFINE bytes == LARGE_DATA + size
           S == {o \in 0 .. MaxOrder : bytes <= PAGE_SIZE * BlockFrames[o]} \cup {MaxOrder + 1}
<1>1. MaxOrder \in Nat
  BY PoolAssumption
<1>2. S \in SUBSET Nat /\ S # {}
  BY <1>1
<1>3. LargeOrder(size) = Min(S)
  BY DEF LargeOrder, OrderFor
<1>4. Min(S) \in S
  <2> HIDE DEF S
  <2> QED BY <1>2, MinNat
<1> QED BY <1>1, <1>2, <1>3, <1>4

-----------------------------------------------------------------------------
\* Threaded lists

\* q is the list of n nodes that starts at first and runs through all of S along l.
Thread(q, n, first, l, S) ==
  /\ q \in [1 .. n -> S]
  /\ \A a \in S : \E k \in 1 .. n : q[k] = a
  /\ \A i, j \in 1 .. n : q[i] = q[j] => i = j
  /\ first = IF n = 0 THEN NULL ELSE q[1]
  /\ \A k \in 1 .. n : l[q[k]] = IF k = n THEN NULL ELSE q[k + 1]

\* The first node is taken off, and its word overwritten.
LEMMA ThreadPop ==
  ASSUME NEW S, NEW D, NEW n \in Nat \ {0}, NEW q, NEW first, NEW l, NEW x,
         l = [a \in D |-> l[a]], S \subseteq D, Thread(q, n, first, l, S)
  PROVE  /\ first \in S
         /\ l[first] \in S \cup {NULL}
         /\ \E r \in [1 .. n - 1 -> S \ {first}] :
              Thread(r, n - 1, l[first], [l EXCEPT ![first] = x], S \ {first})
<1> DEFINE r == [k \in 1 .. n - 1 |-> q[k + 1]]
           l2 == [l EXCEPT ![first] = x]
<1>1. /\ q \in [1 .. n -> S] /\ \A a \in S : \E k \in 1 .. n : q[k] = a
      /\ \A i, j \in 1 .. n : q[i] = q[j] => i = j
      /\ first = q[1] /\ \A k \in 1 .. n : l[q[k]] = IF k = n THEN NULL ELSE q[k + 1]
  BY DEF Thread
<1>2. 1 \in 1 .. n /\ first \in S
  BY <1>1
<1>3. r \in [1 .. n - 1 -> S \ {first}]
  <2> SUFFICES ASSUME NEW k \in 1 .. n - 1 PROVE q[k + 1] \in S \ {first}
    OBVIOUS
  <2>1. k + 1 \in 1 .. n /\ k + 1 # 1
    OBVIOUS
  <2> QED BY <1>1, <1>2, <2>1
<1>4. ASSUME NEW a \in S \ {first} PROVE \E k \in 1 .. n - 1 : r[k] = a
  <2>1. PICK k \in 1 .. n : q[k] = a
    BY <1>1
  <2>2. k - 1 \in 1 .. n - 1 /\ (k - 1) + 1 = k
    BY <1>1, <2>1
  <2> QED BY <2>1, <2>2
<1>5. ASSUME NEW i \in 1 .. n - 1, NEW j \in 1 .. n - 1, r[i] = r[j] PROVE i = j
  <2>1. i + 1 \in 1 .. n /\ j + 1 \in 1 .. n /\ q[i + 1] = q[j + 1]
    BY <1>5
  <2>2. i + 1 = j + 1
    BY <1>1, <2>1
  <2> QED BY <2>2
<1>6. l[first] = IF n - 1 = 0 THEN NULL ELSE r[1]
  <2>1. l[first] = IF 1 = n THEN NULL ELSE q[1 + 1]
    BY <1>1, <1>2
  <2>2. n - 1 # 0 => r[1] = q[1 + 1]
    OBVIOUS
  <2> HIDE DEF r
  <2> QED BY <2>1, <2>2
<1>7. ASSUME NEW k \in 1 .. n - 1 PROVE l2[r[k]] = IF k = n - 1 THEN NULL ELSE r[k + 1]
  <2>1. r[k] \in S \ {first} /\ r[k] = q[k + 1] /\ k + 1 \in 1 .. n
    BY <1>3
  <2>2. l2[r[k]] = l[q[k + 1]]
    <3> HIDE DEF r
    <3> QED BY <2>1
  <2>3. l[q[k + 1]] = IF k + 1 = n THEN NULL ELSE q[(k + 1) + 1]
    BY <1>1, <2>1
  <2>4. k # n - 1 => r[k + 1] = q[(k + 1) + 1]
    OBVIOUS
  <2> HIDE DEF r
  <2> QED BY <2>2, <2>3, <2>4
<1>8. l[first] \in S \cup {NULL}
  <2>1. n # 1 => r[1] \in S
    BY <1>3
  <2> HIDE DEF r
  <2> QED BY <1>6, <2>1
<1>9. Thread(r, n - 1, l[first], l2, S \ {first})
  <2> HIDE DEF r, l2
  <2> QED BY <1>3, <1>4, <1>5, <1>6, <1>7 DEF Thread
<1> HIDE DEF r
<1> QED BY <1>2, <1>3, <1>8, <1>9

\* A node is put in front.
LEMMA ThreadPush ==
  ASSUME NEW S, NEW D, NEW n \in Nat, NEW q, NEW first, NEW l, NEW a \in D, a \notin S,
         l = [b \in D |-> l[b]], S \subseteq D, Thread(q, n, first, l, S)
  PROVE  \E r \in [1 .. n + 1 -> S \cup {a}] :
           Thread(r, n + 1, a, [l EXCEPT ![a] = first], S \cup {a})
<1> DEFINE r == [k \in 1 .. n + 1 |-> IF k = 1 THEN a ELSE q[k - 1]]
           l2 == [l EXCEPT ![a] = first]
<1>1. /\ q \in [1 .. n -> S] /\ \A b \in S : \E k \in 1 .. n : q[k] = b
      /\ \A i, j \in 1 .. n : q[i] = q[j] => i = j
      /\ first = (IF n = 0 THEN NULL ELSE q[1])
      /\ \A k \in 1 .. n : l[q[k]] = IF k = n THEN NULL ELSE q[k + 1]
  BY DEF Thread
<1>2. \A k \in 1 .. n + 1 : k = 1 \/ (k - 1 \in 1 .. n /\ (k - 1) + 1 = k)
  OBVIOUS
<1>3. r \in [1 .. n + 1 -> S \cup {a}]
  BY <1>1, <1>2
<1>4. ASSUME NEW b \in S \cup {a} PROVE \E k \in 1 .. n + 1 : r[k] = b
  <2>1. CASE b = a
    <3>1. 1 \in 1 .. n + 1 /\ r[1] = a
      OBVIOUS
    <3> QED BY <2>1, <3>1
  <2>2. CASE b \in S
    <3>1. PICK k \in 1 .. n : q[k] = b
      BY <1>1, <2>2
    <3>2. k + 1 \in 1 .. n + 1 /\ k + 1 # 1 /\ (k + 1) - 1 = k
      OBVIOUS
    <3>3. r[k + 1] = b
      BY <3>1, <3>2
    <3> QED BY <3>2, <3>3
  <2> QED BY <2>1, <2>2
<1>5. ASSUME NEW i \in 1 .. n + 1, NEW j \in 1 .. n + 1, r[i] = r[j] PROVE i = j
  <2>1. \A k \in 1 .. n + 1 : IF k = 1 THEN r[k] = a ELSE r[k] = q[k - 1] /\ q[k - 1] \in S
    BY <1>1, <1>2
  <2> HIDE DEF r
  <2>2. CASE i = 1 \/ j = 1
    BY <1>5, <2>1, <2>2
  <2>3. CASE i # 1 /\ j # 1
    <3>1. i - 1 \in 1 .. n /\ j - 1 \in 1 .. n /\ q[i - 1] = q[j - 1]
      BY <1>2, <1>5, <2>1, <2>3
    <3>2. i - 1 = j - 1
      BY <1>1, <3>1
    <3> QED BY <3>2
  <2> QED BY <2>2, <2>3
<1>6. ASSUME NEW k \in 1 .. n + 1 PROVE l2[r[k]] = IF k = n + 1 THEN NULL ELSE r[k + 1]
  <2>1. CASE k = 1
    <3>1. l2[r[k]] = first
      BY <2>1
    <3>2. n # 0 => r[1 + 1] = q[1]
      OBVIOUS
    <3> HIDE DEF r, l2
    <3> QED BY <1>1, <2>1, <3>1, <3>2
  <2>2. CASE k # 1
    <3>1. r[k] = q[k - 1] /\ k - 1 \in 1 .. n /\ q[k - 1] \in S
      BY <1>1, <1>2, <2>2
    <3>2. l2[r[k]] = l[q[k - 1]]
      <4> HIDE DEF r
      <4> QED BY <3>1
    <3>3. l[q[k - 1]] = IF k - 1 = n THEN NULL ELSE q[(k - 1) + 1]
      BY <1>1, <3>1
    <3>4. k # n + 1 => r[k + 1] = q[(k - 1) + 1]
      BY <2>2
    <3> HIDE DEF r, l2
    <3> QED BY <3>2, <3>3, <3>4
  <2> QED BY <2>1, <2>2
<1>7. r[1] = a
  OBVIOUS
<1>8. Thread(r, n + 1, a, l2, S \cup {a})
  <2> HIDE DEF r, l2
  <2> QED BY <1>3, <1>4, <1>5, <1>6, <1>7 DEF Thread
<1> HIDE DEF r
<1> QED BY <1>3, <1>8

\* Words elsewhere do not matter.
LEMMA ThreadSame ==
  ASSUME NEW S, NEW n, NEW q, NEW first, NEW l, NEW l2,
         Thread(q, n, first, l, S), \A a \in S : l2[a] = l[a]
  PROVE  Thread(q, n, first, l2, S)
<1>1. q \in [1 .. n -> S]
  BY DEF Thread
<1>2. \A k \in 1 .. n : l2[q[k]] = l[q[k]]
  BY <1>1
<1> QED BY <1>2 DEF Thread

-----------------------------------------------------------------------------
\* The inductive invariant

Header == [magic : {"none", "slab", "large"}, cache : {0} \cup Classes,
           order : 0 .. MaxOrder, free : Nat, free_count : Nat, total : Nat]

\* A header keeps its kind when its list of m slots from f on changes.
WithList(h, f, m) == [h EXCEPT !.free = f, !.free_count = m]

LEMMA HeaderList ==
  \A h, f, m :
    h \in Header /\ f \in Nat /\ m \in Nat =>
      /\ WithList(h, f, m) \in Header
      /\ WithList(h, f, m).magic = h.magic /\ WithList(h, f, m).cache = h.cache
      /\ WithList(h, f, m).order = h.order
      /\ WithList(h, f, m).free = f /\ WithList(h, f, m).free_count = m
BY DEF Header, WithList

\* The slots of class c, and those of them that are handed out.
SlotsIn(c) == UNION {SlotAddrs(s, c) : s \in SlabPages(c)}
UsedOf(c) == {a \in LivePtrs : PageOf(a) \in SlabPages(c)}
AllSlots == UNION {SlotsIn(c) : c \in Classes}

Types ==
  /\ pool = Pool /\ held \in SUBSET (Pool \X (0 .. MaxOrder))
  /\ hdr \in [Pool -> Header]
  /\ link = [a \in AllSlots |-> link[a]]
  /\ \A a \in AllSlots : link[a] \in AllSlots \cup {NULL, USER}
  /\ slabs \in [Classes -> Seq(Pool)]
  /\ slab_count \in [Classes -> Int] /\ total_slots \in [Classes -> Int]
  /\ free_slots \in [Classes -> Int]
  /\ live \in SUBSET [ptr : Nat, size : Nat \ {0}]

\* No two blocks held share a page.
HeldApart == \A b, d \in held : b # d => BlockSpan(b) \cap BlockSpan(d) = {}

\* A slab page is held, is on one list once, and its header names that list.
PagesInv ==
  /\ \A c \in Classes : \A s \in SlabPages(c) :
       /\ <<s, 0>> \in held
       /\ hdr[s].magic = "slab" /\ hdr[s].cache = c
  /\ \A c \in Classes : \A i, j \in DOMAIN slabs[c] : slabs[c][i] = slabs[c][j] => i = j
  /\ \A p \in Pool : hdr[p].magic = "slab" => \E c \in Classes : p \in SlabPages(c)

\* Where an object lies: in a slot of its class, or in a block of its own.
Small(size) == FittingClasses(size) # {}
InSlot(o) ==
  /\ PageOf(o.ptr) \in SlabPages(ClassFor(o.size))
  /\ o.ptr \in SlotAddrs(PageOf(o.ptr), ClassFor(o.size))
InBlock(o) ==
  LET p == PageOf(o.ptr) IN
  /\ p \in Pool /\ LargeOrder(o.size) <= MaxOrder
  /\ o.ptr = Base(p) + LARGE_DATA
  /\ hdr[p].magic = "large" /\ hdr[p].order = LargeOrder(o.size)

ObjectsInv ==
  /\ \A o \in live : IF Small(o.size) THEN InSlot(o) ELSE InBlock(o)
  /\ \A o, q \in live : o.ptr = q.ptr => o = q

\* Every slab's free slots are threaded.
ListsInv ==
  \A c \in Classes : \A s \in SlabPages(c) :
    \E q \in [1 .. hdr[s].free_count -> SlotAddrs(s, c) \ LivePtrs] :
      Thread(q, hdr[s].free_count, hdr[s].free, link, SlotAddrs(s, c) \ LivePtrs)

CountersInv ==
  \A c \in Classes :
    /\ slab_count[c] = Len(slabs[c]) /\ total_slots[c] = SlotsOf(c) * slab_count[c]
    /\ IsFiniteSet(SlabPages(c)) /\ Cardinality(SlabPages(c)) = slab_count[c]
    /\ IsFiniteSet(SlotsIn(c)) /\ Cardinality(SlotsIn(c)) = total_slots[c]
    /\ Cardinality(UsedOf(c)) = UsedSlots(c)

SlabInv ==
  /\ Types /\ HeldApart /\ PagesInv /\ ObjectsInv /\ HeldExact /\ ListsInv /\ CountersInv

-----------------------------------------------------------------------------
\* What the invariant says about pages

\* A block begins on its first page; a block of order 0 is one page.
LEMMA SpanFacts ==
  ASSUME NEW p \in Pool, NEW k \in 0 .. MaxOrder
  PROVE  /\ p \in Nat /\ p \in BlockSpan(<<p, k>>)
         /\ BlockSpan(<<p, 0>>) = {p}
<1>1. p \in Nat /\ BlockFrames[k] \in Nat \ {0} /\ BlockFrames[0] = 1
  BY PoolAssumption
<1> QED BY <1>1 DEF BlockSpan

\* Slab pages.
LEMMA SlabPageFacts ==
  ASSUME SlabInv, NEW c \in Classes, NEW s \in SlabPages(c)
  PROVE  /\ s \in Pool /\ s \in Nat /\ <<s, 0>> \in held
         /\ hdr[s].magic = "slab" /\ hdr[s].cache = c
         /\ \A d \in Classes : s \in SlabPages(d) => d = c
         /\ SlotAddrs(s, c) \subseteq AllSlots
<1>1. slabs[c] \in Seq(Pool)
  BY DEF SlabInv, Types
<1>2. s \in Pool
  BY <1>1 DEF SlabPages
<1>3. s \in Nat
  BY <1>2, PoolAssumption
<1>4. /\ <<s, 0>> \in held /\ hdr[s].magic = "slab" /\ hdr[s].cache = c
      /\ \A d \in Classes : s \in SlabPages(d) => d = c
  BY DEF SlabInv, PagesInv
<1>5. SlotAddrs(s, c) \subseteq AllSlots
  BY DEF AllSlots, SlotsIn
<1> QED BY <1>2, <1>3, <1>4, <1>5

\* A slot is on one page only.
LEMMA AllSlotsFacts ==
  ASSUME SlabInv, NEW a \in AllSlots
  PROVE  \E c \in Classes : \E s \in SlabPages(c) :
           a \in SlotAddrs(s, c) /\ a \in Nat /\ a # NULL /\ PageOf(a) = s
<1>1. PICK c \in Classes : \E s \in SlabPages(c) : a \in SlotAddrs(s, c)
  BY DEF AllSlots, SlotsIn
<1>2. PICK s \in SlabPages(c) : a \in SlotAddrs(s, c)
  BY <1>1
<1>3. s \in Nat
  BY SlabPageFacts
<1> QED BY <1>2, <1>3, SlotCount

\* Live objects: each has its block.
LEMMA LiveFacts ==
  ASSUME SlabInv, NEW o \in live
  PROVE  /\ o.ptr \in Nat /\ o.size \in Nat \ {0} /\ o = [ptr |-> o.ptr, size |-> o.size]
         /\ PageOf(o.ptr) \in Pool /\ PageOf(o.ptr) \in Nat
         /\ Small(o.size) => /\ ClassFor(o.size) \in Classes /\ InSlot(o)
                             /\ <<PageOf(o.ptr), 0>> \in held
                             /\ hdr[PageOf(o.ptr)].magic = "slab"
         /\ ~Small(o.size) => /\ LargeOrder(o.size) \in 0 .. MaxOrder /\ InBlock(o)
                              /\ <<PageOf(o.ptr), LargeOrder(o.size)>> \in held
                              /\ hdr[PageOf(o.ptr)].magic = "large"
<1>1. o.ptr \in Nat /\ o.size \in Nat \ {0} /\ o = [ptr |-> o.ptr, size |-> o.size]
  BY DEF SlabInv, Types
<1>2. CASE Small(o.size)
  <2>1. InSlot(o)
    BY <1>2 DEF SlabInv, ObjectsInv
  <2>2. ClassFor(o.size) \in Classes
    BY <1>2, ServingClass DEF Small
  <2>3. PageOf(o.ptr) \in SlabPages(ClassFor(o.size))
    BY <2>1 DEF InSlot
  <2> QED BY <1>1, <1>2, <2>1, <2>2, <2>3, SlabPageFacts
<1>3. CASE ~Small(o.size)
  <2>1. InBlock(o)
    BY <1>3 DEF SlabInv, ObjectsInv
  <2>2. LargeOrder(o.size) \in 0 .. MaxOrder
    BY <1>1, <2>1, ServingOrder DEF InBlock
  <2>3. <<PageOf(o.ptr), LargeOrder(o.size)>> \in held
    BY <1>3 DEF SlabInv, HeldExact, Small
  <2>4. PageOf(o.ptr) \in Pool /\ hdr[PageOf(o.ptr)].magic = "large"
    BY <2>1 DEF InBlock
  <2> QED BY <1>1, <1>3, <2>1, <2>2, <2>3, <2>4, PoolAssumption
<1> QED BY <1>2, <1>3

\* A block that is lent anew has no slab and no object on its first page.
LEMMA FreshBlock ==
  ASSUME SlabInv, NEW page \in Pool, NEW k \in 0 .. MaxOrder, Lend(<<page, k>>)
  PROVE  /\ \A c \in Classes : page \notin SlabPages(c)
         /\ \A o \in live : PageOf(o.ptr) # page
         /\ hdr[page].magic # "slab" /\ <<page, k>> \notin held
         /\ pool' = pool /\ held' = held \cup {<<page, k>>}
         /\ held' \in SUBSET (Pool \X (0 .. MaxOrder)) /\ HeldApart'
<1>1. /\ BlockSpan(<<page, k>>) \subseteq pool \ Lent /\ pool' = pool
      /\ held' = held \cup {<<page, k>>}
  BY DEF Lend
<1>2. page \in BlockSpan(<<page, k>>)
  BY SpanFacts
<1>3. \A b \in held : BlockSpan(b) \cap BlockSpan(<<page, k>>) = {}
  BY <1>1 DEF Lent
<1>4. \A j \in 0 .. MaxOrder : <<page, j>> \notin held
  <2> SUFFICES ASSUME NEW j \in 0 .. MaxOrder, <<page, j>> \in held PROVE FALSE
    OBVIOUS
  <2>1. page \in BlockSpan(<<page, j>>)
    BY SpanFacts
  <2> QED BY <1>2, <1>3, <2>1
<1>5. 0 \in 0 .. MaxOrder
  BY PoolAssumption
<1>6. \A c \in Classes : page \notin SlabPages(c)
  BY <1>4, <1>5, SlabPageFacts
<1>7. \A o \in live : PageOf(o.ptr) # page
  BY <1>4, <1>5, LiveFacts
<1>8. hdr[page].magic # "slab"
  BY <1>6 DEF SlabInv, PagesInv
<1>9. held' \in SUBSET (Pool \X (0 .. MaxOrder))
  BY <1>1 DEF SlabInv, Types
<1>10. HeldApart'
  <2>1. HeldApart
    BY DEF SlabInv
  <2>2. \A b, d \in held' : b # d => BlockSpan(b) \cap BlockSpan(d) = {}
    BY <1>1, <1>3, <2>1 DEF HeldApart
  <2> QED BY <2>2 DEF HeldApart, BlockSpan
<1> QED BY <1>1, <1>4, <1>6, <1>7, <1>8, <1>9, <1>10

\* The slots a class has handed out are slots of its slabs.
LEMMA UsedInSlots ==
  ASSUME SlabInv, NEW c \in Classes
  PROVE  /\ UsedOf(c) \subseteq SlotsIn(c) /\ IsFiniteSet(UsedOf(c))
         /\ Cardinality(UsedOf(c)) \in Nat /\ Cardinality(UsedOf(c)) <= total_slots[c]
<1>1. ASSUME NEW a \in UsedOf(c) PROVE a \in SlotsIn(c)
  <2>1. PICK o \in live : o.ptr = a
    BY DEF UsedOf, LivePtrs
  <2>2. PageOf(a) \in SlabPages(c)
    BY DEF UsedOf
  <2>3. hdr[PageOf(a)].magic = "slab"
    BY <2>2, SlabPageFacts
  <2>4. Small(o.size) /\ InSlot(o) /\ ClassFor(o.size) \in Classes
    BY <2>1, <2>3, LiveFacts
  <2>5. ClassFor(o.size) = c
    BY <2>1, <2>2, <2>4, SlabPageFacts DEF InSlot
  <2> QED BY <2>1, <2>2, <2>4, <2>5 DEF InSlot, SlotsIn
<1>2. IsFiniteSet(SlotsIn(c)) /\ Cardinality(SlotsIn(c)) = total_slots[c]
  BY DEF SlabInv, CountersInv
<1> QED BY <1>1, <1>2, FS_Subset, FS_CardinalityType

-----------------------------------------------------------------------------
\* kmalloc

\* Nothing is allocated when the kernel starts.
LEMMA InitSlabInv == SlabInit => SlabInv
<1> SUFFICES ASSUME SlabInit PROVE SlabInv
  OBVIOUS
<1>1. /\ pool = Pool /\ held = {} /\ hdr = [p \in Pool |-> NoHeader] /\ link = << >>
      /\ slabs = [c \in Classes |-> << >>] /\ slab_count = [c \in Classes |-> 0]
      /\ total_slots = [c \in Classes |-> 0] /\ free_slots = [c \in Classes |-> 0] /\ live = {}
  BY DEF SlabInit, slab_init
<1>2. \A c \in Classes : SlabPages(c) = {} /\ SlotsIn(c) = {} /\ UsedOf(c) = {} /\ slabs[c] = << >>
  BY <1>1 DEF SlabPages, SlotsIn, UsedOf, LivePtrs
<1>3. AllSlots = {}
  BY <1>2 DEF AllSlots
<1>4. Types
  <2>1. NoHeader \in Header
    BY PoolAssumption DEF NoHeader, Header, NULL
  <2>2. link = [a \in AllSlots |-> link[a]]
    BY <1>1, <1>3
  <2> QED BY <1>1, <1>3, <2>1, <2>2 DEF Types
<1>5. HeldApart /\ ObjectsInv /\ HeldExact /\ ListsInv
  BY <1>1, <1>2 DEF HeldApart, ObjectsInv, HeldExact, ListsInv
<1>6. PagesInv
  BY <1>1, <1>2 DEF PagesInv, NoHeader
<1>7. CountersInv
  <2> SUFFICES ASSUME NEW c \in Classes
               PROVE  /\ slab_count[c] = Len(slabs[c]) /\ total_slots[c] = SlotsOf(c) * slab_count[c]
                      /\ IsFiniteSet(SlabPages(c)) /\ Cardinality(SlabPages(c)) = slab_count[c]
                      /\ IsFiniteSet(SlotsIn(c)) /\ Cardinality(SlotsIn(c)) = total_slots[c]
                      /\ Cardinality(UsedOf(c)) = UsedSlots(c)
    BY DEF CountersInv
  <2>1. SlotsOf(c) * 0 = 0 /\ IsFiniteSet({}) /\ Cardinality({}) = 0 /\ Len(<< >>) = 0
    BY ClassFacts, FS_EmptySet
  <2>2. slab_count[c] = 0 /\ total_slots[c] = 0 /\ free_slots[c] = 0 /\ Len(slabs[c]) = 0
    BY <1>1, <2>1
  <2>3. total_slots[c] = SlotsOf(c) * slab_count[c]
    BY <2>1, <2>2
  <2>4. Cardinality(UsedOf(c)) = UsedSlots(c)
    <3>1. UsedSlots(c) = 0
      BY <2>2 DEF UsedSlots
    <3> QED BY <1>2, <2>1, <3>1
  <2> QED BY <1>2, <2>1, <2>2, <2>3, <2>4
<1> QED BY <1>4, <1>5, <1>6, <1>7 DEF SlabInv

\* kmalloc from a slab with a free slot.
LEMMA SlotInv ==
  ASSUME SlabInv, NEW size \in Requests, kmalloc_slot(size)
  PROVE  SlabInv'
<1> DEFINE c == ClassFor(size)
           s == slabs[c][Min(SlabsWithRoom(c))]
           slot == hdr[s].free
           n == hdr[s].free_count
           S == SlotAddrs(s, c) \ LivePtrs
           new == [ptr |-> slot, size |-> size]
<1>1. /\ size # 0 /\ Small(size) /\ SlabsWithRoom(c) # {}
      /\ hdr' = [hdr EXCEPT ![s].free = link[slot], ![s].free_count = @ - 1]
      /\ link' = [link EXCEPT ![slot] = USER] /\ live' = live \cup {new}
      /\ free_slots' = [free_slots EXCEPT ![c] = @ - 1]
      /\ pool' = pool /\ held' = held /\ slabs' = slabs /\ slab_count' = slab_count
      /\ total_slots' = total_slots
  BY DEF kmalloc_slot, Pop, Small, pageVars
<1>2. size \in Nat \ {0} /\ c \in Classes /\ size <= class_sizes[c]
  BY <1>1, ServingClass, PoolAssumption DEF Small
<1>3. s \in SlabPages(c) /\ n # 0
  <2>1. slabs[c] \in Seq(Pool)
    BY <1>2 DEF SlabInv, Types
  <2>2. SlabsWithRoom(c) \in SUBSET Nat
    BY <2>1 DEF SlabsWithRoom
  <2>3. Min(SlabsWithRoom(c)) \in SlabsWithRoom(c)
    BY <1>1, <2>2, MinNat
  <2> QED BY <2>3 DEF SlabsWithRoom, SlabPages
<1> HIDE DEF c, s
<1>4. /\ s \in Pool /\ s \in Nat /\ <<s, 0>> \in held /\ hdr[s].magic = "slab" /\ hdr[s].cache = c
      /\ \A d \in Classes : s \in SlabPages(d) => d = c
      /\ SlotAddrs(s, c) \subseteq AllSlots
  BY <1>2, <1>3, SlabPageFacts
<1>5. /\ hdr \in [Pool -> Header] /\ hdr[s] \in Header /\ n \in Nat \ {0}
      /\ link = [a \in AllSlots |-> link[a]]
      /\ \A a \in AllSlots : link[a] \in AllSlots \cup {NULL, USER}
  BY <1>3, <1>4 DEF SlabInv, Types, Header
<1>6. /\ slot \in S /\ link[slot] \in S \cup {NULL}
      /\ \E r \in [1 .. n - 1 -> S \ {slot}] :
           Thread(r, n - 1, link[slot], [link EXCEPT ![slot] = USER], S \ {slot})
  <2>1. PICK q : Thread(q, n, slot, link, S)
    BY <1>2, <1>3 DEF SlabInv, ListsInv
  <2> HIDE DEF slot, n
  <2> QED BY <1>4, <1>5, <2>1, ThreadPop
<1>7. /\ slot \in AllSlots /\ slot \notin LivePtrs /\ slot \in SlotAddrs(s, c)
      /\ slot \in Nat /\ slot # NULL /\ PageOf(slot) = s
  BY <1>2, <1>4, <1>6, SlotCount
<1>8. link[slot] \in AllSlots \cup {NULL} /\ link[slot] \in Nat
  <2>1. link[slot] \in SlotAddrs(s, c) \cup {NULL}
    BY <1>6
  <2> QED BY <1>2, <1>4, <2>1, SlotCount DEF NULL
<1> HIDE DEF slot
<1>9. /\ hdr' \in [Pool -> Header]
      /\ \A p \in Pool : p # s => hdr'[p] = hdr[p]
      /\ \A p \in Pool : /\ hdr'[p].magic = hdr[p].magic /\ hdr'[p].cache = hdr[p].cache
                         /\ hdr'[p].order = hdr[p].order
      /\ hdr'[s].free = link[slot] /\ hdr'[s].free_count = n - 1
  <2> DEFINE h == WithList(hdr[s], link[slot], n - 1)
  <2>1. hdr' = [hdr EXCEPT ![s] = h]
    BY <1>1, <1>4, <1>5 DEF WithList
  <2>2. n - 1 \in Nat
    BY <1>5
  <2>3. /\ h \in Header /\ h.magic = hdr[s].magic /\ h.cache = hdr[s].cache /\ h.order = hdr[s].order
        /\ h.free = link[slot] /\ h.free_count = n - 1
    <3> HIDE DEF n
    <3>1. hdr[s] \in Header /\ link[slot] \in Nat
      BY <1>5, <1>8
    <3> QED BY <2>2, <3>1, HeaderList
  <2> HIDE DEF h
  <2> QED BY <1>4, <1>5, <2>1, <2>3
<1> HIDE DEF n
<1>10. /\ \A d \in Classes : SlabPages(d)' = SlabPages(d) /\ SlotsIn(d)' = SlotsIn(d)
       /\ AllSlots' = AllSlots
  <2>1. \A d \in Classes : SlabPages(d)' = SlabPages(d)
    BY <1>1 DEF SlabPages
  <2>2. \A d \in Classes : SlotsIn(d)' = SlotsIn(d)
    BY <2>1 DEF SlotsIn
  <2> QED BY <2>1, <2>2 DEF AllSlots
<1>11. LivePtrs' = LivePtrs \cup {slot} /\ new.ptr = slot /\ new.size = size
  <2>1. new.ptr = slot /\ new.size = size
    OBVIOUS
  <2> HIDE DEF new
  <2> QED BY <1>1, <2>1 DEF LivePtrs
<1> HIDE DEF new
<1>12. Types'
  <2>1. link' = [a \in AllSlots |-> link'[a]] /\ link'[slot] = USER
    BY <1>1, <1>5, <1>7
  <2>2. \A a \in AllSlots : a # slot => link'[a] = link[a]
    BY <1>1, <1>5
  <2>3. \A a \in AllSlots : link'[a] \in AllSlots \cup {NULL, USER}
    BY <1>5, <2>1, <2>2
  <2>4. live' \in SUBSET [ptr : Nat, size : Nat \ {0}]
    BY <1>1, <1>2, <1>7 DEF SlabInv, Types, new
  <2>5. free_slots' \in [Classes -> Int]
    BY <1>1, <1>2 DEF SlabInv, Types
  <2> QED BY <1>1, <1>9, <1>10, <2>1, <2>3, <2>4, <2>5 DEF SlabInv, Types
<1>13. HeldApart'
  BY <1>1 DEF SlabInv, HeldApart, BlockSpan
<1>14. PagesInv'
  <2>1. PagesInv
    BY DEF SlabInv
  <2>2. \A d \in Classes : \A t \in SlabPages(d) : t \in Pool
    BY SlabPageFacts
  <2>3. ASSUME NEW d \in Classes, NEW t \in SlabPages(d)'
        PROVE  <<t, 0>> \in held' /\ hdr'[t].magic = "slab" /\ hdr'[t].cache = d
    <3>1. t \in SlabPages(d)
      BY <1>10
    <3> QED BY <1>1, <1>9, <2>1, <2>2, <3>1 DEF PagesInv
  <2>4. ASSUME NEW p \in Pool, hdr'[p].magic = "slab" PROVE \E d \in Classes : p \in SlabPages(d)'
    <3>1. \E d \in Classes : p \in SlabPages(d)
      BY <1>9, <2>1, <2>4 DEF PagesInv
    <3> QED BY <1>10, <3>1
  <2>5. \A d \in Classes : \A i, j \in DOMAIN slabs'[d] : slabs'[d][i] = slabs'[d][j] => i = j
    BY <1>1, <2>1 DEF PagesInv
  <2> QED BY <2>3, <2>4, <2>5 DEF PagesInv
<1>15. ObjectsInv'
  <2>1. ASSUME NEW o \in live PROVE IF Small(o.size) THEN InSlot(o)' ELSE InBlock(o)'
    <3>1. CASE Small(o.size)
      <4>1. ClassFor(o.size) \in Classes /\ InSlot(o)
        BY <3>1, LiveFacts
      <4> QED BY <1>10, <3>1, <4>1 DEF InSlot
    <3>2. CASE ~Small(o.size)
      <4>1. InBlock(o) /\ PageOf(o.ptr) \in Pool /\ hdr[PageOf(o.ptr)].magic = "large"
        BY <3>2, LiveFacts
      <4> QED BY <1>9, <3>2, <4>1 DEF InBlock
    <3> QED BY <3>1, <3>2
  <2>2. PICK x : x = new
    OBVIOUS
  <2>3. InSlot(x)'
    <3>1. PageOf(x.ptr) = s /\ ClassFor(x.size) = c /\ x.ptr \in SlotAddrs(s, c)
      BY <1>7, <1>11, <2>2 DEF c
    <3>2. SlabPages(c)' = SlabPages(c)
      BY <1>2, <1>10
    <3> QED BY <1>3, <3>1, <3>2 DEF InSlot
  <2>4. \A o, q \in live' : o.ptr = q.ptr => o = q
    <3>1. \A o, q \in live : o.ptr = q.ptr => o = q
      BY DEF SlabInv, ObjectsInv
    <3>2. \A o \in live : o.ptr # new.ptr
      BY <1>7, <1>11 DEF LivePtrs
    <3> QED BY <1>1, <3>1, <3>2
  <2>5. Small(x.size)
    BY <1>1, <1>11, <2>2
  <2>6. ASSUME NEW o \in live' PROVE IF Small(o.size) THEN InSlot(o)' ELSE InBlock(o)'
    BY <1>1, <2>1, <2>2, <2>3, <2>5
  <2> QED BY <2>4, <2>6 DEF ObjectsInv
<1>16. HeldExact'
  <2>1. {q \in live' : FittingClasses(q.size) = {}} = {q \in live : FittingClasses(q.size) = {}}
    BY <1>1, <1>11 DEF Small
  <2> QED BY <1>1, <1>10, <2>1 DEF SlabInv, HeldExact
<1>17. ListsInv'
  <2> SUFFICES ASSUME NEW d \in Classes, NEW t \in SlabPages(d)
               PROVE  \E q \in [1 .. hdr'[t].free_count -> SlotAddrs(t, d) \ LivePtrs'] :
                        Thread(q, hdr'[t].free_count, hdr'[t].free, link', SlotAddrs(t, d) \ LivePtrs')
    BY <1>10 DEF ListsInv
  <2>1. CASE t = s
    <3>1. d = c /\ SlotAddrs(t, d) \ LivePtrs' = S \ {slot}
      BY <1>4, <1>11, <2>1
    <3> HIDE DEF S
    <3> QED BY <1>1, <1>6, <1>9, <2>1, <3>1
  <2>2. CASE t # s
    <3> DEFINE T == SlotAddrs(t, d) \ LivePtrs
               m == hdr[t].free_count
    <3>1. t \in Pool /\ t \in Nat /\ SlotAddrs(t, d) \subseteq AllSlots
      BY SlabPageFacts
    <3>2. hdr'[t] = hdr[t]
      BY <1>9, <2>2, <3>1
    <3>3. slot \notin SlotAddrs(t, d)
      BY <1>7, <2>2, <3>1, SlotCount
    <3>4. SlotAddrs(t, d) \ LivePtrs' = T
      BY <1>11, <3>3
    <3>5. \A a \in T : link'[a] = link[a]
      BY <1>1, <1>5, <3>1, <3>3
    <3>6. PICK q \in [1 .. m -> T] : Thread(q, m, hdr[t].free, link, T)
      BY DEF SlabInv, ListsInv
    <3> HIDE DEF T, m
    <3>7. Thread(q, m, hdr[t].free, link', T)
      BY <3>5, <3>6, ThreadSame
    <3> QED BY <3>2, <3>4, <3>6, <3>7 DEF m
  <2> QED BY <2>1, <2>2
<1>18. CountersInv'
  <2> SUFFICES ASSUME NEW d \in Classes
               PROVE  /\ slab_count'[d] = Len(slabs'[d]) /\ total_slots'[d] = SlotsOf(d) * slab_count'[d]
                      /\ IsFiniteSet(SlabPages(d)') /\ Cardinality(SlabPages(d)') = slab_count'[d]
                      /\ IsFiniteSet(SlotsIn(d)') /\ Cardinality(SlotsIn(d)') = total_slots'[d]
                      /\ Cardinality(UsedOf(d)') = UsedSlots(d)'
    BY DEF CountersInv
  <2>1. Cardinality(UsedOf(d)) = UsedSlots(d)
    BY DEF SlabInv, CountersInv
  <2>2. Cardinality(UsedOf(d)') = UsedSlots(d)'
    <3>0. free_slots \in [Classes -> Int] /\ total_slots \in [Classes -> Int]
      BY DEF SlabInv, Types
    <3>1. CASE d = c
      <4>1. UsedOf(d)' = UsedOf(d) \cup {slot} /\ slot \notin UsedOf(d)
        BY <1>3, <1>7, <1>10, <1>11, <3>1 DEF UsedOf
      <4>2. IsFiniteSet(UsedOf(d)) /\ Cardinality(UsedOf(d)) \in Nat
        BY UsedInSlots
      <4>3. Cardinality(UsedOf(d)') = Cardinality(UsedOf(d)) + 1
        BY <4>1, <4>2, FS_AddElement
      <4> QED BY <1>1, <1>2, <2>1, <3>0, <3>1, <4>3 DEF UsedSlots
    <3>2. CASE d # c
      <4>1. UsedOf(d)' = UsedOf(d)
        BY <1>4, <1>7, <1>10, <1>11, <3>2 DEF UsedOf
      <4> QED BY <1>1, <1>2, <2>1, <3>0, <3>2, <4>1 DEF UsedSlots
    <3> QED BY <3>1, <3>2
  <2> QED BY <1>1, <1>10, <2>2 DEF SlabInv, CountersInv
<1> QED BY <1>12, <1>13, <1>14, <1>15, <1>16, <1>17, <1>18 DEF SlabInv

\* cache_grow's list: all slots of the new slab, the last one first.
LEMMA ThreadFresh ==
  ASSUME NEW page \in Nat, NEW c \in Classes
  PROVE  /\ FreshHeader(page, c).free \in SlotAddrs(page, c)
         /\ \E q : Thread(q, SlotsOf(c), FreshHeader(page, c).free, Threading(page, c),
                          SlotAddrs(page, c))
<1> DEFINE n == SlotsOf(c)
           at(i) == SlotAddr(page, c, i)
           S == SlotAddrs(page, c)
           q == [k \in 1 .. n |-> at(n - k)]
           l == Threading(page, c)
<1>1. n \in Nat \ {0} /\ class_sizes[c] \in Nat \ {0}
  BY ClassFacts
<1>2. S = {at(i) : i \in 0 .. n - 1}
  BY DEF SlotAddrs
<1>3. \A i, j \in 0 .. n - 1 : at(i) = at(j) => i = j
  BY <1>1, SlotsDiffer
<1>4. \A i \in 0 .. n - 1 : l[at(i)] = IF i = 0 THEN NULL ELSE at(i - 1)
  <2> SUFFICES ASSUME NEW i \in 0 .. n - 1 PROVE l[at(i)] = IF i = 0 THEN NULL ELSE at(i - 1)
    OBVIOUS
  <2>1. at(i) \in S /\ 0 \in 0 .. n - 1
    BY <1>1, <1>2
  <2>2. l[at(i)] = IF at(i) = at(0) THEN NULL ELSE at(i) - class_sizes[c]
    <3> HIDE DEF at
    <3> QED BY <2>1 DEF Threading, at
  <2>3. i # 0 => at(i) - class_sizes[c] = at(i - 1)
    <3> SUFFICES ASSUME i # 0 PROVE at(i) - class_sizes[c] = at(i - 1)
      OBVIOUS
    <3> DEFINE z == class_sizes[c]
    <3>1. i \in Nat \ {0} /\ SLAB_DATA \in Nat /\ Base(page) \in Nat
      <4>1. 0 \in 0 .. PAGE_SIZE - 1 /\ SLAB_DATA \in Nat
        BY SizesAssumption
      <4>2. Base(page) \in Nat
        BY <4>1, PageOfAddr
      <4> HIDE DEF n
      <4> QED BY <1>1, <4>1, <4>2
    <3>2. z \in Nat
      BY <1>1
    <3>3. at(i) = Base(page) + (SLAB_DATA + i * z) /\ at(i - 1) = Base(page) + (SLAB_DATA + (i - 1) * z)
      BY DEF SlotAddr, SlotOffset
    <3> HIDE DEF z
    <3>4. (i - 1) * z \in Int /\ i * z = (i - 1) * z + z
      BY <3>1, <3>2
    <3>5. (Base(page) + (SLAB_DATA + i * z)) - z = Base(page) + (SLAB_DATA + (i - 1) * z)
      <4> DEFINE y == (i - 1) * z
                 w == i * z
                 b == Base(page)
      <4>1. y \in Int /\ w = y + z /\ b \in Nat
        BY <3>1, <3>4
      <4>2. (b + (SLAB_DATA + w)) - z = b + (SLAB_DATA + y)
        <5> HIDE DEF y, w, b
        <5> QED BY <3>1, <3>2, <4>1
      <4> QED BY <4>2
    <3> QED BY <3>3, <3>5 DEF z
  <2>4. at(i) = at(0) <=> i = 0
    BY <1>3, <2>1
  <2> HIDE DEF at, l
  <2> QED BY <2>2, <2>3, <2>4
<1>5. FreshHeader(page, c).free = at(n - 1)
  BY DEF FreshHeader
<1> HIDE DEF n, at, l, S
<1>6. \A k \in 1 .. n : n - k \in 0 .. n - 1
  BY <1>1
<1>7. q \in [1 .. n -> S]
  BY <1>2, <1>6
<1>8. ASSUME NEW a \in S PROVE \E k \in 1 .. n : q[k] = a
  <2>1. PICK i \in 0 .. n - 1 : a = at(i)
    BY <1>2
  <2>2. n - i \in 1 .. n /\ n - (n - i) = i
    BY <1>1
  <2> QED BY <2>1, <2>2
<1>9. ASSUME NEW i \in 1 .. n, NEW j \in 1 .. n, q[i] = q[j] PROVE i = j
  <2>1. n - i = n - j
    BY <1>3, <1>6, <1>9
  <2> QED BY <1>1, <2>1
<1>10. ASSUME NEW k \in 1 .. n PROVE l[q[k]] = IF k = n THEN NULL ELSE q[k + 1]
  <2>1. l[at(n - k)] = IF n - k = 0 THEN NULL ELSE at((n - k) - 1)
    BY <1>4, <1>6
  <2>2. q[k] = at(n - k) /\ (n - k = 0 <=> k = n)
    BY <1>1
  <2>3. k # n => q[k + 1] = at((n - k) - 1)
    <3> SUFFICES ASSUME k # n PROVE q[k + 1] = at((n - k) - 1)
      OBVIOUS
    <3>1. k + 1 \in 1 .. n /\ n - (k + 1) = (n - k) - 1
      BY <1>1
    <3> QED BY <3>1
  <2> HIDE DEF q
  <2> QED BY <2>1, <2>2, <2>3
<1>11. q[1] = at(n - 1) /\ at(n - 1) \in S
  BY <1>1, <1>2
<1>12. Thread(q, n, at(n - 1), l, S)
  <2> HIDE DEF q
  <2> QED BY <1>1, <1>7, <1>8, <1>9, <1>10, <1>11 DEF Thread
<1> QED BY <1>5, <1>11, <1>12 DEF n, l, S

\* A page put in front of a list of pages.
LEMMA PagePushed ==
  ASSUME NEW page \in Pool, NEW q \in Seq(Pool), \A i \in DOMAIN q : q[i] # page,
         \A i, j \in DOMAIN q : q[i] = q[j] => i = j
  PROVE  /\ <<page>> \o q \in Seq(Pool) /\ Len(<<page>> \o q) = Len(q) + 1
         /\ {(<<page>> \o q)[i] : i \in DOMAIN (<<page>> \o q)} = {q[i] : i \in DOMAIN q} \cup {page}
         /\ \A i, j \in DOMAIN (<<page>> \o q) : (<<page>> \o q)[i] = (<<page>> \o q)[j] => i = j
<1> DEFINE r == <<page>> \o q
<1>1. /\ r \in Seq(Pool) /\ Len(r) = Len(q) + 1 /\ Len(q) \in Nat
      /\ DOMAIN q = 1 .. Len(q) /\ DOMAIN r = 1 .. Len(q) + 1
  OBVIOUS
<1>2. \A i \in 1 .. Len(q) + 1 : r[i] = IF i = 1 THEN page ELSE q[i - 1]
  OBVIOUS
<1> HIDE DEF r
<1>3. \A i \in 1 .. Len(q) + 1 : i # 1 => i - 1 \in 1 .. Len(q)
  BY <1>1
<1>4. ASSUME NEW i \in DOMAIN q PROVE q[i] \in {r[k] : k \in DOMAIN r}
  <2>1. i + 1 \in 1 .. Len(q) + 1 /\ i + 1 # 1 /\ (i + 1) - 1 = i
    BY <1>1
  <2>2. r[i + 1] = q[i]
    BY <1>2, <2>1
  <2> QED BY <1>1, <2>1, <2>2
<1>5. page \in {r[k] : k \in DOMAIN r}
  <2>1. 1 \in DOMAIN r /\ r[1] = page
    BY <1>1, <1>2
  <2> QED BY <2>1
<1>6. ASSUME NEW i \in DOMAIN r PROVE r[i] \in {q[k] : k \in DOMAIN q} \cup {page}
  BY <1>1, <1>2, <1>3
<1>7. {r[i] : i \in DOMAIN r} = {q[i] : i \in DOMAIN q} \cup {page}
  BY <1>4, <1>5, <1>6
<1>8. ASSUME NEW i \in DOMAIN r, NEW j \in DOMAIN r, r[i] = r[j] PROVE i = j
  <2>0. ASSUME NEW k \in DOMAIN r, k # 1 PROVE r[k] # page
    <3>1. k \in 1 .. Len(q) + 1
      BY <1>1
    <3>2. k - 1 \in DOMAIN q /\ r[k] = q[k - 1]
      BY <1>1, <1>2, <1>3, <2>0, <3>1
    <3> QED BY <3>2
  <2>1. CASE i = 1 \/ j = 1
    <3>1. r[i] = page
      BY <1>1, <1>2, <1>8, <2>1
    <3> QED BY <1>8, <2>0, <3>1
  <2>2. CASE i # 1 /\ j # 1
    <3>1. i - 1 \in DOMAIN q /\ j - 1 \in DOMAIN q /\ q[i - 1] = q[j - 1]
      BY <1>1, <1>2, <1>3, <1>8, <2>2
    <3>2. i - 1 = j - 1 /\ i \in Int /\ j \in Int
      BY <1>1, <3>1
    <3> QED BY <3>2
  <2> QED BY <2>1, <2>2
<1> QED BY <1>1, <1>7, <1>8 DEF r

\* kmalloc from a new slab.
LEMMA GrowInv ==
  ASSUME SlabInv, NEW size \in Requests, kmalloc_grow(size)
  PROVE  SlabInv'
<1> DEFINE c == ClassFor(size)
           n == SlotsOf(c)
<1>1. PICK page \in Pool :
        /\ Lend(<<page, 0>>)
        /\ Pop(page, size, [hdr EXCEPT ![page] = FreshHeader(page, c)], Threading(page, c))
        /\ slabs' = [slabs EXCEPT ![c] = <<page>> \o @]
  BY DEF kmalloc_grow
<1> DEFINE slot == FreshHeader(page, c).free
           S == SlotAddrs(page, c)
           l == Threading(page, c)
           new == [ptr |-> slot, size |-> size]
<1>2. /\ size # 0 /\ Small(size)
      /\ slab_count' = [slab_count EXCEPT ![c] = @ + 1]
      /\ total_slots' = [total_slots EXCEPT ![c] = @ + n]
      /\ free_slots' = [free_slots EXCEPT ![c] = @ + n - 1]
  BY DEF kmalloc_grow, Small
<1>3. size \in Nat \ {0} /\ c \in Classes /\ page \in Nat /\ n \in Nat \ {0} /\ 0 \in 0 .. MaxOrder
  BY <1>2, ServingClass, ClassFacts, PoolAssumption DEF Small
<1> HIDE DEF c, n
<1>4. /\ \A d \in Classes : page \notin SlabPages(d)
      /\ \A o \in live : PageOf(o.ptr) # page
      /\ hdr[page].magic # "slab" /\ <<page, 0>> \notin held
      /\ pool' = pool /\ held' = held \cup {<<page, 0>>}
      /\ held' \in SUBSET (Pool \X (0 .. MaxOrder)) /\ HeldApart'
  BY <1>1, <1>3, FreshBlock
<1>5. /\ hdr \in [Pool -> Header] /\ slabs \in [Classes -> Seq(Pool)]
      /\ DOMAIN link = AllSlots
      /\ \A a \in AllSlots : link[a] \in AllSlots \cup {NULL, USER}
  BY DEF SlabInv, Types
<1>6. \A a \in S : a \in Nat /\ a # NULL /\ PageOf(a) = page
  BY <1>3, SlotCount
<1>7. S \cap AllSlots = {} /\ S \cap LivePtrs = {}
  <2>1. \A a \in AllSlots : PageOf(a) # page
    BY <1>4, AllSlotsFacts
  <2> QED BY <1>4, <1>6, <2>1 DEF LivePtrs
<1>8. /\ l = [a \in S \cup AllSlots |-> l[a]]
      /\ \A a \in AllSlots : l[a] = link[a]
  <2>1. /\ l = [a \in S \cup AllSlots |->
                  IF a \notin S THEN link[a]
                  ELSE IF a = SlotAddr(page, c, 0) THEN NULL ELSE a - class_sizes[c]]
    BY <1>5 DEF Threading
  <2> HIDE DEF l, S
  <2> QED BY <1>7, <2>1
<1>9. /\ slot \in S /\ l[slot] \in S \cup {NULL}
      /\ \E r \in [1 .. n - 1 -> S \ {slot}] :
           Thread(r, n - 1, l[slot], [l EXCEPT ![slot] = USER], S \ {slot})
  <2>1. PICK q : Thread(q, n, slot, l, S)
    BY <1>3, ThreadFresh DEF n
  <2>2. S \subseteq S \cup AllSlots
    OBVIOUS
  <2> HIDE DEF S, l, slot
  <2> QED BY <1>3, <1>8, <2>1, <2>2, ThreadPop
<1>10. \A a \in S : l[a] \in S \cup {NULL}
  <2>1. PICK q : Thread(q, n, slot, l, S)
    BY <1>3, ThreadFresh DEF n
  <2>2. /\ q \in [1 .. n -> S] /\ \A a \in S : \E k \in 1 .. n : q[k] = a
        /\ \A k \in 1 .. n : l[q[k]] = IF k = n THEN NULL ELSE q[k + 1]
    <3> HIDE DEF S, l, slot
    <3> QED BY <2>1 DEF Thread
  <2> HIDE DEF S, l, slot
  <2> SUFFICES ASSUME NEW a \in S PROVE l[a] \in S \cup {NULL}
    OBVIOUS
  <2>3. PICK k \in 1 .. n : q[k] = a
    BY <2>2
  <2>4. k # n => k + 1 \in 1 .. n
    BY <1>3
  <2> QED BY <2>2, <2>3, <2>4
<1>11. slot \in Nat /\ slot # NULL /\ PageOf(slot) = page /\ slot \notin LivePtrs /\ l[slot] \in Nat
  BY <1>6, <1>7, <1>9 DEF NULL
<1>12. /\ hdr' \in [Pool -> Header]
       /\ \A p \in Pool : p # page => hdr'[p] = hdr[p]
       /\ hdr'[page].magic = "slab" /\ hdr'[page].cache = c
       /\ hdr'[page].free = l[slot] /\ hdr'[page].free_count = n - 1
  <2> DEFINE f == FreshHeader(page, c)
             h == WithList(f, l[slot], n - 1)
  <2>1. f \in Header /\ f.magic = "slab" /\ f.cache = c /\ f.free_count = n
    <3>1. SlotAddr(page, c, n - 1) = slot
      BY DEF FreshHeader, n
    <3>2. f = [magic |-> "slab", cache |-> c, order |-> 0, free |-> slot, free_count |-> n, total |-> n]
      BY <3>1 DEF FreshHeader, n
    <3> HIDE DEF f, slot
    <3> QED BY <1>3, <1>11, <3>2 DEF Header
  <2> HIDE DEF l
  <2>2. hdr' = [hdr EXCEPT ![page] = h]
    <3> DEFINE g == [hdr EXCEPT ![page] = f]
    <3>1. hdr' = [g EXCEPT ![page].free = l[g[page].free], ![page].free_count = @ - 1]
      BY <1>1 DEF Pop, l
    <3>2. g[page] = f
      BY <1>5
    <3>3. g \in [Pool -> Header]
      BY <1>5, <2>1
    <3>4. slot = f.free
      OBVIOUS
    <3> HIDE DEF f, g, slot
    <3>5. hdr' = [g EXCEPT ![page] = h]
      BY <2>1, <3>1, <3>2, <3>3, <3>4 DEF WithList
    <3> HIDE DEF h
    <3> QED BY <1>5, <3>5 DEF g
  <2>3. n - 1 \in Nat
    BY <1>3
  <2> HIDE DEF f, slot
  <2>4. h \in Header /\ h.magic = "slab" /\ h.cache = c /\ h.free = l[slot] /\ h.free_count = n - 1
    BY <1>11, <2>1, <2>3, HeaderList
  <2> HIDE DEF h
  <2> QED BY <1>5, <2>2, <2>4
<1>13. link' = [l EXCEPT ![slot] = USER] /\ live' = live \cup {new}
  <2>1. [hdr EXCEPT ![page] = FreshHeader(page, c)][page].free = slot
    BY <1>5
  <2> HIDE DEF l, slot
  <2> QED BY <1>1, <2>1 DEF Pop, l
<1> HIDE DEF l, slot
<1>14. LivePtrs' = LivePtrs \cup {slot} /\ new.ptr = slot /\ new.size = size
  <2>1. new.ptr = slot /\ new.size = size
    OBVIOUS
  <2> HIDE DEF new
  <2> QED BY <1>13, <2>1 DEF LivePtrs
<1>15. /\ slabs' \in [Classes -> Seq(Pool)] /\ \A d \in Classes : d # c => slabs'[d] = slabs[d]
       /\ Len(slabs'[c]) = Len(slabs[c]) + 1
       /\ SlabPages(c)' = SlabPages(c) \cup {page}
       /\ \A i, j \in DOMAIN slabs'[c] : slabs'[c][i] = slabs'[c][j] => i = j
  <2> DEFINE q == slabs[c]
  <2>1. /\ q \in Seq(Pool) /\ \A i \in DOMAIN q : q[i] # page
        /\ \A i, j \in DOMAIN q : q[i] = q[j] => i = j
    BY <1>3, <1>4, <1>5 DEF SlabInv, PagesInv, SlabPages
  <2>2. slabs'[c] = <<page>> \o q
    BY <1>1, <1>3, <1>5
  <2>3. /\ <<page>> \o q \in Seq(Pool) /\ Len(<<page>> \o q) = Len(q) + 1
        /\ {(<<page>> \o q)[i] : i \in DOMAIN (<<page>> \o q)} = {q[i] : i \in DOMAIN q} \cup {page}
        /\ \A i, j \in DOMAIN (<<page>> \o q) : (<<page>> \o q)[i] = (<<page>> \o q)[j] => i = j
    <3> HIDE DEF q
    <3> QED BY <2>1, PagePushed
  <2>4. slabs' \in [Classes -> Seq(Pool)] /\ \A d \in Classes : d # c => slabs'[d] = slabs[d]
    BY <1>1, <1>3, <1>5, <2>3
  <2> QED BY <2>2, <2>3, <2>4 DEF SlabPages
<1>16. /\ \A d \in Classes : d # c => SlabPages(d)' = SlabPages(d) /\ SlotsIn(d)' = SlotsIn(d)
       /\ SlotsIn(c)' = SlotsIn(c) \cup S /\ AllSlots' = AllSlots \cup S
  <2>1. \A d \in Classes : d # c => SlabPages(d)' = SlabPages(d)
    BY <1>15 DEF SlabPages
  <2>2. \A d \in Classes : d # c => SlotsIn(d)' = SlotsIn(d)
    BY <2>1 DEF SlotsIn
  <2>3. SlotsIn(c)' = SlotsIn(c) \cup S
    BY <1>15 DEF SlotsIn
  <2>4. AllSlots' = AllSlots \cup S
    <3> HIDE DEF S
    <3> QED BY <1>3, <2>2, <2>3 DEF AllSlots
  <2> QED BY <2>1, <2>2, <2>3, <2>4
<1> HIDE DEF new
<1>17. Types'
  <2>1. link' = [a \in AllSlots \cup S |-> link'[a]] /\ link'[slot] = USER
    <3> HIDE DEF S
    <3> QED BY <1>8, <1>9, <1>13
  <2>2. \A a \in AllSlots \cup S : a # slot => link'[a] = l[a]
    <3> HIDE DEF S
    <3> QED BY <1>8, <1>9, <1>13
  <2>3. \A a \in AllSlots \cup S : link'[a] \in (AllSlots \cup S) \cup {NULL, USER}
    <3> HIDE DEF S
    <3> QED BY <1>5, <1>8, <1>10, <2>1, <2>2
  <2>4. live' \in SUBSET [ptr : Nat, size : Nat \ {0}]
    BY <1>3, <1>11, <1>13 DEF SlabInv, Types, new
  <2>5. /\ free_slots' \in [Classes -> Int] /\ total_slots' \in [Classes -> Int]
        /\ slab_count' \in [Classes -> Int]
    BY <1>2, <1>3 DEF SlabInv, Types
  <2>6. pool' = Pool
    BY <1>4 DEF SlabInv, Types
  <2> HIDE DEF S
  <2> QED BY <1>4, <1>12, <1>15, <1>16, <2>1, <2>3, <2>4, <2>5, <2>6 DEF Types
<1>18. PagesInv'
  <2>1. PagesInv
    BY DEF SlabInv
  <2>2. \A d \in Classes : \A t \in SlabPages(d) : t \in Pool /\ t # page
    BY <1>4, SlabPageFacts
  <2>3. ASSUME NEW d \in Classes, NEW t \in SlabPages(d)'
        PROVE  <<t, 0>> \in held' /\ hdr'[t].magic = "slab" /\ hdr'[t].cache = d
    <3>1. CASE t \in SlabPages(d)
      <4>1. hdr'[t] = hdr[t]
        BY <1>12, <2>2, <3>1
      <4> QED BY <1>4, <2>1, <3>1, <4>1 DEF PagesInv
    <3>2. CASE t \notin SlabPages(d)
      <4>1. d = c /\ t = page
        BY <1>15, <1>16, <3>2
      <4> QED BY <1>4, <1>12, <4>1
    <3> QED BY <3>1, <3>2
  <2>4. ASSUME NEW p \in Pool, hdr'[p].magic = "slab" PROVE \E d \in Classes : p \in SlabPages(d)'
    <3>1. CASE p = page
      BY <1>3, <1>15, <3>1
    <3>2. CASE p # page
      <4>1. PICK d \in Classes : p \in SlabPages(d)
        BY <1>12, <2>1, <2>4, <3>2 DEF PagesInv
      <4> QED BY <1>15, <1>16, <4>1
    <3> QED BY <3>1, <3>2
  <2>5. \A d \in Classes : \A i, j \in DOMAIN slabs'[d] : slabs'[d][i] = slabs'[d][j] => i = j
    BY <1>15, <2>1 DEF PagesInv
  <2> QED BY <2>3, <2>4, <2>5 DEF PagesInv
<1>19. ObjectsInv'
  <2>1. ASSUME NEW o \in live PROVE IF Small(o.size) THEN InSlot(o)' ELSE InBlock(o)'
    <3>1. CASE Small(o.size)
      <4>1. ClassFor(o.size) \in Classes /\ InSlot(o)
        BY <3>1, LiveFacts
      <4>2. SlabPages(ClassFor(o.size)) \subseteq SlabPages(ClassFor(o.size))'
        BY <1>15, <1>16, <4>1
      <4> QED BY <3>1, <4>1, <4>2 DEF InSlot
    <3>2. CASE ~Small(o.size)
      <4>1. InBlock(o) /\ PageOf(o.ptr) \in Pool
        BY <3>2, LiveFacts
      <4>2. hdr'[PageOf(o.ptr)] = hdr[PageOf(o.ptr)]
        BY <1>4, <1>12, <4>1
      <4> QED BY <3>2, <4>1, <4>2 DEF InBlock
    <3> QED BY <3>1, <3>2
  <2>2. PICK x : x = new
    OBVIOUS
  <2>3. InSlot(x)'
    <3>1. PageOf(x.ptr) = page /\ ClassFor(x.size) = c /\ x.ptr \in SlotAddrs(page, c)
      BY <1>9, <1>11, <1>14, <2>2 DEF c
    <3> QED BY <1>15, <3>1 DEF InSlot
  <2>4. \A o, q \in live' : o.ptr = q.ptr => o = q
    <3>1. \A o, q \in live : o.ptr = q.ptr => o = q
      BY DEF SlabInv, ObjectsInv
    <3>2. \A o \in live : o.ptr # new.ptr
      BY <1>11, <1>14 DEF LivePtrs
    <3> QED BY <1>13, <3>1, <3>2
  <2>5. Small(x.size)
    BY <1>2, <1>14, <2>2
  <2>6. ASSUME NEW o \in live' PROVE IF Small(o.size) THEN InSlot(o)' ELSE InBlock(o)'
    BY <1>13, <2>1, <2>2, <2>3, <2>5
  <2> QED BY <2>4, <2>6 DEF ObjectsInv
<1>20. HeldExact'
  <2>1. {q \in live' : FittingClasses(q.size) = {}} = {q \in live : FittingClasses(q.size) = {}}
    BY <1>2, <1>13, <1>14 DEF Small
  <2>2. UNION {SlabPages(d)' : d \in Classes} = (UNION {SlabPages(d) : d \in Classes}) \cup {page}
    BY <1>3, <1>15, <1>16
  <2>3. held = {<<t, 0>> : t \in UNION {SlabPages(d) : d \in Classes}}
                 \cup {<<PageOf(o.ptr), LargeOrder(o.size)>> :
                         o \in {q \in live : FittingClasses(q.size) = {}}}
    BY DEF SlabInv, HeldExact
  <2>4. held' = {<<t, 0>> : t \in UNION {SlabPages(d)' : d \in Classes}}
                 \cup {<<PageOf(o.ptr), LargeOrder(o.size)>> :
                         o \in {q \in live' : FittingClasses(q.size) = {}}}
    BY <1>4, <2>1, <2>2, <2>3
  <2> QED BY <2>4 DEF HeldExact
<1>21. ListsInv'
  <2> SUFFICES ASSUME NEW d \in Classes, NEW t \in SlabPages(d)'
               PROVE  \E q \in [1 .. hdr'[t].free_count -> SlotAddrs(t, d) \ LivePtrs'] :
                        Thread(q, hdr'[t].free_count, hdr'[t].free, link', SlotAddrs(t, d) \ LivePtrs')
    BY DEF ListsInv
  <2>1. CASE t \notin SlabPages(d)
    <3>1. d = c /\ t = page
      BY <1>15, <1>16, <2>1
    <3>2. SlotAddrs(t, d) \ LivePtrs' = S \ {slot}
      BY <1>7, <1>14, <3>1
    <3> HIDE DEF S
    <3> QED BY <1>9, <1>12, <1>13, <3>1, <3>2
  <2>2. CASE t \in SlabPages(d)
    <3> DEFINE T == SlotAddrs(t, d) \ LivePtrs
               m == hdr[t].free_count
    <3>1. t \in Pool /\ t \in Nat /\ SlotAddrs(t, d) \subseteq AllSlots /\ t # page
      BY <1>4, <2>2, SlabPageFacts
    <3>2. hdr'[t] = hdr[t]
      BY <1>12, <3>1
    <3>3. slot \notin SlotAddrs(t, d)
      BY <1>7, <1>9, <3>1
    <3>4. SlotAddrs(t, d) \ LivePtrs' = T
      BY <1>14, <3>3
    <3>5. \A a \in T : link'[a] = link[a]
      <4> HIDE DEF S
      <4> QED BY <1>8, <1>13, <3>1, <3>3
    <3>6. PICK q \in [1 .. m -> T] : Thread(q, m, hdr[t].free, link, T)
      BY <2>2 DEF SlabInv, ListsInv
    <3> HIDE DEF T, m
    <3>7. Thread(q, m, hdr[t].free, link', T)
      BY <3>5, <3>6, ThreadSame
    <3> QED BY <3>2, <3>4, <3>6, <3>7 DEF m
  <2> QED BY <2>1, <2>2
<1>22. CountersInv'
  <2> SUFFICES ASSUME NEW d \in Classes
               PROVE  /\ slab_count'[d] = Len(slabs'[d]) /\ total_slots'[d] = SlotsOf(d) * slab_count'[d]
                      /\ IsFiniteSet(SlabPages(d)') /\ Cardinality(SlabPages(d)') = slab_count'[d]
                      /\ IsFiniteSet(SlotsIn(d)') /\ Cardinality(SlotsIn(d)') = total_slots'[d]
                      /\ Cardinality(UsedOf(d)') = UsedSlots(d)'
    BY DEF CountersInv
  <2>1. /\ slab_count[d] = Len(slabs[d]) /\ total_slots[d] = SlotsOf(d) * slab_count[d]
        /\ IsFiniteSet(SlabPages(d)) /\ Cardinality(SlabPages(d)) = slab_count[d]
        /\ IsFiniteSet(SlotsIn(d)) /\ Cardinality(SlotsIn(d)) = total_slots[d]
        /\ Cardinality(UsedOf(d)) = UsedSlots(d)
    BY DEF SlabInv, CountersInv
  <2>2. free_slots \in [Classes -> Int] /\ total_slots \in [Classes -> Int] /\ slab_count \in [Classes -> Int]
    BY DEF SlabInv, Types
  <2>3. CASE d # c
    <3>1. /\ slab_count'[d] = slab_count[d] /\ total_slots'[d] = total_slots[d]
          /\ free_slots'[d] = free_slots[d]
      BY <1>2, <1>3, <2>2, <2>3
    <3>2. UsedOf(d)' = UsedOf(d)
      BY <1>4, <1>11, <1>14, <1>16, <2>3 DEF UsedOf
    <3>3. UsedSlots(d)' = UsedSlots(d)
      BY <3>1 DEF UsedSlots
    <3> QED BY <1>15, <1>16, <2>1, <2>3, <3>1, <3>2, <3>3
  <2>4. CASE d = c
    <3>1. /\ slab_count'[c] = slab_count[c] + 1 /\ total_slots'[c] = total_slots[c] + n
          /\ free_slots'[c] = (free_slots[c] + n) - 1
      BY <1>2, <1>3, <2>2
    <3>2. Len(slabs'[c]) = Len(slabs[c]) + 1
      BY <1>15
    <3>3. total_slots'[c] = SlotsOf(c) * slab_count'[c]
      <4> DEFINE k == slab_count[c]
      <4>1. k \in Int /\ total_slots[c] = n * k
        BY <1>3, <2>1, <2>2, <2>4 DEF n
      <4> HIDE DEF k
      <4>2. n * k + n = n * (k + 1)
        BY <1>3, <4>1
      <4> QED BY <3>1, <4>1, <4>2 DEF k, n
    <3>4. IsFiniteSet(SlabPages(c)') /\ Cardinality(SlabPages(c)') = slab_count[c] + 1
      BY <1>3, <1>4, <1>15, <2>1, <2>4, FS_AddElement
    <3>5. IsFiniteSet(SlotsIn(c)') /\ Cardinality(SlotsIn(c)') = total_slots[c] + n
      <4>1. IsFiniteSet(S) /\ Cardinality(S) = n
        BY <1>3, SlotCount DEF n
      <4>2. SlotsIn(c) \cap S = {}
        BY <1>3, <1>7 DEF AllSlots
      <4>3. SlotsIn(c)' = SlotsIn(c) \cup S
        BY <1>16
      <4> HIDE DEF S
      <4>4. IsFiniteSet(SlotsIn(c) \cup S)
            /\ Cardinality(SlotsIn(c) \cup S) = Cardinality(SlotsIn(c)) + Cardinality(S) - Cardinality(SlotsIn(c) \cap S)
        BY <2>1, <2>4, <4>1, FS_Union
      <4>5. Cardinality(SlotsIn(c) \cap S) = 0
        BY <4>2, FS_EmptySet
      <4>6. Cardinality(SlotsIn(c)) = total_slots[c] /\ total_slots[c] \in Int
        BY <1>3, <2>1, <2>2, <2>4
      <4>7. Cardinality(SlotsIn(c) \cup S) = total_slots[c] + n
        BY <1>3, <4>1, <4>4, <4>5, <4>6
      <4> QED BY <4>3, <4>4, <4>7
    <3>6. Cardinality(UsedOf(c)') = Cardinality(UsedOf(c)) + 1
      <4>1. UsedOf(c)' = UsedOf(c) \cup {slot} /\ slot \notin UsedOf(c)
        <5>1. \A a \in LivePtrs : PageOf(a) # page
          BY <1>4 DEF LivePtrs
        <5> QED BY <1>11, <1>14, <1>15, <5>1 DEF UsedOf
      <4>2. IsFiniteSet(UsedOf(c)) /\ Cardinality(UsedOf(c)) \in Nat
        BY <1>3, UsedInSlots
      <4> QED BY <4>1, <4>2, FS_AddElement
    <3>7. UsedSlots(c)' = UsedSlots(c) + 1
      BY <1>3, <2>2, <3>1 DEF UsedSlots
    <3> QED BY <2>1, <2>4, <3>1, <3>2, <3>3, <3>4, <3>5, <3>6, <3>7
  <2> QED BY <2>3, <2>4
<1> QED BY <1>4, <1>17, <1>18, <1>19, <1>20, <1>21, <1>22 DEF SlabInv

\* kmalloc with a block of its own.
LEMMA LargeInv ==
  ASSUME SlabInv, NEW size \in Requests, kmalloc_large(size)
  PROVE  SlabInv'
<1> DEFINE k == LargeOrder(size)
<1>1. PICK page \in Pool :
        /\ Lend(<<page, k>>)
        /\ hdr' = [hdr EXCEPT ![page] = [NoHeader EXCEPT !.magic = "large", !.order = k]]
        /\ live' = live \cup {[ptr |-> Base(page) + LARGE_DATA, size |-> size]}
  BY DEF kmalloc_large
<1> DEFINE new == [ptr |-> Base(page) + LARGE_DATA, size |-> size]
<1>2. /\ size # 0 /\ ~Small(size) /\ k <= MaxOrder
      /\ link' = link /\ slabs' = slabs /\ slab_count' = slab_count
      /\ total_slots' = total_slots /\ free_slots' = free_slots
  BY DEF kmalloc_large, Small
<1>3. size \in Nat \ {0} /\ k \in 0 .. MaxOrder
  BY <1>2, ServingOrder, PoolAssumption
<1>4. /\ Base(page) \in Nat /\ new.ptr = Base(page) + LARGE_DATA /\ new.size = size
      /\ new.ptr \in Nat /\ PageOf(new.ptr) = page
  <2>1. page \in Nat /\ LARGE_DATA \in 0 .. PAGE_SIZE - 1
    BY PoolAssumption, SizesAssumption
  <2> QED BY <2>1, PageOfAddr
<1> HIDE DEF k
<1>5. /\ \A c \in Classes : page \notin SlabPages(c)
      /\ \A o \in live : PageOf(o.ptr) # page
      /\ hdr[page].magic # "slab" /\ <<page, k>> \notin held
      /\ pool' = pool /\ held' = held \cup {<<page, k>>}
      /\ held' \in SUBSET (Pool \X (0 .. MaxOrder)) /\ HeldApart'
  BY <1>1, <1>3, FreshBlock
<1>6. live' = live \cup {new} /\ hdr \in [Pool -> Header]
  BY <1>1 DEF SlabInv, Types
<1>7. new \in [ptr : Nat, size : Nat \ {0}]
  BY <1>3, <1>4
<1> HIDE DEF new
<1>8. /\ hdr' \in [Pool -> Header] /\ \A p \in Pool : p # page => hdr'[p] = hdr[p]
      /\ hdr'[page].magic = "large" /\ hdr'[page].order = k
  <2> DEFINE h == [NoHeader EXCEPT !.magic = "large", !.order = k]
  <2>1. h \in Header /\ h.magic = "large" /\ h.order = k
    BY <1>3 DEF Header, NoHeader, NULL
  <2> HIDE DEF h
  <2>2. hdr' = [hdr EXCEPT ![page] = h]
    BY <1>1 DEF h
  <2> QED BY <1>6, <2>1, <2>2
<1>9. /\ \A c \in Classes : SlabPages(c)' = SlabPages(c) /\ SlotsIn(c)' = SlotsIn(c)
      /\ AllSlots' = AllSlots
  <2>1. \A c \in Classes : SlabPages(c)' = SlabPages(c)
    BY <1>2 DEF SlabPages
  <2>2. \A c \in Classes : SlotsIn(c)' = SlotsIn(c)
    BY <2>1 DEF SlotsIn
  <2> QED BY <2>1, <2>2 DEF AllSlots
<1>10. LivePtrs' = LivePtrs \cup {new.ptr}
  BY <1>6 DEF LivePtrs
<1>11. \A c \in Classes : \A s \in SlabPages(c) :
         /\ s \in Pool /\ s \in Nat /\ s # page /\ hdr'[s] = hdr[s]
         /\ SlotAddrs(s, c) \ LivePtrs' = SlotAddrs(s, c) \ LivePtrs
  <2> SUFFICES ASSUME NEW c \in Classes, NEW s \in SlabPages(c)
               PROVE  /\ s \in Pool /\ s \in Nat /\ s # page /\ hdr'[s] = hdr[s]
                      /\ SlotAddrs(s, c) \ LivePtrs' = SlotAddrs(s, c) \ LivePtrs
    OBVIOUS
  <2>1. s \in Pool /\ s \in Nat /\ s # page /\ hdr'[s] = hdr[s]
    <3>1. s \in Pool /\ s \in Nat
      BY SlabPageFacts
    <3>2. s # page
      BY <1>5
    <3> QED BY <1>8, <3>1, <3>2
  <2>2. new.ptr \notin SlotAddrs(s, c)
    BY <1>4, <2>1, SlotCount
  <2> QED BY <1>10, <2>1, <2>2
<1>12. Types'
  <2>1. live' \in SUBSET [ptr : Nat, size : Nat \ {0}]
    BY <1>6, <1>7 DEF SlabInv, Types
  <2>2. pool' = Pool
    BY <1>5 DEF SlabInv, Types
  <2> QED BY <1>2, <1>5, <1>8, <1>9, <2>1, <2>2 DEF SlabInv, Types
<1>13. PagesInv'
  <2>1. PagesInv
    BY DEF SlabInv
  <2>2. ASSUME NEW d \in Classes, NEW t \in SlabPages(d)'
        PROVE  <<t, 0>> \in held' /\ hdr'[t].magic = "slab" /\ hdr'[t].cache = d
    <3>1. t \in SlabPages(d)
      BY <1>9
    <3> QED BY <1>5, <1>11, <2>1, <3>1 DEF PagesInv
  <2>3. ASSUME NEW p \in Pool, hdr'[p].magic = "slab" PROVE \E d \in Classes : p \in SlabPages(d)'
    <3>1. p # page
      BY <1>8, <2>3
    <3>2. \E d \in Classes : p \in SlabPages(d)
      BY <1>8, <2>1, <2>3, <3>1 DEF PagesInv
    <3> QED BY <1>9, <3>2
  <2>4. \A d \in Classes : \A i, j \in DOMAIN slabs'[d] : slabs'[d][i] = slabs'[d][j] => i = j
    BY <1>2, <2>1 DEF PagesInv
  <2> QED BY <2>2, <2>3, <2>4 DEF PagesInv
<1>14. ObjectsInv'
  <2>1. ASSUME NEW o \in live PROVE IF Small(o.size) THEN InSlot(o)' ELSE InBlock(o)'
    <3>1. CASE Small(o.size)
      <4>1. ClassFor(o.size) \in Classes /\ InSlot(o)
        BY <3>1, LiveFacts
      <4> QED BY <1>9, <3>1, <4>1 DEF InSlot
    <3>2. CASE ~Small(o.size)
      <4>1. InBlock(o) /\ PageOf(o.ptr) \in Pool
        BY <3>2, LiveFacts
      <4>2. hdr'[PageOf(o.ptr)] = hdr[PageOf(o.ptr)]
        BY <1>5, <1>8, <4>1
      <4> QED BY <3>2, <4>1, <4>2 DEF InBlock
    <3> QED BY <3>1, <3>2
  <2>2. PICK x : x = new
    OBVIOUS
  <2>3. InBlock(x)'
    <3>1. PageOf(x.ptr) = page /\ LargeOrder(x.size) = k /\ x.ptr = Base(page) + LARGE_DATA
      BY <1>4, <2>2 DEF k
    <3> QED BY <1>2, <1>8, <3>1 DEF InBlock
  <2>4. \A o, q \in live' : o.ptr = q.ptr => o = q
    <3>1. \A o, q \in live : o.ptr = q.ptr => o = q
      BY DEF SlabInv, ObjectsInv
    <3>2. \A o \in live : o.ptr # new.ptr
      BY <1>4, <1>5
    <3> QED BY <1>6, <3>1, <3>2
  <2>5. ~Small(x.size)
    BY <1>2, <1>4, <2>2
  <2>6. ASSUME NEW o \in live' PROVE IF Small(o.size) THEN InSlot(o)' ELSE InBlock(o)'
    BY <1>6, <2>1, <2>2, <2>3, <2>5
  <2> QED BY <2>4, <2>6 DEF ObjectsInv
<1>15. HeldExact'
  <2>1. {q \in live' : FittingClasses(q.size) = {}} = {q \in live : FittingClasses(q.size) = {}} \cup {new}
    BY <1>2, <1>4, <1>6 DEF Small
  <2>2. <<PageOf(new.ptr), LargeOrder(new.size)>> = <<page, k>>
    BY <1>4 DEF k
  <2>3. held = {<<t, 0>> : t \in UNION {SlabPages(d) : d \in Classes}}
                 \cup {<<PageOf(o.ptr), LargeOrder(o.size)>> :
                         o \in {q \in live : FittingClasses(q.size) = {}}}
    BY DEF SlabInv, HeldExact
  <2>4. UNION {SlabPages(d)' : d \in Classes} = UNION {SlabPages(d) : d \in Classes}
    BY <1>9
  <2>5. held' = {<<t, 0>> : t \in UNION {SlabPages(d)' : d \in Classes}}
                 \cup {<<PageOf(o.ptr), LargeOrder(o.size)>> :
                         o \in {q \in live' : FittingClasses(q.size) = {}}}
    BY <1>5, <2>1, <2>2, <2>3, <2>4
  <2> QED BY <2>5 DEF HeldExact
<1>16. ListsInv'
  <2> SUFFICES ASSUME NEW d \in Classes, NEW t \in SlabPages(d)
               PROVE  \E q \in [1 .. hdr'[t].free_count -> SlotAddrs(t, d) \ LivePtrs'] :
                        Thread(q, hdr'[t].free_count, hdr'[t].free, link', SlotAddrs(t, d) \ LivePtrs')
    BY <1>9 DEF ListsInv
  <2> QED BY <1>2, <1>11 DEF SlabInv, ListsInv
<1>17. CountersInv'
  <2>1. \A d \in Classes : UsedOf(d)' = UsedOf(d) /\ UsedSlots(d)' = UsedSlots(d)
    BY <1>2, <1>4, <1>5, <1>9, <1>10 DEF UsedOf, UsedSlots
  <2> QED BY <1>2, <1>9, <2>1 DEF SlabInv, CountersInv
<1> QED BY <1>5, <1>12, <1>13, <1>14, <1>15, <1>16, <1>17 DEF SlabInv

-----------------------------------------------------------------------------
\* kfree

\* Forgetting a pointer forgets the one object it belongs to.
LEMMA ForgetOne ==
  ASSUME SlabInv, NEW x \in live
  PROVE  Forget(x.ptr) = live \ {x} /\ {o.ptr : o \in live \ {x}} = LivePtrs \ {x.ptr}
<1>1. \A o, q \in live : o.ptr = q.ptr => o = q
  BY DEF SlabInv, ObjectsInv
<1> QED BY <1>1 DEF Forget, LivePtrs

\* A slot goes back to its slab.
LEMMA FreeSlabInv ==
  ASSUME SlabInv, NEW x \in live, kfree_slab(x.ptr)
  PROVE  SlabInv'
<1> DEFINE ptr == x.ptr
           s == PageOf(ptr)
           c == ClassFor(x.size)
           n == hdr[s].free_count
           S == SlotAddrs(s, c) \ LivePtrs
<1>1. /\ hdr[s].magic = "slab"
      /\ link' = [link EXCEPT ![ptr] = hdr[s].free]
      /\ hdr' = [hdr EXCEPT ![s].free = ptr, ![s].free_count = @ + 1]
      /\ free_slots' = [free_slots EXCEPT ![hdr[s].cache] = @ + 1]
      /\ live' = Forget(ptr)
      /\ pool' = pool /\ held' = held /\ slabs' = slabs /\ slab_count' = slab_count
      /\ total_slots' = total_slots
  BY DEF kfree_slab, pageVars
<1>2. /\ live' = live \ {x} /\ LivePtrs' = LivePtrs \ {ptr} /\ ptr \in LivePtrs
  BY <1>1, ForgetOne DEF LivePtrs
<1>3. /\ Small(x.size) /\ c \in Classes /\ s \in SlabPages(c) /\ ptr \in SlotAddrs(s, c)
      /\ ptr \in Nat
  BY <1>1, LiveFacts DEF InSlot
<1> HIDE DEF c, s, ptr
<1>4. /\ s \in Pool /\ s \in Nat /\ <<s, 0>> \in held /\ hdr[s].cache = c
      /\ \A d \in Classes : s \in SlabPages(d) => d = c
      /\ SlotAddrs(s, c) \subseteq AllSlots
  BY <1>3, SlabPageFacts
<1>5. /\ hdr \in [Pool -> Header] /\ hdr[s] \in Header /\ n \in Nat /\ hdr[s].free \in Nat
      /\ link = [a \in AllSlots |-> link[a]]
      /\ \A a \in AllSlots : link[a] \in AllSlots \cup {NULL, USER}
  BY <1>4 DEF SlabInv, Types, Header
<1>6. PageOf(ptr) = s /\ ptr \in AllSlots
  BY <1>3, <1>4, SlotCount
<1>7. /\ hdr[s].free \in AllSlots \cup {NULL}
      /\ \E r \in [1 .. n + 1 -> S \cup {ptr}] :
           Thread(r, n + 1, ptr, [link EXCEPT ![ptr] = hdr[s].free], S \cup {ptr})
  <2>1. PICK q : Thread(q, n, hdr[s].free, link, S)
    BY <1>3 DEF SlabInv, ListsInv
  <2>2. ptr \notin S /\ S \subseteq AllSlots
    BY <1>2, <1>4
  <2> HIDE DEF n, S
  <2>3. hdr[s].free \in S \cup {NULL}
    <3>1. q \in [1 .. n -> S] /\ hdr[s].free = IF n = 0 THEN NULL ELSE q[1]
      BY <2>1 DEF Thread
    <3>2. n # 0 => 1 \in 1 .. n
      BY <1>5
    <3> QED BY <3>1, <3>2
  <2>4. \E r \in [1 .. n + 1 -> S \cup {ptr}] :
           Thread(r, n + 1, ptr, [link EXCEPT ![ptr] = hdr[s].free], S \cup {ptr})
    BY <1>5, <1>6, <2>1, <2>2, ThreadPush
  <2> QED BY <2>2, <2>3, <2>4
<1>8. /\ hdr' \in [Pool -> Header]
      /\ \A p \in Pool : p # s => hdr'[p] = hdr[p]
      /\ \A p \in Pool : /\ hdr'[p].magic = hdr[p].magic /\ hdr'[p].cache = hdr[p].cache
                         /\ hdr'[p].order = hdr[p].order
      /\ hdr'[s].free = ptr /\ hdr'[s].free_count = n + 1
  <2> DEFINE h == WithList(hdr[s], ptr, n + 1)
  <2>1. hdr' = [hdr EXCEPT ![s] = h]
    BY <1>1, <1>4, <1>5 DEF WithList
  <2>2. n + 1 \in Nat
    BY <1>5
  <2>3. /\ h \in Header /\ h.magic = hdr[s].magic /\ h.cache = hdr[s].cache /\ h.order = hdr[s].order
        /\ h.free = ptr /\ h.free_count = n + 1
    <3> HIDE DEF n
    <3> QED BY <1>3, <1>5, <2>2, HeaderList
  <2> HIDE DEF h
  <2> QED BY <1>4, <1>5, <2>1, <2>3
<1> HIDE DEF n
<1>9. /\ \A d \in Classes : SlabPages(d)' = SlabPages(d) /\ SlotsIn(d)' = SlotsIn(d)
      /\ AllSlots' = AllSlots
  <2>1. \A d \in Classes : SlabPages(d)' = SlabPages(d)
    BY <1>1 DEF SlabPages
  <2>2. \A d \in Classes : SlotsIn(d)' = SlotsIn(d)
    BY <2>1 DEF SlotsIn
  <2> QED BY <2>1, <2>2 DEF AllSlots
<1>10. Types'
  <2>1. link' = [a \in AllSlots |-> link'[a]] /\ link'[ptr] = hdr[s].free
    BY <1>1, <1>5, <1>6
  <2>2. \A a \in AllSlots : a # ptr => link'[a] = link[a]
    BY <1>1, <1>5
  <2>3. \A a \in AllSlots : link'[a] \in AllSlots \cup {NULL, USER}
    BY <1>5, <1>7, <2>1, <2>2
  <2>4. live' \in SUBSET [ptr : Nat, size : Nat \ {0}]
    BY <1>2 DEF SlabInv, Types
  <2>5. free_slots' \in [Classes -> Int]
    BY <1>1, <1>3, <1>4 DEF SlabInv, Types
  <2> QED BY <1>1, <1>8, <1>9, <2>1, <2>3, <2>4, <2>5 DEF SlabInv, Types
<1>11. HeldApart'
  BY <1>1 DEF SlabInv, HeldApart, BlockSpan
<1>12. PagesInv'
  <2>1. PagesInv
    BY DEF SlabInv
  <2>2. \A d \in Classes : \A t \in SlabPages(d) : t \in Pool
    BY SlabPageFacts
  <2>3. ASSUME NEW d \in Classes, NEW t \in SlabPages(d)'
        PROVE  <<t, 0>> \in held' /\ hdr'[t].magic = "slab" /\ hdr'[t].cache = d
    <3>1. t \in SlabPages(d)
      BY <1>9
    <3> QED BY <1>1, <1>8, <2>1, <2>2, <3>1 DEF PagesInv
  <2>4. ASSUME NEW p \in Pool, hdr'[p].magic = "slab" PROVE \E d \in Classes : p \in SlabPages(d)'
    <3>1. \E d \in Classes : p \in SlabPages(d)
      BY <1>8, <2>1, <2>4 DEF PagesInv
    <3> QED BY <1>9, <3>1
  <2>5. \A d \in Classes : \A i, j \in DOMAIN slabs'[d] : slabs'[d][i] = slabs'[d][j] => i = j
    BY <1>1, <2>1 DEF PagesInv
  <2> QED BY <2>3, <2>4, <2>5 DEF PagesInv
<1>13. ObjectsInv'
  <2>1. ASSUME NEW o \in live PROVE IF Small(o.size) THEN InSlot(o)' ELSE InBlock(o)'
    <3>1. CASE Small(o.size)
      <4>1. ClassFor(o.size) \in Classes /\ InSlot(o)
        BY <3>1, LiveFacts
      <4> QED BY <1>9, <3>1, <4>1 DEF InSlot
    <3>2. CASE ~Small(o.size)
      <4>1. InBlock(o) /\ PageOf(o.ptr) \in Pool /\ hdr[PageOf(o.ptr)].magic = "large"
        BY <3>2, LiveFacts
      <4> QED BY <1>8, <3>2, <4>1 DEF InBlock
    <3> QED BY <3>1, <3>2
  <2>2. \A o, q \in live' : o.ptr = q.ptr => o = q
    BY <1>2 DEF SlabInv, ObjectsInv
  <2>3. ASSUME NEW o \in live' PROVE IF Small(o.size) THEN InSlot(o)' ELSE InBlock(o)'
    BY <1>2, <2>1
  <2> QED BY <2>2, <2>3 DEF ObjectsInv
<1>14. HeldExact'
  <2>1. {q \in live' : FittingClasses(q.size) = {}} = {q \in live : FittingClasses(q.size) = {}}
    BY <1>2, <1>3 DEF Small
  <2> QED BY <1>1, <1>9, <2>1 DEF SlabInv, HeldExact
<1>15. ListsInv'
  <2> SUFFICES ASSUME NEW d \in Classes, NEW t \in SlabPages(d)
               PROVE  \E q \in [1 .. hdr'[t].free_count -> SlotAddrs(t, d) \ LivePtrs'] :
                        Thread(q, hdr'[t].free_count, hdr'[t].free, link', SlotAddrs(t, d) \ LivePtrs')
    BY <1>9 DEF ListsInv
  <2>1. CASE t = s
    <3>1. d = c /\ SlotAddrs(t, d) \ LivePtrs' = S \cup {ptr}
      BY <1>2, <1>3, <1>4, <2>1
    <3> HIDE DEF S
    <3> QED BY <1>1, <1>7, <1>8, <2>1, <3>1
  <2>2. CASE t # s
    <3> DEFINE T == SlotAddrs(t, d) \ LivePtrs
               m == hdr[t].free_count
    <3>1. t \in Pool /\ t \in Nat /\ SlotAddrs(t, d) \subseteq AllSlots
      BY SlabPageFacts
    <3>2. hdr'[t] = hdr[t]
      BY <1>8, <2>2, <3>1
    <3>3. ptr \notin SlotAddrs(t, d)
      BY <1>6, <2>2, <3>1, SlotCount
    <3>4. SlotAddrs(t, d) \ LivePtrs' = T
      BY <1>2, <3>3
    <3>5. \A a \in T : link'[a] = link[a]
      BY <1>1, <1>5, <3>1, <3>3
    <3>6. PICK q \in [1 .. m -> T] : Thread(q, m, hdr[t].free, link, T)
      BY DEF SlabInv, ListsInv
    <3> HIDE DEF T, m
    <3>7. Thread(q, m, hdr[t].free, link', T)
      BY <3>5, <3>6, ThreadSame
    <3> QED BY <3>2, <3>4, <3>6, <3>7 DEF m
  <2> QED BY <2>1, <2>2
<1>16. CountersInv'
  <2>1. ASSUME NEW d \in Classes PROVE Cardinality(UsedOf(d)') = UsedSlots(d)'
    <3>0. free_slots \in [Classes -> Int] /\ total_slots \in [Classes -> Int]
      BY DEF SlabInv, Types
    <3>1. Cardinality(UsedOf(d)) = UsedSlots(d)
      BY DEF SlabInv, CountersInv
    <3>2. CASE d = c
      <4>1. UsedOf(d)' = UsedOf(d) \ {ptr} /\ ptr \in UsedOf(d)
        BY <1>2, <1>3, <1>6, <1>9, <3>2 DEF UsedOf
      <4>2. IsFiniteSet(UsedOf(d)) /\ Cardinality(UsedOf(d)) \in Nat
        BY UsedInSlots
      <4>3. Cardinality(UsedOf(d)') = Cardinality(UsedOf(d)) - 1
        BY <4>1, <4>2, FS_RemoveElement
      <4>4. UsedSlots(d)' = UsedSlots(d) - 1
        BY <1>1, <1>3, <1>4, <3>0, <3>2 DEF UsedSlots
      <4> QED BY <3>1, <4>3, <4>4
    <3>3. CASE d # c
      <4>1. UsedOf(d)' = UsedOf(d)
        BY <1>2, <1>4, <1>6, <1>9, <3>3 DEF UsedOf
      <4>2. UsedSlots(d)' = UsedSlots(d)
        BY <1>1, <1>3, <1>4, <3>0, <3>3 DEF UsedSlots
      <4> QED BY <3>1, <4>1, <4>2
    <3> QED BY <3>2, <3>3
  <2> QED BY <1>1, <1>9, <2>1 DEF SlabInv, CountersInv
<1> QED BY <1>10, <1>11, <1>12, <1>13, <1>14, <1>15, <1>16 DEF SlabInv

\* A block of its own goes back to the page allocator.
LEMMA FreeLargeInv ==
  ASSUME SlabInv, NEW x \in live, kfree_large(x.ptr)
  PROVE  SlabInv'
<1> DEFINE ptr == x.ptr
           s == PageOf(ptr)
           k == LargeOrder(x.size)
<1>1. /\ hdr[s].magic = "large" /\ Return(<<s, hdr[s].order>>)
      /\ hdr' \in {hdr, [hdr EXCEPT ![s] = NoHeader]} /\ live' = Forget(ptr)
      /\ link' = link /\ slabs' = slabs /\ slab_count' = slab_count
      /\ total_slots' = total_slots /\ free_slots' = free_slots
  BY DEF kfree_large
<1>2. /\ live' = live \ {x} /\ LivePtrs' = LivePtrs \ {ptr} /\ ptr \in LivePtrs
  BY <1>1, ForgetOne DEF LivePtrs
<1>3. /\ ~Small(x.size) /\ s \in Pool /\ ptr \in Nat /\ k \in 0 .. MaxOrder
      /\ hdr[s].order = k /\ <<s, k>> \in held
  BY <1>1, LiveFacts DEF InBlock
<1>4. pool' = pool /\ held' = held \ {<<s, k>>}
  BY <1>1, <1>3 DEF Return
<1> HIDE DEF k, s, ptr
<1>5. \A b \in held : b # <<s, k>> => b[1] # s
  <2> SUFFICES ASSUME NEW b \in held, b # <<s, k>>, b[1] = s PROVE FALSE
    OBVIOUS
  <2>1. b \in Pool \X (0 .. MaxOrder)
    BY DEF SlabInv, Types
  <2>2. PICK j \in 0 .. MaxOrder : b = <<s, j>>
    BY <2>1
  <2>3. s \in BlockSpan(b) /\ s \in BlockSpan(<<s, k>>)
    BY <1>3, <2>2, SpanFacts
  <2> QED BY <1>3, <2>3 DEF SlabInv, HeldApart
<1>6. \A d \in Classes : s \notin SlabPages(d)
  BY <1>1, SlabPageFacts
<1>7. \A o \in live : o # x => PageOf(o.ptr) # s
  <2> SUFFICES ASSUME NEW o \in live, PageOf(o.ptr) = s PROVE o = x
    OBVIOUS
  <2>1. ~Small(o.size)
    BY <1>1, LiveFacts
  <2>2. InBlock(o) /\ InBlock(x)
    BY <1>3, <2>1, LiveFacts
  <2>3. o.ptr = x.ptr
    BY <2>2 DEF InBlock, s, ptr
  <2> QED BY <2>3 DEF SlabInv, ObjectsInv
<1>8. /\ hdr \in [Pool -> Header] /\ hdr' \in [Pool -> Header]
      /\ \A p \in Pool : p # s => hdr'[p] = hdr[p]
      /\ hdr'[s].magic # "slab"
  <2>1. hdr \in [Pool -> Header]
    BY DEF SlabInv, Types
  <2>2. NoHeader \in Header /\ NoHeader.magic = "none"
    BY PoolAssumption DEF NoHeader, Header, NULL
  <2> QED BY <1>1, <1>3, <2>1, <2>2
<1>9. /\ \A c \in Classes : SlabPages(c)' = SlabPages(c) /\ SlotsIn(c)' = SlotsIn(c)
      /\ AllSlots' = AllSlots
  <2>1. \A c \in Classes : SlabPages(c)' = SlabPages(c)
    BY <1>1 DEF SlabPages
  <2>2. \A c \in Classes : SlotsIn(c)' = SlotsIn(c)
    BY <2>1 DEF SlotsIn
  <2> QED BY <2>1, <2>2 DEF AllSlots
<1>10. \A c \in Classes : \A t \in SlabPages(c) :
         /\ t \in Pool /\ t # s /\ hdr'[t] = hdr[t] /\ <<t, 0>> \in held'
         /\ SlotAddrs(t, c) \ LivePtrs' = SlotAddrs(t, c) \ LivePtrs
  <2> SUFFICES ASSUME NEW c \in Classes, NEW t \in SlabPages(c)
               PROVE  /\ t \in Pool /\ t # s /\ hdr'[t] = hdr[t] /\ <<t, 0>> \in held'
                      /\ SlotAddrs(t, c) \ LivePtrs' = SlotAddrs(t, c) \ LivePtrs
    OBVIOUS
  <2>1. t \in Pool /\ t \in Nat /\ t # s /\ hdr'[t] = hdr[t] /\ <<t, 0>> \in held
    BY <1>6, <1>8, SlabPageFacts
  <2>2. ptr \notin SlotAddrs(t, c)
    BY <2>1, SlotCount DEF s
  <2> QED BY <1>2, <1>4, <2>1, <2>2
<1>11. Types'
  <2>1. live' \in SUBSET [ptr : Nat, size : Nat \ {0}] /\ held' \in SUBSET (Pool \X (0 .. MaxOrder))
    BY <1>2, <1>4 DEF SlabInv, Types
  <2>2. pool' = Pool
    BY <1>4 DEF SlabInv, Types
  <2> QED BY <1>1, <1>8, <1>9, <2>1, <2>2 DEF SlabInv, Types
<1>12. HeldApart'
  <2>1. \A b, d \in held' : b # d => BlockSpan(b) \cap BlockSpan(d) = {}
    BY <1>4 DEF SlabInv, HeldApart
  <2> QED BY <2>1 DEF HeldApart, BlockSpan
<1>13. PagesInv'
  <2>1. PagesInv
    BY DEF SlabInv
  <2>2. ASSUME NEW d \in Classes, NEW t \in SlabPages(d)'
        PROVE  <<t, 0>> \in held' /\ hdr'[t].magic = "slab" /\ hdr'[t].cache = d
    <3>1. t \in SlabPages(d)
      BY <1>9
    <3> QED BY <1>10, <2>1, <3>1 DEF PagesInv
  <2>3. ASSUME NEW p \in Pool, hdr'[p].magic = "slab" PROVE \E d \in Classes : p \in SlabPages(d)'
    <3>1. p # s
      BY <1>8, <2>3
    <3>2. \E d \in Classes : p \in SlabPages(d)
      BY <1>8, <2>1, <2>3, <3>1 DEF PagesInv
    <3> QED BY <1>9, <3>2
  <2>4. \A d \in Classes : \A i, j \in DOMAIN slabs'[d] : slabs'[d][i] = slabs'[d][j] => i = j
    BY <1>1, <2>1 DEF PagesInv
  <2> QED BY <2>2, <2>3, <2>4 DEF PagesInv
<1>14. ObjectsInv'
  <2>1. ASSUME NEW o \in live, o # x PROVE IF Small(o.size) THEN InSlot(o)' ELSE InBlock(o)'
    <3>1. CASE Small(o.size)
      <4>1. ClassFor(o.size) \in Classes /\ InSlot(o)
        BY <3>1, LiveFacts
      <4> QED BY <1>9, <3>1, <4>1 DEF InSlot
    <3>2. CASE ~Small(o.size)
      <4>1. InBlock(o) /\ PageOf(o.ptr) \in Pool
        BY <3>2, LiveFacts
      <4>2. hdr'[PageOf(o.ptr)] = hdr[PageOf(o.ptr)]
        BY <1>7, <1>8, <2>1, <4>1
      <4> QED BY <3>2, <4>1, <4>2 DEF InBlock
    <3> QED BY <3>1, <3>2
  <2>2. \A o, q \in live' : o.ptr = q.ptr => o = q
    BY <1>2 DEF SlabInv, ObjectsInv
  <2>3. ASSUME NEW o \in live' PROVE IF Small(o.size) THEN InSlot(o)' ELSE InBlock(o)'
    BY <1>2, <2>1
  <2> QED BY <2>2, <2>3 DEF ObjectsInv
<1>15. HeldExact'
  <2> DEFINE L == {q \in live : FittingClasses(q.size) = {}}
             P == UNION {SlabPages(d) : d \in Classes}
  <2>1. {q \in live' : FittingClasses(q.size) = {}} = L \ {x} /\ x \in L
    BY <1>2, <1>3 DEF Small
  <2>2. held = {<<t, 0>> : t \in P} \cup {<<PageOf(o.ptr), LargeOrder(o.size)>> : o \in L}
    BY DEF SlabInv, HeldExact
  <2>3. UNION {SlabPages(d)' : d \in Classes} = P
    BY <1>9
  <2>4. \A t \in P : <<t, 0>> # <<s, k>>
    BY <1>6
  <2>5. \A o \in L \ {x} : <<PageOf(o.ptr), LargeOrder(o.size)>> # <<s, k>>
    BY <1>7
  <2>6. <<PageOf(x.ptr), LargeOrder(x.size)>> = <<s, k>>
    BY DEF s, k, ptr
  <2> HIDE DEF L, P
  <2>7. held' = {<<t, 0>> : t \in P} \cup {<<PageOf(o.ptr), LargeOrder(o.size)>> : o \in L \ {x}}
    BY <1>4, <2>1, <2>2, <2>4, <2>5, <2>6
  <2>8. held' = {<<t, 0>> : t \in UNION {SlabPages(d)' : d \in Classes}}
                 \cup {<<PageOf(o.ptr), LargeOrder(o.size)>> :
                         o \in {q \in live' : FittingClasses(q.size) = {}}}
    BY <2>1, <2>3, <2>7
  <2> QED BY <2>8 DEF HeldExact
<1>16. ListsInv'
  <2> SUFFICES ASSUME NEW d \in Classes, NEW t \in SlabPages(d)
               PROVE  \E q \in [1 .. hdr'[t].free_count -> SlotAddrs(t, d) \ LivePtrs'] :
                        Thread(q, hdr'[t].free_count, hdr'[t].free, link', SlotAddrs(t, d) \ LivePtrs')
    BY <1>9 DEF ListsInv
  <2> QED BY <1>1, <1>10 DEF SlabInv, ListsInv
<1>17. CountersInv'
  <2>1. \A d \in Classes : UsedOf(d)' = UsedOf(d) /\ UsedSlots(d)' = UsedSlots(d)
    BY <1>1, <1>2, <1>6, <1>9 DEF UsedOf, UsedSlots, s
  <2> QED BY <1>1, <1>9, <2>1 DEF SlabInv, CountersInv
<1> QED BY <1>11, <1>12, <1>13, <1>14, <1>15, <1>16, <1>17 DEF SlabInv

\* A step that changes nothing.
LEMMA SameSlabInv ==
  ASSUME SlabInv, UNCHANGED heapVars
  PROVE  SlabInv'
<1>1. /\ pool' = pool /\ held' = held /\ hdr' = hdr /\ link' = link /\ slabs' = slabs
      /\ slab_count' = slab_count /\ total_slots' = total_slots /\ free_slots' = free_slots
      /\ live' = live
  BY DEF heapVars, pageVars, slabVars
<1>2. /\ \A d \in Classes : SlabPages(d)' = SlabPages(d) /\ SlotsIn(d)' = SlotsIn(d)
      /\ AllSlots' = AllSlots /\ LivePtrs' = LivePtrs
  <2>1. \A d \in Classes : SlabPages(d)' = SlabPages(d)
    BY <1>1 DEF SlabPages
  <2>2. \A d \in Classes : SlotsIn(d)' = SlotsIn(d)
    BY <2>1 DEF SlotsIn
  <2> QED BY <1>1, <2>1, <2>2 DEF AllSlots, LivePtrs
<1>3. Types' /\ HeldApart' /\ PagesInv'
  BY <1>1, <1>2 DEF SlabInv, Types, HeldApart, BlockSpan, PagesInv
<1>4. ObjectsInv'
  <2>1. ASSUME NEW o \in live PROVE IF Small(o.size) THEN InSlot(o)' ELSE InBlock(o)'
    BY <1>1, <1>2, LiveFacts DEF InSlot, InBlock
  <2> QED BY <1>1, <2>1 DEF SlabInv, ObjectsInv
<1>5. HeldExact' /\ ListsInv'
  BY <1>1, <1>2 DEF SlabInv, HeldExact, ListsInv
<1>6. CountersInv'
  <2>1. \A d \in Classes : UsedOf(d)' = UsedOf(d) /\ UsedSlots(d)' = UsedSlots(d)
    BY <1>1, <1>2 DEF UsedOf, UsedSlots
  <2> QED BY <1>1, <1>2, <2>1 DEF SlabInv, CountersInv
<1> QED BY <1>3, <1>4, <1>5, <1>6 DEF SlabInv

\* The heap stays well formed through every call.
THEOREM SlabInvariant == SlabSpec => []SlabInv
<1>1. SlabInv /\ [SlabNext]_heapVars => SlabInv'
  <2> SUFFICES ASSUME SlabInv, [SlabNext]_heapVars PROVE SlabInv'
    OBVIOUS
  <2>1. ASSUME NEW size \in Requests, kmalloc_slot(size) \/ kmalloc_grow(size)
                                       \/ kmalloc_large(size) \/ kmalloc_null(size)
        PROVE  SlabInv'
    BY <2>1, SlotInv, GrowInv, LargeInv, SameSlabInv DEF kmalloc_null
  <2>2. ASSUME NEW o \in live, kfree_slab(o.ptr) \/ kfree_large(o.ptr) PROVE SlabInv'
    BY <2>2, FreeSlabInv, FreeLargeInv
  <2>3. ASSUME NEW ptr, kfree_ignored(ptr) PROVE SlabInv'
    BY <2>3, SameSlabInv DEF kfree_ignored
  <2>4. CASE UNCHANGED heapVars
    BY <2>4, SameSlabInv
  <2> QED BY <2>1, <2>2, <2>3, <2>4 DEF SlabNext
<1> QED BY <1>1, InitSlabInv, PTL DEF SlabSpec

-----------------------------------------------------------------------------
\* What follows from the invariant

\* Every variable keeps its type; no counter of a cache goes below zero.
THEOREM SlabTypes == SlabSpec => []SlabTypeOK
<1>1. SlabInv => SlabTypeOK
  <2> SUFFICES ASSUME SlabInv PROVE SlabTypeOK
    OBVIOUS
  <2>1. ASSUME NEW c \in Classes
        PROVE  slab_count[c] \in Nat /\ total_slots[c] \in Nat /\ free_slots[c] \in Nat
    <3>1. /\ slab_count[c] = Len(slabs[c]) /\ slabs[c] \in Seq(Pool)
          /\ IsFiniteSet(SlotsIn(c)) /\ Cardinality(SlotsIn(c)) = total_slots[c]
          /\ Cardinality(UsedOf(c)) = total_slots[c] - free_slots[c]
      BY DEF SlabInv, CountersInv, Types, UsedSlots
    <3>2. total_slots[c] \in Nat /\ slab_count[c] \in Nat
      BY <3>1, FS_CardinalityType
    <3>3. Cardinality(UsedOf(c)) <= total_slots[c] /\ free_slots[c] \in Int
      BY UsedInSlots DEF SlabInv, Types
    <3> QED BY <3>1, <3>2, <3>3
  <2>2. \A c \in Classes : \A i \in DOMAIN slabs[c] : slabs[c][i] \in Pool
    BY DEF SlabInv, Types
  <2>3. \A a \in DOMAIN link : link[a] \in DOMAIN link \cup {NULL, USER}
    BY DEF SlabInv, Types
  <2>4. /\ slab_count \in [Classes -> Nat] /\ total_slots \in [Classes -> Nat]
        /\ free_slots \in [Classes -> Nat]
    BY <2>1 DEF SlabInv, Types
  <2> QED BY <2>2, <2>3, <2>4 DEF SlabInv, Types, SlabTypeOK, Header
<1> QED BY <1>1, SlabInvariant, PTL

\* The block of an object, and where the object lies in it.
BlockOf(o) == <<PageOf(o.ptr), IF Small(o.size) THEN 0 ELSE LargeOrder(o.size)>>

LEMMA ObjectPlace ==
  ASSUME SlabInv, NEW o \in live
  PROVE  /\ BlockOf(o) \in held
         /\ \A a \in Extent(o.ptr, o.size) : a \in Nat /\ PageOf(a) \in BlockSpan(BlockOf(o))
         /\ Base(PageOf(o.ptr)) \in Nat /\ Base(PageOf(o.ptr)) + LARGE_DATA <= o.ptr
         /\ Small(o.size) => Base(PageOf(o.ptr)) + SLAB_DATA <= o.ptr
         /\ o.size <= kmalloc_usable_size(o.ptr)
<1> DEFINE p == PageOf(o.ptr)
<1>1. o.ptr \in Nat /\ o.size \in Nat \ {0} /\ p \in Pool /\ p \in Nat
  BY LiveFacts
<1>2. /\ LARGE_DATA \in Nat /\ SLAB_DATA \in Nat /\ PAGE_SIZE \in Nat /\ 0 < LARGE_DATA
      /\ LARGE_DATA <= SLAB_DATA
  BY SizesAssumption
<1>3. CASE Small(o.size)
  <2> DEFINE c == ClassFor(o.size)
  <2>1. /\ c \in Classes /\ p \in SlabPages(c) /\ o.ptr \in SlotAddrs(p, c)
        /\ <<p, 0>> \in held /\ hdr[p].magic = "slab"
    BY <1>3, LiveFacts DEF InSlot
  <2>2. hdr[p].cache = c /\ o.size <= class_sizes[c] /\ class_sizes[c] \in Nat
    BY <1>3, <2>1, SlabPageFacts, ServingClass, ClassFacts DEF Small
  <2> HIDE DEF c, p
  <2>3. PICK i \in 0 .. SlotsOf(c) - 1 : o.ptr = SlotAddr(p, c, i)
    BY <2>1 DEF SlotAddrs
  <2>4. /\ Base(p) \in Nat /\ Base(p) + SLAB_DATA <= o.ptr
        /\ \A a \in o.ptr .. (o.ptr + class_sizes[c]) - 1 : PageOf(a) = p
    BY <1>1, <2>1, <2>3, SlotFacts
  <2>5. BlockOf(o) = <<p, 0>> /\ p \in BlockSpan(<<p, 0>>)
    BY <1>1, <1>3, SpanFacts, PoolAssumption DEF BlockOf, p
  <2>6. \A a \in Extent(o.ptr, o.size) : a \in Nat /\ a \in o.ptr .. (o.ptr + class_sizes[c]) - 1
    BY <1>1, <2>2 DEF Extent
  <2>7. kmalloc_usable_size(o.ptr) = class_sizes[c]
    BY <2>1, <2>2 DEF kmalloc_usable_size, p
  <2>8. \A a \in Extent(o.ptr, o.size) : a \in Nat /\ PageOf(a) \in BlockSpan(BlockOf(o))
    BY <2>4, <2>5, <2>6
  <2> QED BY <1>1, <1>2, <2>1, <2>2, <2>4, <2>5, <2>7, <2>8 DEF p
<1>4. CASE ~Small(o.size)
  <2> DEFINE k == LargeOrder(o.size)
             n == BlockFrames[k]
  <2>1. /\ k \in 0 .. MaxOrder /\ <<p, k>> \in held /\ hdr[p].magic = "large"
        /\ hdr[p].order = k /\ o.ptr = Base(p) + LARGE_DATA
    BY <1>4, LiveFacts DEF InBlock
  <2>2. k <= MaxOrder => LARGE_DATA + o.size <= PAGE_SIZE * n
    BY <1>1, ServingOrder
  <2>3. LARGE_DATA + o.size <= PAGE_SIZE * n
    BY <2>1, <2>2, PoolAssumption
  <2>4. n \in Nat \ {0}
    BY <2>1, PoolAssumption
  <2>5. kmalloc_usable_size(o.ptr) = PAGE_SIZE * n
    BY <2>1 DEF kmalloc_usable_size
  <2>6. BlockOf(o) = <<p, k>>
    BY <1>4 DEF BlockOf
  <2>7. BlockSpan(<<p, k>>) = p .. (p + n - 1)
    BY DEF BlockSpan
  <2> HIDE DEF k, n, p
  <2>8. PAGE_SIZE * n \in Nat
    BY <1>2, <2>4
  <2>9. Base(p) \in Nat
    BY <1>1, <1>2, PageBounds DEF p
  <2>10. \A a \in Extent(o.ptr, o.size) : a \in Base(p) .. (Base(p) + PAGE_SIZE * n) - 1
    <3> DEFINE m == PAGE_SIZE * n
               b == Base(p)
    <3>1. m \in Nat /\ b \in Nat /\ LARGE_DATA + o.size <= m /\ o.ptr = b + LARGE_DATA
      BY <2>1, <2>3, <2>8, <2>9
    <3>2. \A a \in Extent(o.ptr, o.size) : a \in b .. (b + m) - 1
      <4> HIDE DEF m, b
      <4> QED BY <1>1, <1>2, <3>1 DEF Extent
    <3> QED BY <3>2
  <2>11. \A a \in Extent(o.ptr, o.size) : a \in Nat /\ PageOf(a) \in p .. (p + n - 1)
    BY <1>1, <2>4, <2>10, BlockPages
  <2>12. o.size <= PAGE_SIZE * n
    BY <1>1, <1>2, <2>3, <2>8
  <2>13. Base(p) + LARGE_DATA <= o.ptr
    BY <1>2, <2>1, <2>9
  <2> QED BY <1>4, <2>1, <2>5, <2>6, <2>7, <2>9, <2>11, <2>12, <2>13 DEF p
<1> QED BY <1>3, <1>4

\* kmalloc gives every caller at least the bytes it asked for, to itself.
THEOREM ObjectsKeptApart == SlabSpec => []ObjectsDisjoint
<1>1. SlabInv => ObjectsDisjoint
  <2> SUFFICES ASSUME SlabInv PROVE ObjectsDisjoint
    OBVIOUS
  <2>0. \A b, d \in held : b # d => BlockSpan(b) \cap BlockSpan(d) = {}
    BY DEF SlabInv, HeldApart
  <2>1. ASSUME NEW o \in live, NEW q \in live, o # q
        PROVE  Extent(o.ptr, o.size) \cap Extent(q.ptr, q.size) = {}
    <3> SUFFICES ASSUME NEW a \in Extent(o.ptr, o.size), a \in Extent(q.ptr, q.size)
                 PROVE  FALSE
      OBVIOUS
    <3>1. BlockOf(o) = BlockOf(q)
      BY <2>0, ObjectPlace
    <3> DEFINE p == PageOf(o.ptr)
    <3>2. PageOf(q.ptr) = p
      BY <3>1 DEF BlockOf
    <3>3. o.ptr # q.ptr
      BY <2>1 DEF SlabInv, ObjectsInv
    <3>4. CASE ~Small(o.size)
      <4>1. hdr[p].magic = "large"
        BY <3>4, LiveFacts
      <4>2. ~Small(q.size)
        BY <3>2, <4>1, LiveFacts
      <4>3. o.ptr = Base(p) + LARGE_DATA
        BY <3>4, LiveFacts DEF InBlock
      <4>4. q.ptr = Base(p) + LARGE_DATA
        BY <3>2, <4>2, LiveFacts DEF InBlock
      <4> QED BY <3>3, <4>3, <4>4
    <3>5. CASE Small(o.size)
      <4> DEFINE c == ClassFor(o.size)
      <4>1. hdr[p].magic = "slab" /\ c \in Classes /\ p \in SlabPages(c) /\ o.ptr \in SlotAddrs(p, c)
        BY <3>5, LiveFacts DEF InSlot
      <4>2. Small(q.size)
        BY <3>2, <4>1, LiveFacts
      <4>3. ClassFor(q.size) \in Classes /\ p \in SlabPages(ClassFor(q.size))
            /\ q.ptr \in SlotAddrs(p, ClassFor(q.size))
        BY <3>2, <4>2, LiveFacts DEF InSlot
      <4>4. ClassFor(q.size) = c
        BY <4>1, <4>3, SlabPageFacts
      <4>5. o.size <= class_sizes[c] /\ q.size <= class_sizes[c] /\ class_sizes[c] \in Nat
        BY <3>5, <4>1, <4>2, <4>4, ServingClass, ClassFacts DEF Small
      <4>6. o.ptr \in Nat /\ o.size \in Nat /\ q.ptr \in Nat /\ q.size \in Nat /\ p \in Nat
        BY LiveFacts
      <4> HIDE DEF c, p
      <4>7. PICK i \in 0 .. SlotsOf(c) - 1 : o.ptr = SlotAddr(p, c, i)
        BY <4>1 DEF SlotAddrs
      <4>8. PICK j \in 0 .. SlotsOf(c) - 1 : q.ptr = SlotAddr(p, c, j)
        BY <4>3, <4>4 DEF SlotAddrs
      <4>9. i \in Nat /\ j \in Nat /\ i # j
        BY <3>3, <4>7, <4>8
      <4>10. o.ptr <= a /\ a < o.ptr + o.size /\ q.ptr <= a /\ a < q.ptr + q.size /\ a \in Int
        BY <4>6 DEF Extent
      <4>11. i < j => o.ptr + class_sizes[c] <= q.ptr
        BY <4>1, <4>6, <4>7, <4>8, <4>9, SlotsApart
      <4>12. j < i => q.ptr + class_sizes[c] <= o.ptr
        BY <4>1, <4>6, <4>7, <4>8, <4>9, SlotsApart
      <4> QED BY <4>5, <4>6, <4>9, <4>10, <4>11, <4>12
    <3> QED BY <3>4, <3>5
  <2>2. ASSUME NEW o \in live, NEW a \in Extent(o.ptr, o.size) PROVE PageOf(a) \in Lent
    BY ObjectPlace DEF Lent
  <2>3. ASSUME NEW o \in live, NEW p \in Pool, hdr[p].magic = "slab"
        PROVE  Extent(o.ptr, o.size) \cap (Base(p) .. Base(p) + SLAB_DATA - 1) = {}
    <3> SUFFICES ASSUME NEW a \in Extent(o.ptr, o.size), a \in Base(p) .. Base(p) + SLAB_DATA - 1
                 PROVE  FALSE
      OBVIOUS
    <3>1. PICK c \in Classes : p \in SlabPages(c)
      BY <2>3 DEF SlabInv, PagesInv
    <3>2. <<p, 0>> \in held /\ p \in Nat
      BY <3>1, SlabPageFacts
    <3>3. SLAB_DATA \in Nat /\ SLAB_DATA <= PAGE_SIZE - 1 /\ PAGE_SIZE \in Nat /\ 0 \in 0 .. PAGE_SIZE - 1
      BY SizesAssumption
    <3>4. Base(p) \in Nat
      BY <3>2, <3>3, PageOfAddr
    <3>5. a - Base(p) \in 0 .. PAGE_SIZE - 1 /\ a = Base(p) + (a - Base(p)) /\ a < Base(p) + SLAB_DATA
      BY <3>3, <3>4
    <3>6. PageOf(a) = p
      BY <3>2, <3>5, PageOfAddr
    <3>7. p \in BlockSpan(<<p, 0>>)
      BY SpanFacts, PoolAssumption
    <3>8. BlockOf(o) \in held /\ PageOf(a) \in BlockSpan(BlockOf(o))
      BY ObjectPlace
    <3>9. BlockOf(o) = <<p, 0>>
      BY <2>0, <3>2, <3>6, <3>7, <3>8
    <3>10. PageOf(o.ptr) = p
      BY <3>9 DEF BlockOf
    <3>11. Small(o.size)
      BY <2>3, <3>10, LiveFacts
    <3>12. Base(p) + SLAB_DATA <= o.ptr /\ o.ptr \in Nat /\ o.size \in Nat
      BY <3>10, <3>11, ObjectPlace, LiveFacts
    <3>13. o.ptr <= a
      BY <3>12 DEF Extent
    <3> QED BY <3>3, <3>4, <3>5, <3>12, <3>13
  <2>4. ASSUME NEW o \in live
        PROVE  Base(PageOf(o.ptr)) + LARGE_DATA <= o.ptr /\ o.size <= kmalloc_usable_size(o.ptr)
    BY ObjectPlace
  <2> QED BY <2>1, <2>2, <2>3, <2>4 DEF ObjectsDisjoint
<1> QED BY <1>1, SlabInvariant, PTL

\* The counters slab_get_stats reports agree with the slabs and the objects.
THEOREM CountersExact == SlabSpec => []CacheCountersExact
<1>1. SlabInv => CacheCountersExact
  BY DEF SlabInv, CountersInv, CacheCountersExact, UsedOf
<1> QED BY <1>1, SlabInvariant, PTL

\* Every block taken from the page allocator is a slab or carries one large object.
THEOREM NothingLeaks == SlabSpec => []HeldExact
<1>1. SlabInv => HeldExact
  BY DEF SlabInv
<1> QED BY <1>1, SlabInvariant, PTL

\* A slab's list as kmalloc would walk it is the thread of its free slots, and NULL.
LEMMA ChainIsThread ==
  ASSUME SlabInv, NEW c \in Classes, NEW s \in SlabPages(c), NEW q,
         Thread(q, hdr[s].free_count, hdr[s].free, link, SlotAddrs(s, c) \ LivePtrs)
  PROVE  \A k \in 1 .. hdr[s].free_count + 1 :
           FreeChain(s)[k] = IF k <= hdr[s].free_count THEN q[k] ELSE NULL
<1> DEFINE n == hdr[s].free_count
           S == SlotAddrs(s, c) \ LivePtrs
           I == 1 .. n + 1
           w == [k \in I |-> IF k <= n THEN q[k] ELSE NULL]
           walk(g) == [k \in I |-> IF k = 1 THEN hdr[s].free ELSE FollowLink(g[k - 1])]
           g == FreeChain(s)
<1>1. n \in Nat /\ S \subseteq DOMAIN link
  <2>1. s \in Pool /\ SlotAddrs(s, c) \subseteq AllSlots
    BY SlabPageFacts
  <2> QED BY <2>1 DEF SlabInv, Types, Header
<1>2. /\ q \in [1 .. n -> S] /\ hdr[s].free = (IF n = 0 THEN NULL ELSE q[1])
      /\ \A k \in 1 .. n : link[q[k]] = IF k = n THEN NULL ELSE q[k + 1]
  BY DEF Thread
<1>3. w = walk(w)
  <2> SUFFICES ASSUME NEW k \in I
               PROVE  w[k] = IF k = 1 THEN hdr[s].free ELSE FollowLink(w[k - 1])
    OBVIOUS
  <2>1. CASE k = 1
    BY <1>1, <1>2, <2>1
  <2>2. CASE k # 1
    <3>1. k - 1 \in 1 .. n /\ k - 1 \in I /\ (k - 1) + 1 = k
      BY <1>1, <2>2
    <3>2. w[k - 1] = q[k - 1]
      BY <1>1, <3>1
    <3>3. FollowLink(q[k - 1]) = link[q[k - 1]]
      BY <1>1, <1>2, <3>1 DEF FollowLink
    <3>4. w[k] = IF k - 1 = n THEN NULL ELSE q[k]
      BY <1>1, <3>1
    <3> HIDE DEF w
    <3> QED BY <1>2, <2>2, <3>1, <3>2, <3>3, <3>4
  <2> QED BY <2>1, <2>2
<1>4. g = walk(g)
  <2>1. g = CHOOSE f : f = walk(f)
    BY DEF FreeChain
  <2>2. \E f : f = walk(f)
    BY <1>3
  <2> QED BY <2>1, <2>2
<1> HIDE DEF g, w, n, S
<1>5. \A k \in I : g[k] = w[k]
  <2> DEFINE B == {k \in I : g[k] # w[k]}
  <2> SUFFICES ASSUME B # {} PROVE FALSE
    OBVIOUS
  <2>1. B \in SUBSET Nat
    BY <1>1
  <2>2. PICK k \in B : \A j \in B : k <= j
    BY <2>1, MinNat
  <2>3. k \in I /\ g[k] # w[k]
    BY <2>2
  <2>4. g[k] = IF k = 1 THEN hdr[s].free ELSE FollowLink(g[k - 1])
    BY <1>4, <2>3
  <2>5. w[k] = IF k = 1 THEN hdr[s].free ELSE FollowLink(w[k - 1])
    BY <1>3, <2>3
  <2>6. k # 1
    BY <2>3, <2>4, <2>5
  <2>7. k - 1 \in I /\ ~(k <= k - 1)
    BY <1>1, <2>3, <2>6
  <2>8. g[k - 1] = w[k - 1]
    BY <2>2, <2>7
  <2> QED BY <2>3, <2>4, <2>5, <2>8
<1> QED BY <1>5 DEF g, w, n

\* Walking a slab's list meets every free slot once, nothing else, and ends.
THEOREM ListsWalkFreeSlots == SlabSpec => []FreeListsExact
<1>1. SlabInv => FreeListsExact
  <2> SUFFICES ASSUME SlabInv, NEW c \in Classes, NEW s \in SlabPages(c)
               PROVE  /\ {FreeChain(s)[k] : k \in 1 .. hdr[s].free_count} = SlotAddrs(s, c) \ LivePtrs
                      /\ Cardinality({FreeChain(s)[k] : k \in 1 .. hdr[s].free_count}) = hdr[s].free_count
                      /\ FreeChain(s)[hdr[s].free_count + 1] = NULL
    BY DEF FreeListsExact
  <2> DEFINE n == hdr[s].free_count
             S == SlotAddrs(s, c) \ LivePtrs
             g == FreeChain(s)
  <2>1. n \in Nat
    <3>1. s \in Pool
      BY SlabPageFacts
    <3> QED BY <3>1 DEF SlabInv, Types, Header
  <2>2. PICK q : Thread(q, n, hdr[s].free, link, S)
    BY DEF SlabInv, ListsInv
  <2>3. \A k \in 1 .. n + 1 : g[k] = IF k <= n THEN q[k] ELSE NULL
    BY <2>2, ChainIsThread
  <2> HIDE DEF n, S, g
  <2>4. /\ q \in [1 .. n -> S] /\ \A a \in S : \E k \in 1 .. n : q[k] = a
        /\ \A i, j \in 1 .. n : q[i] = q[j] => i = j
    BY <2>2 DEF Thread
  <2>5. g[n + 1] = NULL /\ \A k \in 1 .. n : g[k] = q[k]
    BY <2>1, <2>3
  <2>6. {g[k] : k \in 1 .. n} = S
    BY <2>4, <2>5
  <2>7. Cardinality(S) = n
    <3> DEFINE I == 1 .. n
    <3>1. IsFiniteSet(I) /\ Cardinality(I) = n
      <4>1. Cardinality(I) = IF 1 > n THEN 0 ELSE (n - 1) + 1
        BY <2>1, FS_Interval
      <4> QED BY <2>1, <4>1, FS_Interval
    <3> HIDE DEF I
    <3>2. q \in Bijection(I, S)
      BY <2>4 DEF Bijection, Injection, Surjection, IsInjective, I
    <3>3. ExistsBijection(I, S)
      BY <3>2 DEF ExistsBijection
    <3> QED BY <3>1, <3>3, FS_Bijection, FS_CardinalityType
  <2> QED BY <2>5, <2>6, <2>7 DEF n, S, g
<1> QED BY <1>1, SlabInvariant, PTL

=============================================================================
