-------------------------- MODULE LargeAllocProofs --------------------------
(***************************************************************************)
(* The order found for a large request, for words and pages of any width.  *)
(* Where header and object do not wrap, the loop of order_for_bytes ends   *)
(* with the least order that holds them, or not at all: past the word's    *)
(* width the shift is back at orders it has already tried in vain.         *)
(***************************************************************************)
EXTENDS LargeAlloc, NatLemmas

-----------------------------------------------------------------------------
\* Powers of two

LEMMA Widths ==
  /\ WORD_BITS \in Nat \ {0} /\ PAGE_BITS \in Nat /\ PAGE_BITS < WORD_BITS
  /\ UNSIGNED_RANGE \in Nat \ {0} /\ BUDDY_MAX_ORDER \in Nat /\ PAGE_BITS + BUDDY_MAX_ORDER < WORD_BITS
BY WordAssumption

\* What the recursive function computes.
LEMMA Doubling ==
  /\ Pow2 \in [0 .. 2 * WORD_BITS -> Nat \ {0}] /\ Pow2[0] = 1
  /\ \A n \in 1 .. 2 * WORD_BITS : Pow2[n] = 2 * Pow2[n - 1]
<1> DEFINE m == 2 * WORD_BITS
           V == Nat \ {0}
           step(f) == [n \in 0 .. m |-> IF n = 0 THEN 1 ELSE 2 * f[n - 1]]
           G == [x \in V \X Int |-> 2 * x[1]]
<1>1. m \in Nat
  BY Widths
<1>2. Pow2 = CHOOSE f : f = step(f)
  BY DEF Pow2
<1> HIDE DEF m
<1>3. G \in [V \X Int -> V] /\ 1 \in V
  OBVIOUS
<1>4. PICK f : Recurs(f, m, V, 1, G)
  <2> HIDE DEF G, V
  <2> QED BY <1>1, <1>3, Recursion, Zenon
<1>5. f \in [0 .. m -> V] /\ f[0] = 1
  BY <1>4 DEF Recurs
<1>6. ASSUME NEW n \in 1 .. m PROVE f[n] = 2 * f[n - 1]
  <2>1. n - 1 \in 0 .. m /\ n \in Int
    BY <1>1
  <2>2. f[n] = G[<<f[n - 1], n>>] /\ <<f[n - 1], n>> \in V \X Int
    <3> HIDE DEF G, V
    <3> QED BY <1>4, <1>5, <2>1 DEF Recurs
  <2> QED BY <2>2
<1>7. f = step(f)
  <2>1. f = [n \in 0 .. m |-> f[n]]
    BY <1>5
  <2>2. ASSUME NEW n \in 0 .. m PROVE f[n] = IF n = 0 THEN 1 ELSE 2 * f[n - 1]
    <3>1. n = 0 \/ n \in 1 .. m
      BY <1>1
    <3> QED BY <1>5, <1>6, <3>1
  <2> QED BY <2>1, <2>2
<1>8. Pow2 = step(Pow2)
  <2> HIDE DEF step
  <2> QED BY <1>2, <1>7
<1>9. ASSUME NEW n \in 0 .. m PROVE Pow2[n] = IF n = 0 THEN 1 ELSE 2 * Pow2[n - 1]
  BY <1>8
<1> DEFINE U == {n \in 0 .. m : Pow2[n] = f[n]}
<1>10. 0 \in U
  BY <1>1, <1>5, <1>9
<1>11. ASSUME NEW n \in 0 .. m - 1, n \in U PROVE n + 1 \in U
  <2>1. n + 1 \in 1 .. m /\ n + 1 \in 0 .. m /\ n + 1 # 0 /\ (n + 1) - 1 = n
    BY <1>1
  <2>2. f[n + 1] = 2 * f[n] /\ Pow2[n + 1] = 2 * Pow2[n]
    BY <1>6, <1>9, <2>1
  <2> QED BY <1>11, <2>1, <2>2
<1> HIDE DEF U
<1>12. 0 \in Int /\ m \in Int
  BY <1>1
<1>13. 0 .. m \subseteq U
  BY <1>10, <1>11, <1>12, CountUp, Zenon
<1>14. Pow2 = f
  <2>1. Pow2 = [n \in 0 .. m |-> Pow2[n]] /\ f = [n \in 0 .. m |-> f[n]]
    BY <1>5, <1>8
  <2>2. \A n \in 0 .. m : Pow2[n] = f[n]
    BY <1>13 DEF U
  <2> QED BY <2>1, <2>2
<1> QED BY <1>5, <1>6, <1>14 DEF m

\* Products of powers, and their order.
LEMMA Products ==
  ASSUME NEW a \in Nat, NEW b \in Nat, a + b <= 2 * WORD_BITS
  PROVE  Pow2[a] * Pow2[b] = Pow2[a + b] /\ Pow2[a] <= Pow2[a + b] /\ (b # 0 => Pow2[a] < Pow2[a + b])
<1> DEFINE m == 2 * WORD_BITS
           p == Pow2[a]
           Is(k) == p * Pow2[k] = Pow2[a + k] /\ p <= Pow2[a + k] /\ (k # 0 => p < Pow2[a + k])
           U == {k \in 0 .. b : Is(k)}
<1>1. m \in Nat /\ \A n \in 0 .. m : Pow2[n] \in Nat \ {0}
  <2>1. m \in Nat
    BY Widths
  <2>2. Pow2 \in [0 .. m -> Nat \ {0}]
    BY Doubling
  <2> HIDE DEF m
  <2> QED BY <2>1, <2>2
<1>2. Pow2[0] = 1 /\ \A n \in 1 .. m : Pow2[n] = 2 * Pow2[n - 1]
  BY Doubling
<1> HIDE DEF m
<1>3. a \in 0 .. m /\ b \in 0 .. m /\ p \in Nat \ {0} /\ a + b <= m
  BY <1>1 DEF m
<1> HIDE DEF p
<1>4. 0 \in U
  <2>1. a + 0 = a /\ p * 1 = p /\ 0 \in 0 .. b
    BY <1>3
  <2> QED BY <1>2, <1>3, <2>1 DEF p
<1>5. ASSUME NEW k \in 0 .. b - 1, k \in U PROVE k + 1 \in U
  <2>1. /\ k + 1 \in 1 .. m /\ a + (k + 1) \in 1 .. m /\ (k + 1) - 1 = k /\ (a + (k + 1)) - 1 = a + k
        /\ k + 1 \in 0 .. b /\ k \in 0 .. m /\ a + k \in 0 .. m
    BY <1>1, <1>3
  <2> DEFINE x == Pow2[k]
             y == Pow2[a + k]
  <2>2. x \in Nat \ {0} /\ y \in Nat \ {0} /\ p * x = y /\ p <= y
    BY <1>1, <1>5, <2>1
  <2>3. Pow2[k + 1] = 2 * x /\ Pow2[a + (k + 1)] = 2 * y
    BY <1>2, <2>1
  <2> HIDE DEF x, y
  <2>4. p * (2 * x) = 2 * (p * x)
    BY <1>3, <2>2
  <2> QED BY <1>3, <2>1, <2>2, <2>3, <2>4
<1> HIDE DEF U
<1>6. 0 \in Int /\ b \in Int
  OBVIOUS
<1>7. 0 .. b \subseteq U
  BY <1>4, <1>5, <1>6, CountUp, Zenon
<1>8. Is(b)
  BY <1>7 DEF U
<1> QED BY <1>8 DEF p

\* The shifted page size: the power of two, or nothing once it is past the word.
LEMMA ShiftedIs ==
  ASSUME NEW k \in Nat
  PROVE  LET j == k % WORD_BITS IN
         /\ j \in 0 .. WORD_BITS - 1 /\ j <= k /\ (k < WORD_BITS => j = k)
         /\ PAGE_BITS + j < WORD_BITS => Shifted(k) = Pow2[PAGE_BITS + j]
         /\ PAGE_BITS + j >= WORD_BITS => Shifted(k) = 0
<1> DEFINE W == WORD_BITS
           P == PAGE_BITS
           j == k % W
           w == Pow2[W]
<1>1. W \in Nat \ {0} /\ P \in Nat /\ P < W
  BY Widths
<1>2. j \in 0 .. W - 1 /\ j <= k /\ (k < W => j = k)
  <2> HIDE DEF W
  <2> QED BY <1>1
<1>3. \A n \in 0 .. 2 * W : Pow2[n] \in Nat \ {0}
  BY Doubling
<1> HIDE DEF j
<1>4. w \in Nat \ {0} /\ P + j \in 0 .. 2 * W /\ Pow2[P + j] \in Nat \ {0}
  <2> HIDE DEF W, P
  <2>1. W \in 0 .. 2 * W /\ P + j \in 0 .. 2 * W
    BY <1>1, <1>2
  <2> QED BY <1>3, <2>1
<1>5. Shifted(k) = Pow2[P + j] % w
  <2>1. Pow2[P] * Pow2[j] = Pow2[P + j]
    <3>1. P \in Nat /\ j \in Nat /\ P + j <= 2 * W
      BY <1>1, <1>2, <1>4
    <3> QED BY <3>1, Products
  <2> QED BY <2>1 DEF Shifted, Wrap, j
<1>6. ASSUME P + j < W PROVE Pow2[P + j] % w = Pow2[P + j]
  <2>1. P + j \in Nat /\ W - (P + j) \in Nat /\ W - (P + j) # 0 /\ (P + j) + (W - (P + j)) = W /\ W <= 2 * W
    BY <1>1, <1>2, <1>6
  <2>2. Pow2[P + j] < w
    BY <2>1, Products
  <2> HIDE DEF w
  <2> QED BY <1>4, <2>2
<1>7. ASSUME P + j >= W PROVE Pow2[P + j] % w = 0
  <2> DEFINE d == (P + j) - W
  <2>1. d \in Nat /\ W + d = P + j /\ W + d <= 2 * W /\ d \in 0 .. 2 * W
    BY <1>1, <1>2, <1>7
  <2>2. w * Pow2[d] = Pow2[P + j] /\ Pow2[d] \in Nat
    BY <1>1, <1>3, <2>1, Products
  <2>3. ASSUME NEW x \in Nat \ {0}, NEW y \in Nat PROVE (x * y) % x = 0
    BY SMTT(30)
  <2> HIDE DEF w, d
  <2> QED BY <1>4, <2>2, <2>3
<1> QED BY <1>2, <1>5, <1>6, <1>7 DEF j

-----------------------------------------------------------------------------
\* The loop

\* No size wraps.
NoWrap == \A s \in Sizes : LARGE_DATA + s < Pow2[WORD_BITS]

\* The orders passed are too small; when the loop is over the order found holds the
\* request.
OrderInv ==
  /\ size \in Sizes /\ bytes = LARGE_DATA + size /\ o \in Nat
  /\ pc \in {"order_for_bytes", "buddy_alloc", "refused", "served"}
  /\ \A k \in Nat : PAGE_BITS + k < WORD_BITS /\ k < o => Pow2[PAGE_BITS + k] < bytes
  /\ pc # "order_for_bytes" => PAGE_BITS + o < WORD_BITS /\ bytes <= Pow2[PAGE_BITS + o]
  /\ pc = "served" => o <= BUDDY_MAX_ORDER

LEMMA OrderStart == NoWrap /\ Init => OrderInv
<1> SUFFICES ASSUME NoWrap, Init PROVE OrderInv
  OBVIOUS
<1>1. size \in Sizes /\ bytes = (LARGE_DATA + size) % Pow2[WORD_BITS] /\ o = 0 /\ pc = "order_for_bytes"
  BY DEF Init, Wrap
<1>2. WORD_BITS \in 0 .. 2 * WORD_BITS /\ PAGE_BITS \in 0 .. 2 * WORD_BITS
  BY Widths
<1>3. Pow2[WORD_BITS] \in Nat \ {0} /\ Pow2[PAGE_BITS] \in Nat
  BY <1>2, Doubling
<1>4. LARGE_DATA \in Nat /\ size \in Nat /\ LARGE_DATA + size < Pow2[WORD_BITS]
  BY <1>1, <1>3, WordAssumption DEF NoWrap
<1>5. bytes = LARGE_DATA + size
  <2> DEFINE w == Pow2[WORD_BITS]
  <2> HIDE DEF w
  <2>1. bytes = (LARGE_DATA + size) % w /\ LARGE_DATA + size < w /\ w \in Nat \ {0}
    BY <1>1, <1>3, <1>4 DEF w
  <2> QED BY <1>4, <2>1
<1> QED BY <1>1, <1>5 DEF OrderInv

LEMMA OrderNext == OrderInv /\ [Next]_vars => OrderInv'
<1> SUFFICES ASSUME OrderInv, [Next]_vars PROVE OrderInv'
  OBVIOUS
<1> USE DEF OrderInv
<1> DEFINE W == WORD_BITS
           P == PAGE_BITS
<1>1. W \in Nat \ {0} /\ P \in Nat /\ P < W /\ UNSIGNED_RANGE \in Nat \ {0}
  BY Widths
<1>2. bytes \in Nat /\ bytes > 0
  <2>1. P \in 0 .. 2 * W
    BY <1>1
  <2>2. Pow2[P] \in Nat
    BY <2>1, Doubling
  <2> QED BY <2>2, WordAssumption
<1>3. CASE order_turn
  <2> DEFINE j == o % W
  <2>0. /\ j \in 0 .. W - 1 /\ j <= o /\ (o < W => j = o)
        /\ P + j < W => Shifted(o) = Pow2[P + j]
        /\ P + j >= W => Shifted(o) = 0
    BY ShiftedIs
  <2> HIDE DEF j
  <2>1. pc = "order_for_bytes" /\ UNCHANGED <<size, bytes>>
    BY <1>3 DEF order_turn
  <2>2. ASSUME Shifted(o) < bytes, o' = (o + 1) % UNSIGNED_RANGE, UNCHANGED pc
        PROVE  OrderInv'
    <3>1. o' \in Nat /\ o' <= o + 1
      BY <1>1, <2>2
    <3>2. ASSUME NEW k \in Nat, P + k < W, k < o' PROVE Pow2[P + k] < bytes
      <4>1. k < o \/ k = o
        BY <3>1, <3>2
      <4>2. CASE k = o
        <5>1. o < W /\ P + j < W /\ P + k = P + j
          BY <1>1, <2>0, <3>2, <4>2
        <5> QED BY <2>0, <2>2, <5>1
      <4> QED BY <3>2, <4>1, <4>2
    <3> QED BY <2>1, <2>2, <3>1, <3>2
  <2>3. ASSUME ~(Shifted(o) < bytes), pc' = "buddy_alloc", UNCHANGED o
        PROVE  OrderInv'
    <3>1. P + j < W /\ Shifted(o) = Pow2[P + j]
      <4>1. P + j < W \/ P + j >= W
        BY <1>1, <2>0
      <4> QED BY <1>2, <2>0, <2>3, <4>1
    <3>2. Pow2[P + j] \in Nat
      <4>1. P + j \in 0 .. 2 * W
        BY <1>1, <2>0
      <4> QED BY <4>1, Doubling
    <3>3. bytes <= Pow2[P + j]
      BY <1>2, <2>3, <3>1, <3>2
    <3>4. j = o
      <4>1. ~(j < o)
        <5> SUFFICES ASSUME j < o PROVE FALSE
          OBVIOUS
        <5>1. Pow2[P + j] < bytes
          BY <2>0, <3>1
        <5> QED BY <1>2, <3>2, <3>3, <5>1
      <4> QED BY <2>0, <4>1
    <3> QED BY <2>1, <2>3, <3>1, <3>3, <3>4
  <2> QED BY <1>3, <2>2, <2>3 DEF order_turn
<1>4. CASE buddy_answers
  BY <1>4, Widths DEF buddy_answers
<1>5. CASE Returned \/ UNCHANGED vars
  BY <1>5 DEF Returned, vars
<1> QED BY <1>3, <1>4, <1>5 DEF Next

\* Where header and object do not wrap the loop ends with the least order that holds
\* them, if it ends.
THEOREM LeastOrder == NoWrap /\ Spec => []OrderIsLeast
<1>1. OrderInv => OrderIsLeast
  <2> SUFFICES ASSUME OrderInv, pc # "order_for_bytes"
               PROVE  o = Min({k \in 0 .. WORD_BITS : LARGE_DATA + size <= Pow2[PAGE_BITS + k]})
    BY DEF OrderIsLeast
  <2> DEFINE T == {k \in 0 .. WORD_BITS : LARGE_DATA + size <= Pow2[PAGE_BITS + k]}
  <2>1. /\ bytes = LARGE_DATA + size /\ o \in Nat /\ PAGE_BITS + o < WORD_BITS /\ bytes <= Pow2[PAGE_BITS + o]
        /\ \A k \in Nat : PAGE_BITS + k < WORD_BITS /\ k < o => Pow2[PAGE_BITS + k] < bytes
    BY DEF OrderInv
  <2>2. T \in SUBSET Nat /\ o \in T
    BY <2>1, Widths
  <2>3. ASSUME NEW k \in T PROVE ~(k < o)
    <3> SUFFICES ASSUME k < o PROVE FALSE
      OBVIOUS
    <3>1. k \in Nat /\ PAGE_BITS + k < WORD_BITS /\ PAGE_BITS + k \in 0 .. 2 * WORD_BITS
      BY <2>1, Widths
    <3>2. Pow2[PAGE_BITS + k] < bytes /\ bytes <= Pow2[PAGE_BITS + k] /\ Pow2[PAGE_BITS + k] \in Nat
      BY <2>1, <3>1, Doubling
    <3>3. bytes \in Int
      <4>1. PAGE_BITS \in 0 .. 2 * WORD_BITS
        BY Widths
      <4>2. Pow2[PAGE_BITS] \in Nat
        BY <4>1, Doubling
      <4> QED BY <4>2, WordAssumption DEF OrderInv
    <3> QED BY <3>2, <3>3
  <2> HIDE DEF T
  <2>4. Min(T) \in T /\ Min(T) <= o
    BY <2>2, MinNat
  <2>5. Min(T) \in Nat /\ ~(Min(T) < o)
    BY <2>2, <2>3, <2>4
  <2>6. Min(T) = o
    BY <2>1, <2>4, <2>5
  <2> QED BY <2>6 DEF T
<1> QED BY <1>1, OrderStart, OrderNext, PTL DEF Spec

\* Where header and object do not wrap, the block that serves a request holds both.
THEOREM LargeFits == NoWrap /\ Spec => []ServedFits
<1>1. OrderInv => ServedFits
  BY DEF OrderInv, ServedFits
<1> QED BY <1>1, OrderStart, OrderNext, PTL DEF Spec

=============================================================================
