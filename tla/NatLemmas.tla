----------------------------- MODULE NatLemmas ------------------------------
(***************************************************************************)
(* Facts about sets of natural numbers that the proofs share: least and    *)
(* greatest elements, which also replace induction (take the least         *)
(* counterexample), functions defined by recursion on a counter, sequences *)
(* joined end to end, and the arithmetic of blocks and their buddies.      *)
(***************************************************************************)
EXTENDS Integers, SequencesExt, SequenceTheorems, FiniteSetTheorems,
        WellFoundedInduction, TLAPS

\* A nonempty set of naturals has a least element.
LEMMA LeastNat ==
  ASSUME NEW T \in SUBSET Nat, T # {}
  PROVE  \E n \in T : \A m \in T : n <= m
<1> DEFINE R == {ss \in Nat \X Nat : ss[1] < ss[2]}
<1>1. IsWellFoundedOn(R, Nat)
  BY NatLessThanWellFounded, Zenon DEF OpToRel
<1>2. PICK n \in T : \A m \in T : ~(<<m, n>> \in R)
  <2> HIDE DEF R
  <2> QED BY <1>1, WFMin, Zenon
<1>3. ASSUME NEW m \in T, m < n PROVE FALSE
  <2>1. <<m, n>> \in Nat \X Nat
    OBVIOUS
  <2>2. <<m, n>> \in R
    BY <1>3, <2>1
  <2> QED BY <1>2, <2>2
<1> QED BY <1>3

\* Min of a nonempty set of naturals is its least element.
LEMMA MinNat ==
  ASSUME NEW T \in SUBSET Nat, T # {}
  PROVE  Min(T) \in T /\ \A m \in T : Min(T) <= m
BY LeastNat DEF Min

\* Max of a nonempty, bounded set of naturals is its greatest element.
LEMMA MaxNat ==
  ASSUME NEW T \in SUBSET Nat, T # {}, NEW b \in Nat, \A m \in T : m <= b
  PROVE  Max(T) \in T /\ \A m \in T : m <= Max(T)
<1> DEFINE U == {n \in Nat : \A m \in T : m <= n}
<1>1. PICK n \in U : \A k \in U : n <= k
  <2>1. U \in SUBSET Nat /\ b \in U
    OBVIOUS
  <2> HIDE DEF U
  <2> QED BY <2>1, LeastNat
<1>2. n \in T
  <2> SUFFICES ASSUME n \notin T PROVE FALSE
    OBVIOUS
  <2>1. \A m \in T : m <= n - 1
    BY <1>1
  <2>2. n - 1 \in Nat
    <3>1. PICK t : t \in T
      OBVIOUS
    <3>2. t \in Nat /\ t <= n - 1 /\ n \in Nat
      BY <3>1, <2>1
    <3> QED BY <3>2
  <2>3. n - 1 \in U
    BY <2>1, <2>2
  <2> QED BY <1>1, <2>3
<1> QED BY <1>1, <1>2 DEF Max

\* Finitely many naturals are bounded.
LEMMA FiniteFamilyBounded ==
  ASSUME NEW n \in Nat, NEW g \in [1 .. n -> Nat]
  PROVE  \E b \in Nat : \A i \in 1 .. n : g[i] <= b
<1> DEFINE Bounded(k) == \E b \in Nat : \A i \in 1 .. k : g[i] <= b
           T == {k \in 0 .. n : ~Bounded(k)}
<1>1. Bounded(0)
  <2>1. \A i \in 1 .. 0 : g[i] <= 0
    OBVIOUS
  <2> QED BY <2>1
<1>2. ASSUME NEW k \in 1 .. n, Bounded(k - 1) PROVE Bounded(k)
  <2>1. PICK b \in Nat : \A i \in 1 .. (k - 1) : g[i] <= b
    BY <1>2
  <2>2. g[k] \in Nat /\ b + g[k] \in Nat
    OBVIOUS
  <2>3. ASSUME NEW i \in 1 .. k PROVE g[i] <= b + g[k]
    <3>1. i \in 1 .. n /\ g[i] \in Nat
      OBVIOUS
    <3>2. CASE i = k
      BY <3>2, <2>2
    <3>3. CASE i # k
      BY <3>3, <3>1, <2>1, <2>2
    <3> QED BY <3>2, <3>3
  <2> QED BY <2>2, <2>3
<1> HIDE DEF Bounded
<1>3. T \in SUBSET Nat
  OBVIOUS
<1>4. ASSUME T # {} PROVE FALSE
  <2>1. PICK k \in T : \A m \in T : k <= m
    <3> HIDE DEF T
    <3> QED BY <1>3, <1>4, LeastNat
  <2>2. k \in 1 .. n /\ k - 1 \in 0 .. n /\ k - 1 < k
    BY <1>1, <2>1
  <2>3. Bounded(k - 1)
    BY <2>1, <2>2
  <2> QED BY <1>2, <2>1, <2>2, <2>3
<1>5. Bounded(n)
  BY <1>4
<1> QED BY <1>5 DEF Bounded

\* Blocks of s frames: the block of twice the size that holds frame f starts where
\* f's block does when that is an even one, and s frames earlier when it is odd.
LEMMA Dyadic ==
  ASSUME NEW f \in Nat, NEW s \in Nat, s > 0
  PROVE  /\ (f \div s) % 2 = 0 => (f \div (2 * s)) * (2 * s) = (f \div s) * s
         /\ (f \div s) % 2 # 0 => (f \div (2 * s)) * (2 * s) = (f \div s) * s - s
<1> DEFINE q == f \div s
<1>1. q \in Nat /\ q * s <= f /\ f < (q + 1) * s
  BY SMTT(30)
<1>2. PICK h \in Nat : q = 2 * h \/ q = 2 * h + 1
  <2>1. q = 2 * (q \div 2) \/ q = 2 * (q \div 2) + 1
    <3> HIDE DEF q
    <3> QED BY <1>1
  <2>2. q \div 2 \in Nat
    <3> HIDE DEF q
    <3> QED BY <1>1
  <2> QED BY <2>1, <2>2
<1>3. h * (2 * s) <= f /\ f < (h + 1) * (2 * s)
  BY <1>1, <1>2
<1>4. f \div (2 * s) = h
  BY <1>3
<1> QED BY <1>1, <1>2, <1>4

-----------------------------------------------------------------------------
\* Counting, and recursion on a counter

\* Counting from a to b stays in a set that each turn stays in.
LEMMA CountUp ==
  ASSUME NEW a \in Int, NEW b \in Int, NEW T, a \in T,
         \A i \in a .. b - 1 : i \in T => i + 1 \in T
  PROVE  a .. b \subseteq T
<1> DEFINE U == {k \in Nat : a + k <= b /\ a + k \notin T}
<1>1. ASSUME U # {} PROVE FALSE
  <2>1. PICK k \in U : \A j \in U : k <= j
    <3>1. U \in SUBSET Nat
      OBVIOUS
    <3> HIDE DEF U
    <3> QED BY <1>1, <3>1, LeastNat
  <2>2. k \in Nat /\ a + k <= b /\ a + k \notin T
    BY <2>1
  <2>3. k # 0
    BY <2>2
  <2>4. k - 1 \in Nat /\ k - 1 \notin U
    BY <2>1, <2>2, <2>3
  <2>5. a + (k - 1) \in T /\ a + (k - 1) \in a .. b - 1 /\ (a + (k - 1)) + 1 = a + k
    BY <2>2, <2>4
  <2> QED BY <2>2, <2>5
<1>2. ASSUME NEW i \in a .. b, i \notin T PROVE FALSE
  <2>1. i - a \in Nat /\ a + (i - a) = i /\ i <= b
    OBVIOUS
  <2>2. i - a \in U
    BY <1>2, <2>1
  <2> QED BY <1>1, <2>2
<1> QED BY <1>2

\* f starts at v and goes on with G.
Recurs(f, n, V, v, G) ==
  /\ f \in [0 .. n -> V] /\ f[0] = v
  /\ \A i \in 1 .. n : f[i] = G[<<f[i - 1], i>>]

\* A function defined by recursion on a counter exists.
LEMMA Recursion ==
  ASSUME NEW n \in Nat, NEW V, NEW v \in V, NEW G \in [V \X Int -> V]
  PROVE  \E f : Recurs(f, n, V, v, G)
<1> DEFINE Is(f, k) == /\ f \in [0 .. k -> V] /\ f[0] = v
                       /\ \A i \in 1 .. k : f[i] = G[<<f[i - 1], i>>]
           T == {k \in Nat : \E f : Is(f, k)}
<1>1. 0 \in T
  <2>1. Is([i \in 0 .. 0 |-> v], 0)
    OBVIOUS
  <2> HIDE DEF Is
  <2> QED BY <2>1
<1>2. ASSUME NEW k \in 0 .. n - 1, k \in T PROVE k + 1 \in T
  <2>1. PICK f : Is(f, k)
    BY <1>2
  <2> DEFINE w == G[<<f[k], k + 1>>]
             g == [i \in 0 .. k + 1 |-> IF i = k + 1 THEN w ELSE f[i]]
  <2>2. k \in Nat /\ k + 1 \in Nat
    OBVIOUS
  <2>3. w \in V
    BY <2>1, <2>2
  <2>4. g \in [0 .. k + 1 -> V]
    <3> SUFFICES ASSUME NEW i \in 0 .. k + 1 PROVE g[i] \in V
      OBVIOUS
    <3> HIDE DEF w
    <3>1. i = k + 1 \/ i \in 0 .. k
      BY <2>2
    <3> QED BY <2>1, <2>3, <3>1
  <2>5. g[0] = v
    BY <2>1, <2>2
  <2>6. ASSUME NEW i \in 1 .. k + 1 PROVE g[i] = G[<<g[i - 1], i>>]
    <3>1. i - 1 \in 0 .. k + 1 /\ i - 1 # k + 1 /\ i \in 0 .. k + 1
      BY <2>2
    <3>2. g[i - 1] = f[i - 1]
      BY <3>1
    <3>3. CASE i = k + 1
      <4>1. i - 1 = k
        BY <2>2, <3>3
      <4> QED BY <3>2, <3>3, <4>1
    <3>4. CASE i # k + 1
      <4>1. i \in 1 .. k
        BY <2>2, <3>4
      <4>2. g[i] = f[i]
        BY <3>1, <3>4
      <4> QED BY <2>1, <3>2, <4>1, <4>2
    <3> QED BY <3>3, <3>4
  <2> HIDE DEF g
  <2>7. Is(g, k + 1)
    BY <2>4, <2>5, <2>6
  <2> HIDE DEF Is
  <2> QED BY <2>2, <2>7
<1> HIDE DEF T
<1>3. 0 .. n \subseteq T
  BY <1>1, <1>2, CountUp
<1>4. n \in T
  BY <1>3
<1> QED BY <1>4 DEF T, Recurs

-----------------------------------------------------------------------------
\* Sequences joined end to end

\* What FlattenSeq's recursive function computes.
LEMMA FlattenDef ==
  ASSUME NEW T, NEW q \in Seq(Seq(T)), q # << >>
  PROVE  \E f \in [1 .. Len(q) -> Seq(T)] :
           /\ f[1] = q[1]
           /\ \A i \in 2 .. Len(q) : f[i] = f[i - 1] \o q[i]
           /\ FlattenSeq(q) = f[Len(q)]
<1> DEFINE n == Len(q)
           Step(h) == [i \in 1 .. n |-> IF i = 1 THEN q[i] ELSE h[i - 1] \o q[i]]
           c == CHOOSE h : h = Step(h)
<1>1. n \in Nat /\ n # 0 /\ \A i \in 1 .. n : q[i] \in Seq(T)
  OBVIOUS
<1>2. FlattenSeq(q) = c[n]
  BY <1>1 DEF FlattenSeq
<1> HIDE DEF n
<1> DEFINE G == [x \in Seq(T) \X Int |-> IF x[2] + 1 \in 1 .. n THEN x[1] \o q[x[2] + 1] ELSE x[1]]
<1>3. G \in [Seq(T) \X Int -> Seq(T)]
  BY <1>1
<1>4. q[1] \in Seq(T) /\ n - 1 \in Nat
  BY <1>1
<1>5. PICK g \in [0 .. n - 1 -> Seq(T)] :
        g[0] = q[1] /\ \A i \in 1 .. n - 1 : g[i] = G[<<g[i - 1], i>>]
  <2> DEFINE m == n - 1
             S == Seq(T)
             v == q[1]
  <2>1. m \in Nat /\ v \in S /\ G \in [S \X Int -> S]
    BY <1>3, <1>4
  <2> HIDE DEF G, m, S, v
  <2>2. \E g : Recurs(g, m, S, v, G)
    BY <2>1, Recursion, Zenon
  <2> QED BY <2>2 DEF m, S, v, Recurs
<1> DEFINE d == [i \in 1 .. n |-> g[i - 1]]
<1>6. d \in [1 .. n -> Seq(T)] /\ d[1] = q[1]
  BY <1>1, <1>5
<1>7. ASSUME NEW i \in 2 .. n PROVE d[i] = d[i - 1] \o q[i]
  <2>1. i - 1 \in 1 .. n - 1 /\ (i - 1) + 1 = i /\ i \in 1 .. n /\ i - 1 \in 1 .. n /\ (i - 1) - 1 \in 0 .. n - 1
    BY <1>1
  <2>2. d[i] = g[i - 1] /\ d[i - 1] = g[(i - 1) - 1] /\ g[(i - 1) - 1] \in Seq(T)
    BY <1>5, <2>1
  <2>3. g[i - 1] = G[<<g[(i - 1) - 1], i - 1>>]
    BY <1>5, <2>1
  <2>4. G[<<g[(i - 1) - 1], i - 1>>] = g[(i - 1) - 1] \o q[i]
    <3>1. <<g[(i - 1) - 1], i - 1>> \in Seq(T) \X Int
      BY <2>1, <2>2
    <3> QED BY <2>1, <3>1
  <2> QED BY <2>2, <2>3, <2>4
<1> HIDE DEF d
<1>8. d = Step(d)
  <2>1. ASSUME NEW i \in 1 .. n PROVE d[i] = IF i = 1 THEN q[i] ELSE d[i - 1] \o q[i]
    <3>1. i = 1 \/ i \in 2 .. n
      BY <1>1
    <3> QED BY <1>6, <1>7, <3>1
  <2>2. d = [i \in 1 .. n |-> d[i]]
    BY <1>6
  <2> QED BY <2>1, <2>2
<1>9. c = Step(c)
  <2> HIDE DEF Step
  <2> QED BY <1>8
<1> HIDE DEF c
<1>10. ASSUME NEW i \in 1 .. n PROVE c[i] = IF i = 1 THEN q[i] ELSE c[i - 1] \o q[i]
  BY <1>9
<1>11. 1 .. n \subseteq {i \in 1 .. n : c[i] \in Seq(T)}
  <2> DEFINE U == {i \in 1 .. n : c[i] \in Seq(T)}
  <2>1. 1 \in U
    <3>1. 1 \in 1 .. n
      BY <1>1
    <3>2. c[1] = q[1]
      BY <1>10, <3>1
    <3> QED BY <1>4, <3>1, <3>2
  <2>2. ASSUME NEW i \in 1 .. n - 1, i \in U PROVE i + 1 \in U
    <3>1. i + 1 \in 1 .. n /\ i + 1 # 1 /\ (i + 1) - 1 = i
      BY <1>1
    <3>2. c[i + 1] = c[i] \o q[i + 1]
      BY <1>10, <3>1
    <3>3. q[i + 1] \in Seq(T) /\ c[i] \in Seq(T)
      BY <1>1, <2>2, <3>1
    <3>4. c[i + 1] \in Seq(T)
      BY <3>2, <3>3, ConcatProperties
    <3> QED BY <3>1, <3>4
  <2> HIDE DEF U
  <2>3. 1 \in Int /\ n \in Int
    BY <1>1
  <2>4. 1 .. n \subseteq U
    BY <2>1, <2>2, <2>3, CountUp, Zenon
  <2> QED BY <2>4 DEF U
<1>12. c \in [1 .. n -> Seq(T)]
  <2>1. c = [i \in 1 .. n |-> c[i]]
    BY <1>9
  <2> QED BY <1>11, <2>1
<1>13. c[1] = q[1]
  <2>1. 1 \in 1 .. n
    BY <1>1
  <2> QED BY <1>10, <2>1
<1>14. ASSUME NEW i \in 2 .. n PROVE c[i] = c[i - 1] \o q[i]
  <2>1. i \in 1 .. n /\ i # 1
    BY <1>1
  <2> QED BY <1>10, <2>1
<1> QED BY <1>2, <1>12, <1>13, <1>14 DEF n

\* Nothing joined is nothing.
LEMMA FlattenNone == FlattenSeq(<< >>) = << >>
BY DEF FlattenSeq

\* One more sequence comes at the end.
LEMMA FlattenAppend ==
  ASSUME NEW T, NEW q \in Seq(Seq(T)), NEW s \in Seq(T)
  PROVE  FlattenSeq(q) \in Seq(T) /\ FlattenSeq(Append(q, s)) = FlattenSeq(q) \o s
<1> DEFINE n == Len(q)
           p == Append(q, s)
<1>1. /\ n \in Nat /\ p \in Seq(Seq(T)) /\ Len(p) = n + 1 /\ p[n + 1] = s /\ p # << >>
      /\ \A i \in 1 .. n : p[i] = q[i]
  OBVIOUS
<1> HIDE DEF p
<1>2. PICK g \in [1 .. n + 1 -> Seq(T)] :
        /\ g[1] = p[1] /\ \A i \in 2 .. n + 1 : g[i] = g[i - 1] \o p[i]
        /\ FlattenSeq(p) = g[n + 1]
  <2>1. \E g \in [1 .. Len(p) -> Seq(T)] :
          /\ g[1] = p[1] /\ \A i \in 2 .. Len(p) : g[i] = g[i - 1] \o p[i]
          /\ FlattenSeq(p) = g[Len(p)]
    BY <1>1, FlattenDef, Zenon
  <2> QED BY <1>1, <2>1, Zenon
<1>3. CASE q = << >>
  <2>1. n = 0 /\ FlattenSeq(q) = << >>
    BY <1>3, FlattenNone
  <2>2. FlattenSeq(p) = s
    BY <1>1, <1>2, <2>1
  <2>3. << >> \o s = s
    OBVIOUS
  <2>4. FlattenSeq(q) \in Seq(T)
    BY <2>1
  <2>5. FlattenSeq(Append(q, s)) = FlattenSeq(q) \o s
    BY <2>1, <2>2, <2>3, Zenon DEF p
  <2> QED BY <2>4, <2>5
<1>4. CASE q # << >>
  <2>1. PICK f \in [1 .. n -> Seq(T)] :
          /\ f[1] = q[1] /\ \A i \in 2 .. n : f[i] = f[i - 1] \o q[i]
          /\ FlattenSeq(q) = f[n]
    BY <1>4, FlattenDef
  <2>2. n # 0
    BY <1>4
  <2> HIDE DEF n
  <2> DEFINE U == {i \in 1 .. n : f[i] = g[i]}
  <2>3. 1 \in U
    BY <1>1, <1>2, <2>1, <2>2
  <2>4. ASSUME NEW i \in 1 .. n - 1, i \in U PROVE i + 1 \in U
    <3>1. i + 1 \in 2 .. n /\ i + 1 \in 2 .. n + 1 /\ i + 1 \in 1 .. n /\ (i + 1) - 1 = i
      BY <1>1, <2>2
    <3>2. f[i + 1] = f[i] \o q[i + 1] /\ g[i + 1] = g[i] \o p[i + 1]
      BY <1>2, <2>1, <3>1
    <3>3. p[i + 1] = q[i + 1] /\ f[i] = g[i]
      BY <1>1, <2>4, <3>1
    <3> QED BY <3>1, <3>2, <3>3
  <2> HIDE DEF U
  <2>4a. 1 \in Int /\ n \in Int
    BY <1>1
  <2>5. 1 .. n \subseteq U
    BY <2>3, <2>4, <2>4a, CountUp, Zenon
  <2>6. f[n] = g[n] /\ f[n] \in Seq(T) /\ n + 1 \in 2 .. n + 1 /\ (n + 1) - 1 = n
    BY <1>1, <2>1, <2>2, <2>5 DEF U
  <2>7. g[n + 1] = g[n] \o s
    BY <1>1, <1>2, <2>6
  <2> QED BY <1>2, <2>1, <2>6, <2>7 DEF p
<1> QED BY <1>3, <1>4

\* The first sequence comes first.
LEMMA FlattenHead ==
  ASSUME NEW T, NEW q \in Seq(Seq(T)), q # << >>
  PROVE  FlattenSeq(q) = Head(q) \o FlattenSeq(Tail(q))
<1> DEFINE n == Len(q)
           p == Tail(q)
           h == Head(q)
<1>1. /\ n \in Nat /\ n # 0 /\ p \in Seq(Seq(T)) /\ Len(p) = n - 1 /\ h = q[1] /\ h \in Seq(T)
      /\ \A i \in 1 .. n - 1 : p[i] = q[i + 1] /\ p[i] \in Seq(T)
  OBVIOUS
<1> HIDE DEF p, h
<1>2. PICK f \in [1 .. n -> Seq(T)] :
        /\ f[1] = q[1] /\ \A i \in 2 .. n : f[i] = f[i - 1] \o q[i]
        /\ FlattenSeq(q) = f[n]
  BY FlattenDef
<1> HIDE DEF n
<1>3. CASE p = << >>
  <2>1. Len(p) = 0 /\ FlattenSeq(p) = << >>
    BY <1>3, FlattenNone
  <2>2. n = 1
    BY <1>1, <2>1
  <2>3. FlattenSeq(q) = h
    BY <1>1, <1>2, <2>2
  <2>4. h \o << >> = h
    BY <1>1
  <2> QED BY <1>3, <2>1, <2>3, <2>4 DEF p, h
<1>4. CASE p # << >>
  <2>1. PICK g \in [1 .. n - 1 -> Seq(T)] :
          /\ g[1] = p[1] /\ \A i \in 2 .. n - 1 : g[i] = g[i - 1] \o p[i]
          /\ FlattenSeq(p) = g[n - 1]
    <3>1. \E g \in [1 .. Len(p) -> Seq(T)] :
            /\ g[1] = p[1] /\ \A i \in 2 .. Len(p) : g[i] = g[i - 1] \o p[i]
            /\ FlattenSeq(p) = g[Len(p)]
      BY <1>1, <1>4, FlattenDef, Zenon
    <3> QED BY <1>1, <3>1, Zenon
  <2>2. n - 1 \in Nat /\ n - 1 # 0
    BY <1>1, <1>4
  <2> DEFINE U == {i \in 1 .. n - 1 : f[i + 1] = h \o g[i]}
  <2>3. 1 \in U
    <3>1. 1 \in 1 .. n - 1 /\ 2 \in 2 .. n /\ 2 - 1 = 1 /\ 1 + 1 = 2
      BY <2>2, <1>1
    <3>2. f[2] = f[1] \o q[2]
      BY <1>2, <3>1
    <3>3. p[1] = q[2]
      BY <1>1, <3>1
    <3> QED BY <1>1, <1>2, <2>1, <3>1, <3>2, <3>3
  <2>4. ASSUME NEW i \in 1 .. (n - 1) - 1, i \in U PROVE i + 1 \in U
    <3>1. /\ i + 1 \in 2 .. n - 1 /\ i + 1 \in 1 .. n - 1 /\ (i + 1) - 1 = i
          /\ (i + 1) + 1 \in 2 .. n /\ ((i + 1) + 1) - 1 = i + 1 /\ i \in 1 .. n - 1
      BY <1>1, <2>2
    <3>2. f[(i + 1) + 1] = f[i + 1] \o q[(i + 1) + 1] /\ g[i + 1] = g[i] \o p[i + 1]
      <4>1. f[(i + 1) + 1] = f[((i + 1) + 1) - 1] \o q[(i + 1) + 1]
        BY <1>2, <3>1, Zenon
      <4>2. g[i + 1] = g[(i + 1) - 1] \o p[i + 1]
        BY <2>1, <3>1, Zenon
      <4> QED BY <3>1, <4>1, <4>2, Zenon
    <3>3. p[i + 1] = q[(i + 1) + 1] /\ f[i + 1] = h \o g[i] /\ p[i + 1] \in Seq(T) /\ g[i] \in Seq(T)
      <4>1. p[i + 1] = q[(i + 1) + 1] /\ p[i + 1] \in Seq(T)
        BY <1>1, <3>1
      <4>2. f[i + 1] = h \o g[i]
        BY <2>4, Zenon
      <4>3. g[i] \in Seq(T)
        BY <2>1, <3>1, Zenon
      <4> QED BY <4>1, <4>2, <4>3, Zenon
    <3>4. f[(i + 1) + 1] = h \o g[i + 1]
      <4>1. ASSUME NEW x \in Seq(T), NEW y \in Seq(T), NEW z \in Seq(T)
            PROVE  (x \o y) \o z = x \o (y \o z)
        BY SMTT(60)
      <4>2. (h \o g[i]) \o p[i + 1] = h \o (g[i] \o p[i + 1])
        BY <1>1, <3>3, <4>1, Zenon
      <4> QED BY <3>2, <3>3, <4>2, Zenon
    <3> QED BY <3>1, <3>4
  <2> HIDE DEF U
  <2>4a. 1 \in Int /\ n - 1 \in Int
    BY <1>1
  <2>5. 1 .. n - 1 \subseteq U
    BY <2>3, <2>4, <2>4a, CountUp, Zenon
  <2>6. n - 1 \in U /\ (n - 1) + 1 = n
    BY <1>1, <2>2, <2>5
  <2>7. f[n] = h \o g[n - 1]
    BY <2>6 DEF U
  <2> QED BY <1>2, <2>1, <2>7 DEF p, h
<1> QED BY <1>3, <1>4

\* Each member of s replaced by the sequence P has for it.
Each(s, P) == [i \in DOMAIN s |-> P[s[i]]]

\* P has a sequence over T for each member of A.
Shares(P, A, T) == P \in [A -> Seq(T)]

LEMMA EachType ==
  ASSUME NEW A, NEW T, NEW P, NEW s, Shares(P, A, T), s \in Seq(A)
  PROVE  Each(s, P) \in Seq(Seq(T)) /\ Len(Each(s, P)) = Len(s)
<1> DEFINE S == Seq(T)
<1>1. DOMAIN s = 1 .. Len(s) /\ Len(s) \in Nat /\ \A i \in 1 .. Len(s) : s[i] \in A
  OBVIOUS
<1>2. P \in [A -> S]
  BY DEF Shares
<1> HIDE DEF S
<1>3. \A i \in 1 .. Len(s) : P[s[i]] \in S
  BY <1>1, <1>2
<1>4. Each(s, P) \in Seq(S) /\ Len(Each(s, P)) = Len(s)
  BY <1>1, <1>3 DEF Each
<1> QED BY <1>4 DEF S

\* One member more.
LEMMA EachAppend ==
  ASSUME NEW A, NEW T, NEW P, NEW s, NEW k, Shares(P, A, T), s \in Seq(A), k \in A
  PROVE  /\ FlattenSeq(Each(s, P)) \in Seq(T)
         /\ FlattenSeq(Each(Append(s, k), P)) = FlattenSeq(Each(s, P)) \o P[k]
<1>1. Each(s, P) \in Seq(Seq(T)) /\ Len(Each(s, P)) = Len(s)
  BY EachType, SMT
<1>2. Each(Append(s, k), P) = Append(Each(s, P), P[k])
  <2>1. Len(s) \in Nat /\ DOMAIN Append(s, k) = 1 .. Len(s) + 1 /\ DOMAIN s = 1 .. Len(s)
    OBVIOUS
  <2>2. Append(Each(s, P), P[k]) = [i \in 1 .. Len(s) + 1 |-> IF i = Len(s) + 1 THEN P[k] ELSE P[s[i]]]
    BY <1>1, <2>1 DEF Each
  <2>3. \A i \in 1 .. Len(s) + 1 : Append(s, k)[i] = IF i = Len(s) + 1 THEN k ELSE s[i]
    OBVIOUS
  <2> QED BY <2>1, <2>2, <2>3 DEF Each
<1>3. P[k] \in Seq(T)
  BY DEF Shares
<1> QED BY <1>1, <1>2, <1>3, FlattenAppend, Zenon

\* One member less.
LEMMA EachHead ==
  ASSUME NEW A, NEW T, NEW P, NEW s, Shares(P, A, T), s \in Seq(A), s # << >>
  PROVE  FlattenSeq(Each(s, P)) = P[Head(s)] \o FlattenSeq(Each(Tail(s), P))
<1>1. Each(s, P) \in Seq(Seq(T)) /\ Len(Each(s, P)) = Len(s)
  BY EachType, SMT
<1>2. /\ Len(s) \in Nat \ {0} /\ DOMAIN s = 1 .. Len(s) /\ Tail(s) \in Seq(A)
      /\ DOMAIN Tail(s) = 1 .. Len(s) - 1 /\ Head(s) = s[1]
      /\ \A i \in 1 .. Len(s) - 1 : Tail(s)[i] = s[i + 1]
  OBVIOUS
<1>3. Head(Each(s, P)) = P[Head(s)] /\ Each(s, P) # << >>
  <2>1. 1 \in DOMAIN s /\ Len(Each(s, P)) # 0
    BY <1>1, <1>2
  <2>2. Each(s, P)[1] = P[s[1]]
    BY <2>1 DEF Each
  <2>3. Each(s, P) # << >> /\ Head(Each(s, P)) = Each(s, P)[1]
    BY <1>1, <2>1
  <2> QED BY <1>2, <2>2, <2>3
<1>4. Tail(Each(s, P)) = [i \in 1 .. Len(s) - 1 |-> P[s[i + 1]]]
  BY <1>1, <1>2 DEF Each
<1>5. Tail(Each(s, P)) = Each(Tail(s), P)
  BY <1>2, <1>4 DEF Each
<1> QED BY <1>1, <1>3, <1>5, FlattenHead, Zenon

\* No member.
LEMMA EachNone == ASSUME NEW P PROVE FlattenSeq(Each(<< >>, P)) = << >>
<1>1. Each(<< >>, P) = << >>
  BY DEF Each
<1> QED BY <1>1, FlattenNone

=============================================================================
