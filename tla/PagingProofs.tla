---------------------------- MODULE PagingProofs ----------------------------
(***************************************************************************)
(* The page tables are a tree, one page's mapping is independent of        *)
(* another's, and what vmm_init mapped stays mapped: for tables and memory *)
(* maps of any size and whenever the frames run out.                       *)
(***************************************************************************)
EXTENDS Paging, SequenceTheorems, NatLemmas

-----------------------------------------------------------------------------
\* Addresses

\* A page is its four indices.
LEMMA Digits ==
  ASSUME NEW u \in Pages, NEW v \in Pages,
         Index(u, 4) = Index(v, 4), Index(u, 3) = Index(v, 3),
         Index(u, 2) = Index(v, 2), Index(u, 1) = Index(v, 1)
  PROVE  u = v
<1> DEFINE E == ENTRIES
<1>1. E \in Nat \ {0}
  BY PagingAssumption
<1>2. Span[1] = 1 /\ Span[2] = E /\ Span[3] = E * E /\ Span[4] = (E * E) * E
  BY DEF Span
<1> HIDE DEF E
<1>3. ASSUME NEW a \in Nat, NEW b \in Nat \ {0}, NEW c \in Nat \ {0}
      PROVE  (a \div b) \div c = a \div (b * c) /\ a \div b \in Nat
  BY <1>3
<1>4. ASSUME NEW a \in Nat, NEW b \in Nat, a % E = b % E, a \div E = b \div E
      PROVE  a = b
  <2>1. a = E * (a \div E) + (a % E)
    BY <1>1
  <2>2. b = E * (b \div E) + (b % E)
    BY <1>1
  <2> QED BY <1>4, <2>1, <2>2
<1>5. E * E \in Nat \ {0} /\ (E * E) * E \in Nat \ {0} /\ ((E * E) * E) * E \in Nat
  BY <1>1
<1>6. ASSUME NEW x \in Pages
      PROVE  /\ x \in Nat /\ x \div E \in Nat /\ (x \div E) \div E \in Nat
             /\ ((x \div E) \div E) \div E \in Nat
             /\ Index(x, 1) = x % E /\ Index(x, 2) = (x \div E) % E
             /\ Index(x, 3) = ((x \div E) \div E) % E
             /\ Index(x, 4) = ((x \div E) \div E) \div E
  <2>1. x \in Nat /\ x < ((E * E) * E) * E
    BY <1>2, <1>5 DEF Pages, E
  <2>2. x \div E \in Nat /\ x \div (E * E) = (x \div E) \div E /\ (x \div E) \div E \in Nat
    BY <1>1, <1>3, <2>1
  <2>3. /\ x \div ((E * E) * E) = ((x \div E) \div E) \div E
        /\ ((x \div E) \div E) \div E \in Nat
    <3> DEFINE q == E * E
    <3>1. q \in Nat \ {0}
      BY <1>5
    <3> HIDE DEF q
    <3>2. (x \div q) \div E = x \div (q * E)
      BY <1>1, <1>3, <2>1, <3>1
    <3>3. ((x \div E) \div E) \div E \in Nat
      BY <1>1, <1>3, <2>2
    <3> QED BY <2>2, <3>2, <3>3 DEF q
  <2>4. x \div ((E * E) * E) < E
    <3> DEFINE c == (E * E) * E
    <3>1. c \in Nat \ {0} /\ x < c * E
      BY <1>5, <2>1
    <3> HIDE DEF c
    <3>2. x \div c < E
      BY <1>1, <2>1, <3>1
    <3> QED BY <3>2 DEF c
  <2>5. (x \div ((E * E) * E)) % E = x \div ((E * E) * E)
    BY <1>1, <2>3, <2>4
  <2>6. x \div 1 = x
    BY <2>1
  <2>7. /\ Index(x, 1) = (x \div 1) % E /\ Index(x, 2) = (x \div E) % E
        /\ Index(x, 3) = (x \div (E * E)) % E /\ Index(x, 4) = (x \div ((E * E) * E)) % E
    BY <1>2 DEF Index, E
  <2> QED BY <2>1, <2>2, <2>3, <2>5, <2>6, <2>7
<1>7. ((u \div E) \div E) \div E = ((v \div E) \div E) \div E
  BY <1>6
<1>8. (u \div E) \div E = (v \div E) \div E
  BY <1>4, <1>6, <1>7
<1>9. u \div E = v \div E
  BY <1>4, <1>6, <1>8
<1> QED BY <1>4, <1>6, <1>9

-----------------------------------------------------------------------------
\* Walks

\* The tables of each level, and the entries above the leaves.
T3(T, p) == {e.addr : e \in {d \in T : d.table = p}}
T2(T, p) == {e.addr : e \in {d \in T : d.table \in T3(T, p)}}
T1(T, p) == {e.addr : e \in {d \in T : d.table \in T2(T, p)}}
Upper(T, p) == {p} \cup T3(T, p) \cup T2(T, p)

\* The entries of a walk above v's leaf, and v's leaf.
Path(T, p, v, a, b, c) ==
  /\ a \in T /\ b \in T /\ c \in T
  /\ a.table = p /\ a.index = Index(v, 4)
  /\ b.table = a.addr /\ b.index = Index(v, 3)
  /\ c.table = b.addr /\ c.index = Index(v, 2)
LeafOf(T, p, v, e) ==
  /\ e \in T /\ e.index = Index(v, 1)
  /\ \E a \in T, b \in T, c \in T : Path(T, p, v, a, b, c) /\ e.table = c.addr

\* The tables are a tree of frames that are the kernel's own.
Tree(T, A, p, U) ==
  /\ p \in U /\ p \notin A /\ p \notin T3(T, p) /\ p \notin T2(T, p) /\ p \notin T1(T, p)
  /\ A \subseteq U /\ 0 \notin U /\ \A e \in T : e.table \in U
  /\ \A f \in T3(T, p) \cup T2(T, p) \cup T1(T, p) : f \in U /\ f \notin A
  /\ \A d, e \in T : d.table \in Upper(T, p) /\ e.table \in Upper(T, p) /\ d.addr = e.addr => d = e
  /\ \A d, e \in T : d.table = e.table /\ d.index = e.index => d = e

\* No table is at two levels.
LEMMA LevelsApart ==
  ASSUME NEW T, NEW A, NEW p, NEW U, Tree(T, A, p, U)
  PROVE  /\ T3(T, p) \cap T2(T, p) = {} /\ T3(T, p) \cap T1(T, p) = {} /\ T2(T, p) \cap T1(T, p) = {}
<1>1. \A d, e \in T : d.table \in Upper(T, p) /\ e.table \in Upper(T, p) /\ d.addr = e.addr => d = e
  BY DEF Tree
<1>2. p \notin T3(T, p) /\ p \notin T2(T, p)
  BY DEF Tree
<1>3. ASSUME NEW f \in T3(T, p), f \in T2(T, p) PROVE FALSE
  <2>1. PICK d \in T : d.table = p /\ d.addr = f
    BY <1>3 DEF T3
  <2>2. PICK e \in T : e.table \in T3(T, p) /\ e.addr = f
    BY <1>3 DEF T2
  <2> QED BY <1>1, <1>2, <2>1, <2>2 DEF Upper
<1>4. ASSUME NEW f \in T3(T, p), f \in T1(T, p) PROVE FALSE
  <2>1. PICK d \in T : d.table = p /\ d.addr = f
    BY <1>4 DEF T3
  <2>2. PICK e \in T : e.table \in T2(T, p) /\ e.addr = f
    BY <1>4 DEF T1
  <2> QED BY <1>1, <1>2, <2>1, <2>2 DEF Upper
<1>5. ASSUME NEW f \in T2(T, p), f \in T1(T, p) PROVE FALSE
  <2>1. PICK d \in T : d.table \in T3(T, p) /\ d.addr = f
    BY <1>5 DEF T2
  <2>2. PICK e \in T : e.table \in T2(T, p) /\ e.addr = f
    BY <1>5 DEF T1
  <2>3. d = e
    BY <1>1, <2>1, <2>2 DEF Upper
  <2> QED BY <1>3, <2>1, <2>2, <2>3
<1> QED BY <1>3, <1>4, <1>5

\* A walk goes down one level at a time.
LEMMA PathLevels ==
  ASSUME NEW T, NEW p, NEW v, NEW a, NEW b, NEW c, Path(T, p, v, a, b, c)
  PROVE  /\ a.table = p /\ a.addr \in T3(T, p) /\ b.table \in T3(T, p) /\ b.addr \in T2(T, p)
         /\ c.table \in T2(T, p) /\ c.addr \in T1(T, p)
<1>1. a.table = p /\ a.addr \in T3(T, p) /\ b.table \in T3(T, p)
  BY DEF Path, T3
<1>2. b.addr \in T2(T, p) /\ c.table \in T2(T, p)
  BY <1>1 DEF Path, T2
<1>3. c.addr \in T1(T, p)
  BY <1>2 DEF Path, T1
<1> QED BY <1>1, <1>2, <1>3

\* Two walks that meet in a page table are walks of the same indices.
LEMMA WalksMeet ==
  ASSUME NEW T, NEW A, NEW p, NEW U, Tree(T, A, p, U), NEW u, NEW v,
         NEW a, NEW b, NEW c, Path(T, p, u, a, b, c),
         NEW d, NEW e, NEW f, Path(T, p, v, d, e, f), c.addr = f.addr
  PROVE  Index(u, 4) = Index(v, 4) /\ Index(u, 3) = Index(v, 3) /\ Index(u, 2) = Index(v, 2)
<1>1. \A x, y \in T : x.table \in Upper(T, p) /\ y.table \in Upper(T, p) /\ x.addr = y.addr => x = y
  BY DEF Tree
<1>2. c = f
  BY <1>1, PathLevels DEF Upper, Path
<1>3. b = e
  BY <1>1, <1>2, PathLevels DEF Upper, Path
<1>4. a = d
  BY <1>1, <1>3, PathLevels DEF Upper, Path
<1> QED BY <1>2, <1>3, <1>4 DEF Path

\* A page has one leaf.
LEMMA OneLeaf ==
  ASSUME NEW T, NEW A, NEW p, NEW U, Tree(T, A, p, U), NEW v,
         NEW d, LeafOf(T, p, v, d), NEW e, LeafOf(T, p, v, e)
  PROVE  d = e
<1>1. \A x, y \in T : x.table = y.table /\ x.index = y.index => x = y
  BY DEF Tree
<1>2. PICK a, b, c : Path(T, p, v, a, b, c) /\ d.table = c.addr
  BY DEF LeafOf
<1>3. PICK a1, b1, c1 : Path(T, p, v, a1, b1, c1) /\ e.table = c1.addr
  BY DEF LeafOf
<1>4. a = a1
  BY <1>1, <1>2, <1>3 DEF Path
<1>5. b = b1
  BY <1>1, <1>2, <1>3, <1>4 DEF Path
<1>6. c = c1
  BY <1>1, <1>2, <1>3, <1>5 DEF Path
<1> QED BY <1>1, <1>2, <1>3, <1>6 DEF LeafOf

-----------------------------------------------------------------------------
\* One level down

\* A fresh, zeroed frame f is entered at table t, where nothing was: R from T.
Grown(R, T, t, n, f) ==
  /\ \A e : e \in R <=> (e \in T /\ e.table # f) \/ e = n
  /\ n.table = t /\ n.addr = f

\* The level below t's gains f; the others stay.
LEMMA GrownLevels ==
  ASSUME NEW T, NEW A, NEW p, NEW U, Tree(T, A, p, U),
         NEW R, NEW t, NEW n, NEW f \in A, Grown(R, T, t, n, f), t \in Upper(T, p)
  PROVE  /\ T3(R, p) = T3(T, p) \cup (IF t = p THEN {f} ELSE {})
         /\ T2(R, p) = T2(T, p) \cup (IF t \in T3(T, p) THEN {f} ELSE {})
         /\ T1(R, p) = T1(T, p) \cup (IF t \in T2(T, p) THEN {f} ELSE {})
<1>1. /\ p # f /\ f \notin T3(T, p) /\ f \notin T2(T, p) /\ f \notin T1(T, p) /\ t # f
      /\ p \notin T3(T, p) /\ p \notin T2(T, p)
  BY DEF Tree, Upper
<1>2. T3(T, p) \cap T2(T, p) = {}
  BY LevelsApart
<1>3. ASSUME NEW X, f \notin X
      PROVE  {e.addr : e \in {d \in R : d.table \in X}}
               = {e.addr : e \in {d \in T : d.table \in X}} \cup (IF t \in X THEN {f} ELSE {})
  BY <1>3 DEF Grown
<1>4. \A S : {d \in S : d.table = p} = {d \in S : d.table \in {p}}
  OBVIOUS
<1>5. T3(R, p) = T3(T, p) \cup (IF t = p THEN {f} ELSE {})
  <2>1. t \in {p} <=> t = p
    OBVIOUS
  <2> QED BY <1>1, <1>3, <1>4, <2>1 DEF T3
<1>6. \A X : {d \in R : d.table \in X \cup {f}} = {d \in R : d.table \in X}
  BY <1>1 DEF Grown
<1>7. T2(R, p) = T2(T, p) \cup (IF t \in T3(T, p) THEN {f} ELSE {})
  <2>1. {d \in R : d.table \in T3(R, p)} = {d \in R : d.table \in T3(T, p)}
    BY <1>5, <1>6
  <2> QED BY <1>1, <1>3, <2>1 DEF T2
<1>8. T1(R, p) = T1(T, p) \cup (IF t \in T2(T, p) THEN {f} ELSE {})
  <2>1. {d \in R : d.table \in T2(R, p)} = {d \in R : d.table \in T2(T, p)}
    BY <1>6, <1>7
  <2> QED BY <1>1, <1>3, <2>1 DEF T1
<1> QED BY <1>5, <1>7, <1>8

\* It is still a tree.
LEMMA GrownTree ==
  ASSUME NEW T, NEW A, NEW p, NEW U, Tree(T, A, p, U),
         NEW R, NEW t, NEW n, NEW f \in A, Grown(R, T, t, n, f), t \in Upper(T, p),
         \A e \in T : ~(e.table = t /\ e.index = n.index)
  PROVE  Tree(R, A \ {f}, p, U)
<1>1. /\ p \in U /\ p \notin A /\ p \notin T3(T, p) /\ p \notin T2(T, p) /\ p \notin T1(T, p)
      /\ A \subseteq U /\ 0 \notin U /\ \A e \in T : e.table \in U
      /\ \A g \in T3(T, p) \cup T2(T, p) \cup T1(T, p) : g \in U /\ g \notin A
      /\ \A d, e \in T : d.table \in Upper(T, p) /\ e.table \in Upper(T, p) /\ d.addr = e.addr => d = e
      /\ \A d, e \in T : d.table = e.table /\ d.index = e.index => d = e
  BY DEF Tree
<1>2. /\ \A g \in T3(R, p) : g \in T3(T, p) \/ g = f
      /\ \A g \in T2(R, p) : g \in T2(T, p) \/ g = f
      /\ \A g \in T1(R, p) : g \in T1(T, p) \/ g = f
  BY GrownLevels
<1>3. f \in U /\ f # p
  BY <1>1
<1>4. t \in U
  BY <1>1 DEF Upper
<1>5. /\ \A e \in R : (e \in T /\ e.table # f) \/ e = n
      /\ n.table = t /\ n.addr = f
  BY DEF Grown
<1>6. \A e \in R : e.table \in U
  BY <1>1, <1>4, <1>5
<1>7. \A d, e \in R : d.table = e.table /\ d.index = e.index => d = e
  BY <1>1, <1>5
<1>8. ASSUME NEW d \in R, NEW e \in R, d.table \in Upper(R, p), e.table \in Upper(R, p), d.addr = e.addr
      PROVE  d = e
  <2>1. \A x \in R : x.table \in Upper(R, p) => x = n \/ (x \in T /\ x.table \in Upper(T, p))
    BY <1>2, <1>5 DEF Upper
  <2>2. \A x \in T : x.table \in Upper(T, p) => x.addr \in T3(T, p) \cup T2(T, p) \cup T1(T, p)
    BY DEF Upper, T3, T2, T1
  <2>3. \A x \in T : x.table \in Upper(T, p) => x.addr # f
    BY <1>1, <2>2
  <2> QED BY <1>1, <1>5, <1>8, <2>1, <2>3
<1>9. \A g \in T3(R, p) \cup T2(R, p) \cup T1(R, p) : g \in U /\ g \notin A \ {f}
  BY <1>1, <1>2, <1>3
<1>10. p \notin T3(R, p) /\ p \notin T2(R, p) /\ p \notin T1(R, p)
  BY <1>1, <1>2, <1>3
<1> QED BY <1>1, <1>6, <1>7, <1>8, <1>9, <1>10 DEF Tree

\* Entries of tables stay; an empty table maps nothing.
LEMMA GrownLeaves ==
  ASSUME NEW T, NEW A, NEW p, NEW U, Tree(T, A, p, U),
         NEW R, NEW t, NEW n, NEW f \in A, Grown(R, T, t, n, f), t \in Upper(T, p)
  PROVE  \A u, e : LeafOf(R, p, u, e) <=> LeafOf(T, p, u, e)
<1>1. /\ f # p /\ f \notin T3(T, p) /\ f \notin T2(T, p) /\ f \notin T1(T, p) /\ t # f
      /\ p \notin T1(T, p)
  BY DEF Tree, Upper
<1>2. T3(T, p) \cap T1(T, p) = {} /\ T2(T, p) \cap T1(T, p) = {}
  BY LevelsApart
<1>3. /\ \A e : e \in R <=> (e \in T /\ e.table # f) \/ e = n
      /\ n.table = t /\ n.addr = f
  BY DEF Grown
<1>4. ASSUME NEW u, NEW e, LeafOf(T, p, u, e) PROVE LeafOf(R, p, u, e)
  <2>1. PICK a, b, c : Path(T, p, u, a, b, c) /\ e.table = c.addr
    BY <1>4 DEF LeafOf
  <2>2. a.table # f /\ b.table # f /\ c.table # f /\ e.table # f
    BY <1>1, <2>1, PathLevels
  <2>3. a \in R /\ b \in R /\ c \in R /\ e \in R
    BY <1>3, <1>4, <2>1, <2>2 DEF Path, LeafOf
  <2>4. Path(R, p, u, a, b, c)
    BY <2>1, <2>3 DEF Path
  <2> QED BY <1>4, <2>1, <2>3, <2>4 DEF LeafOf
<1>5. ASSUME NEW u, NEW e, LeafOf(R, p, u, e) PROVE LeafOf(T, p, u, e)
  <2>1. PICK a, b, c : Path(R, p, u, a, b, c) /\ e.table = c.addr
    BY <1>5 DEF LeafOf
  <2>2. \A x \in R : x.table # f
    BY <1>1, <1>3
  <2>3. a # n /\ b # n /\ c # n
    BY <1>3, <1>5, <2>1, <2>2 DEF Path, LeafOf
  <2>4. a \in T /\ b \in T /\ c \in T
    BY <1>3, <2>1, <2>3 DEF Path
  <2>5. Path(T, p, u, a, b, c)
    BY <2>1, <2>4 DEF Path
  <2>6. e.table \in T1(T, p)
    BY <2>1, <2>5, PathLevels
  <2>7. e # n
    BY <1>1, <1>2, <1>3, <2>6 DEF Upper
  <2>8. e \in T
    BY <1>3, <1>5, <2>7 DEF LeafOf
  <2> QED BY <1>5, <2>1, <2>4, <2>5, <2>8 DEF LeafOf
<1> QED BY <1>4, <1>5

\* What next_level does: it keeps the tree, every leaf and the entries of all tables,
\* and it returns NULL or the table the entry points at.
Descended(r, w, i, p, U) ==
  /\ r = [tbl |-> r.tbl, avail |-> r.avail, table |-> r.table]
  /\ Tree(r.tbl, r.avail, p, U)
  /\ \A u, e : LeafOf(r.tbl, p, u, e) <=> LeafOf(w.tbl, p, u, e)
  /\ \A e \in w.tbl : e.table \in Upper(w.tbl, p) => e \in r.tbl
  /\ \/ r.table = 0
     \/ /\ w.table # 0
        /\ \E e \in r.tbl : e.table = w.table /\ e.index = i /\ e.addr = r.table

LEMMA NextLevel ==
  ASSUME NEW w, NEW p, NEW U, NEW i, NEW user, U \in SUBSET Nat,
         w = [tbl |-> w.tbl, avail |-> w.avail, table |-> w.table],
         Tree(w.tbl, w.avail, p, U), w.table = 0 \/ w.table \in Upper(w.tbl, p)
  PROVE  Descended(next_level(w, i, user), w, i, p, U)
<1> SUFFICES ASSUME NEW r, r = next_level(w, i, user) PROVE Descended(r, w, i, p, U)
  OBVIOUS
<1> USE DEF Descended
<1> DEFINE there == EntryAt(w.tbl, w.table, i)
<1>1. 0 \notin U /\ w.avail \subseteq U /\ (\A e \in w.tbl : e.table \in U) /\ Upper(w.tbl, p) \subseteq U
  BY DEF Tree, Upper
<1>2. CASE there # {}
  <2>1. PICK x : x \in there /\ x = (CHOOSE e \in there : TRUE)
    BY <1>2
  <2>2. r = [w EXCEPT !.table = x.addr]
    BY <1>2, <2>1 DEF next_level
  <2>3. r.tbl = w.tbl /\ r.avail = w.avail /\ r.table = x.addr
        /\ r = [tbl |-> r.tbl, avail |-> r.avail, table |-> r.table]
    BY <2>2
  <2>4. x \in w.tbl /\ x.table = w.table /\ x.index = i
    BY <2>1 DEF EntryAt
  <2>5. w.table # 0
    BY <1>1, <2>4
  <2> QED BY <2>3, <2>4, <2>5
<1>3. CASE there = {} /\ w.table # 0 /\ w.avail # {}
  <2> DEFINE f == Min(w.avail)
             n == [table |-> w.table, index |-> i, addr |-> f, write |-> TRUE, user |-> user]
  <2>1. f \in w.avail
    BY <1>1, <1>3, MinNat
  <2> HIDE DEF f
  <2>2. r = NewTable(w, i, f, user)
    BY <1>3 DEF next_level, f
  <2>3. /\ r.tbl = Write(Zeroed(w.tbl, f), w.table, i, f, [write |-> TRUE, user |-> user])
        /\ r.avail = w.avail \ {f} /\ r.table = f
        /\ r = [tbl |-> r.tbl, avail |-> r.avail, table |-> r.table]
    BY <2>2 DEF NewTable
  <2>4. \A e \in w.tbl : ~(e.table = w.table /\ e.index = i)
    BY <1>3 DEF EntryAt
  <2>5. Grown(r.tbl, w.tbl, w.table, n, f)
    <3>1. r.tbl = Zeroed(w.tbl, f) \cup {n}
      BY <2>3, <2>4 DEF Write, EntryAt, Zeroed
    <3> QED BY <3>1 DEF Grown, Zeroed
  <2>6. w.table \in Upper(w.tbl, p) /\ n.index = i /\ n.table = w.table /\ n.addr = f /\ n \in r.tbl
    BY <1>3, <2>5 DEF Grown
  <2> HIDE DEF n
  <2>7. Tree(r.tbl, r.avail, p, U)
    BY <2>1, <2>3, <2>4, <2>5, <2>6, GrownTree
  <2>8. \A u, e : LeafOf(r.tbl, p, u, e) <=> LeafOf(w.tbl, p, u, e)
    BY <2>1, <2>5, <2>6, GrownLeaves
  <2>9. \A e \in w.tbl : e.table \in Upper(w.tbl, p) => e \in r.tbl
    <3>1. f \notin Upper(w.tbl, p)
      BY <2>1 DEF Tree, Upper
    <3> QED BY <2>5, <3>1 DEF Grown
  <2> QED BY <1>3, <2>3, <2>6, <2>7, <2>8, <2>9
<1>4. CASE there = {} /\ ~(w.table # 0 /\ w.avail # {})
  <2>1. r = [w EXCEPT !.table = 0]
    BY <1>4 DEF next_level
  <2>2. r.tbl = w.tbl /\ r.avail = w.avail /\ r.table = 0
        /\ r = [tbl |-> r.tbl, avail |-> r.avail, table |-> r.table]
    BY <2>1
  <2> QED BY <2>2
<1> QED BY <1>2, <1>3, <1>4

\* The creating walk keeps the tree and every leaf, whether it gets to the end or not.
LEMMA WalkDown ==
  ASSUME NEW U, U \in SUBSET Nat, Tree(tbl, avail, kernel_pml4, U),
         NEW v, NEW user, NEW w \in CreatingWalk(v, user)
  PROVE  /\ Tree(w.tbl, w.avail, kernel_pml4, U)
         /\ \A u, e : LeafOf(w.tbl, kernel_pml4, u, e) <=> LeafOf(tbl, kernel_pml4, u, e)
         /\ \/ w.table = 0
            \/ \E a, b, c : Path(w.tbl, kernel_pml4, v, a, b, c) /\ c.addr = w.table
<1> DEFINE p == kernel_pml4
           w4 == [tbl |-> tbl, avail |-> avail, table |-> p]
           w3 == next_level(w4, Index(v, 4), user)
           w2 == next_level(w3, Index(v, 3), user)
<1>1. w = next_level(w2, Index(v, 2), user)
  BY DEF CreatingWalk
<1>2. /\ w4 = [tbl |-> w4.tbl, avail |-> w4.avail, table |-> w4.table]
      /\ w4.tbl = tbl /\ w4.avail = avail /\ w4.table = p /\ w4.table \in Upper(w4.tbl, p)
  BY DEF Upper
<1>3. PICK x3 : x3 = w3
  OBVIOUS
<1>4. PICK x2 : x2 = w2
  OBVIOUS
<1> HIDE DEF w4, w3, w2
<1>5. /\ x3 = [tbl |-> x3.tbl, avail |-> x3.avail, table |-> x3.table]
      /\ Tree(x3.tbl, x3.avail, p, U)
      /\ \A u, e : LeafOf(x3.tbl, p, u, e) <=> LeafOf(tbl, p, u, e)
      /\ x3.table = 0 \/ \E a \in x3.tbl : a.table = p /\ a.index = Index(v, 4) /\ a.addr = x3.table
  <2>1. x3 = next_level(w4, Index(v, 4), user)
    BY <1>3 DEF w3
  <2>2. Descended(x3, w4, Index(v, 4), p, U)
    BY <1>2, <2>1, NextLevel
  <2> QED BY <1>2, <2>2 DEF Descended
<1>6. x3.table = 0 \/ x3.table \in T3(x3.tbl, p)
  BY <1>5 DEF T3
<1>7. /\ x2 = [tbl |-> x2.tbl, avail |-> x2.avail, table |-> x2.table]
      /\ Tree(x2.tbl, x2.avail, p, U)
      /\ \A u, e : LeafOf(x2.tbl, p, u, e) <=> LeafOf(x3.tbl, p, u, e)
      /\ \A e \in x3.tbl : e.table \in Upper(x3.tbl, p) => e \in x2.tbl
      /\ \/ x2.table = 0
         \/ /\ x3.table # 0
            /\ \E b \in x2.tbl : b.table = x3.table /\ b.index = Index(v, 3) /\ b.addr = x2.table
  <2>1. x2 = next_level(x3, Index(v, 3), user)
    BY <1>3, <1>4 DEF w2
  <2>2. x3.table = 0 \/ x3.table \in Upper(x3.tbl, p)
    BY <1>6 DEF Upper
  <2>3. Descended(x2, x3, Index(v, 3), p, U)
    BY <1>5, <2>1, <2>2, NextLevel
  <2> QED BY <2>3 DEF Descended
<1>8. \/ x2.table = 0
      \/ \E a \in x2.tbl, b \in x2.tbl :
           /\ a.table = p /\ a.index = Index(v, 4) /\ b.table = a.addr /\ b.index = Index(v, 3)
           /\ b.addr = x2.table
  BY <1>5, <1>7 DEF Upper
<1>9. /\ x2.table = 0 \/ x2.table \in Upper(x2.tbl, p)
      /\ \A a, b \in x2.tbl : a.table = p /\ b.table = a.addr =>
           a.table \in Upper(x2.tbl, p) /\ b.table \in Upper(x2.tbl, p)
  <2>1. \A a, b \in x2.tbl : a.table = p /\ b.table = a.addr => b.table \in T3(x2.tbl, p)
    BY DEF T3
  <2>2. \A a, b \in x2.tbl : a.table = p /\ b.table = a.addr => b.addr \in T2(x2.tbl, p)
    BY <2>1 DEF T2
  <2> QED BY <1>8, <2>1, <2>2 DEF Upper
<1>10. /\ Tree(w.tbl, w.avail, p, U)
       /\ \A u, e : LeafOf(w.tbl, p, u, e) <=> LeafOf(x2.tbl, p, u, e)
       /\ \A e \in x2.tbl : e.table \in Upper(x2.tbl, p) => e \in w.tbl
       /\ \/ w.table = 0
          \/ /\ x2.table # 0
             /\ \E c \in w.tbl : c.table = x2.table /\ c.index = Index(v, 2) /\ c.addr = w.table
  <2>1. w = next_level(x2, Index(v, 2), user)
    BY <1>1, <1>4
  <2>2. Descended(w, x2, Index(v, 2), p, U)
    BY <1>7, <1>9, <2>1, NextLevel
  <2> QED BY <2>2 DEF Descended
<1>11. \/ w.table = 0
       \/ \E a, b, c : Path(w.tbl, p, v, a, b, c) /\ c.addr = w.table
  <2>1. SUFFICES ASSUME w.table # 0
                 PROVE  \E a, b, c : Path(w.tbl, p, v, a, b, c) /\ c.addr = w.table
    OBVIOUS
  <2>2. PICK c \in w.tbl : c.table = x2.table /\ c.index = Index(v, 2) /\ c.addr = w.table
    BY <1>10, <2>1
  <2>3. PICK a \in x2.tbl, b \in x2.tbl :
           /\ a.table = p /\ a.index = Index(v, 4) /\ b.table = a.addr /\ b.index = Index(v, 3)
           /\ b.addr = x2.table
    BY <1>8, <1>10, <2>1
  <2>4. a \in w.tbl /\ b \in w.tbl
    BY <1>9, <1>10, <2>3
  <2>5. Path(w.tbl, p, v, a, b, c)
    BY <2>2, <2>3, <2>4 DEF Path
  <2> QED BY <2>2, <2>5
<1> QED BY <1>5, <1>7, <1>10, <1>11

-----------------------------------------------------------------------------
\* The leaf

\* Entry i of page table t is written (N has the new entry) or cleared: R from T.
Rewritten(R, T, t, i, N) ==
  /\ \A e : e \in R <=> (e \in T /\ ~(e.table = t /\ e.index = i)) \/ e \in N
  /\ \A n \in N : n.table = t /\ n.index = i
  /\ \A m, n \in N : m = n

\* The tables are the ones they were.
LEMMA RewrittenTree ==
  ASSUME NEW T, NEW A, NEW p, NEW U, Tree(T, A, p, U),
         NEW R, NEW t \in T1(T, p), NEW i, NEW N, Rewritten(R, T, t, i, N)
  PROVE  /\ Tree(R, A, p, U)
         /\ T3(R, p) = T3(T, p) /\ T2(R, p) = T2(T, p) /\ T1(R, p) = T1(T, p)
         /\ \A e \in T : e.table \in Upper(T, p) => e \in R
         /\ \A e \in R : e.table \in Upper(T, p) => e \in T
<1>1. t \notin T3(T, p) /\ t \notin T2(T, p) /\ t # p /\ t \in U
  BY LevelsApart DEF Tree
<1>2. \A X : t \notin X => {d \in R : d.table \in X} = {d \in T : d.table \in X}
  BY DEF Rewritten
<1>3. \A S : {d \in S : d.table = p} = {d \in S : d.table \in {p}}
  OBVIOUS
<1>4. T3(R, p) = T3(T, p)
  BY <1>1, <1>2, <1>3 DEF T3
<1>5. T2(R, p) = T2(T, p)
  BY <1>1, <1>2, <1>4 DEF T2
<1>6. T1(R, p) = T1(T, p)
  BY <1>1, <1>2, <1>5 DEF T1
<1>7. t \notin Upper(T, p) /\ Upper(R, p) = Upper(T, p)
  BY <1>1, <1>4, <1>5 DEF Upper
<1>8. /\ \A e \in T : e.table \in Upper(T, p) => e \in R
      /\ \A e \in R : e.table \in Upper(T, p) => e \in T
  BY <1>7 DEF Rewritten
<1>9. \A e \in R : e.table \in U
  BY <1>1 DEF Rewritten, Tree
<1>10. \A d, e \in R : d.table = e.table /\ d.index = e.index => d = e
  <2>1. \A d, e \in T : d.table = e.table /\ d.index = e.index => d = e
    BY DEF Tree
  <2> QED BY <2>1 DEF Rewritten
<1>11. \A d, e \in R : d.table \in Upper(R, p) /\ e.table \in Upper(R, p) /\ d.addr = e.addr => d = e
  <2>1. \A d, e \in T : d.table \in Upper(T, p) /\ e.table \in Upper(T, p) /\ d.addr = e.addr => d = e
    BY DEF Tree
  <2> QED BY <1>7, <1>8, <2>1
<1>12. Tree(R, A, p, U)
  <2>1. /\ p \in U /\ p \notin A /\ p \notin T3(R, p) /\ p \notin T2(R, p) /\ p \notin T1(R, p)
        /\ A \subseteq U /\ 0 \notin U
        /\ \A f \in T3(R, p) \cup T2(R, p) \cup T1(R, p) : f \in U /\ f \notin A
    BY <1>4, <1>5, <1>6 DEF Tree
  <2> QED BY <1>9, <1>10, <1>11, <2>1 DEF Tree
<1> QED BY <1>4, <1>5, <1>6, <1>8, <1>12

\* No walk changes.
LEMMA RewrittenPaths ==
  ASSUME NEW T, NEW A, NEW p, NEW U, Tree(T, A, p, U),
         NEW R, NEW t \in T1(T, p), NEW i, NEW N, Rewritten(R, T, t, i, N)
  PROVE  \A u, a, b, c : Path(R, p, u, a, b, c) <=> Path(T, p, u, a, b, c)
<1>1. /\ T3(R, p) = T3(T, p) /\ T2(R, p) = T2(T, p)
      /\ \A e \in T : e.table \in Upper(T, p) => e \in R
      /\ \A e \in R : e.table \in Upper(T, p) => e \in T
  BY RewrittenTree
<1>2. ASSUME NEW u, NEW a, NEW b, NEW c, Path(T, p, u, a, b, c) PROVE Path(R, p, u, a, b, c)
  <2>1. a.table \in Upper(T, p) /\ b.table \in Upper(T, p) /\ c.table \in Upper(T, p)
    BY <1>2, PathLevels DEF Upper
  <2> QED BY <1>1, <1>2, <2>1 DEF Path
<1>3. ASSUME NEW u, NEW a, NEW b, NEW c, Path(R, p, u, a, b, c) PROVE Path(T, p, u, a, b, c)
  <2>1. a.table = p /\ b.table \in T3(R, p) /\ c.table \in T2(R, p)
    BY <1>3, PathLevels
  <2>2. a.table \in Upper(T, p) /\ b.table \in Upper(T, p) /\ c.table \in Upper(T, p)
    BY <1>1, <2>1 DEF Upper
  <2> QED BY <1>1, <1>3, <2>2 DEF Path
<1> QED BY <1>2, <1>3

\* v's leaf is the entry written, and no other page's leaf changes.
LEMMA RewrittenLeaves ==
  ASSUME NEW T, NEW A, NEW p, NEW U, Tree(T, A, p, U), NEW v,
         NEW a, NEW b, NEW c, Path(T, p, v, a, b, c),
         NEW R, NEW N, Rewritten(R, T, c.addr, Index(v, 1), N)
  PROVE  /\ Tree(R, A, p, U)
         /\ \A e : LeafOf(R, p, v, e) <=> e \in N
         /\ \A u \in Pages : v \in Pages /\ u # v =>
              \A e : LeafOf(R, p, u, e) <=> LeafOf(T, p, u, e)
<1> DEFINE t == c.addr
           i == Index(v, 1)
<1>1. t \in T1(T, p)
  BY PathLevels
<1>2. Tree(R, A, p, U)
  BY <1>1, RewrittenTree
<1>3. \A u, x, y, z : Path(R, p, u, x, y, z) <=> Path(T, p, u, x, y, z)
  BY <1>1, RewrittenPaths
<1>4. /\ \A e : e \in R <=> (e \in T /\ ~(e.table = t /\ e.index = i)) \/ e \in N
      /\ \A n \in N : n.table = t /\ n.index = i
  BY DEF Rewritten
<1>5. a \in R /\ b \in R /\ c \in R /\ Path(R, p, v, a, b, c)
  <2>1. Path(R, p, v, a, b, c)
    BY <1>3
  <2> QED BY <2>1 DEF Path
<1>6. ASSUME NEW e, e \in N PROVE LeafOf(R, p, v, e)
  BY <1>4, <1>5, <1>6 DEF LeafOf
<1>7. ASSUME NEW e, LeafOf(R, p, v, e) PROVE e \in N
  <2>1. PICK x, y, z : Path(R, p, v, x, y, z) /\ e.table = z.addr
    BY <1>7 DEF LeafOf
  <2>2. x = a /\ y = b /\ z = c
    <3>1. \A d1, e1 \in R : d1.table = e1.table /\ d1.index = e1.index => d1 = e1
      BY <1>2 DEF Tree
    <3>2. x = a
      BY <1>5, <2>1, <3>1 DEF Path
    <3>3. y = b
      BY <1>5, <2>1, <3>1, <3>2 DEF Path
    <3>4. z = c
      BY <1>5, <2>1, <3>1, <3>3 DEF Path
    <3> QED BY <3>2, <3>3, <3>4
  <2> QED BY <1>4, <1>7, <2>1, <2>2 DEF LeafOf
<1>8. ASSUME NEW u \in Pages, v \in Pages, u # v, NEW x, NEW y, NEW z, Path(T, p, u, x, y, z)
      PROVE  ~(z.addr = t /\ Index(u, 1) = i)
  <2>1. SUFFICES ASSUME z.addr = t, Index(u, 1) = i PROVE FALSE
    OBVIOUS
  <2>2. Index(u, 4) = Index(v, 4) /\ Index(u, 3) = Index(v, 3) /\ Index(u, 2) = Index(v, 2)
    BY <1>8, <2>1, WalksMeet
  <2> QED BY <1>8, <2>1, <2>2, Digits
<1>9. ASSUME NEW u \in Pages, v \in Pages, u # v, NEW e, LeafOf(T, p, u, e)
      PROVE  LeafOf(R, p, u, e)
  <2>1. PICK x, y, z : Path(T, p, u, x, y, z) /\ e.table = z.addr
    BY <1>9 DEF LeafOf
  <2>2. ~(e.table = t /\ e.index = i)
    BY <1>8, <1>9, <2>1 DEF LeafOf
  <2>3. Path(R, p, u, x, y, z) /\ e \in R
    BY <1>3, <1>4, <1>9, <2>1, <2>2 DEF LeafOf
  <2> QED BY <1>9, <2>1, <2>3 DEF LeafOf, Path
<1>10. ASSUME NEW u \in Pages, v \in Pages, u # v, NEW e, LeafOf(R, p, u, e)
       PROVE  LeafOf(T, p, u, e)
  <2>1. PICK x, y, z : Path(R, p, u, x, y, z) /\ e.table = z.addr
    BY <1>10 DEF LeafOf
  <2>2. Path(T, p, u, x, y, z)
    BY <1>3, <2>1
  <2>3. e \notin N
    BY <1>4, <1>8, <1>10, <2>1, <2>2 DEF LeafOf
  <2>4. e \in T
    BY <1>4, <1>10, <2>3 DEF LeafOf
  <2> QED BY <1>10, <2>1, <2>2, <2>4 DEF LeafOf, Path
<1> QED BY <1>2, <1>6, <1>7, <1>9, <1>10

-----------------------------------------------------------------------------
\* The inductive invariant

Usable == UsableOf(memmap)

\* vmm_init's mappings, as a set.
HhdmSet(m) == {[virt |-> HHDM_OFFSET + f, phys |-> f, flags |-> Writable] :
                 f \in UNION {HhdmFrames(m[i]) : i \in DOMAIN m}}
ImageSet == {[virt |-> v, phys |-> (v - KERNEL_START) + KERNEL_PHYS,
              flags |-> IF v < DATA_START THEN ReadOnly ELSE Writable] :
               v \in KERNEL_START .. KERNEL_END - 1}
BootSet(m) == HhdmSet(m) \cup ImageSet

\* A mapping that has been made.
Present(m) == \E e \in tbl : /\ LeafOf(tbl, kernel_pml4, m.virt, e)
                             /\ e.addr = m.phys /\ e.write = m.flags.write

\* The frames, the tables and the phases.
TablesInv ==
  /\ memmap \in Memmaps /\ phase \in {"start", "mapping", "live", "panic"}
  /\ avail \subseteq Usable
  /\ phase = "start" => kernel_pml4 = 0
  /\ phase \in {"mapping", "live"} => kernel_pml4 # 0
  /\ kernel_pml4 = 0 =>
       /\ \A e \in tbl : e.table \in Usable
       /\ \A d, e \in tbl : d.table = e.table /\ d.index = e.index => d = e
  /\ kernel_pml4 # 0 => Tree(tbl, avail, kernel_pml4, Usable)

\* The TLB holds leaves of the live tables.
TlbInv ==
  /\ phase # "live" => tlb = {} /\ cr3 = 0
  /\ \A c \in tlb : c.virt \in ClientPages /\ LeafOf(tbl, kernel_pml4, c.virt, c.leaf)

\* What vmm_init has to map is mapped or still to do.
MappedInv ==
  /\ phase = "mapping" =>
       /\ todo \in Seq(BootSet(memmap))
       /\ \A m \in BootSet(memmap) : Present(m) \/ \E k \in 1 .. Len(todo) : todo[k] = m
  /\ phase = "live" =>
       /\ \A m \in BootSet(memmap) : Present(m)
       /\ \E e \in tbl : LeafOf(tbl, kernel_pml4, STACK_PAGE, e)

PagingInv == TablesInv /\ TlbInv /\ MappedInv

-----------------------------------------------------------------------------
\* Frames and vmm_init's mappings

LEMMA UsableFrames ==
  ASSUME NEW m \in Memmaps
  PROVE  UsableOf(m) \in SUBSET Nat /\ 0 \notin UsableOf(m)
<1>1. m \in Seq(Entry) /\ UNITS \in Nat \ {0}
  BY PagingAssumption
<1>2. ASSUME NEW f \in UsableOf(m) PROVE f \in Nat
  <2>1. PICK i \in DOMAIN m : f \in (m[i].base \div UNITS) .. ((m[i].base + m[i].length) \div UNITS - 1)
    BY DEF UsableOf
  <2>2. m[i].base \in Nat /\ m[i].length \in Nat
    <3>1. m[i] \in Entry
      BY <1>1
    <3> QED BY <3>1 DEF Entry
  <2>3. m[i].base \div UNITS \in Nat
    BY <1>1, <2>2
  <2> QED BY <2>1, <2>3
<1> QED BY <1>2, LayoutAssumption

\* The frames of a region, and the pages the HHDM shows them at.
LEMMA HhdmBounds ==
  ASSUME NEW m \in Memmaps, NEW i \in DOMAIN m
  PROVE  /\ m[i].base \in Nat /\ m[i].length \in Nat /\ m[i].base \div UNITS \in Nat
         /\ (m[i].base + m[i].length + UNITS - 1) \div UNITS \in Int
         /\ HhdmFrames(m[i]) \subseteq Nat
<1>1. m \in Seq(Entry) /\ UNITS \in Nat \ {0}
  BY PagingAssumption
<1>2. m[i].base \in Nat /\ m[i].length \in Nat
  <2>1. m[i] \in Entry
    BY <1>1
  <2> QED BY <2>1 DEF Entry
<1>3. m[i].base \div UNITS \in Nat
  BY <1>1, <1>2
<1>4. (m[i].base + m[i].length + UNITS - 1) \div UNITS \in Int
  <2> DEFINE x == m[i].base + m[i].length + UNITS - 1
  <2>1. x \in Nat
    BY <1>1, <1>2
  <2> HIDE DEF x
  <2>2. x \div UNITS \in Int
    BY <1>1, <2>1
  <2> QED BY <2>2 DEF x
<1> QED BY <1>2, <1>3, <1>4 DEF HhdmFrames

\* Every byte the bootloader reported is in a frame of its region's range, and every
\* usable frame is.
LEMMA RegionCovered ==
  ASSUME NEW m \in Memmaps
  PROVE  /\ \A i \in DOMAIN m : \A u \in m[i].base .. m[i].base + m[i].length - 1 :
              u \div UNITS \in HhdmFrames(m[i])
         /\ \A f \in UsableOf(m) : \E i \in DOMAIN m : f \in HhdmFrames(m[i])
<1>1. UNITS \in Nat \ {0}
  BY PagingAssumption
<1>2. ASSUME NEW a \in Nat, NEW b \in Nat, a <= b PROVE a \div UNITS <= b \div UNITS
  BY <1>1, <1>2
<1>3. ASSUME NEW a \in Nat, NEW n \in Nat, NEW u \in a .. a + n - 1
      PROVE  u \div UNITS \in (a \div UNITS) .. ((a + n + UNITS - 1) \div UNITS - 1)
  <2>1. u \in Nat /\ a <= u /\ u + UNITS <= a + n + UNITS - 1 /\ a + n + UNITS - 1 \in Nat
    BY <1>1, <1>3
  <2>2. a \div UNITS <= u \div UNITS
    BY <1>2, <2>1
  <2>3. (u + UNITS) \div UNITS = u \div UNITS + 1
    BY <1>1, <2>1
  <2>4. u \div UNITS + 1 <= (a + n + UNITS - 1) \div UNITS
    BY <1>1, <1>2, <2>1, <2>3
  <2>5. a \div UNITS \in Nat /\ u \div UNITS \in Nat /\ (a + n + UNITS - 1) \div UNITS \in Nat
    BY <1>1, <2>1
  <2> QED BY <2>2, <2>4, <2>5
<1>4. ASSUME NEW i \in DOMAIN m, NEW u \in m[i].base .. m[i].base + m[i].length - 1
      PROVE  u \div UNITS \in HhdmFrames(m[i])
  BY <1>3, <1>4, HhdmBounds DEF HhdmFrames
<1>5. ASSUME NEW f \in UsableOf(m) PROVE \E i \in DOMAIN m : f \in HhdmFrames(m[i])
  <2>1. PICK i \in DOMAIN m : f \in (m[i].base \div UNITS) .. ((m[i].base + m[i].length) \div UNITS - 1)
    BY DEF UsableOf
  <2> DEFINE b == m[i].base + m[i].length
  <2>2. /\ m[i].base \in Nat /\ m[i].length \in Nat /\ m[i].base \div UNITS \in Nat
        /\ b \in Nat /\ b + UNITS - 1 \in Nat /\ b <= b + UNITS - 1
    BY <1>1, HhdmBounds
  <2>3. b \div UNITS <= (b + UNITS - 1) \div UNITS
    BY <1>2, <2>2
  <2>4. b \div UNITS \in Int /\ (b + UNITS - 1) \div UNITS \in Int
    BY <1>1, <2>2
  <2>5. f \in (m[i].base \div UNITS) .. ((b + UNITS - 1) \div UNITS - 1)
    BY <2>1, <2>2, <2>3, <2>4
  <2> QED BY <2>5 DEF HhdmFrames
<1> QED BY <1>4, <1>5

\* A page is in at most one of vmm_init's mappings, and no later caller's.
LEMMA BootPages ==
  ASSUME NEW mm \in Memmaps
  PROVE  /\ \A m \in BootSet(mm) : m.virt \in Pages /\ m.virt \notin ClientPages
         /\ \A m, n \in BootSet(mm) : m.virt = n.virt => m = n
<1>1. /\ KERNEL_START \in Nat /\ KERNEL_END \in Nat /\ DATA_START \in Nat /\ HHDM_OFFSET \in Nat
      /\ KERNEL_START < DATA_START /\ DATA_START <= KERNEL_END
  BY PagingAssumption
<1>2. /\ KERNEL_START .. KERNEL_END - 1 \subseteq Pages /\ KERNEL_START \in Pages
      /\ \A v \in KERNEL_START .. KERNEL_END - 1 : v \notin ClientPages
  BY <1>1, LayoutAssumption
<1>3. ASSUME NEW m \in HhdmSet(mm)
      PROVE  /\ m.phys \in Nat /\ m.virt = HHDM_OFFSET + m.phys /\ m.virt < KERNEL_START
             /\ m.virt \notin ClientPages /\ m.virt \in Pages
             /\ m = [virt |-> m.virt, phys |-> m.phys, flags |-> Writable]
  <2>1. PICK i \in DOMAIN mm : \E f \in HhdmFrames(mm[i]) :
          m = [virt |-> HHDM_OFFSET + f, phys |-> f, flags |-> Writable]
    BY DEF HhdmSet
  <2>2. PICK f \in HhdmFrames(mm[i]) : m = [virt |-> HHDM_OFFSET + f, phys |-> f, flags |-> Writable]
    BY <2>1
  <2>3. f \in Nat /\ HHDM_OFFSET + f < KERNEL_START /\ HHDM_OFFSET + f \notin ClientPages
    BY HhdmBounds, LayoutAssumption
  <2>4. HHDM_OFFSET + f \in Pages
    <3>1. Span[4] * ENTRIES - 1 \in Int
      BY PagingAssumption DEF Span
    <3> QED BY <1>1, <1>2, <2>3, <3>1 DEF Pages
  <2> HIDE DEF Writable
  <2> QED BY <2>2, <2>3, <2>4
<1>4. ASSUME NEW m \in ImageSet
      PROVE  /\ m.virt \in KERNEL_START .. KERNEL_END - 1
             /\ m = [virt |-> m.virt, phys |-> (m.virt - KERNEL_START) + KERNEL_PHYS,
                     flags |-> IF m.virt < DATA_START THEN ReadOnly ELSE Writable]
  <2> HIDE DEF Writable, ReadOnly
  <2> QED BY DEF ImageSet
<1>5. ASSUME NEW m \in BootSet(mm) PROVE m.virt \in Pages /\ m.virt \notin ClientPages
  BY <1>2, <1>3, <1>4, <1>5 DEF BootSet
<1>6. ASSUME NEW m \in BootSet(mm), NEW n \in BootSet(mm), m.virt = n.virt PROVE m = n
  <2>1. CASE m \in HhdmSet(mm) /\ n \in HhdmSet(mm)
    <3>1. m.phys = n.phys
      BY <1>1, <1>3, <1>6, <2>1
    <3> QED BY <1>3, <1>6, <2>1, <3>1
  <2>2. CASE m \in ImageSet /\ n \in ImageSet
    BY <1>4, <1>6, <2>2
  <2>3. CASE m \in HhdmSet(mm) /\ n \in ImageSet
    BY <1>1, <1>3, <1>4, <1>6, <2>3
  <2>4. CASE m \in ImageSet /\ n \in HhdmSet(mm)
    BY <1>1, <1>3, <1>4, <1>6, <2>4
  <2> QED BY <1>6, <2>1, <2>2, <2>3, <2>4 DEF BootSet
<1> QED BY <1>5, <1>6

\* A sequence of the elements of S, all of them.
Lists(q, S) == q \in Seq(S) /\ \A x \in S : \E k \in 1 .. Len(q) : q[k] = x

LEMMA ListsBoth ==
  ASSUME NEW q, NEW r, NEW S, NEW R, Lists(q, S), Lists(r, R)
  PROVE  Lists(q \o r, S \cup R)
<1>1. q \in Seq(S \cup R) /\ r \in Seq(S \cup R) /\ Len(q) \in Nat /\ Len(r) \in Nat
  BY DEF Lists
<1>2. /\ q \o r \in Seq(S \cup R) /\ Len(q \o r) = Len(q) + Len(r)
      /\ \A k \in 1 .. Len(q) : (q \o r)[k] = q[k]
      /\ \A k \in 1 .. Len(r) : (q \o r)[Len(q) + k] = r[k]
  BY <1>1
<1>3. ASSUME NEW x \in S PROVE \E k \in 1 .. Len(q \o r) : (q \o r)[k] = x
  <2>1. PICK k \in 1 .. Len(q) : q[k] = x
    BY DEF Lists
  <2> QED BY <1>1, <1>2, <2>1
<1>4. ASSUME NEW x \in R PROVE \E k \in 1 .. Len(q \o r) : (q \o r)[k] = x
  <2>1. PICK k \in 1 .. Len(r) : r[k] = x
    BY DEF Lists
  <2>2. Len(q) + k \in 1 .. Len(q \o r)
    BY <1>1, <1>2
  <2> QED BY <1>2, <2>1, <2>2
<1> QED BY <1>2, <1>3, <1>4 DEF Lists

\* A range of consecutive values.
LEMMA ListsRange ==
  ASSUME NEW S, NEW n \in Nat, NEW q, q = [k \in 1 .. n |-> q[k]],
         \A k \in 1 .. n : q[k] \in S, \A x \in S : \E k \in 1 .. n : q[k] = x
  PROVE  Lists(q, S)
<1>1. q \in [1 .. n -> S]
  OBVIOUS
<1>2. q \in Seq(S) /\ Len(q) = n
  BY <1>1
<1> QED BY <1>2 DEF Lists

LEMMA ListsHhdm ==
  ASSUME NEW m \in Memmaps, NEW i \in DOMAIN m
  PROVE  Lists(HhdmRange(m[i]),
               {[virt |-> HHDM_OFFSET + f, phys |-> f, flags |-> Writable] : f \in HhdmFrames(m[i])})
<1> DEFINE lo == m[i].base \div UNITS
           hi == (m[i].base + m[i].length + UNITS - 1) \div UNITS - 1
           n == Cardinality(HhdmFrames(m[i]))
           q == HhdmRange(m[i])
           x(f) == [virt |-> HHDM_OFFSET + f, phys |-> f, flags |-> Writable]
<1>1. lo \in Nat /\ hi \in Int /\ HhdmFrames(m[i]) = lo .. hi
  BY HhdmBounds DEF HhdmFrames
<1>2. n = IF lo > hi THEN 0 ELSE (hi - lo) + 1
  BY <1>1, FS_Interval
<1>3. q = [k \in 1 .. n |-> x(lo + k - 1)]
  BY DEF HhdmRange
<1> HIDE DEF lo, hi, n, x, q
<1>4. n \in Nat
  BY <1>1, <1>2
<1>5. q = [k \in 1 .. n |-> q[k]]
  BY <1>3
<1>6. ASSUME NEW k \in 1 .. n PROVE lo + k - 1 \in lo .. hi /\ q[k] = x(lo + k - 1)
  BY <1>1, <1>2, <1>3
<1>7. ASSUME NEW f \in lo .. hi PROVE \E k \in 1 .. n : q[k] = x(f)
  <2>1. (f - lo) + 1 \in 1 .. n /\ lo + ((f - lo) + 1) - 1 = f
    BY <1>1, <1>2
  <2> QED BY <1>3, <2>1
<1>8. Lists(q, {x(f) : f \in lo .. hi})
  <2> DEFINE S == {x(f) : f \in lo .. hi}
  <2>1. \A k \in 1 .. n : q[k] \in S
    BY <1>6
  <2>2. \A y \in S : \E k \in 1 .. n : q[k] = y
    BY <1>7
  <2> HIDE DEF S
  <2>3. Lists(q, S)
    BY <1>4, <1>5, <2>1, <2>2, ListsRange
  <2> QED BY <2>3 DEF S
<1> QED BY <1>1, <1>8 DEF q, x

LEMMA ListsImage ==
  ASSUME NEW s \in Nat, NEW t \in Nat, s <= t, NEW flags
  PROVE  Lists(KernelRange(s, t, flags),
               {[virt |-> v, phys |-> (v - KERNEL_START) + KERNEL_PHYS, flags |-> flags] : v \in s .. t - 1})
<1> DEFINE n == t - s
           q == KernelRange(s, t, flags)
           x(v) == [virt |-> v, phys |-> (v - KERNEL_START) + KERNEL_PHYS, flags |-> flags]
<1>1. q = [k \in 1 .. n |-> x(s + k - 1)]
  BY PagingAssumption DEF KernelRange
<1>2. n \in Nat
  OBVIOUS
<1> HIDE DEF x, q
<1>3. q = [k \in 1 .. n |-> q[k]]
  BY <1>1
<1>4. ASSUME NEW k \in 1 .. n PROVE s + k - 1 \in s .. t - 1 /\ q[k] = x(s + k - 1)
  BY <1>1
<1>5. ASSUME NEW v \in s .. t - 1 PROVE \E k \in 1 .. n : q[k] = x(v)
  <2>1. (v - s) + 1 \in 1 .. n /\ s + ((v - s) + 1) - 1 = v
    OBVIOUS
  <2> QED BY <1>1, <2>1
<1>6. Lists(q, {x(v) : v \in s .. t - 1})
  <2> DEFINE S == {x(v) : v \in s .. t - 1}
  <2>1. \A k \in 1 .. n : q[k] \in S
    BY <1>4
  <2>2. \A y \in S : \E k \in 1 .. n : q[k] = y
    BY <1>5
  <2> HIDE DEF S, n
  <2>3. Lists(q, S)
    BY <1>2, <1>3, <2>1, <2>2, ListsRange
  <2> QED BY <2>3 DEF S
<1> QED BY <1>6 DEF q, x

\* BootMappings lists what is to be mapped and nothing else.
LEMMA BootListed ==
  ASSUME memmap \in Memmaps
  PROVE  Lists(BootMappings, BootSet(memmap))
<1> DEFINE L == Len(memmap)
           x(f) == [virt |-> HHDM_OFFSET + f, phys |-> f, flags |-> Writable]
           S(i) == {x(f) : f \in UNION {HhdmFrames(memmap[j]) : j \in 1 .. i}}
           r(i) == HhdmRange(memmap[i])
           Step(g, n) == [i \in 0 .. n |-> IF i = 0 THEN << >> ELSE g[i - 1] \o r(i)]
           h == CHOOSE g : g = Step(g, L)
<1>1. L \in Nat /\ DOMAIN memmap = 1 .. L
  <2>1. memmap \in Seq(Entry)
    BY PagingAssumption
  <2> QED BY <2>1
<1>2. BootMappings = h[L] \o KernelRange(KERNEL_START, DATA_START, ReadOnly)
                          \o KernelRange(DATA_START, KERNEL_END, Writable)
  BY DEF BootMappings
<1> HIDE DEF L
<1>3. \E g : g = Step(g, L)
  <2> DEFINE Has(n) == \E g : g = Step(g, n)
             B == {n \in 0 .. L : ~Has(n)}
  <2> SUFFICES ASSUME ~Has(L) PROVE FALSE
    OBVIOUS
  <2> HIDE DEF Has
  <2>0. B # {}
    BY <1>1
  <2>1. B \in SUBSET Nat
    BY <1>1
  <2>2. PICK n \in B : \A j \in B : n <= j
    BY <2>0, <2>1, LeastNat
  <2>3. n \in 0 .. L /\ n \in Nat /\ ~Has(n)
    BY <1>1, <2>2
  <2> HIDE DEF r
  <2>4. n # 0
    <3>1. [i \in 0 .. 0 |-> << >>] = Step([i \in 0 .. 0 |-> << >>], 0)
      OBVIOUS
    <3>2. Has(0)
      BY <3>1 DEF Has
    <3> QED BY <2>3, <3>2
  <2>5. n - 1 \in 0 .. L /\ ~(n <= n - 1)
    BY <1>1, <2>3, <2>4
  <2>6. PICK g : g = Step(g, n - 1)
    <3>1. Has(n - 1)
      BY <2>2, <2>5
    <3> QED BY <3>1 DEF Has
  <2>7. \A i \in 0 .. n - 1 : g[i] = IF i = 0 THEN << >> ELSE g[i - 1] \o r(i)
    BY <2>6
  <2> DEFINE G == [i \in 0 .. n |-> IF i = n THEN g[n - 1] \o r(n) ELSE g[i]]
  <2>8. ASSUME NEW i \in 0 .. n PROVE G[i] = IF i = 0 THEN << >> ELSE G[i - 1] \o r(i)
    <3>1. CASE i = n
      <4>1. n - 1 \in 0 .. n /\ n - 1 # n
        BY <2>3, <2>4
      <4> QED BY <2>4, <3>1, <4>1
    <3>2. CASE i # n
      <4>1. i \in 0 .. n - 1 /\ (i # 0 => i - 1 \in 0 .. n /\ i - 1 # n)
        BY <2>3, <3>2
      <4> QED BY <2>7, <3>2, <4>1
    <3> QED BY <3>1, <3>2
  <2>9. G = Step(G, n)
    BY <2>8
  <2> HIDE DEF G
  <2> QED BY <2>3, <2>9 DEF Has
<1>4. h = Step(h, L)
  BY <1>3
<1> HIDE DEF h
<1>5. \A i \in 0 .. L : h[i] = IF i = 0 THEN << >> ELSE h[i - 1] \o r(i)
  BY <1>4
<1>6. \A i \in 0 .. L : Lists(h[i], S(i))
  <2> DEFINE B == {i \in 0 .. L : ~Lists(h[i], S(i))}
  <2> SUFFICES ASSUME B # {} PROVE FALSE
    OBVIOUS
  <2>1. B \in SUBSET Nat
    BY <1>1
  <2>2. PICK i \in B : \A j \in B : i <= j
    BY <2>1, LeastNat
  <2>3. i \in 0 .. L /\ i \in Nat /\ ~Lists(h[i], S(i))
    BY <1>1, <2>2
  <2>4. i # 0
    <3>1. S(0) = {}
      OBVIOUS
    <3>2. h[0] = << >>
      <4> HIDE DEF S, r, x, B
      <4>1. 0 \in 0 .. L
        BY <1>1
      <4> QED BY <1>5, <4>1
    <3>3. Lists(<< >>, {})
      BY DEF Lists
    <3> QED BY <2>3, <3>1, <3>2, <3>3
  <2>5. i - 1 \in 0 .. L /\ ~(i <= i - 1) /\ i \in DOMAIN memmap
    BY <1>1, <2>3, <2>4
  <2>6. Lists(h[i - 1], S(i - 1))
    BY <2>2, <2>5
  <2>7. Lists(r(i), {x(f) : f \in HhdmFrames(memmap[i])})
    BY <2>5, ListsHhdm
  <2>8. S(i) = S(i - 1) \cup {x(f) : f \in HhdmFrames(memmap[i])}
    <3>1. 1 .. i = (1 .. i - 1) \cup {i}
      BY <2>3, <2>4
    <3>2. UNION {HhdmFrames(memmap[j]) : j \in 1 .. i}
            = (UNION {HhdmFrames(memmap[j]) : j \in 1 .. i - 1}) \cup HhdmFrames(memmap[i])
      BY <3>1
    <3> HIDE DEF x
    <3> QED BY <3>2
  <2>9. h[i] = h[i - 1] \o r(i)
    BY <1>5, <2>3, <2>4
  <2> HIDE DEF S, r, x
  <2> QED BY <2>3, <2>6, <2>7, <2>8, <2>9, ListsBoth
<1>7. Lists(h[L], HhdmSet(memmap))
  <2>1. S(L) = HhdmSet(memmap)
    BY <1>1 DEF HhdmSet
  <2> HIDE DEF S
  <2> QED BY <1>1, <1>6, <2>1
<1> DEFINE y(v, flags) == [virt |-> v, phys |-> (v - KERNEL_START) + KERNEL_PHYS, flags |-> flags]
           C == {y(v, ReadOnly) : v \in KERNEL_START .. DATA_START - 1}
           D == {y(v, Writable) : v \in DATA_START .. KERNEL_END - 1}
<1>8. Lists(KernelRange(KERNEL_START, DATA_START, ReadOnly), C)
  BY PagingAssumption, ListsImage
<1>9. Lists(KernelRange(DATA_START, KERNEL_END, Writable), D)
  BY PagingAssumption, ListsImage
<1>10. C \cup D = ImageSet
  <2> DEFINE z(v) == y(v, IF v < DATA_START THEN ReadOnly ELSE Writable)
  <2>1. ImageSet = {z(v) : v \in KERNEL_START .. KERNEL_END - 1}
    BY DEF ImageSet
  <2>2. \A v \in KERNEL_START .. DATA_START - 1 : y(v, ReadOnly) = z(v) /\ v \in KERNEL_START .. KERNEL_END - 1
    BY PagingAssumption
  <2>3. \A v \in DATA_START .. KERNEL_END - 1 : y(v, Writable) = z(v) /\ v \in KERNEL_START .. KERNEL_END - 1
    BY PagingAssumption
  <2>4. \A v \in KERNEL_START .. KERNEL_END - 1 :
          \/ v \in KERNEL_START .. DATA_START - 1
          \/ v \in DATA_START .. KERNEL_END - 1
    BY PagingAssumption
  <2> HIDE DEF y, z
  <2> QED BY <2>1, <2>2, <2>3, <2>4
<1> HIDE DEF C, D
<1>11. Lists(h[L] \o KernelRange(KERNEL_START, DATA_START, ReadOnly), HhdmSet(memmap) \cup C)
  BY <1>7, <1>8, ListsBoth
<1>12. Lists(BootMappings, (HhdmSet(memmap) \cup C) \cup D)
  BY <1>2, <1>9, <1>11, ListsBoth
<1>13. (HhdmSet(memmap) \cup C) \cup D = BootSet(memmap)
  BY <1>10 DEF BootSet
<1> QED BY <1>12, <1>13

-----------------------------------------------------------------------------
\* The model's operators

LEMMA LeavesAre == \A v, e : e \in Leaves(v) <=> LeafOf(tbl, kernel_pml4, v, e)
<1> DEFINE p == kernel_pml4
<1>1. ASSUME NEW T, NEW i, NEW x
      PROVE  x \in Below(T, i) <=> \E e \in tbl : e.table \in T /\ e.index = i /\ e.addr = x
  BY DEF Below, EntryAt
<1>2. ASSUME NEW v, NEW x
      PROVE  x \in PageTable(v) <=> \E a \in tbl, b \in tbl, c \in tbl : Path(tbl, p, v, a, b, c) /\ c.addr = x
  <2>1. ASSUME x \in PageTable(v)
        PROVE  \E a \in tbl, b \in tbl, c \in tbl : Path(tbl, p, v, a, b, c) /\ c.addr = x
    <3>1. PICK c \in tbl : /\ c.table \in Below(Below({p}, Index(v, 4)), Index(v, 3))
                           /\ c.index = Index(v, 2) /\ c.addr = x
      BY <1>1, <2>1 DEF PageTable
    <3>2. PICK b \in tbl : b.table \in Below({p}, Index(v, 4)) /\ b.index = Index(v, 3) /\ b.addr = c.table
      BY <1>1, <3>1
    <3>3. PICK a \in tbl : a.table \in {p} /\ a.index = Index(v, 4) /\ a.addr = b.table
      BY <1>1, <3>2
    <3>4. Path(tbl, p, v, a, b, c)
      BY <3>1, <3>2, <3>3 DEF Path
    <3> QED BY <3>1, <3>4
  <2>2. ASSUME NEW a \in tbl, NEW b \in tbl, NEW c \in tbl, Path(tbl, p, v, a, b, c), c.addr = x
        PROVE  x \in PageTable(v)
    <3>1. b.table \in Below({p}, Index(v, 4))
      BY <1>1, <2>2 DEF Path
    <3>2. c.table \in Below(Below({p}, Index(v, 4)), Index(v, 3))
      BY <1>1, <2>2, <3>1 DEF Path
    <3>3. x \in Below(Below(Below({p}, Index(v, 4)), Index(v, 3)), Index(v, 2))
      BY <1>1, <2>2, <3>2 DEF Path
    <3> QED BY <3>3 DEF PageTable
  <2> QED BY <2>1, <2>2
<1>3. ASSUME NEW v, NEW e
      PROVE  e \in Leaves(v) <=> e \in tbl /\ e.index = Index(v, 1) /\ e.table \in PageTable(v)
  BY DEF Leaves, EntryAt
<1> QED BY <1>2, <1>3 DEF LeafOf

\* What paging_translate sees.
LEMMA Translated ==
  ASSUME NEW U, Tree(tbl, avail, kernel_pml4, U), NEW v
  PROVE  /\ Mapped(v) <=> \E e \in tbl : LeafOf(tbl, kernel_pml4, v, e)
         /\ \A e : LeafOf(tbl, kernel_pml4, v, e) => Leaf(v) = e /\ Leaves(v) = {e}
<1>1. \A d, e : LeafOf(tbl, kernel_pml4, v, d) /\ LeafOf(tbl, kernel_pml4, v, e) => d = e
  BY OneLeaf
<1>2. ASSUME NEW e, LeafOf(tbl, kernel_pml4, v, e) PROVE Leaf(v) = e /\ Leaves(v) = {e}
  <2>1. Leaves(v) = {e}
    BY <1>1, <1>2, LeavesAre
  <2> QED BY <2>1 DEF Leaf
<1>3. Mapped(v) <=> \E e \in tbl : LeafOf(tbl, kernel_pml4, v, e)
  <2>1. \A e : LeafOf(tbl, kernel_pml4, v, e) => e \in tbl
    BY DEF LeafOf
  <2> QED BY <2>1, LeavesAre DEF Mapped
<1> QED BY <1>2, <1>3

\* Only page v's leaf may differ.
OthersKeep(v) ==
  \A u \in Pages : u # v =>
    \A e : LeafOf(tbl', kernel_pml4, u, e) <=> LeafOf(tbl, kernel_pml4, u, e)

\* What paging_map does, whether it succeeds or runs out of frames half-way.
MapDone(v, phys, flags, ok, U) ==
  /\ Tree(tbl', avail', kernel_pml4, U) /\ OthersKeep(v)
  /\ ok => /\ \E e \in tbl' : LeafOf(tbl', kernel_pml4, v, e) /\ e.addr = phys /\ e.write = flags.write
           /\ tlb' = Invlpg(v)
  /\ ~ok => /\ \A e : LeafOf(tbl', kernel_pml4, v, e) <=> LeafOf(tbl, kernel_pml4, v, e)
            /\ tlb' = tlb

LEMMA MapStep ==
  ASSUME NEW U, U \in SUBSET Nat, Tree(tbl, avail, kernel_pml4, U),
         NEW v \in Pages, NEW phys, NEW flags, NEW ok \in BOOLEAN, paging_map(v, phys, flags, ok)
  PROVE  MapDone(v, phys, flags, ok, U)
<1> USE DEF MapDone
<1> DEFINE p == kernel_pml4
<1>1. PICK w \in CreatingWalk(v, flags.user) :
        /\ ok = (w.table # 0) /\ avail' = w.avail
        /\ IF ok THEN /\ tbl' = Write(w.tbl, w.table, Index(v, 1), phys, flags)
                      /\ tlb' = Invlpg(v)
           ELSE tbl' = w.tbl /\ UNCHANGED tlb
  BY DEF paging_map
<1>2. /\ Tree(w.tbl, w.avail, p, U)
      /\ \A u, e : LeafOf(w.tbl, p, u, e) <=> LeafOf(tbl, p, u, e)
      /\ w.table = 0 \/ \E a, b, c : Path(w.tbl, p, v, a, b, c) /\ c.addr = w.table
  BY WalkDown
<1>3. CASE ~ok
  <2>1. tbl' = w.tbl /\ tlb' = tlb /\ avail' = w.avail
    BY <1>1, <1>3
  <2> QED BY <1>2, <1>3, <2>1 DEF OthersKeep
<1>4. CASE ok
  <2>1. tbl' = Write(w.tbl, w.table, Index(v, 1), phys, flags) /\ tlb' = Invlpg(v) /\ w.table # 0
    BY <1>1, <1>4
  <2>2. PICK a, b, c : Path(w.tbl, p, v, a, b, c) /\ c.addr = w.table
    BY <1>2, <2>1
  <2> DEFINE n == [table |-> w.table, index |-> Index(v, 1), addr |-> phys,
                   write |-> flags.write, user |-> flags.user]
  <2>3. Rewritten(tbl', w.tbl, c.addr, Index(v, 1), {n})
    BY <2>1, <2>2 DEF Rewritten, Write, EntryAt
  <2>4. n.addr = phys /\ n.write = flags.write
    OBVIOUS
  <2> HIDE DEF n
  <2>5. /\ Tree(tbl', w.avail, p, U)
        /\ \A e : LeafOf(tbl', p, v, e) <=> e \in {n}
        /\ \A u \in Pages : v \in Pages /\ u # v =>
             \A e : LeafOf(tbl', p, u, e) <=> LeafOf(w.tbl, p, u, e)
    <3>1. PICK T, A, N, R : T = w.tbl /\ A = w.avail /\ N = {n} /\ R = tbl'
      OBVIOUS
    <3>2. Tree(T, A, p, U) /\ Path(T, p, v, a, b, c) /\ Rewritten(R, T, c.addr, Index(v, 1), N)
      BY <1>2, <2>2, <2>3, <3>1
    <3> HIDE DEF p
    <3>3. /\ Tree(R, A, p, U)
          /\ \A e : LeafOf(R, p, v, e) <=> e \in N
          /\ \A u \in Pages : v \in Pages /\ u # v =>
               \A e : LeafOf(R, p, u, e) <=> LeafOf(T, p, u, e)
      BY <3>2, RewrittenLeaves
    <3> QED BY <3>1, <3>3
  <2>6. LeafOf(tbl', p, v, n) /\ n \in tbl'
    BY <2>5 DEF LeafOf
  <2> QED BY <1>1, <1>2, <1>4, <2>1, <2>4, <2>5, <2>6 DEF OthersKeep
<1> QED BY <1>3, <1>4

\* paging_unmap.
LEMMA UnmapStep ==
  ASSUME NEW U, Tree(tbl, avail, kernel_pml4, U), NEW v \in Pages, paging_unmap(v)
  PROVE  /\ Tree(tbl', avail, kernel_pml4, U) /\ OthersKeep(v)
         /\ \A e : ~LeafOf(tbl', kernel_pml4, v, e)
         /\ tlb' = Invlpg(v) \/ (tlb' = tlb /\ tbl' = tbl)
<1> DEFINE p == kernel_pml4
<1>1. CASE Mapped(v)
  <2>1. PICK l \in tbl : LeafOf(tbl, p, v, l)
    BY <1>1, Translated
  <2>2. tbl' = tbl \ {l} /\ tlb' = Invlpg(v)
    BY <1>1, <2>1, Translated DEF paging_unmap
  <2>3. PICK a, b, c : Path(tbl, p, v, a, b, c) /\ l.table = c.addr /\ l.index = Index(v, 1)
    BY <2>1 DEF LeafOf
  <2>4. \A e \in tbl : e.table = c.addr /\ e.index = Index(v, 1) => e = l
    BY <2>1, <2>3 DEF Tree
  <2>5. Rewritten(tbl', tbl, c.addr, Index(v, 1), {})
    BY <2>2, <2>3, <2>4 DEF Rewritten
  <2>6. /\ Tree(tbl', avail, p, U)
        /\ \A e : LeafOf(tbl', p, v, e) <=> e \in {}
        /\ \A u \in Pages : v \in Pages /\ u # v =>
             \A e : LeafOf(tbl', p, u, e) <=> LeafOf(tbl, p, u, e)
    BY <2>3, <2>5, RewrittenLeaves
  <2> QED BY <2>2, <2>6 DEF OthersKeep
<1>2. CASE ~Mapped(v)
  <2>1. tbl' = tbl /\ tlb' = tlb
    BY <1>2 DEF paging_unmap
  <2>2. \A e : ~LeafOf(tbl, p, v, e)
    BY <1>2, Translated DEF LeafOf
  <2> QED BY <2>1, <2>2 DEF OthersKeep
<1> QED BY <1>1, <1>2

-----------------------------------------------------------------------------
\* Every step preserves the invariant

\* A page mapped or unmapped in a tree: what is left of the invariant.
LEMMA TablesStep ==
  ASSUME TablesInv, kernel_pml4 # 0, memmap' = memmap, kernel_pml4' = kernel_pml4,
         Tree(tbl', avail', kernel_pml4, Usable), phase' \in {"mapping", "live", "panic"}
  PROVE  TablesInv'
<1>1. Usable' = Usable
  BY DEF Usable
<1>2. avail' \subseteq Usable
  BY DEF Tree
<1> QED BY <1>1, <1>2 DEF TablesInv

\* A mapping of another page stays.
LEMMA PresentKept ==
  ASSUME NEW v, OthersKeep(v), kernel_pml4' = kernel_pml4
  PROVE  /\ \A m : m.virt \in Pages /\ m.virt # v /\ Present(m) => Present(m)'
         /\ \A u \in Pages : u # v /\ (\E e \in tbl : LeafOf(tbl, kernel_pml4, u, e)) =>
              \E e \in tbl' : LeafOf(tbl', kernel_pml4, u, e)
<1>1. \A u, e : LeafOf(tbl', kernel_pml4, u, e) => e \in tbl'
  BY DEF LeafOf
<1> QED BY <1>1 DEF OthersKeep, Present

LEMMA InitPagingInv == Init => PagingInv
<1> SUFFICES ASSUME Init PROVE PagingInv
  OBVIOUS
<1>1. /\ memmap \in Memmaps /\ phase = "start" /\ kernel_pml4 = 0 /\ cr3 = 0 /\ tlb = {}
      /\ avail \subseteq Usable
  BY DEF Init, Usable
<1>2. \A e \in tbl : \E f \in Usable :
        e = [table |-> f, index |-> 0, addr |-> f, write |-> TRUE, user |-> FALSE]
  BY DEF Init, Usable
<1>3. /\ \A e \in tbl : e.table \in Usable
      /\ \A d, e \in tbl : d.table = e.table /\ d.index = e.index => d = e
  <2> DEFINE x(f) == [table |-> f, index |-> 0, addr |-> f, write |-> TRUE, user |-> FALSE]
  <2>1. \A f : x(f).table = f
    OBVIOUS
  <2>2. \A e \in tbl : \E f \in Usable : e = x(f)
    BY <1>2
  <2> HIDE DEF x
  <2> QED BY <2>1, <2>2
<1> QED BY <1>1, <1>3 DEF PagingInv, TablesInv, TlbInv, MappedInv

LEMMA BeginInv ==
  ASSUME PagingInv, vmm_init_begin
  PROVE  PagingInv'
<1>1. /\ phase = "start" /\ memmap' = memmap /\ memmap \in Memmaps /\ cr3' = cr3 /\ tlb' = tlb
      /\ kernel_pml4 = 0 /\ tlb = {} /\ cr3 = 0 /\ avail \subseteq Usable
      /\ \A e \in tbl : e.table \in Usable
      /\ \A d, e \in tbl : d.table = e.table /\ d.index = e.index => d = e
  BY DEF vmm_init_begin, PagingInv, TablesInv, TlbInv
<1>2. Usable' = Usable /\ Usable \in SUBSET Nat /\ 0 \notin Usable
  BY <1>1, UsableFrames DEF Usable
<1>3. CASE avail = {}
  <2>1. phase' = "panic" /\ avail' = avail /\ kernel_pml4' = kernel_pml4 /\ tbl' = tbl
    BY <1>3 DEF vmm_init_begin
  <2> QED BY <1>1, <1>2, <2>1 DEF PagingInv, TablesInv, TlbInv, MappedInv
<1>4. CASE avail # {}
  <2> DEFINE f == Min(avail)
  <2>1. f \in avail /\ f \in Usable /\ f # 0
    <3>1. avail \in SUBSET Nat
      BY <1>1, <1>2
    <3>2. f \in avail
      BY <1>4, <3>1, MinNat
    <3> QED BY <1>1, <1>2, <3>2
  <2>2. /\ phase' = "mapping" /\ kernel_pml4' = f /\ avail' = avail \ {f} /\ tbl' = Zeroed(tbl, f)
        /\ todo' = BootMappings
    BY <1>4 DEF vmm_init_begin
  <2> HIDE DEF f
  <2>3. \A e : e \in tbl' <=> e \in tbl /\ e.table # f
    BY <2>2 DEF Zeroed
  <2>4. T3(tbl', f) = {} /\ T2(tbl', f) = {} /\ T1(tbl', f) = {}
    <3>1. T3(tbl', f) = {}
      BY <2>3 DEF T3
    <3>2. T2(tbl', f) = {}
      BY <3>1 DEF T2
    <3> QED BY <3>1, <3>2 DEF T1
  <2>5. Tree(tbl', avail', f, Usable)
    <3>1. Upper(tbl', f) = {f}
      BY <2>4 DEF Upper
    <3>2. \A e \in tbl' : e.table # f /\ e.table \in Usable
      BY <1>1, <2>3
    <3>3. \A d, e \in tbl' : d.table = e.table /\ d.index = e.index => d = e
      BY <1>1, <2>3
    <3> QED BY <1>1, <1>2, <2>1, <2>2, <2>4, <3>1, <3>2, <3>3 DEF Tree
  <2>6. TablesInv'
    BY <1>1, <1>2, <2>1, <2>2, <2>5 DEF TablesInv
  <2>7. TlbInv'
    BY <1>1, <2>2 DEF TlbInv
  <2>8. MappedInv'
    <3>1. Lists(todo', BootSet(memmap'))
      BY <1>1, <2>2, BootListed
    <3> QED BY <2>2, <3>1 DEF MappedInv, Lists
  <2> QED BY <2>6, <2>7, <2>8 DEF PagingInv
<1> QED BY <1>3, <1>4

LEMMA InitMapInv ==
  ASSUME PagingInv, vmm_init_map
  PROVE  PagingInv'
<1>1. /\ phase = "mapping" /\ todo # << >> /\ todo' = Tail(todo)
      /\ memmap' = memmap /\ kernel_pml4' = kernel_pml4 /\ cr3' = cr3
      /\ memmap \in Memmaps /\ kernel_pml4 # 0 /\ Tree(tbl, avail, kernel_pml4, Usable)
      /\ tlb = {} /\ cr3 = 0 /\ todo \in Seq(BootSet(memmap))
      /\ \A m \in BootSet(memmap) : Present(m) \/ \E k \in 1 .. Len(todo) : todo[k] = m
  BY DEF vmm_init_map, PagingInv, TablesInv, TlbInv, MappedInv
<1> DEFINE h == Head(todo)
<1>2. /\ h \in BootSet(memmap) /\ Tail(todo) \in Seq(BootSet(memmap))
      /\ \A k \in 1 .. Len(todo) : todo[k] = h \/ \E j \in 1 .. Len(Tail(todo)) : Tail(todo)[j] = todo[k]
  <2>1. /\ Len(todo) \in Nat \ {0} /\ h \in BootSet(memmap) /\ h = todo[1]
        /\ Tail(todo) \in Seq(BootSet(memmap)) /\ Len(Tail(todo)) = Len(todo) - 1
        /\ \A j \in 1 .. Len(Tail(todo)) : Tail(todo)[j] = todo[j + 1]
    BY <1>1, HeadTailProperties
  <2>2. ASSUME NEW k \in 1 .. Len(todo), k # 1
        PROVE  \E j \in 1 .. Len(Tail(todo)) : Tail(todo)[j] = todo[k]
    <3>1. k - 1 \in 1 .. Len(Tail(todo)) /\ (k - 1) + 1 = k
      BY <2>1, <2>2
    <3> QED BY <2>1, <3>1
  <2> QED BY <2>1, <2>2
<1> HIDE DEF h
<1>3. PICK ok \in BOOLEAN : /\ paging_map(h.virt, h.phys, h.flags, ok)
                            /\ phase' = IF ok THEN phase ELSE "panic"
  BY DEF vmm_init_map, h
<1>4. h.virt \in Pages /\ \A m \in BootSet(memmap) : m.virt \in Pages /\ (m.virt = h.virt => m = h)
  BY <1>1, <1>2, BootPages
<1>5. Usable \in SUBSET Nat
  BY <1>1, UsableFrames DEF Usable
<1>6. /\ Tree(tbl', avail', kernel_pml4, Usable) /\ OthersKeep(h.virt)
      /\ ok => /\ \E e \in tbl' : LeafOf(tbl', kernel_pml4, h.virt, e) /\ e.addr = h.phys /\ e.write = h.flags.write
               /\ tlb' = Invlpg(h.virt)
      /\ ~ok => tlb' = tlb
  <2>1. MapDone(h.virt, h.phys, h.flags, ok, Usable)
    BY <1>1, <1>3, <1>4, <1>5, MapStep
  <2> QED BY <2>1 DEF MapDone
<1>7. phase' \in {"mapping", "panic"} /\ (phase' = "mapping" => ok)
  BY <1>1, <1>3
<1>8. TablesInv'
  BY <1>1, <1>6, <1>7, TablesStep DEF PagingInv
<1>9. TlbInv'
  <2>1. tlb' = {}
    BY <1>1, <1>6 DEF Invlpg
  <2> QED BY <1>1, <1>7, <2>1 DEF TlbInv
<1>10. ASSUME ok, NEW m \in BootSet(memmap)
       PROVE  Present(m)' \/ \E k \in 1 .. Len(todo') : todo'[k] = m
  <2>1. CASE m = h
    BY <1>1, <1>6, <1>10, <2>1 DEF Present
  <2>2. CASE m # h
    <3>1. m.virt # h.virt /\ m.virt \in Pages
      BY <1>4, <2>2
    <3>2. Present(m) => Present(m)'
      BY <1>1, <1>6, <3>1, PresentKept
    <3> QED BY <1>1, <1>2, <2>2, <3>2
  <2> QED BY <2>1, <2>2
<1>11. MappedInv'
  BY <1>1, <1>2, <1>7, <1>10 DEF MappedInv
<1> QED BY <1>8, <1>9, <1>11 DEF PagingInv

LEMMA SwitchInv ==
  ASSUME PagingInv, vmm_init_switch
  PROVE  PagingInv'
<1>1. /\ phase = "mapping" /\ todo = << >> /\ memmap' = memmap /\ avail' = avail
      /\ kernel_pml4' = kernel_pml4 /\ tbl' = tbl /\ kernel_pml4 # 0
      /\ Tree(tbl, avail, kernel_pml4, Usable) /\ tlb = {} /\ cr3 = 0
      /\ \A m \in BootSet(memmap) : Present(m) \/ \E k \in 1 .. Len(todo) : todo[k] = m
  BY DEF vmm_init_switch, PagingInv, TablesInv, TlbInv, MappedInv
<1>2. phase' \in {"live", "panic"} /\ tlb' = {} /\ (phase' = "panic" => cr3' = cr3)
  BY <1>1 DEF vmm_init_switch
<1>3. TablesInv'
  BY <1>1, <1>2, TablesStep DEF PagingInv
<1>4. TlbInv'
  BY <1>1, <1>2 DEF TlbInv
<1>5. \A m \in BootSet(memmap) : Present(m)'
  <2>1. Len(todo) = 0
    BY <1>1
  <2> QED BY <1>1, <2>1 DEF Present
<1>6. phase' = "live" => \E e \in tbl : LeafOf(tbl, kernel_pml4, STACK_PAGE, e)
  BY <1>1, Translated DEF vmm_init_switch, paging_can_switch_to
<1>7. MappedInv'
  BY <1>1, <1>2, <1>5, <1>6 DEF MappedInv
<1> QED BY <1>3, <1>4, <1>7 DEF PagingInv

\* A later caller maps or unmaps page v.
LEMMA ClientInv ==
  ASSUME PagingInv, NEW v \in ClientPages, phase = "live",
         UNCHANGED <<memmap, phase, todo, kernel_pml4, cr3>>,
         Tree(tbl', avail', kernel_pml4, Usable), OthersKeep(v),
         \/ tlb' = Invlpg(v)
         \/ /\ tlb' = tlb
            /\ \A e : LeafOf(tbl', kernel_pml4, v, e) <=> LeafOf(tbl, kernel_pml4, v, e)
  PROVE  PagingInv'
<1>1. /\ memmap \in Memmaps /\ kernel_pml4 # 0
      /\ \A c \in tlb : c.virt \in ClientPages /\ LeafOf(tbl, kernel_pml4, c.virt, c.leaf)
      /\ \A m \in BootSet(memmap) : Present(m)
      /\ \E e \in tbl : LeafOf(tbl, kernel_pml4, STACK_PAGE, e)
  BY DEF PagingInv, TablesInv, TlbInv, MappedInv
<1>2. ClientPages \subseteq Pages /\ STACK_PAGE \in Pages /\ STACK_PAGE # v
  BY LayoutAssumption
<1>3. TablesInv'
  BY <1>1, TablesStep DEF PagingInv
<1>4. TlbInv'
  <2>1. ASSUME NEW c \in tlb' PROVE c.virt \in ClientPages /\ LeafOf(tbl', kernel_pml4, c.virt, c.leaf)
    <3>1. c \in tlb
      BY DEF Invlpg
    <3>2. CASE c.virt = v
      <4>1. tlb' # Invlpg(v)
        BY <3>2 DEF Invlpg
      <4> QED BY <1>1, <3>1, <3>2, <4>1
    <3>3. CASE c.virt # v
      BY <1>1, <1>2, <3>1, <3>3 DEF OthersKeep
    <3> QED BY <3>2, <3>3
  <2> QED BY <2>1 DEF TlbInv
<1>5. MappedInv'
  <2>1. \A m \in BootSet(memmap) : m.virt \in Pages /\ m.virt # v
    BY <1>1, BootPages
  <2>2. \A m \in BootSet(memmap) : Present(m)'
    BY <1>1, <2>1, PresentKept
  <2>3. \E e \in tbl' : LeafOf(tbl', kernel_pml4, STACK_PAGE, e)
    BY <1>1, <1>2, PresentKept
  <2> QED BY <2>2, <2>3 DEF MappedInv
<1> QED BY <1>3, <1>4, <1>5 DEF PagingInv

LEMMA CallInv ==
  ASSUME PagingInv, NEW v \in ClientPages,
         vmm_unmap(v) \/ \E phys \in ClientFrames, flags \in ClientFlags : vmm_map(v, phys, flags)
  PROVE  PagingInv' /\ OthersKeep(v) /\ kernel_pml4 # 0
<1>1. /\ phase = "live" /\ UNCHANGED <<memmap, phase, todo, kernel_pml4, cr3>>
  BY DEF vmm_unmap, vmm_map
<1>2. v \in Pages /\ kernel_pml4 # 0 /\ Tree(tbl, avail, kernel_pml4, Usable) /\ Usable \in SUBSET Nat
  BY <1>1, LayoutAssumption, UsableFrames DEF PagingInv, TablesInv, Usable
<1>3. CASE vmm_unmap(v)
  <2>1. paging_unmap(v) /\ avail' = avail
    BY <1>3 DEF vmm_unmap
  <2>2. /\ Tree(tbl', avail', kernel_pml4, Usable) /\ OthersKeep(v)
        /\ tlb' = Invlpg(v) \/ (tlb' = tlb /\ tbl' = tbl)
    BY <1>2, <2>1, UnmapStep
  <2> QED BY <1>1, <1>2, <2>2, ClientInv
<1>4. CASE \E phys \in ClientFrames, flags \in ClientFlags : vmm_map(v, phys, flags)
  <2>1. PICK phys \in ClientFrames, flags \in ClientFlags, ok \in BOOLEAN : paging_map(v, phys, flags, ok)
    BY <1>4 DEF vmm_map
  <2>2. /\ Tree(tbl', avail', kernel_pml4, Usable) /\ OthersKeep(v)
        /\ ok => tlb' = Invlpg(v)
        /\ ~ok => /\ \A e : LeafOf(tbl', kernel_pml4, v, e) <=> LeafOf(tbl, kernel_pml4, v, e)
                  /\ tlb' = tlb
    <3>1. MapDone(v, phys, flags, ok, Usable)
      BY <1>2, <2>1, MapStep
    <3> QED BY <3>1 DEF MapDone
  <2> QED BY <1>1, <1>2, <2>2, ClientInv
<1> QED BY <1>3, <1>4

LEMMA FillInv ==
  ASSUME PagingInv, NEW v \in ClientPages, tlb_fill(v)
  PROVE  PagingInv'
<1>1. /\ phase = "live" /\ Mapped(v) /\ tlb' = Invlpg(v) \cup {[virt |-> v, leaf |-> Leaf(v)]}
      /\ UNCHANGED <<memmap, phase, todo, avail, kernel_pml4, tbl, cr3>>
      /\ kernel_pml4 # 0 /\ Tree(tbl, avail, kernel_pml4, Usable)
  BY DEF tlb_fill, PagingInv, TablesInv
<1>2. LeafOf(tbl, kernel_pml4, v, Leaf(v))
  BY <1>1, Translated
<1>3. TablesInv' /\ MappedInv'
  BY <1>1 DEF PagingInv, TablesInv, MappedInv, Present, Usable
<1>4. \A c \in tlb' : c.virt \in ClientPages /\ LeafOf(tbl, kernel_pml4, c.virt, c.leaf)
  BY <1>1, <1>2 DEF PagingInv, TlbInv, Invlpg
<1>5. TlbInv'
  BY <1>1, <1>4 DEF TlbInv
<1> QED BY <1>3, <1>5 DEF PagingInv

LEMMA NextPagingInv == PagingInv /\ [Next]_vars => PagingInv'
<1> SUFFICES ASSUME PagingInv, [Next]_vars PROVE PagingInv'
  OBVIOUS
<1>1. CASE vmm_init_begin \/ vmm_init_map \/ vmm_init_switch
  BY <1>1, BeginInv, InitMapInv, SwitchInv
<1>2. CASE \E v \in ClientPages :
             \/ \E phys \in ClientFrames, flags \in ClientFlags : vmm_map(v, phys, flags)
             \/ vmm_unmap(v)
  BY <1>2, CallInv
<1>3. CASE \E v \in ClientPages : tlb_fill(v)
  BY <1>3, FillInv
<1>4. CASE Panicked \/ UNCHANGED vars
  BY <1>4 DEF Panicked, vars, PagingInv, TablesInv, TlbInv, MappedInv, Present, Usable
<1> QED BY <1>1, <1>2, <1>3, <1>4 DEF Next

-----------------------------------------------------------------------------
\* The theorems

\* The inductive invariant holds, for every memory map and whenever the frames run out.
THEOREM PagingInvariant == Spec => []PagingInv
BY InitPagingInv, NextPagingInv, PTL DEF Spec

\* The levels of the model are those of the proofs.
LEMMA LevelsAre ==
  /\ Level3 = T3(tbl, kernel_pml4) /\ Level2 = T2(tbl, kernel_pml4) /\ Level1 = T1(tbl, kernel_pml4)
<1>1. Level3 = T3(tbl, kernel_pml4)
  BY DEF Level3, TablesBelow, T3
<1>2. Level2 = T2(tbl, kernel_pml4)
  BY <1>1 DEF Level2, TablesBelow, T2
<1> QED BY <1>1, <1>2 DEF Level1, TablesBelow, T1

\* Without a top-level table there is nothing to walk.
LEMMA NoTables ==
  ASSUME TablesInv, kernel_pml4 = 0
  PROVE  /\ T3(tbl, 0) = {} /\ T2(tbl, 0) = {} /\ T1(tbl, 0) = {}
         /\ \A e \in tbl : e.table # 0
         /\ \A v, e : ~LeafOf(tbl, 0, v, e)
<1>1. \A e \in tbl : e.table # 0
  BY UsableFrames DEF TablesInv, Usable
<1>2. T3(tbl, 0) = {}
  BY <1>1 DEF T3
<1>3. T2(tbl, 0) = {}
  BY <1>2 DEF T2
<1>4. T1(tbl, 0) = {}
  BY <1>3 DEF T1
<1>5. \A v, e : ~LeafOf(tbl, 0, v, e)
  BY <1>1 DEF LeafOf, Path
<1> QED BY <1>1, <1>2, <1>3, <1>4, <1>5

\* The page tables are a tree of the kernel's own frames.
THEOREM TreeKept == Spec => []TablesFormTree
<1>1. ASSUME PagingInv PROVE TablesFormTree
  <2> DEFINE p == kernel_pml4
             X == {p} \cup T3(tbl, p) \cup T2(tbl, p)
  <2>1. CASE kernel_pml4 = 0
    <3>1. /\ T3(tbl, p) = {} /\ T2(tbl, p) = {} /\ T1(tbl, p) = {} /\ \A e \in tbl : e.table # 0
      BY <1>1, <2>1, NoTables DEF PagingInv
    <3> QED BY <2>1, <3>1, LevelsAre DEF TablesFormTree, Tables
  <2>2. CASE kernel_pml4 # 0
    <3>1. Tree(tbl, avail, p, Usable)
      BY <1>1, <2>2 DEF PagingInv, TablesInv
    <3>2. Tables = {p} \cup T3(tbl, p) \cup T2(tbl, p) \cup T1(tbl, p)
      BY <2>2, LevelsAre DEF Tables
    <3>3. \A t \in Tables : t \notin avail /\ t \in UsableOf(memmap)
      BY <3>1, <3>2 DEF Tree, Usable
    <3>4. \A d, e \in tbl : d.table \in X /\ e.table \in X /\ d.addr = e.addr => d = e
      BY <3>1 DEF Tree, Upper
    <3>5. p \notin T3(tbl, p) \cup T2(tbl, p) \cup T1(tbl, p)
      BY <3>1 DEF Tree
    <3> QED BY <3>3, <3>4, <3>5, LevelsAre DEF TablesFormTree
  <2> QED BY <2>1, <2>2
<1> QED BY <1>1, PagingInvariant, PTL

\* The CPU never uses a translation the tables no longer hold.
THEOREM TlbKept == Spec => []TlbCoherent
<1>1. ASSUME PagingInv PROVE TlbCoherent
  <2>1. SUFFICES ASSUME NEW c \in tlb PROVE Mapped(c.virt) /\ c.leaf = Leaf(c.virt)
    BY DEF TlbCoherent
  <2>2. phase = "live" /\ LeafOf(tbl, kernel_pml4, c.virt, c.leaf)
    BY <1>1 DEF PagingInv, TlbInv
  <2>3. Tree(tbl, avail, kernel_pml4, Usable)
    BY <1>1, <2>2 DEF PagingInv, TablesInv
  <2>4. c.leaf \in tbl
    BY <2>2 DEF LeafOf
  <2> QED BY <2>2, <2>3, <2>4, Translated
<1> QED BY <1>1, PagingInvariant, PTL

\* A mapping of vmm_init's, as paging_translate sees it.
LEMMA PresentSeen ==
  ASSUME NEW U, Tree(tbl, avail, kernel_pml4, U), NEW m, Present(m)
  PROVE  Mapped(m.virt) /\ paging_translate(m.virt) = m.phys /\ Leaf(m.virt).write = m.flags.write
<1>1. PICK e \in tbl : LeafOf(tbl, kernel_pml4, m.virt, e) /\ e.addr = m.phys /\ e.write = m.flags.write
  BY DEF Present
<1>2. Mapped(m.virt) /\ Leaf(m.virt) = e
  BY <1>1, Translated
<1> QED BY <1>1, <1>2 DEF paging_translate

\* All memory the bootloader reported, and every page table with it, stays reachable
\* through the HHDM.
THEOREM HhdmKept == Spec => []HhdmComplete
<1>1. ASSUME PagingInv PROVE HhdmComplete
  <2>1. SUFFICES ASSUME phase = "live"
                 PROVE  /\ \A i \in DOMAIN memmap :
                             \A u \in memmap[i].base .. memmap[i].base + memmap[i].length - 1 :
                               /\ Mapped(HHDM_OFFSET + u \div UNITS)
                               /\ paging_translate(HHDM_OFFSET + u \div UNITS) = u \div UNITS
                        /\ \A f \in Tables \cup avail : Mapped(HHDM_OFFSET + f)
    BY DEF HhdmComplete
  <2>2. /\ memmap \in Memmaps /\ kernel_pml4 # 0 /\ Tree(tbl, avail, kernel_pml4, Usable)
        /\ \A m \in BootSet(memmap) : Present(m)
    BY <1>1, <2>1 DEF PagingInv, TablesInv, MappedInv
  <2>3. ASSUME NEW i \in DOMAIN memmap, NEW f \in HhdmFrames(memmap[i])
        PROVE  Mapped(HHDM_OFFSET + f) /\ paging_translate(HHDM_OFFSET + f) = f
    <3> DEFINE m == [virt |-> HHDM_OFFSET + f, phys |-> f, flags |-> Writable]
    <3>1. m \in BootSet(memmap)
      BY DEF BootSet, HhdmSet
    <3>2. m.virt = HHDM_OFFSET + f /\ m.phys = f
      OBVIOUS
    <3> HIDE DEF m
    <3> QED BY <2>2, <3>1, <3>2, PresentSeen
  <2>4. ASSUME NEW f \in Tables \cup avail PROVE Mapped(HHDM_OFFSET + f)
    <3>1. f \in UsableOf(memmap)
      BY <2>2, LevelsAre DEF Tables, Tree, Usable
    <3> QED BY <2>2, <2>3, <3>1, RegionCovered
  <2> QED BY <2>2, <2>3, <2>4, RegionCovered
<1> QED BY <1>1, PagingInvariant, PTL

\* On the new tables the stack and the kernel image are where they were.
THEOREM ImageKept == Spec => []LiveImageMapped
<1>1. ASSUME PagingInv PROVE LiveImageMapped
  <2>1. SUFFICES ASSUME cr3 # 0
                 PROVE  /\ Mapped(STACK_PAGE)
                        /\ \A v \in KERNEL_START .. KERNEL_END - 1 :
                             /\ Mapped(v)
                             /\ paging_translate(v) = v - KERNEL_START + KERNEL_PHYS
                             /\ Leaf(v).write <=> v >= DATA_START
    BY DEF LiveImageMapped
  <2>2. phase = "live"
    BY <1>1, <2>1 DEF PagingInv, TlbInv
  <2>3. /\ Tree(tbl, avail, kernel_pml4, Usable) /\ \A m \in BootSet(memmap) : Present(m)
        /\ \E e \in tbl : LeafOf(tbl, kernel_pml4, STACK_PAGE, e)
    BY <1>1, <2>2 DEF PagingInv, TablesInv, MappedInv
  <2>4. Mapped(STACK_PAGE)
    BY <2>3, Translated
  <2>5. ASSUME NEW v \in KERNEL_START .. KERNEL_END - 1
        PROVE  /\ Mapped(v) /\ paging_translate(v) = v - KERNEL_START + KERNEL_PHYS
               /\ Leaf(v).write <=> v >= DATA_START
    <3> DEFINE fl == IF v < DATA_START THEN ReadOnly ELSE Writable
               m == [virt |-> v, phys |-> (v - KERNEL_START) + KERNEL_PHYS, flags |-> fl]
    <3>1. m \in BootSet(memmap)
      BY DEF BootSet, ImageSet
    <3>2. m.virt = v /\ m.phys = (v - KERNEL_START) + KERNEL_PHYS /\ m.flags = fl
      OBVIOUS
    <3>3. Mapped(v) /\ paging_translate(v) = (v - KERNEL_START) + KERNEL_PHYS /\ Leaf(v).write = fl.write
      <4> HIDE DEF m, fl
      <4> QED BY <2>3, <3>1, <3>2, PresentSeen
    <3>4. v \in Int /\ DATA_START \in Int /\ KERNEL_START \in Int /\ KERNEL_PHYS \in Int
      BY PagingAssumption
    <3>5. CASE v < DATA_START
      <4>1. Leaf(v).write = FALSE
        BY <3>3, <3>5, Zenon DEF ReadOnly
      <4>2. ~(v >= DATA_START)
        BY <3>4, <3>5
      <4> QED BY <3>3, <4>1, <4>2
    <3>6. CASE ~(v < DATA_START)
      <4>1. Leaf(v).write = TRUE
        BY <3>3, <3>6, Zenon DEF Writable
      <4>2. v >= DATA_START
        BY <3>4, <3>6
      <4> QED BY <3>3, <4>1, <4>2
    <3> QED BY <3>5, <3>6
  <2> QED BY <2>4, <2>5
<1> QED BY <1>1, PagingInvariant, PTL

-----------------------------------------------------------------------------
\* The abstract address space

LEMMA WatchedArePages ==
  ASSUME memmap \in Memmaps
  PROVE  WatchedPages \subseteq Pages
<1>1. ASSUME NEW i \in DOMAIN memmap, NEW f \in HhdmFrames(memmap[i]) PROVE HHDM_OFFSET + f \in Pages
  <2> DEFINE m == [virt |-> HHDM_OFFSET + f, phys |-> f, flags |-> Writable]
  <2>1. m \in BootSet(memmap) /\ m.virt = HHDM_OFFSET + f
    BY DEF BootSet, HhdmSet
  <2> QED BY <2>1, BootPages
<1>2. ClientPages \subseteq Pages /\ KERNEL_START .. KERNEL_END - 1 \subseteq Pages
  BY LayoutAssumption
<1> QED BY <1>1, <1>2 DEF WatchedPages

\* What a page shows.
Shown(v) == [virt |-> v, leaf |-> Leaf(v)]
ShownSpace == {Shown(v) : v \in {u \in WatchedPages : Mapped(u)}}

\* LeavesAre in the next state.
LEMMA LeavesAreNext == (\A v, e : e \in Leaves(v) <=> LeafOf(tbl, kernel_pml4, v, e))'
BY LeavesAre, PTL

\* A step that keeps all leaves but v's is a step of the abstract address space.
LEMMA OnePage ==
  ASSUME TablesInv, TablesInv', kernel_pml4 # 0, kernel_pml4' = kernel_pml4, memmap' = memmap,
         NEW v, OthersKeep(v)
  PROVE  \A m \in (ShownSpace \ ShownSpace') \cup (ShownSpace' \ ShownSpace) : m.virt = v
<1>1. WatchedPages' = WatchedPages /\ WatchedPages \subseteq Pages
  BY WatchedArePages DEF WatchedPages, TablesInv
<1>2. Tree(tbl, avail, kernel_pml4, Usable) /\ Tree(tbl', avail', kernel_pml4', Usable')
  BY DEF TablesInv
<1>3. ASSUME NEW u \in WatchedPages, u # v
      PROVE  /\ Mapped(u)' <=> Mapped(u)
             /\ Mapped(u) => Leaf(u)' = Leaf(u)
  <2>1. \A e : LeafOf(tbl', kernel_pml4, u, e) <=> LeafOf(tbl, kernel_pml4, u, e)
    BY <1>1, <1>3 DEF OthersKeep
  <2>2. \A e : e \in Leaves(u) <=> LeafOf(tbl, kernel_pml4, u, e)
    BY LeavesAre
  <2>3. \A e : e \in Leaves(u)' <=> LeafOf(tbl', kernel_pml4', u, e)
    BY LeavesAreNext
  <2>4. Leaves(u)' = Leaves(u)
    BY <2>1, <2>2, <2>3
  <2> QED BY <2>4 DEF Mapped, Leaf
<1>4. \A u \in WatchedPages : u # v => Shown(u).virt = u /\ (Mapped(u) => Shown(u)' = Shown(u))
  BY <1>3 DEF Shown
<1>5. \A u : Shown(u).virt = u /\ Shown(u)'.virt = u
  BY DEF Shown
<1>6. ShownSpace' = {Shown(u)' : u \in {x \in WatchedPages : Mapped(x)'}}
  BY <1>1 DEF ShownSpace
<1>7. ASSUME NEW m \in ShownSpace, m \notin ShownSpace' PROVE m.virt = v
  <2>1. PICK u \in WatchedPages : Mapped(u) /\ m = Shown(u)
    BY <1>7 DEF ShownSpace
  <2>2. u # v => m \in ShownSpace'
    BY <1>3, <1>4, <1>6, <2>1
  <2> QED BY <1>5, <1>7, <2>1, <2>2
<1>8. ASSUME NEW m \in ShownSpace', m \notin ShownSpace PROVE m.virt = v
  <2>1. PICK u \in WatchedPages : Mapped(u)' /\ m = Shown(u)'
    BY <1>6, <1>8
  <2>2. u # v => m \in ShownSpace
    BY <1>3, <1>4, <2>1 DEF ShownSpace
  <2> QED BY <1>5, <1>8, <2>1, <2>2
<1> QED BY <1>7, <1>8

\* No page has two mappings.
LEMMA OneMapping == \A m, n \in ShownSpace : m.virt = n.virt => m = n
<1>1. \A u : Shown(u).virt = u
  BY DEF Shown
<1> QED BY <1>1 DEF ShownSpace

LEMMA OneMappingNext == (\A m, n \in ShownSpace : m.virt = n.virt => m = n)'
BY OneMapping, PTL

\* Nothing is mapped by empty tables.
LEMMA NothingShown ==
  TablesInv /\ (kernel_pml4 = 0 \/ T3(tbl, kernel_pml4) = {}) => ShownSpace = {}
<1> SUFFICES ASSUME TablesInv, kernel_pml4 = 0 \/ T3(tbl, kernel_pml4) = {}
             PROVE  ShownSpace = {}
  OBVIOUS
<1>1. \A v, e : ~LeafOf(tbl, kernel_pml4, v, e)
  <2>1. CASE kernel_pml4 = 0
    BY <2>1, NoTables
  <2>2. CASE T3(tbl, kernel_pml4) = {}
    BY <2>2, PathLevels DEF LeafOf
  <2> QED BY <2>1, <2>2
<1>2. \A v : ~Mapped(v)
  BY <1>1, LeavesAre DEF Mapped
<1> QED BY <1>2 DEF ShownSpace

LEMMA NothingShownNext ==
  (TablesInv /\ (kernel_pml4 = 0 \/ T3(tbl, kernel_pml4) = {}) => ShownSpace = {})'
BY NothingShown, PTL

\* The page tables implement the address space of paging.h: every step changes the
\* mapping of one page at most, failed allocations half-way down included.
THEOREM ImplementsSpace == Spec => RefinesAddressSpace
<1> DEFINE S == {[virt |-> v, leaf |-> Leaf(v)] : v \in {u \in WatchedPages : Mapped(u)}}
<1>0. S = ShownSpace
  BY DEF ShownSpace, Shown
<1>1. Init => Space!SpaceInit
  <2> SUFFICES ASSUME Init PROVE ShownSpace = {}
    BY <1>0 DEF Space!SpaceInit
  <2>1. TablesInv /\ kernel_pml4 = 0
    BY InitPagingInv DEF PagingInv, Init
  <2> QED BY <2>1, NothingShown
<1>2. PagingInv /\ [Next]_vars => [Space!SpaceNext]_S
  <2> SUFFICES ASSUME PagingInv, [Next]_vars PROVE [Space!SpaceNext]_S
    OBVIOUS
  <2>1. PagingInv' /\ TablesInv /\ TablesInv'
    BY NextPagingInv DEF PagingInv
  <2>2. S' = ShownSpace'
    BY DEF ShownSpace, Shown
  <2>3. \A m, n \in ShownSpace' : m.virt = n.virt => m = n
    BY OneMappingNext
  <2>4. ASSUME NEW v, \A m \in (ShownSpace \ ShownSpace') \cup (ShownSpace' \ ShownSpace) : m.virt = v
        PROVE  Space!SpaceNext
    BY <1>0, <2>2, <2>3, <2>4 DEF Space!SpaceNext
  <2>5. CASE vmm_init_begin
    <3>1. kernel_pml4 = 0 /\ ShownSpace = {}
      BY <2>1, <2>5, NothingShown DEF vmm_init_begin, TablesInv
    <3>2. kernel_pml4' = 0 \/ T3(tbl', kernel_pml4') = {}
      <4>1. CASE avail = {}
        BY <2>5, <3>1, <4>1 DEF vmm_init_begin
      <4>2. CASE avail # {}
        BY <2>5, <4>2 DEF vmm_init_begin, Zeroed, T3
      <4> QED BY <4>1, <4>2
    <3>3. ShownSpace' = {}
      BY <2>1, <3>2, NothingShownNext
    <3> QED BY <1>0, <2>2, <3>1, <3>3
  <2>6. CASE vmm_init_map
    <3>1. /\ phase = "mapping" /\ todo # << >> /\ memmap' = memmap /\ kernel_pml4' = kernel_pml4
          /\ memmap \in Memmaps /\ kernel_pml4 # 0 /\ Tree(tbl, avail, kernel_pml4, Usable)
          /\ todo \in Seq(BootSet(memmap))
      BY <2>6 DEF vmm_init_map, PagingInv, TablesInv, MappedInv
    <3>2. Head(todo) \in BootSet(memmap)
      BY <3>1
    <3>3. PICK ok \in BOOLEAN : paging_map(Head(todo).virt, Head(todo).phys, Head(todo).flags, ok)
      BY <2>6 DEF vmm_init_map
    <3>4. Head(todo).virt \in Pages /\ Usable \in SUBSET Nat
      BY <3>1, <3>2, BootPages, UsableFrames DEF Usable
    <3>5. MapDone(Head(todo).virt, Head(todo).phys, Head(todo).flags, ok, Usable)
      BY <3>1, <3>3, <3>4, MapStep
    <3>6. OthersKeep(Head(todo).virt)
      BY <3>5 DEF MapDone
    <3> QED BY <2>1, <2>4, <3>1, <3>6, OnePage
  <2>7. CASE \E v \in ClientPages :
               \/ \E phys \in ClientFrames, flags \in ClientFlags : vmm_map(v, phys, flags)
               \/ vmm_unmap(v)
    <3>1. PICK v \in ClientPages :
               \/ \E phys \in ClientFrames, flags \in ClientFlags : vmm_map(v, phys, flags)
               \/ vmm_unmap(v)
      BY <2>7
    <3>2. OthersKeep(v) /\ kernel_pml4 # 0 /\ kernel_pml4' = kernel_pml4 /\ memmap' = memmap
      BY <3>1, CallInv DEF vmm_map, vmm_unmap
    <3> QED BY <2>1, <2>4, <3>2, OnePage
  <2>8. CASE vmm_init_switch \/ Panicked \/ UNCHANGED vars \/ \E v \in ClientPages : tlb_fill(v)
    <3>1. tbl' = tbl /\ kernel_pml4' = kernel_pml4 /\ memmap' = memmap
      BY <2>8 DEF vmm_init_switch, Panicked, vars, tlb_fill
    <3>2. \A v : Leaves(v)' = Leaves(v)
      BY <3>1 DEF Leaves, PageTable, Below, EntryAt
    <3>3. \A v : (Mapped(v)' <=> Mapped(v)) /\ Leaf(v)' = Leaf(v)
      BY <3>2 DEF Mapped, Leaf
    <3>4. WatchedPages' = WatchedPages
      BY <3>1 DEF WatchedPages
    <3>5. S' = S
      BY <3>3, <3>4
    <3> QED BY <3>5
  <2> QED BY <2>5, <2>6, <2>7, <2>8 DEF Next
<1> QED BY <1>1, <1>2, PagingInvariant, PTL DEF Spec, RefinesAddressSpace, Space!SpaceSpec

=============================================================================
