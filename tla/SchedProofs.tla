---------------------------- MODULE SchedProofs -----------------------------
(***************************************************************************)
(* The scheduler's invariants for any set of nodes kmalloc may return, and *)
(* that it implements RunQueue, but for the fairness.                      *)
(***************************************************************************)
EXTENDS Sched, NatLemmas, SequenceTheorems

\* What lies below a task's return address.
Bottom(f) == IF f = "entry" THEN <<Code("task_trampoline")>> ELSE << >>

\* The registers of g as context_switch pushes them.
PushedOf(g) == [i \in DOMAIN PushOrder |-> g[PushOrder[i]]]

\* The stack of a task that is switched out.
SavedStack(c) == Bottom(c.pc) \o <<Code(c.pc)>> \o PushedOf(c.regs)

\* PushOrder has six registers.
LEMMA PushOrderFacts ==
  /\ DOMAIN PushOrder = 1 .. 6 /\ Len(PushOrder) = 6
  /\ \A i \in 1 .. 6 : PushOrder[i] \in Registers
  /\ \A r \in Registers : \E i \in 1 .. 6 : PushOrder[i] = r
<1>1. DOMAIN PushOrder = 1 .. 6 /\ Len(PushOrder) = 6
  BY DEF PushOrder
<1> QED BY <1>1 DEF Registers

\* A context that is switched out and in again is the same: the pops and the ret
\* of context_switch find what its pushes and the call left.
LEMMA SavedWords ==
  ASSUME NEW f \in PcNames, NEW g \in [Registers -> WordSet]
  PROVE  LET w == SavedStack([regs |-> g, pc |-> f]) IN
         /\ w \in Seq(WordSet)
         /\ Len(w) = Len(Bottom(f)) + 7
         /\ AfterRet(w) = Bottom(f)
         /\ Popped(w) = g
         /\ w[Len(w) - Len(PushOrder)][2] = f
<1> DEFINE b == Bottom(f)
           c == <<Code(f)>>
           p == PushedOf(g)
           w == SavedStack([regs |-> g, pc |-> f])
<1>1. b \in Seq(WordSet) /\ c \in Seq(WordSet) /\ Len(c) = 1 /\ c[1] = Code(f)
  BY DEF Bottom, WordSet, Code, PcNames
<1>2. p \in Seq(WordSet) /\ Len(p) = 6 /\ \A i \in 1 .. 6 : p[i] = g[PushOrder[i]]
  <2>1. p = [i \in 1 .. 6 |-> g[PushOrder[i]]]
    BY PushOrderFacts DEF PushedOf
  <2>2. \A i \in 1 .. 6 : g[PushOrder[i]] \in WordSet
    BY PushOrderFacts
  <2> HIDE DEF p
  <2> QED BY <2>1, <2>2
<1>3. w = b \o c \o p
  BY DEF SavedStack
<1> HIDE DEF b, c, p, w
<1>4. Len(b) \in Nat
  BY <1>1
<1>5. /\ w \in Seq(WordSet) /\ Len(w) = Len(b) + 7
      /\ \A i \in 1 .. Len(b) : w[i] = b[i]
      /\ w[Len(b) + 1] = Code(f)
      /\ \A i \in 1 .. 6 : w[Len(b) + 1 + i] = g[PushOrder[i]]
  <2> DEFINE bc == b \o c
  <2>1. /\ bc \in Seq(WordSet) /\ Len(bc) = Len(b) + 1
        /\ \A i \in 1 .. Len(b) + 1 : bc[i] = IF i <= Len(b) THEN b[i] ELSE c[i - Len(b)]
    <3>1. /\ b \o c \in Seq(WordSet) /\ Len(b \o c) = Len(b) + Len(c)
          /\ \A i \in 1 .. Len(b) + Len(c) :
                (b \o c)[i] = IF i <= Len(b) THEN b[i] ELSE c[i - Len(b)]
      BY <1>1, ConcatProperties, Zenon
    <3> QED BY <1>1, <3>1
  <2>2. bc[Len(b) + 1] = Code(f)
    BY <1>1, <1>4, <2>1
  <2> HIDE DEF bc
  <2>3. /\ w \in Seq(WordSet) /\ Len(w) = Len(bc) + 6
        /\ \A i \in 1 .. Len(bc) + 6 : w[i] = IF i <= Len(bc) THEN bc[i] ELSE p[i - Len(bc)]
    <3>0. bc \in Seq(WordSet) /\ p \in Seq(WordSet)
      BY <1>2, <2>1
    <3>1. /\ bc \o p \in Seq(WordSet) /\ Len(bc \o p) = Len(bc) + Len(p)
          /\ \A i \in 1 .. Len(bc) + Len(p) :
                (bc \o p)[i] = IF i <= Len(bc) THEN bc[i] ELSE p[i - Len(bc)]
      BY <3>0, ConcatProperties, Zenon
    <3>2. w = bc \o p
      BY <1>3 DEF bc
    <3> QED BY <1>2, <3>1, <3>2
  <2>4. \A i \in 1 .. Len(b) : w[i] = b[i]
    BY <1>4, <2>1, <2>3
  <2>5. w[Len(b) + 1] = Code(f)
    BY <1>4, <2>1, <2>2, <2>3
  <2>6. ASSUME NEW i \in 1 .. 6 PROVE w[Len(b) + 1 + i] = g[PushOrder[i]]
    BY <1>2, <1>4, <2>1, <2>3
  <2> QED BY <1>4, <2>1, <2>3, <2>4, <2>5, <2>6
<1>6. AfterRet(w) = b
  <2>1. AfterRet(w) = SubSeq(w, 1, Len(b))
    BY <1>4, <1>5, PushOrderFacts DEF AfterRet
  <2> QED BY <2>1, <1>1, <1>4, <1>5
<1>7. Popped(w) = g
  <2> SUFFICES ASSUME NEW r \in Registers PROVE Popped(w)[r] = g[r]
    BY DEF Popped
  <2> DEFINE i == CHOOSE k \in DOMAIN PushOrder : PushOrder[k] = r
  <2>1. i \in 1 .. 6 /\ PushOrder[i] = r
    BY PushOrderFacts
  <2>2. Popped(w)[r] = w[Len(w) - Len(PushOrder) + i]
    BY DEF Popped
  <2> HIDE DEF i
  <2>3. Len(w) - Len(PushOrder) + i = Len(b) + 1 + i
    BY <1>4, <1>5, <2>1, PushOrderFacts
  <2> QED BY <1>5, <2>1, <2>2, <2>3
<1>8. w[Len(w) - Len(PushOrder)][2] = f
  BY <1>4, <1>5, PushOrderFacts DEF Code
<1> QED BY <1>5, <1>6, <1>7, <1>8 DEF b, w

-----------------------------------------------------------------------------
\* The ring

\* r is the ring of the n tasks T, from c along nx.
IsRing(r, n, T, c, nx) ==
  /\ r \in [1 .. n -> T]
  /\ r[1] = c
  /\ \A i \in 1 .. n : i < n => nx[r[i]] = r[i + 1]
  /\ nx[r[n]] = c
  /\ \A i, j \in 1 .. n : r[i] = r[j] => i = j
  /\ \A t \in T : \E i \in 1 .. n : r[i] = t

\* Ring, for any current task and links.
WalkOf(n, c, nx) ==
  CHOOSE walk : walk = [i \in 1 .. n |->
                          IF i = 1 THEN c
                          ELSE IF walk[i - 1] \in Nodes THEN nx[walk[i - 1]] ELSE NoTask]

\* Walking the links from current gives the ring.
LEMMA WalkIsRing ==
  ASSUME NEW n \in Nat \ {0}, NEW T \in SUBSET Nodes, NEW c, NEW nx, NEW r,
         IsRing(r, n, T, c, nx)
  PROVE  WalkOf(n, c, nx) = r
<1> DEFINE Step(w, i) == IF i = 1 THEN c
                         ELSE IF w[i - 1] \in Nodes THEN nx[w[i - 1]] ELSE NoTask
           P(w) == w = [i \in 1 .. n |-> Step(w, i)]
<1>1. P(r)
  <2>1. ASSUME NEW i \in 1 .. n PROVE r[i] = Step(r, i)
    <3>1. CASE i = 1
      BY <3>1 DEF IsRing
    <3>2. CASE i # 1
      <4>1. i - 1 \in 1 .. n /\ i - 1 < n /\ (i - 1) + 1 = i
        BY <3>2
      <4> QED BY <3>2, <4>1 DEF IsRing
    <3> QED BY <3>1, <3>2
  <2> HIDE DEF Step
  <2> QED BY <2>1 DEF IsRing
<1>2. ASSUME NEW w, P(w) PROVE w = r
  <2> DEFINE D == {i \in 1 .. n : w[i] # r[i]}
  <2>1. \A i \in 1 .. n : w[i] = Step(w, i) /\ r[i] = Step(r, i)
    <3> HIDE DEF Step
    <3>1. \A i \in 1 .. n : w[i] = Step(w, i)
      BY <1>2
    <3>2. \A i \in 1 .. n : r[i] = Step(r, i)
      BY <1>1
    <3> QED BY <3>1, <3>2
  <2>2. D = {}
    <3> SUFFICES ASSUME D # {} PROVE FALSE
      OBVIOUS
    <3>1. PICK i \in D : \A m \in D : i <= m
      <4>1. D \in SUBSET Nat
        OBVIOUS
      <4> HIDE DEF D
      <4> QED BY <4>1, LeastNat
    <3>2. i # 1
      BY <2>1, <3>1
    <3>3. i - 1 \in 1 .. n /\ w[i - 1] = r[i - 1]
      BY <3>1, <3>2
    <3>4. Step(w, i) = Step(r, i)
      BY <3>3
    <3> HIDE DEF Step
    <3> QED BY <2>1, <3>1, <3>4
  <2>3. w = [i \in 1 .. n |-> w[i]] /\ r = [i \in 1 .. n |-> r[i]]
    <3> HIDE DEF Step
    <3> QED BY <1>1, <1>2
  <2> QED BY <2>2, <2>3
<1>3. WalkOf(n, c, nx) = CHOOSE w : P(w)
  BY DEF WalkOf
<1> HIDE DEF P
<1> QED BY <1>1, <1>2, <1>3

\* sched_init's task, linked to itself, is a ring.
LEMMA RingOfOne ==
  ASSUME NEW t, NEW nx, nx[t] = t
  PROVE  IsRing([i \in 1 .. 1 |-> t], 1, {t}, t, nx)
BY DEF IsRing

\* sched_yield: the same links, from the next task.
LEMMA RingRotated ==
  ASSUME NEW n \in Nat \ {0}, NEW T, NEW c, NEW nx, NEW r,
         IsRing(r, n, T, c, nx), nx[c] # c
  PROVE  /\ n > 1 /\ nx[c] = r[2] /\ nx[c] \in T
         /\ IsRing([i \in 1 .. n |-> IF i < n THEN r[i + 1] ELSE r[1]], n, T, nx[c], nx)
<1> DEFINE q == [i \in 1 .. n |-> IF i < n THEN r[i + 1] ELSE r[1]]
<1>1. n > 1 /\ nx[c] = r[2] /\ r[2] \in T /\ r[1] = c
  BY DEF IsRing
<1>2. \A i \in 1 .. n : (i < n => q[i] = r[i + 1]) /\ (i = n => q[i] = r[1])
  OBVIOUS
<1>3. q \in [1 .. n -> T]
  BY DEF IsRing
<1> HIDE DEF q
<1>4. q[1] = nx[c]
  BY <1>1, <1>2
<1>5. ASSUME NEW i \in 1 .. n, i < n PROVE nx[q[i]] = q[i + 1]
  <2>1. q[i] = r[i + 1] /\ i + 1 \in 1 .. n
    BY <1>2, <1>5
  <2>2. CASE i + 1 < n
    BY <1>2, <2>1, <2>2 DEF IsRing
  <2>3. CASE i + 1 = n
    BY <1>1, <1>2, <2>1, <2>3 DEF IsRing
  <2> QED BY <2>1, <2>2, <2>3
<1>6. nx[q[n]] = nx[c]
  BY <1>1, <1>2
<1>7. ASSUME NEW i \in 1 .. n, NEW j \in 1 .. n, q[i] = q[j] PROVE i = j
  BY <1>1, <1>2, <1>7 DEF IsRing
<1>8. ASSUME NEW t \in T PROVE \E i \in 1 .. n : q[i] = t
  <2>1. PICK k \in 1 .. n : r[k] = t
    BY DEF IsRing
  <2>2. CASE k = 1
    BY <1>2, <2>1, <2>2
  <2>3. CASE k # 1
    <3>1. k - 1 \in 1 .. n /\ k - 1 < n /\ (k - 1) + 1 = k
      BY <2>3
    <3>2. q[k - 1] = t
      BY <1>2, <2>1, <3>1
    <3> QED BY <3>1, <3>2
  <2> QED BY <2>2, <2>3
<1>9. IsRing(q, n, T, nx[c], nx)
  BY <1>3, <1>4, <1>5, <1>6, <1>7, <1>8 DEF IsRing
<1> QED BY <1>1, <1>9 DEF q

\* The walk of task_create ends at the ring's last task, and there only.
LEMMA RingEnd ==
  ASSUME NEW n \in Nat \ {0}, NEW T, NEW c, NEW nx, NEW r,
         IsRing(r, n, T, c, nx)
  PROVE  (CHOOSE u \in T : nx[u] = c) = r[n] /\ r[n] \in T
<1>1. r[n] \in T /\ nx[r[n]] = c
  BY DEF IsRing
<1>2. ASSUME NEW u \in T, nx[u] = c PROVE u = r[n]
  <2>1. PICK k \in 1 .. n : r[k] = u
    BY DEF IsRing
  <2>2. CASE k < n
    <3>1. r[k + 1] = r[1] /\ k + 1 \in 1 .. n /\ 1 \in 1 .. n
      BY <1>2, <2>1, <2>2 DEF IsRing
    <3> QED BY <2>1, <3>1 DEF IsRing
  <2>3. CASE k = n
    BY <2>1, <2>3
  <2> QED BY <2>2, <2>3
<1> QED BY <1>1, <1>2

\* task_create: the new task is linked between the last task and current.
LEMMA RingAppended ==
  ASSUME NEW n \in Nat \ {0}, NEW T \in SUBSET Nodes, NEW c, NEW nx, NEW r,
         IsRing(r, n, T, c, nx), NEW t \in Nodes \ T, NEW ny,
         ny[r[n]] = t, ny[t] = c, \A u \in T : u # r[n] => ny[u] = nx[u]
  PROVE  IsRing([i \in 1 .. n + 1 |-> IF i <= n THEN r[i] ELSE t],
                n + 1, T \cup {t}, c, ny)
<1> DEFINE q == [i \in 1 .. n + 1 |-> IF i <= n THEN r[i] ELSE t]
<1>1. \A i \in 1 .. n : q[i] = r[i] /\ r[i] \in T
  BY DEF IsRing
<1>2. q[n + 1] = t
  OBVIOUS
<1>3. q \in [1 .. n + 1 -> T \cup {t}]
  BY DEF IsRing
<1> HIDE DEF q
<1>4. q[1] = c
  BY <1>1 DEF IsRing
<1>5. ASSUME NEW i \in 1 .. n + 1, i < n + 1 PROVE ny[q[i]] = q[i + 1]
  <2>1. CASE i = n
    BY <1>1, <1>2, <2>1
  <2>2. CASE i < n
    <3>1. r[i] # r[n] /\ r[i] \in T /\ nx[r[i]] = r[i + 1]
      BY <2>2 DEF IsRing
    <3> QED BY <1>1, <2>2, <3>1
  <2> QED BY <1>5, <2>1, <2>2
<1>6. ny[q[n + 1]] = c
  BY <1>2
<1>7. ASSUME NEW i \in 1 .. n + 1, NEW j \in 1 .. n + 1, q[i] = q[j] PROVE i = j
  BY <1>1, <1>2, <1>7 DEF IsRing
<1>8. ASSUME NEW u \in T \cup {t} PROVE \E i \in 1 .. n + 1 : q[i] = u
  <2>1. CASE u \in T
    <3>1. PICK k \in 1 .. n : r[k] = u
      BY <2>1 DEF IsRing
    <3>2. k \in 1 .. n + 1 /\ q[k] = u
      BY <1>1, <3>1
    <3> QED BY <3>2
  <2>2. CASE u = t
    BY <1>2, <2>2
  <2> QED BY <2>1, <2>2
<1>9. IsRing(q, n + 1, T \cup {t}, c, ny)
  BY <1>3, <1>4, <1>5, <1>6, <1>7, <1>8 DEF IsRing
<1> QED BY <1>9 DEF q

-----------------------------------------------------------------------------
\* The inductive invariant

\* Until sched_init has run there is no task and kmain has the CPU.
BootInv ==
  phase # "running" =>
    /\ heap = {} /\ next_id = 0 /\ pc = "kmain"
    /\ \A t \in Nodes : stack[t] = << >>

\* Ring is a ring of all tasks, and next_id their number.
RingInv ==
  phase = "running" =>
    /\ IsFiniteSet(tasks) /\ Cardinality(tasks) = next_id /\ next_id # 0
    /\ IsRing(Ring, next_id, tasks, current, next)
    /\ \A t \in tasks : state[t] = "RUNNING" <=> t = current

\* Every task but the running one has its context on its stack, up to its rsp.
SavedInv ==
  phase = "running" =>
    \A t \in tasks \ {current} : stack[t] = SavedStack(ctx[t]) /\ rsp[t] = Len(stack[t])

SchedInv ==
  FieldsOK /\ WordsOK /\ BootInv /\ NoLeak /\ RingInv /\ ContextIntact /\ SavedInv

\* The invariant holds at boot.
LEMMA InitInv == Init => SchedInv
<1> SUFFICES ASSUME Init PROVE SchedInv
  OBVIOUS
<1>1. tasks = {}
  BY DEF Init, tasks
<1>2. FieldsOK
  BY DEF Init, FieldsOK, PcNames
<1>3. WordsOK
  <2>1. Zero \in WordSet
    BY DEF Zero, WordSet
  <2>2. ZeroRegs \in [Registers -> WordSet]
    BY <2>1 DEF ZeroRegs
  <2>3. NoContext \in [regs : [Registers -> WordSet], pc : PcNames \cup {"none"}]
    BY <2>2 DEF NoContext
  <2> QED BY <1>1, <2>2, <2>3 DEF Init, WordsOK
<1>4. BootInv /\ RingInv /\ ContextIntact /\ SavedInv
  BY DEF Init, BootInv, RingInv, ContextIntact, SavedInv
<1>5. NoLeak
  BY <1>1 DEF Init, NoLeak
<1> QED BY <1>2, <1>3, <1>4, <1>5 DEF SchedInv

\* sched_init makes kmain a ring of one whose context is the CPU's.
LEMMA InitStep ==
  ASSUME SchedInv, NEW t \in Nodes, sched_init(t)
  PROVE  SchedInv'
<1> USE DEF SchedInv
<1>1. /\ heap = {} /\ next_id = 0 /\ pc = "kmain" /\ stack[t] = << >>
      /\ phase' = "running" /\ current' = t
  BY DEF sched_init, BootInv
<1>2. tasks' = {t}
  BY <1>1 DEF sched_init, tasks
<1>2a. IsFiniteSet(tasks') /\ Cardinality(tasks') = 1 /\ next_id' = 1
  <2>1. IsFiniteSet({t}) /\ Cardinality({t}) = 1
    BY FS_Singleton, Zenon
  <2>2. next_id' = 1
    BY <1>1 DEF sched_init
  <2> QED BY <1>2, <2>1, <2>2
<1>3. FieldsOK'
  BY <1>1 DEF sched_init, FieldsOK
<1>4. WordsOK'
  <2>1. pc \in PcNames
    BY <1>1 DEF PcNames
  <2> QED BY <1>2, <2>1 DEF sched_init, WordsOK
<1>5. BootInv'
  BY <1>1 DEF BootInv
<1>6. NoLeak'
  <2>1. Cardinality(tasks') = 1 /\ next_id' = 1
    BY <1>2a
  <2>2. id'[t] = 0
    BY <1>1 DEF sched_init, FieldsOK
  <2>3. {u \in Nodes : <<"stack", u>> \in heap'} = {}
    BY <1>1 DEF sched_init
  <2> QED BY <1>2, <2>1, <2>2, <2>3 DEF NoLeak
<1>7. RingInv'
  <2>1. IsFiniteSet(tasks') /\ Cardinality(tasks') = 1 /\ next_id' = 1
    BY <1>2a
  <2>2. next'[t] = t /\ state'[t] = "RUNNING"
    BY DEF sched_init, FieldsOK
  <2>3. Ring' = WalkOf(Cardinality(tasks'), current', next')
    BY DEF Ring, WalkOf
  <2> DEFINE r == [i \in 1 .. 1 |-> t]
  <2>4. IsRing(r, 1, {t}, t, next')
    BY <2>2, RingOfOne
  <2>5. Ring' = r
    <3> HIDE DEF r
    <3> QED BY <1>1, <2>1, <2>3, <2>4, WalkIsRing
  <2> HIDE DEF r
  <2> QED BY <1>1, <1>2, <2>1, <2>2, <2>4, <2>5 DEF RingInv
<1>8. ContextIntact'
  BY <1>1 DEF sched_init, ContextIntact, WordsOK
<1>9. SavedInv'
  BY <1>1, <1>2 DEF SavedInv
<1> QED BY <1>3, <1>4, <1>5, <1>6, <1>7, <1>8, <1>9

\* The forged stack of a new task is that of a task switched out at its entry.
LEMMA ForgedIsSaved ==
  LET c == [regs |-> ZeroRegs, pc |-> "entry"] IN
  /\ c \in [regs : [Registers -> WordSet], pc : PcNames]
  /\ ForgedStack = SavedStack(c)
  /\ ForgedStack \in Seq(WordSet)
<1>1. Zero \in WordSet /\ ZeroRegs \in [Registers -> WordSet] /\ "entry" \in PcNames
  BY DEF Zero, WordSet, ZeroRegs, PcNames
<1>2. <<Code("task_trampoline"), Code("entry")>> = <<Code("task_trampoline")>> \o <<Code("entry")>>
  OBVIOUS
<1>3. PushedOf(ZeroRegs) = [i \in DOMAIN PushOrder |-> Zero]
  BY PushOrderFacts DEF PushedOf, ZeroRegs
<1>4. ForgedStack = SavedStack([regs |-> ZeroRegs, pc |-> "entry"])
  BY <1>2, <1>3 DEF ForgedStack, SavedStack, Bottom
<1> QED BY <1>1, <1>4, SavedWords

\* task_create puts a new task at the end of the ring.
LEMMA CreateRing ==
  ASSUME SchedInv, NEW t \in Nodes, task_create(t)
  PROVE  /\ tasks' = tasks \cup {t} /\ t \notin tasks
         /\ Ring' = [i \in 1 .. next_id + 1 |-> IF i <= next_id THEN Ring[i] ELSE t]
         /\ RingInv'
<1> USE DEF SchedInv
<1>1. phase = "running" /\ phase' = "running" /\ current' = current /\ t \notin tasks
  BY DEF task_create, InTaskCode
<1>2. tasks' = tasks \cup {t} /\ tasks \in SUBSET Nodes
  BY DEF task_create, tasks
<1>3. /\ IsFiniteSet(tasks) /\ Cardinality(tasks) = next_id /\ next_id \in Nat \ {0}
      /\ IsRing(Ring, next_id, tasks, current, next)
  BY <1>1 DEF RingInv, FieldsOK
<1>4. /\ IsFiniteSet(tasks') /\ Cardinality(tasks') = next_id + 1 /\ next_id' = next_id + 1
  <2>1. next_id' = next_id + 1
    BY DEF task_create
  <2> QED BY <1>1, <1>2, <1>3, <2>1, FS_AddElement
<1> DEFINE r == Ring
           q == [i \in 1 .. next_id + 1 |-> IF i <= next_id THEN r[i] ELSE t]
<1>5. RingTail = r[next_id] /\ r[next_id] \in tasks
  BY <1>3, RingEnd DEF RingTail
<1>6. /\ next'[r[next_id]] = t /\ next'[t] = current
      /\ \A u \in tasks : u # r[next_id] => next'[u] = next[u]
  BY <1>1, <1>2, <1>5 DEF task_create, FieldsOK
<1> HIDE DEF r
<1>7. IsRing(q, next_id + 1, tasks \cup {t}, current, next')
  BY <1>1, <1>2, <1>3, <1>6, RingAppended DEF r
<1>8. Ring' = q
  <2>1. Ring' = WalkOf(Cardinality(tasks'), current', next')
    BY DEF Ring, WalkOf
  <2> HIDE DEF q
  <2> QED BY <1>1, <1>2, <1>3, <1>4, <1>7, <2>1, WalkIsRing
<1>9. \A u \in tasks' : state'[u] = "RUNNING" <=> u = current'
  <2>1. current \in tasks
    <3>1. r[1] = current /\ r \in [1 .. next_id -> tasks] /\ 1 \in 1 .. next_id
      BY <1>3 DEF IsRing, r
    <3> QED BY <3>1
  <2> QED BY <1>1, <1>2, <2>1 DEF task_create, RingInv, FieldsOK
<1>10. RingInv'
  <2> HIDE DEF q
  <2> QED BY <1>1, <1>2, <1>3, <1>4, <1>7, <1>8, <1>9 DEF RingInv
<1> QED BY <1>1, <1>2, <1>8, <1>10 DEF r

\* task_create keeps the invariant: nothing of the older tasks is touched.
LEMMA CreateStep ==
  ASSUME SchedInv, NEW t \in Nodes, task_create(t)
  PROVE  SchedInv'
<1> USE DEF SchedInv
<1> DEFINE c == [regs |-> ZeroRegs, pc |-> "entry"]
<1>1. /\ phase = "running" /\ phase' = "running" /\ current' = current /\ t \notin tasks
      /\ regs' = regs /\ pc' = pc
  BY DEF task_create, InTaskCode
<1>2. tasks' = tasks \cup {t} /\ RingInv'
  BY CreateRing
<1>3. current \in tasks /\ current # t /\ next_id \in Nat \ {0}
  <2>1. next_id \in Nat \ {0} /\ IsRing(Ring, next_id, tasks, current, next)
    BY <1>1 DEF RingInv, FieldsOK
  <2>2. Ring[1] = current /\ Ring \in [1 .. next_id -> tasks] /\ 1 \in 1 .. next_id
    BY <2>1 DEF IsRing
  <2> QED BY <1>1, <2>1, <2>2
<1>4. c \in [regs : [Registers -> WordSet], pc : PcNames] /\ ForgedStack = SavedStack(c)
        /\ ForgedStack \in Seq(WordSet)
  BY ForgedIsSaved
<1>5. /\ stack' = [stack EXCEPT ![t] = ForgedStack]
      /\ rsp' = [rsp EXCEPT ![t] = Len(ForgedStack)]
      /\ ctx' = [ctx EXCEPT ![t] = c]
  BY DEF task_create
<1> HIDE DEF c
<1>6. c \in [regs : [Registers -> WordSet], pc : PcNames \cup {"none"}] /\ c.pc \in PcNames
  BY <1>4
<1>7. FieldsOK'
  <2>1. Len(ForgedStack) \in Nat
    BY <1>4
  <2>2. RingTail \in Nodes
    <3>1. next_id \in Nat \ {0} /\ IsRing(Ring, next_id, tasks, current, next)
      BY <1>1 DEF RingInv, FieldsOK
    <3>2. RingTail = Ring[next_id] /\ Ring[next_id] \in tasks
      BY <3>1, RingEnd DEF RingTail
    <3>3. RingTail \in tasks
      BY <3>2
    <3> QED BY <3>3 DEF tasks
  <2>3. next' \in [Nodes -> Nodes \cup {NoTask}]
    BY <2>2 DEF task_create, FieldsOK
  <2>4. heap' \subseteq {"task", "stack"} \X Nodes
    BY DEF task_create, FieldsOK
  <2> QED BY <2>1, <2>3, <2>4 DEF task_create, FieldsOK, PcNames
<1>8. WordsOK'
  <2>1. stack' \in [Nodes -> Seq(WordSet)]
    BY <1>4, <1>5 DEF WordsOK
  <2>2. ctx' \in [Nodes -> [regs : [Registers -> WordSet], pc : PcNames \cup {"none"}]]
    BY <1>5, <1>6 DEF WordsOK
  <2>3. ASSUME NEW u \in tasks' PROVE ctx'[u].pc \in PcNames
    <3>0. u \in Nodes
      BY DEF tasks
    <3>1. CASE u = t
      BY <1>5, <1>6, <3>1 DEF WordsOK
    <3>2. CASE u # t
      BY <1>2, <1>5, <3>0, <3>2 DEF WordsOK
    <3> QED BY <3>1, <3>2
  <2> QED BY <1>1, <2>1, <2>2, <2>3 DEF WordsOK
<1>9. BootInv'
  BY <1>1 DEF BootInv
<1>10. NoLeak'
  <2>1. Cardinality(tasks') = next_id'
    BY <1>1, <1>2 DEF RingInv
  <2>2. id'[t] # 0 /\ \A u \in Nodes : u # t => id'[u] = id[u]
    BY <1>3 DEF task_create, FieldsOK
  <2>3. \A u \in Nodes : <<"stack", u>> \in heap' <=> <<"stack", u>> \in heap \/ u = t
    BY DEF task_create
  <2>4. \A u \in Nodes : <<"stack", u>> \in heap <=> u \in tasks /\ id[u] # 0
    BY DEF NoLeak, tasks
  <2>5. \A u \in Nodes : <<"stack", u>> \in heap' <=> u \in tasks' /\ id'[u] # 0
    BY <1>1, <1>2, <2>2, <2>3, <2>4
  <2> QED BY <2>1, <2>5 DEF NoLeak, tasks
<1>11. ContextIntact'
  <2>1. stack'[current] = stack[current] /\ ctx'[current] = ctx[current]
    BY <1>3, <1>5 DEF tasks, WordsOK
  <2> QED BY <1>1, <2>1 DEF ContextIntact
<1>12. SavedInv'
  <2>1. ASSUME NEW u \in tasks', u # current
        PROVE  stack'[u] = SavedStack(ctx'[u]) /\ rsp'[u] = Len(stack'[u])
    <3>0. u \in Nodes
      BY DEF tasks
    <3>1. CASE u = t
      BY <1>4, <1>5, <3>1 DEF WordsOK, FieldsOK
    <3>2. CASE u # t
      <4>1. stack'[u] = stack[u] /\ ctx'[u] = ctx[u] /\ rsp'[u] = rsp[u] /\ u \in tasks
        BY <1>2, <1>5, <3>0, <3>2 DEF WordsOK, FieldsOK
      <4> QED BY <1>1, <2>1, <4>1 DEF SavedInv
    <3> QED BY <3>1, <3>2
  <2> QED BY <1>1, <2>1 DEF SavedInv
<1> QED BY <1>2, <1>7, <1>8, <1>9, <1>10, <1>11, <1>12

\* sched_yield turns the ring by one task and leaves its links alone.
LEMMA YieldRing ==
  ASSUME SchedInv, sched_yield
  PROVE  /\ next_id > 1 /\ tasks' = tasks /\ current' = next[current]
         /\ next[current] \in tasks /\ current \in tasks
         /\ Ring' = [i \in 1 .. next_id |-> IF i < next_id THEN Ring[i + 1] ELSE Ring[1]]
         /\ RingInv'
<1> USE DEF SchedInv
<1>1. /\ phase = "running" /\ phase' = "running" /\ current' = next[current]
      /\ next' = next /\ heap' = heap /\ next_id' = next_id /\ next[current] # current
      /\ state' = [state EXCEPT ![current] = "READY", ![next[current]] = "RUNNING"]
  BY DEF sched_yield
<1>2. tasks' = tasks /\ tasks \in SUBSET Nodes
  BY <1>1 DEF tasks
<1>3. /\ IsFiniteSet(tasks) /\ Cardinality(tasks) = next_id /\ next_id \in Nat \ {0}
      /\ IsRing(Ring, next_id, tasks, current, next)
  BY <1>1 DEF RingInv, FieldsOK
<1> DEFINE r == Ring
           q == [i \in 1 .. next_id |-> IF i < next_id THEN r[i + 1] ELSE r[1]]
<1> HIDE DEF r
<1>4. /\ next_id > 1 /\ next[current] \in tasks
      /\ IsRing(q, next_id, tasks, next[current], next)
  BY <1>1, <1>3, RingRotated DEF r
<1>5. current \in tasks
  <2>1. r[1] = current /\ r \in [1 .. next_id -> tasks] /\ 1 \in 1 .. next_id
    BY <1>3 DEF IsRing, r
  <2> QED BY <2>1
<1>6. Ring' = q
  <2>1. Ring' = WalkOf(Cardinality(tasks'), current', next')
    BY DEF Ring, WalkOf
  <2> HIDE DEF q
  <2> QED BY <1>1, <1>2, <1>3, <1>4, <2>1, WalkIsRing
<1>7. \A u \in tasks' : state'[u] = "RUNNING" <=> u = current'
  BY <1>1, <1>2, <1>4, <1>5 DEF RingInv, FieldsOK
<1>8. RingInv'
  <2> HIDE DEF q
  <2> QED BY <1>1, <1>2, <1>3, <1>4, <1>6, <1>7 DEF RingInv
<1> QED BY <1>1, <1>2, <1>4, <1>5, <1>6, <1>8 DEF r

\* sched_yield keeps the invariant: it leaves the outgoing context on its stack
\* and takes the incoming one off.
LEMMA YieldStep ==
  ASSUME SchedInv, sched_yield
  PROVE  SchedInv'
<1> USE DEF SchedInv
<1> DEFINE prev == current
           nxt  == next[current]
           cp   == ctx[current]
           cn   == ctx[next[current]]
           out  == stack[current] \o <<Code(pc)>> \o Pushed
           in   == Resumed(next[current])
<1>1. /\ phase = "running" /\ phase' = "running" /\ current' = nxt
      /\ next' = next /\ heap' = heap /\ next_id' = next_id /\ nxt # prev
      /\ id' = id /\ ctx' = ctx
      /\ state' = [state EXCEPT ![prev] = "READY", ![nxt] = "RUNNING"]
      /\ rsp' = [rsp EXCEPT ![prev] = Len(out)]
      /\ stack' = [stack EXCEPT ![prev] = out, ![nxt] = AfterRet(in)]
      /\ regs' = Popped(in)
      /\ pc' = in[Len(in) - Len(PushOrder)][2]
      /\ ran' = ran \cup {nxt}
  BY DEF sched_yield
<1>2. tasks' = tasks /\ nxt \in tasks /\ prev \in tasks /\ RingInv'
  BY YieldRing
<1>3. nxt \in Nodes /\ prev \in Nodes
  BY <1>2 DEF tasks
<1>4. /\ cp.regs \in [Registers -> WordSet] /\ cp.pc \in PcNames
      /\ cn.regs \in [Registers -> WordSet] /\ cn.pc \in PcNames
      /\ cp = [regs |-> cp.regs, pc |-> cp.pc] /\ cn = [regs |-> cn.regs, pc |-> cn.pc]
  BY <1>2, <1>3 DEF WordsOK
<1>5. out = SavedStack(cp)
  <2>1. regs = cp.regs /\ pc = cp.pc /\ stack[current] = Bottom(pc)
    BY <1>1 DEF ContextIntact, Bottom
  <2>2. Pushed = PushedOf(cp.regs)
    BY <2>1 DEF Pushed, PushedOf
  <2> QED BY <2>1, <2>2 DEF SavedStack
<1>6. in = SavedStack(cn)
  <2>1. stack[nxt] = SavedStack(cn) /\ rsp[nxt] = Len(stack[nxt]) /\ stack[nxt] \in Seq(WordSet)
    BY <1>1, <1>2, <1>3 DEF SavedInv, WordsOK
  <2>2. in = SubSeq(stack[nxt], 1, Len(stack[nxt]))
    BY <2>1 DEF Resumed
  <2> QED BY <2>1, <2>2
<1> HIDE DEF out, in, cp, cn, nxt, prev
<1>7. out \in Seq(WordSet)
  <2>1. out = SavedStack([regs |-> cp.regs, pc |-> cp.pc])
    BY <1>4, <1>5
  <2> QED BY <1>4, <2>1, SavedWords
<1>8. /\ AfterRet(in) = Bottom(cn.pc) /\ Popped(in) = cn.regs
      /\ in[Len(in) - Len(PushOrder)][2] = cn.pc
  <2>1. in = SavedStack([regs |-> cn.regs, pc |-> cn.pc])
    BY <1>4, <1>6
  <2> QED BY <1>4, <2>1, SavedWords
<1>9. Bottom(cn.pc) \in Seq(WordSet)
  BY DEF Bottom, WordSet, Code, PcNames
<1>10. FieldsOK'
  <2>1. Len(out) \in Nat
    BY <1>7
  <2>2. pc' \in {"kmain", "entry", "task_trampoline"}
    BY <1>1, <1>4, <1>8 DEF PcNames
  <2> QED BY <1>1, <1>3, <2>1, <2>2 DEF FieldsOK, PcNames
<1>11. WordsOK'
  BY <1>1, <1>2, <1>3, <1>4, <1>7, <1>8, <1>9 DEF WordsOK
<1>12. BootInv'
  BY <1>1 DEF BootInv
<1>13. NoLeak'
  BY <1>1, <1>2 DEF NoLeak
<1>14. stack'[nxt] = Bottom(cn.pc) /\ stack'[prev] = out
  BY <1>1, <1>3, <1>8 DEF WordsOK
<1>15. ContextIntact'
  <2>1. regs' = cn.regs /\ pc' = cn.pc /\ ctx'[nxt] = cn
    BY <1>1, <1>8 DEF cn, nxt
  <2> QED BY <1>1, <1>14, <2>1 DEF ContextIntact, Bottom
<1>16. SavedInv'
  <2>1. ASSUME NEW u \in tasks, u # nxt
        PROVE  stack'[u] = SavedStack(ctx[u]) /\ rsp'[u] = Len(stack'[u])
    <3>0. u \in Nodes
      BY DEF tasks
    <3>1. CASE u = prev
      BY <1>1, <1>3, <1>5, <1>14, <3>1 DEF FieldsOK, cp, prev
    <3>2. CASE u # prev
      <4>1. stack'[u] = stack[u] /\ rsp'[u] = rsp[u]
        BY <1>1, <2>1, <3>0, <3>2 DEF WordsOK, FieldsOK
      <4> QED BY <1>1, <3>2, <4>1 DEF SavedInv, prev
    <3> QED BY <3>1, <3>2
  <2> QED BY <1>1, <1>2, <2>1 DEF SavedInv
<1> QED BY <1>2, <1>10, <1>11, <1>12, <1>13, <1>15, <1>16

\* Steps that change nothing the invariant mentions.
LEMMA StutterStep ==
  ASSUME SchedInv, UNCHANGED vars
  PROVE  SchedInv'
<1>1. UNCHANGED <<phase, current, next, state, id, next_id, rsp, stack, regs, pc, heap, ctx, ran>>
  BY DEF vars, schedVars
<1>2. tasks' = tasks
  BY <1>1 DEF tasks
<1>3. Ring' = Ring
  BY <1>1, <1>2 DEF Ring
<1>4. FieldsOK' /\ WordsOK' /\ BootInv' /\ NoLeak'
  BY <1>1, <1>2 DEF SchedInv, FieldsOK, WordsOK, BootInv, NoLeak
<1>5. RingInv' /\ ContextIntact' /\ SavedInv'
  BY <1>1, <1>2, <1>3 DEF SchedInv, RingInv, ContextIntact, SavedInv
<1> QED BY <1>4, <1>5 DEF SchedInv

\* The error path of task_create ends where it began: what it allocated is freed.
LEMMA NoStackStep ==
  ASSUME SchedInv, NEW t \in Nodes, task_create_no_stack(t)
  PROVE  UNCHANGED vars
<1>1. heap' = heap
  BY DEF task_create_no_stack, FreeTask, tasks
<1> QED BY <1>1 DEF task_create_no_stack, vars

\* A NULL from kmalloc in sched_init: the machine stops before any task exists.
LEMMA NullStep ==
  ASSUME SchedInv, sched_init_null
  PROVE  SchedInv'
<1>1. /\ UNCHANGED <<current, next, state, id, next_id, rsp, stack, regs, pc, heap, ctx, ran>>
      /\ phase = "boot" /\ phase' = "fault"
  BY DEF sched_init_null, schedVars
<1>2. tasks' = tasks
  BY <1>1 DEF tasks
<1>3. FieldsOK' /\ WordsOK' /\ BootInv' /\ NoLeak'
  BY <1>1, <1>2 DEF SchedInv, FieldsOK, WordsOK, BootInv, NoLeak
<1>4. RingInv' /\ ContextIntact' /\ SavedInv'
  BY <1>1 DEF RingInv, ContextIntact, SavedInv
<1> QED BY <1>3, <1>4 DEF SchedInv

\* The running task is one of the tasks.
LEMMA CurrentIsTask ==
  ASSUME SchedInv, phase = "running"
  PROVE  current \in tasks /\ current \in Nodes
<1>1. next_id \in Nat \ {0} /\ IsRing(Ring, next_id, tasks, current, next)
  BY DEF SchedInv, RingInv, FieldsOK
<1>2. Ring[1] = current /\ Ring \in [1 .. next_id -> tasks] /\ 1 \in 1 .. next_id
  BY <1>1 DEF IsRing
<1>3. current \in tasks
  BY <1>2
<1> QED BY <1>3 DEF tasks

\* The running task computes: only its own registers change.
LEMMA WorkStep ==
  ASSUME SchedInv, Work
  PROVE  SchedInv'
<1> USE DEF SchedInv
<1>1. /\ UNCHANGED <<phase, current, next, state, id, next_id, rsp, stack, pc, heap, ran>>
      /\ phase = "running"
      /\ regs' = [r \in Registers |-> <<current, r>>]
      /\ ctx' = [ctx EXCEPT ![current].regs = regs']
  BY DEF Work, schedVars, InTaskCode
<1>2. tasks' = tasks /\ Ring' = Ring
  <2>1. tasks' = tasks
    BY <1>1 DEF tasks
  <2> QED BY <1>1, <2>1 DEF Ring
<1>3. current \in tasks /\ current \in Nodes
  BY <1>1, CurrentIsTask
<1>4. regs' \in [Registers -> WordSet]
  BY <1>1, <1>3 DEF WordSet
<1>5. /\ ctx'[current].regs = regs' /\ ctx'[current].pc = ctx[current].pc
      /\ \A u \in Nodes : u # current => ctx'[u] = ctx[u]
  BY <1>1, <1>3 DEF WordsOK
<1>6. FieldsOK' /\ BootInv' /\ NoLeak' /\ RingInv'
  BY <1>1, <1>2 DEF FieldsOK, BootInv, NoLeak, RingInv
<1>7. WordsOK'
  <2>1. ctx' \in [Nodes -> [regs : [Registers -> WordSet], pc : PcNames \cup {"none"}]]
    BY <1>1, <1>3, <1>4 DEF WordsOK
  <2>2. \A u \in tasks : ctx'[u].pc \in PcNames
    BY <1>5 DEF WordsOK, tasks
  <2> QED BY <1>1, <1>2, <1>4, <2>1, <2>2 DEF WordsOK
<1>8. ContextIntact'
  BY <1>1, <1>5 DEF ContextIntact
<1>9. SavedInv'
  <2>1. ASSUME NEW u \in tasks, u # current
        PROVE  stack[u] = SavedStack(ctx'[u]) /\ rsp[u] = Len(stack[u])
    <3>1. ctx'[u] = ctx[u]
      BY <1>5, <2>1 DEF tasks
    <3> QED BY <1>1, <2>1, <3>1 DEF SavedInv
  <2> QED BY <1>1, <1>2, <2>1 DEF SavedInv
<1> QED BY <1>6, <1>7, <1>8, <1>9

\* entry() returns: the word on top of the stack is the trampoline's address.
LEMMA ReturnStep ==
  ASSUME SchedInv, entry_returns
  PROVE  SchedInv'
<1> USE DEF SchedInv
<1>1. /\ UNCHANGED <<phase, current, next, state, id, next_id, rsp, regs, heap, ran>>
      /\ phase = "running" /\ pc = "entry"
      /\ pc' = stack[current][Len(stack[current])][2]
      /\ stack' = [stack EXCEPT ![current] =
                     SubSeq(stack[current], 1, Len(stack[current]) - 1)]
      /\ ctx' = [ctx EXCEPT ![current].pc = "task_trampoline"]
  BY DEF entry_returns, schedVars
<1>2. tasks' = tasks /\ Ring' = Ring
  <2>1. tasks' = tasks
    BY <1>1 DEF tasks
  <2> QED BY <1>1, <2>1 DEF Ring
<1>3. current \in tasks /\ current \in Nodes
  BY <1>1, CurrentIsTask
<1>4. stack[current] = <<Code("task_trampoline")>>
  BY <1>1 DEF ContextIntact
<1>5. pc' = "task_trampoline" /\ stack'[current] = << >>
  <2>1. pc' = "task_trampoline"
    BY <1>1, <1>4 DEF Code
  <2>2. stack'[current] = SubSeq(<<Code("task_trampoline")>>, 1, 0)
    BY <1>1, <1>3, <1>4 DEF WordsOK
  <2> QED BY <2>1, <2>2
<1>6. /\ ctx'[current].pc = "task_trampoline" /\ ctx'[current].regs = ctx[current].regs
      /\ \A u \in Nodes : u # current => ctx'[u] = ctx[u] /\ stack'[u] = stack[u]
  BY <1>1, <1>3 DEF WordsOK
<1>7. FieldsOK' /\ BootInv' /\ NoLeak' /\ RingInv'
  BY <1>1, <1>2, <1>5 DEF FieldsOK, PcNames, BootInv, NoLeak, RingInv
<1>8. WordsOK'
  <2>1. ctx' \in [Nodes -> [regs : [Registers -> WordSet], pc : PcNames \cup {"none"}]]
    BY <1>1, <1>3 DEF WordsOK, PcNames
  <2>2. \A u \in tasks : ctx'[u].pc \in PcNames
    BY <1>6 DEF WordsOK, tasks, PcNames
  <2>3. << >> \in Seq(WordSet)
    OBVIOUS
  <2>4. stack' = [stack EXCEPT ![current] = << >>]
    BY <1>1, <1>3, <1>5 DEF WordsOK
  <2>5. stack' \in [Nodes -> Seq(WordSet)]
    BY <1>3, <2>3, <2>4 DEF WordsOK
  <2> QED BY <1>1, <1>2, <2>1, <2>2, <2>5 DEF WordsOK
<1>9. ContextIntact'
  BY <1>1, <1>5, <1>6 DEF ContextIntact
<1>10. SavedInv'
  <2>1. ASSUME NEW u \in tasks, u # current
        PROVE  stack'[u] = SavedStack(ctx'[u]) /\ rsp[u] = Len(stack'[u])
    <3>1. ctx'[u] = ctx[u] /\ stack'[u] = stack[u]
      BY <1>6, <2>1 DEF tasks
    <3> QED BY <1>1, <2>1, <3>1 DEF SavedInv
  <2> QED BY <1>1, <1>2, <2>1 DEF SavedInv
<1> QED BY <1>7, <1>8, <1>9, <1>10

\* Every step keeps the invariant.
LEMMA NextInv == SchedInv /\ [Next]_vars => SchedInv'
<1> SUFFICES ASSUME SchedInv, [Next]_vars PROVE SchedInv'
  OBVIOUS
<1>1. CASE UNCHANGED vars
  BY <1>1, StutterStep
<1>2. ASSUME NEW t \in Nodes, sched_init(t) PROVE SchedInv'
  BY <1>2, InitStep
<1>3. ASSUME NEW t \in Nodes, task_create(t) PROVE SchedInv'
  BY <1>3, CreateStep
<1>4. ASSUME NEW t \in Nodes, task_create_no_stack(t) PROVE SchedInv'
  BY <1>4, NoStackStep, StutterStep
<1>5. CASE sched_init_null
  BY <1>5, NullStep
<1>6. CASE Faulted \/ task_create_no_task \/ sched_yield_alone
  BY <1>6, StutterStep DEF Faulted, task_create_no_task, sched_yield_alone
<1>7. CASE sched_yield
  BY <1>7, YieldStep
<1>8. CASE Work
  BY <1>8, WorkStep
<1>9. CASE entry_returns
  BY <1>9, ReturnStep
<1> QED BY <1>1, <1>2, <1>3, <1>4, <1>5, <1>6, <1>7, <1>8, <1>9 DEF Next

\* The inductive invariant, for any set of addresses kmalloc may return: every
\* task is on one ring, switched out with its own context on its own stack.
THEOREM SchedInvariant == Spec => []SchedInv
<1>1. Init => SchedInv
  BY InitInv
<1>2. SchedInv /\ [Next]_vars => SchedInv'
  BY NextInv
<1> QED BY <1>1, <1>2, PTL DEF Spec

\* Every variable has its type: ring, states, ids and saved stack pointers, and every word
\* in a register, on a stack or in a context to be restored.
THEOREM SchedTypes == Spec => []SchedTypeOK
<1>1. SchedInv => SchedTypeOK
  BY DEF SchedInv, SchedTypeOK
<1> QED BY <1>1, SchedInvariant, PTL

\* sched_yield's walk from the running task visits every task once and comes
\* back, and that task alone is RUNNING, however many tasks there are.
THEOREM RingIsComplete == Spec => []RingComplete
<1>1. SchedInv => RingComplete
  <2> SUFFICES ASSUME SchedInv, phase = "running" PROVE RingComplete
    BY DEF RingComplete
  <2>1. /\ Cardinality(tasks) = next_id /\ next_id \in Nat \ {0}
        /\ IsRing(Ring, next_id, tasks, current, next)
        /\ \A t \in tasks : state[t] = "RUNNING" <=> t = current
    BY DEF SchedInv, RingInv, FieldsOK
  <2>2. {Ring[i] : i \in 1 .. next_id} = tasks
    BY <2>1 DEF IsRing
  <2>3. next[Ring[next_id]] = current
    BY <2>1 DEF IsRing
  <2> QED BY <2>1, <2>2, <2>3 DEF RingComplete
<1> QED BY <1>1, SchedInvariant, PTL

\* context_switch restores a task's registers, its place in the code and its
\* stack, whatever the other tasks did while it was out.
THEOREM ContextsIntact == Spec => []ContextIntact
<1>1. SchedInv => ContextIntact
  BY DEF SchedInv
<1> QED BY <1>1, SchedInvariant, PTL

\* task_create's error paths lose no allocation: every struct is a task's, and
\* every task but kmain has a stack of its own.
THEOREM AllocationsKept == Spec => []NoLeak
<1>1. SchedInv => NoLeak
  BY DEF SchedInv
<1> QED BY <1>1, SchedInvariant, PTL

-----------------------------------------------------------------------------
\* The refinement

\* The queue the scheduler implements: RunQueue's variable.
ReadyQueue == IF phase = "running" THEN Ring ELSE << >>

\* a is s with t at its end.
AppendsTo(s, t, a) ==
  /\ a = [i \in 1 .. Len(s) + 1 |-> a[i]] /\ a[Len(s) + 1] = t
  /\ \A i \in 1 .. Len(s) : a[i] = s[i]

\* What Append does, element by element.
LEMMA AppendIs ==
  ASSUME NEW T, NEW s \in Seq(T), NEW t \in T
  PROVE  AppendsTo(s, t, Append(s, t))
<1>1. /\ Append(s, t) \in Seq(T) /\ Len(Append(s, t)) = Len(s) + 1
      /\ \A i \in 1 .. Len(s) : Append(s, t)[i] = s[i]
      /\ Append(s, t)[Len(s) + 1] = t
  BY AppendProperties
<1> DEFINE a == Append(s, t)
<1> HIDE DEF a
<1>2. a \in Seq(T) /\ Len(a) = Len(s) + 1
  BY <1>1 DEF a
<1>3. a = [i \in 1 .. Len(s) + 1 |-> a[i]]
  BY <1>2
<1> QED BY <1>1, <1>3 DEF AppendsTo, a

\* A ring is a sequence of tasks.
LEMMA RingIsSeq ==
  ASSUME NEW n \in Nat \ {0}, NEW T, NEW r \in [1 .. n -> T]
  PROVE  /\ r \in Seq(T) /\ Len(r) = n
         /\ \A t : t \in T => Append(r, t) = [i \in 1 .. n + 1 |-> IF i <= n THEN r[i] ELSE t]
         /\ Append(Tail(r), Head(r)) = [i \in 1 .. n |-> IF i < n THEN r[i + 1] ELSE r[1]]
<1>1. r \in Seq(T) /\ Len(r) = n /\ Head(r) = r[1] /\ r[1] \in T
  OBVIOUS
<1>2. ASSUME NEW t \in T
      PROVE  Append(r, t) = [i \in 1 .. n + 1 |-> IF i <= n THEN r[i] ELSE t]
  <2>1. AppendsTo(r, t, Append(r, t))
    BY <1>1, AppendIs
  <2> HIDE DEF AppendsTo
  <2> QED BY <1>1, <2>1 DEF AppendsTo
<1>3. /\ Tail(r) \in Seq(T) /\ Len(Tail(r)) = n - 1
      /\ \A i \in 1 .. n - 1 : Tail(r)[i] = r[i + 1]
  BY <1>1
<1>4. Append(Tail(r), Head(r)) = [i \in 1 .. n |-> IF i < n THEN r[i + 1] ELSE r[1]]
  <2> DEFINE q == Tail(r)
             a == Append(q, r[1])
  <2>1. AppendsTo(q, r[1], a)
    BY <1>1, <1>3, AppendIs
  <2> HIDE DEF q, a
  <2>2. Len(q) = n - 1 /\ (n - 1) + 1 = n /\ \A i \in 1 .. n - 1 : q[i] = r[i + 1]
    BY <1>3 DEF q
  <2>3. a = [i \in 1 .. n |-> a[i]]
    BY <2>1, <2>2 DEF AppendsTo
  <2>4. a[n] = r[1] /\ \A i \in 1 .. n - 1 : a[i] = r[i + 1]
    BY <2>1, <2>2 DEF AppendsTo
  <2>5. a = [i \in 1 .. n |-> IF i < n THEN r[i + 1] ELSE r[1]]
    <3>1. \A i \in 1 .. n : a[i] = IF i < n THEN r[i + 1] ELSE r[1]
      BY <2>4
    <3> QED BY <2>3, <3>1
  <2>6. Append(Tail(r), Head(r)) = a
    BY <1>1 DEF a, q
  <2> QED BY <2>5, <2>6
<1> QED BY <1>1, <1>2, <1>4

\* Every step of the scheduler is a step of the queue or leaves it alone.
LEMMA QueueStep ==
  ASSUME SchedInv, SchedInv', [Next]_vars
  PROVE  Queue!QueueNext \/ ReadyQueue' = ReadyQueue
<1>1. CASE UNCHANGED vars
  BY <1>1 DEF vars, schedVars, ReadyQueue, Ring, tasks
<1>2. ASSUME NEW t \in Nodes, sched_init(t) PROVE Queue!Join(t)
  <2>1. phase # "running" /\ phase' = "running" /\ current' = t
    BY <1>2 DEF sched_init
  <2>2. ReadyQueue = << >> /\ ReadyQueue' = Ring'
    BY <2>1 DEF ReadyQueue
  <2>3. next_id' = 1
    BY <1>2, <2>1 DEF SchedInv, BootInv, sched_init
  <2>4. Ring' \in [1 .. 1 -> tasks'] /\ Ring'[1] = t
    BY <2>1, <2>3 DEF SchedInv, RingInv, IsRing
  <2>5. Ring' = Append(<< >>, t)
    BY <2>4
  <2> QED BY <2>1, <2>5 DEF Queue!Join
<1>3. ASSUME NEW t \in Nodes, task_create(t) PROVE Queue!Join(t)
  <2>1. phase = "running" /\ phase' = "running"
    BY <1>3 DEF task_create, InTaskCode
  <2>2. /\ next_id \in Nat \ {0} /\ Ring \in [1 .. next_id -> tasks]
    BY <2>1 DEF SchedInv, RingInv, IsRing, FieldsOK
  <2>3. /\ t \notin tasks
        /\ Ring' = [i \in 1 .. next_id + 1 |-> IF i <= next_id THEN Ring[i] ELSE t]
    BY <1>3, CreateRing
  <2>4. Ring \in [1 .. next_id -> Nodes]
    BY <2>2 DEF tasks
  <2>5. Append(Ring, t) = [i \in 1 .. next_id + 1 |-> IF i <= next_id THEN Ring[i] ELSE t]
    BY <2>2, <2>4, RingIsSeq, SMTT(30)
  <2>6. \A i \in DOMAIN Ring : Ring[i] # t
    BY <2>2, <2>3
  <2> QED BY <2>1, <2>3, <2>5, <2>6 DEF Queue!Join
<1>4. ASSUME NEW t \in Nodes, task_create_no_stack(t) PROVE UNCHANGED vars
  BY <1>4, NoStackStep
<1>5. CASE sched_init_null
  BY <1>5 DEF sched_init_null, ReadyQueue
<1>6. CASE Faulted \/ task_create_no_task \/ sched_yield_alone
  BY <1>6, <1>1 DEF Faulted, task_create_no_task, sched_yield_alone
<1>7. CASE sched_yield
  <2>1. phase = "running" /\ phase' = "running"
    BY <1>7 DEF sched_yield
  <2>2. /\ next_id \in Nat \ {0} /\ Ring \in [1 .. next_id -> tasks]
    BY <2>1 DEF SchedInv, RingInv, IsRing, FieldsOK
  <2>3. /\ next_id > 1
        /\ Ring' = [i \in 1 .. next_id |-> IF i < next_id THEN Ring[i + 1] ELSE Ring[1]]
    BY <1>7, YieldRing
  <2>4. Ring' = Append(Tail(Ring), Head(Ring)) /\ Len(Ring) > 1
    BY <2>2, <2>3, RingIsSeq
  <2>5. Queue!Rotate
    BY <2>1, <2>4 DEF Queue!Rotate
  <2> QED BY <2>5 DEF Queue!QueueNext
<1>8. CASE Work \/ entry_returns
  <2>1. UNCHANGED <<phase, current, next, heap>>
    BY <1>8 DEF Work, entry_returns, schedVars
  <2> QED BY <2>1 DEF ReadyQueue, Ring, tasks
<1> QED BY <1>1, <1>2, <1>3, <1>4, <1>5, <1>6, <1>7, <1>8 DEF Next, Queue!QueueNext

\* The ring of sched_yield and task_create is a first-in first-out queue
\* (RunQueue): the safety half of RefinesRunQueue.
THEOREM ImplementsQueue == Spec => Queue!QueueSafety
<1>1. Init => Queue!QueueInit
  BY DEF Init, Queue!QueueInit
<1>2. SchedInv /\ SchedInv' /\ [Next]_vars => [Queue!QueueNext]_ReadyQueue
  BY QueueStep
<1>3. ReadyQueue = IF phase = "running" THEN Ring ELSE << >>
  BY DEF ReadyQueue
<1> QED BY <1>1, <1>2, SchedInvariant, PTL DEF Spec, Queue!QueueSafety, ReadyQueue

=============================================================================
