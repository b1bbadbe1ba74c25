-------------------------- MODULE InterruptsProofs --------------------------
(***************************************************************************)
(* The interrupt path's invariants, for any stack depth, any set of        *)
(* exceptions and any number of keys and ticks.                            *)
(***************************************************************************)
EXTENDS Interrupts, NatLemmas

-----------------------------------------------------------------------------
\* Machines

\* What fits into a register or a stack slot.
Contents == {Word(n) : n \in Int} \cup {Flags(b) : b \in BOOLEAN}
              \cup {Name(x) : x \in Registers \cup {"local", "kmain"}} \cup {Junk}

Machine == [regs : [Registers -> Contents], stack : Seq(Contents), rip : Contents,
            rflags : Contents, cs : Contents, ss : Contents]

\* A vector and an error code that belong together.
Trapped(v, code) == v \in Nat /\ code \in Int /\ (code = NoCode <=> v \notin ISR_ERR)

\* Words pushed behind others.
LEMMA Pushed ==
  ASSUME NEW s \in Seq(Contents), NEW t \in Seq(Contents)
  PROVE  /\ s \o t \in Seq(Contents) /\ Len(s \o t) = Len(s) + Len(t)
         /\ \A i \in 1 .. Len(s) : (s \o t)[i] = s[i]
         /\ \A j \in 1 .. Len(t) : (s \o t)[Len(s) + j] = t[j]
OBVIOUS

\* The stack is aligned by at most one word on top.
LEMMA AlignFacts ==
  ASSUME NEW s \in Seq(Contents)
  PROVE  /\ Align(s) \in Seq(Contents) /\ Aligned(Align(s))
         /\ Len(Align(s)) \in Nat /\ Len(s) <= Len(Align(s))
         /\ \A i \in 1 .. Len(s) : Align(s)[i] = s[i]
<1>1. Junk \in Contents
  BY DEF Contents
<1>2. CASE Len(s) % 2 = 0
  BY <1>2 DEF Align, Aligned
<1>3. CASE Len(s) % 2 # 0
  <2>1. Align(s) = Append(s, Junk)
    BY <1>3 DEF Align, Aligned
  <2>2. /\ Append(s, Junk) \in Seq(Contents) /\ Len(Append(s, Junk)) = Len(s) + 1
        /\ \A i \in 1 .. Len(s) : Append(s, Junk)[i] = s[i]
    <3> HIDE DEF Junk
    <3> QED BY <1>1
  <2>3. (Len(s) + 1) % 2 = 0
    BY <1>3
  <2> QED BY <2>1, <2>2, <2>3 DEF Aligned
<1> QED BY <1>2, <1>3

\* A gate's three offset fields give the stub's address back: the stub of the vector
\* is the one that runs.
LEMMA StubFound ==
  ASSUME NEW v \in Nat
  PROVE  StubAt(Offset(idt_set_gate(StubOf(v)))) = v /\ Offset(idt_set_gate(StubOf(v))) \in Int
BY DEF StubAt, Offset, idt_set_gate, StubOf, FIELD, TEXT

\* The registers.
LEMMA RegisterFacts ==
  /\ Len(PushOrder) = 15 /\ DOMAIN PushOrder = 1 .. 15 /\ DOMAIN PopOrder = 1 .. 15
  /\ Len(PopOrder) = 15 /\ DOMAIN FrameFields = 1 .. 22
  /\ \A j \in 1 .. 15 : PushOrder[j] \in Registers
  /\ "rbp" \in Registers /\ "rdi" \in Registers
  /\ \A j \in 1 .. 15 : PopOrder[j] = PushOrder[16 - j] /\ FrameFields[j] = PushOrder[16 - j]
  /\ \A r \in Registers : \E j \in 1 .. 15 : r = PopOrder[j]
  /\ FrameFields[16] = "vector" /\ FrameFields[17] = "error_code" /\ FrameFields[18] = "rip"
  /\ FrameFields[19] = "cs" /\ FrameFields[20] = "rflags" /\ FrameFields[21] = "rsp"
  /\ FrameFields[22] = "ss"
  /\ "rbp" \notin CallerSaved
<1>1. /\ Len(PushOrder) = 15 /\ DOMAIN PushOrder = 1 .. 15 /\ DOMAIN PopOrder = 1 .. 15
      /\ Len(PopOrder) = 15 /\ DOMAIN FrameFields = 1 .. 22
  BY DEF PushOrder, PopOrder, FrameFields
<1>2. \A j \in 1 .. 15 : PushOrder[j] \in Registers
  BY <1>1 DEF Registers
<1>3. PushOrder[9] = "rbp" /\ PushOrder[10] = "rdi"
  BY DEF PushOrder
<1>4. \A j \in 1 .. 15 : PopOrder[j] = PushOrder[16 - j] /\ FrameFields[j] = PushOrder[16 - j]
  BY DEF PushOrder, PopOrder, FrameFields
<1>5. ASSUME NEW r \in Registers PROVE \E j \in 1 .. 15 : r = PopOrder[j]
  <2>1. PICK k \in 1 .. 15 : r = PushOrder[k]
    BY <1>1 DEF Registers
  <2>2. 16 - k \in 1 .. 15 /\ 16 - (16 - k) = k
    OBVIOUS
  <2>3. r = PopOrder[16 - k]
    BY <1>4, <2>1, <2>2
  <2> QED BY <2>2, <2>3
<1>6. /\ FrameFields[16] = "vector" /\ FrameFields[17] = "error_code" /\ FrameFields[18] = "rip"
      /\ FrameFields[19] = "cs" /\ FrameFields[20] = "rflags" /\ FrameFields[21] = "rsp"
      /\ FrameFields[22] = "ss"
  BY DEF FrameFields
<1>7. "rbp" \notin CallerSaved
  BY DEF CallerSaved
<1> QED BY <1>1, <1>2, <1>3, <1>4, <1>5, <1>6, <1>7

\* Each name stands for one place.
LEMMA Places ==
  /\ \A i \in 1 .. 15 : IndexOf(PopOrder, PopOrder[i]) = i
  /\ \A i \in 1 .. 22 : IndexOf(FrameFields, FrameFields[i]) = i
<1>1. \A i, j \in 1 .. 15 : PopOrder[i] = PopOrder[j] => i = j
  BY DEF PopOrder
<1>2. \A i, j \in 1 .. 22 : FrameFields[i] = FrameFields[j] => i = j
  BY DEF FrameFields
<1>3. DOMAIN PopOrder = 1 .. 15 /\ DOMAIN FrameFields = 1 .. 22
  BY RegisterFacts
<1>4. ASSUME NEW i \in 1 .. 15 PROVE IndexOf(PopOrder, PopOrder[i]) = i
  BY <1>1, <1>3 DEF IndexOf
<1>5. ASSUME NEW i \in 1 .. 22 PROVE IndexOf(FrameFields, FrameFields[i]) = i
  BY <1>2, <1>3 DEF IndexOf
<1> QED BY <1>4, <1>5

-----------------------------------------------------------------------------
\* In and out

\* n words below the frame, the frame's 22 words, and perhaps one for alignment.
Framed(e, m, v, code) ==
  LET n == Len(Align(m.stack))
      s == e.stack
  IN  /\ n \in Nat /\ Len(m.stack) \in Nat /\ Len(m.stack) <= n
      /\ s \in Seq(Contents) /\ n + 22 <= Len(s) /\ Aligned(s)
      /\ \A i \in 1 .. Len(m.stack) : s[i] = m.stack[i]
      /\ s[n + 1] = m.ss /\ s[n + 2] = Word(Len(m.stack)) /\ s[n + 3] = m.rflags
      /\ s[n + 4] = m.cs /\ s[n + 5] = m.rip
      /\ s[n + 6] = Word(IF code = NoCode THEN 0 ELSE code)
      /\ s[n + 7] = Word(v)
      /\ \A j \in 1 .. 15 : s[n + 7 + j] = m.regs[PushOrder[j]]
      /\ e.regs["rbp"] = Word(n + 22)

\* The CPU, the stub and the common tail build the frame, whatever the vector, the
\* code and the alignment of the stack.
LEMMA EnteredFrame ==
  ASSUME NEW m \in Machine, NEW v, NEW code, Trapped(v, code)
  PROVE  Entered(m, v, code) \in Machine /\ Framed(Entered(m, v, code), m, v, code)
<1> DEFINE a == Align(m.stack)
           n == Len(a)
           hw == <<m.ss, Word(Len(m.stack)), m.rflags, m.cs, m.rip>>
           ec == IF code = NoCode THEN << >> ELSE <<Word(code)>>
           d == Delivered(m, v, code)
           dm == IF v \in ISR_ERR THEN << >> ELSE <<Word(0)>>
           st == Stub(d)
           saved == [i \in DOMAIN PushOrder |-> m.regs[PushOrder[i]]]
           frame == st.stack \o saved
           e == Entered(m, v, code)
<1>1. /\ m.regs \in [Registers -> Contents] /\ m.stack \in Seq(Contents) /\ m.rip \in Contents
      /\ m.rflags \in Contents /\ m.cs \in Contents /\ m.ss \in Contents
      /\ v \in Nat /\ code \in Int /\ (code = NoCode <=> v \notin ISR_ERR)
  BY DEF Machine, Trapped
<1>2. /\ a \in Seq(Contents) /\ n \in Nat /\ Len(m.stack) \in Nat /\ Len(m.stack) <= n
      /\ \A i \in 1 .. Len(m.stack) : a[i] = m.stack[i]
  BY <1>1, AlignFacts
<1>3. \A k \in Int : Word(k) \in Contents
  BY DEF Contents
<1>4. /\ d.stack = (a \o hw) \o ec /\ d.regs = m.regs /\ d.rip = Word(Offset(idt_set_gate(StubOf(v))))
      /\ d.rflags = Flags(FALSE) /\ d.cs = Word(GDT_KERNEL_CODE_SELECTOR) /\ d.ss = m.ss
      /\ d \in Machine
  <2>1. hw \in Seq(Contents) /\ ec \in Seq(Contents)
    <3>1. Word(Len(m.stack)) \in Contents /\ Word(code) \in Contents
      BY <1>1, <1>2, <1>3
    <3> HIDE DEF Word
    <3> QED BY <1>1, <3>1
  <2>2. (a \o hw) \o ec \in Seq(Contents)
    <3> HIDE DEF a, hw, ec
    <3> QED BY <1>2, <2>1
  <2>3. Word(Offset(idt_set_gate(StubOf(v)))) \in Contents /\ Word(GDT_KERNEL_CODE_SELECTOR) \in Contents
    BY <1>1, <1>3, StubFound DEF GDT_KERNEL_CODE_SELECTOR
  <2>4. Flags(FALSE) \in Contents
    BY DEF Contents
  <2>5. idt_set_gate(StubOf(v)).selector = GDT_KERNEL_CODE_SELECTOR
    BY DEF idt_set_gate
  <2>6. d = [m EXCEPT !.stack = (a \o hw) \o ec, !.rflags = Flags(FALSE),
                      !.cs = Word(GDT_KERNEL_CODE_SELECTOR),
                      !.rip = Word(Offset(idt_set_gate(StubOf(v))))]
    <3> HIDE DEF Word
    <3> QED BY <2>5 DEF Delivered, Machine
  <2> DEFINE w1 == (a \o hw) \o ec
             w2 == Flags(FALSE)
             w3 == Word(GDT_KERNEL_CODE_SELECTOR)
             w4 == Word(Offset(idt_set_gate(StubOf(v))))
  <2> HIDE DEF d, w1, w2, w3, w4
  <2>7. d = [m EXCEPT !.stack = w1, !.rflags = w2, !.cs = w3, !.rip = w4]
    BY <2>6 DEF w1, w2, w3, w4
  <2>8. w1 \in Seq(Contents) /\ w2 \in Contents /\ w3 \in Contents /\ w4 \in Contents
    BY <2>2, <2>3, <2>4 DEF w1, w2, w3, w4
  <2>9. /\ d.stack = w1 /\ d.regs = m.regs /\ d.rip = w4 /\ d.rflags = w2 /\ d.cs = w3 /\ d.ss = m.ss
        /\ d \in Machine
    BY <2>7, <2>8 DEF Machine
  <2> QED BY <2>9 DEF w1, w2, w3, w4
<1>5. st.stack = (((a \o hw) \o ec) \o dm) \o <<Word(v)>> /\ st.regs = m.regs /\ st \in Machine
  <2>1. d.rip[2] = Offset(idt_set_gate(StubOf(v)))
    BY <1>4 DEF Word
  <2>2. StubAt(d.rip[2]) = v
    BY <1>1, <2>1, StubFound
  <2> DEFINE w == (d.stack \o dm) \o <<Word(v)>>
  <2>3. w \in Seq(Contents)
    <3>0. d.stack \in Seq(Contents)
      <4> HIDE DEF d
      <4> QED BY <1>4 DEF Machine
    <3>1. Word(0) \in Contents /\ Word(v) \in Contents /\ d.stack \in Seq(Contents)
      BY <1>1, <1>3, <3>0
    <3>2. dm \in Seq(Contents) /\ <<Word(v)>> \in Seq(Contents)
      <4> HIDE DEF Word
      <4> QED BY <3>1
    <3> HIDE DEF dm, d
    <3> QED BY <3>1, <3>2
  <2>4. st = [d EXCEPT !.stack = w]
    BY <2>2 DEF Stub
  <2> HIDE DEF d, w, st
  <2>5. st.stack = w /\ st.regs = d.regs /\ st \in Machine
    BY <1>4, <2>3, <2>4 DEF Machine
  <2> QED BY <1>4, <2>5 DEF w
<1>6. saved \in Seq(Contents) /\ Len(saved) = 15 /\ \A j \in 1 .. 15 : saved[j] = m.regs[PushOrder[j]]
  <2>1. DOMAIN PushOrder = 1 .. 15 /\ \A j \in 1 .. 15 : PushOrder[j] \in Registers
    BY RegisterFacts
  <2>2. \A j \in 1 .. 15 : m.regs[PushOrder[j]] \in Contents
    BY <1>1, <2>1
  <2>3. saved = [j \in 1 .. 15 |-> m.regs[PushOrder[j]]]
    BY <2>1
  <2> HIDE DEF saved
  <2>4. saved \in [1 .. 15 -> Contents] /\ \A j \in 1 .. 15 : saved[j] = m.regs[PushOrder[j]]
    BY <2>2, <2>3
  <2>5. saved \in Seq(Contents)
    BY <2>4, SeqDef
  <2>6. Len(saved) \in Nat /\ 1 .. Len(saved) = 1 .. 15
    BY <2>4, <2>5, LenProperties
  <2>7. Len(saved) = 15
    <3>1. ASSUME NEW l \in Nat, 1 .. l = 1 .. 15 PROVE l = 15
      <4>1. 15 \in 1 .. l /\ 16 \notin 1 .. l
        BY <3>1
      <4> QED BY <4>1
    <3> QED BY <2>6, <3>1
  <2> QED BY <2>4, <2>5, <2>7
<1> HIDE DEF st, d, saved
<1>7. /\ st.stack \in Seq(Contents) /\ Len(st.stack) = n + 7
      /\ \A i \in 1 .. n : st.stack[i] = a[i]
      /\ st.stack[n + 1] = m.ss /\ st.stack[n + 2] = Word(Len(m.stack)) /\ st.stack[n + 3] = m.rflags
      /\ st.stack[n + 4] = m.cs /\ st.stack[n + 5] = m.rip
      /\ st.stack[n + 6] = Word(IF code = NoCode THEN 0 ELSE code)
      /\ st.stack[n + 7] = Word(v)
  <2> DEFINE c == IF code = NoCode THEN Word(0) ELSE Word(code)
             lw == Word(Len(m.stack))
             vw == Word(v)
  <2>1. c \in Contents /\ lw \in Contents /\ vw \in Contents /\ c = Word(IF code = NoCode THEN 0 ELSE code)
    BY <1>1, <1>2, <1>3
  <2>2. ec \o dm = <<c>>
    <3>1. CASE code = NoCode
      <4>1. ec = << >> /\ dm = <<c>>
        BY <1>1, <3>1
      <4> HIDE DEF ec, dm, c
      <4> QED BY <4>1
    <3>2. CASE code # NoCode
      <4>1. ec = <<c>> /\ dm = << >>
        BY <1>1, <3>2
      <4> HIDE DEF ec, dm, c
      <4> QED BY <4>1
    <3> QED BY <3>1, <3>2
  <2>3. hw = <<m.ss, lw, m.rflags, m.cs, m.rip>> /\ hw \in Seq(Contents)
    <3> HIDE DEF lw
    <3>1. hw = <<m.ss, lw, m.rflags, m.cs, m.rip>>
      BY DEF lw
    <3> HIDE DEF hw
    <3> QED BY <1>1, <2>1, <3>1
  <2>4. ec \in Seq(Contents) /\ dm \in Seq(Contents)
    <3>1. Word(0) \in Contents /\ Word(code) \in Contents
      BY <1>1, <1>3
    <3> HIDE DEF Word
    <3> QED BY <3>1
  <2>5. st.stack = ((a \o hw) \o (ec \o dm)) \o <<vw>>
    <3> HIDE DEF ec, dm, hw, a, vw
    <3>1. st.stack = (((a \o hw) \o ec) \o dm) \o <<vw>>
      BY <1>5 DEF vw
    <3>2. a \o hw \in Seq(Contents)
      BY <1>2, <2>3, ConcatProperties
    <3>3. ASSUME NEW w \in Seq(Contents) PROVE (w \o ec) \o dm = w \o (ec \o dm)
      BY <2>4, SMTT(30)
    <3> QED BY <3>1, <3>3
  <2> HIDE DEF c, lw, vw
  <2>6. st.stack = ((a \o hw) \o <<c>>) \o <<vw>>
    BY <2>2, <2>5
  <2>7. /\ Len(hw) = 5 /\ hw[1] = m.ss /\ hw[2] = lw /\ hw[3] = m.rflags /\ hw[4] = m.cs /\ hw[5] = m.rip
    BY <2>3
  <2> HIDE DEF hw, a
  <2>8. /\ a \o hw \in Seq(Contents) /\ Len(a \o hw) = n + 5
        /\ \A i \in 1 .. n : (a \o hw)[i] = a[i]
        /\ \A j \in 1 .. 5 : (a \o hw)[n + j] = hw[j]
    BY <1>2, <2>3, <2>7, Pushed
  <2> DEFINE b == a \o hw
  <2> HIDE DEF b
  <2>9. /\ b \in Seq(Contents) /\ Len(b) = n + 5 /\ st.stack = (b \o <<c>>) \o <<vw>>
        /\ \A i \in 1 .. n : b[i] = a[i]
        /\ \A j \in 1 .. 5 : b[n + j] = hw[j]
    BY <2>6, <2>8 DEF b
  <2> HIDE DEF n
  <2>10. /\ st.stack \in Seq(Contents) /\ Len(st.stack) = n + 7
         /\ \A i \in 1 .. n + 5 : st.stack[i] = b[i]
         /\ st.stack[n + 6] = c /\ st.stack[n + 7] = vw
    <3> DEFINE y == b \o <<c>>
               x == y \o <<vw>>
    <3>1. <<c>> \in Seq(Contents) /\ <<vw>> \in Seq(Contents) /\ Len(<<c>>) = 1 /\ Len(<<vw>>) = 1
          /\ <<c>>[1] = c /\ <<vw>>[1] = vw
      BY <2>1
    <3>2. y \in Seq(Contents) /\ Len(y) = n + 6 /\ \A i \in 1 .. n + 5 : y[i] = b[i]
      BY <1>2, <2>9, <3>1, Pushed
    <3>3. y[n + 6] = c
      BY <1>2, <2>1, <2>9, SMTT(30)
    <3> HIDE DEF y
    <3>4. x \in Seq(Contents) /\ Len(x) = n + 7 /\ \A i \in 1 .. n + 6 : x[i] = y[i]
      BY <1>2, <3>1, <3>2, Pushed
    <3>5. x[n + 7] = vw
      BY <1>2, <2>1, <3>2, SMTT(30)
    <3>6. st.stack = x
      BY <2>9 DEF y
    <3> HIDE DEF x
    <3>7. \A i \in 1 .. n + 5 : i \in 1 .. n + 6 /\ n + 6 \in 1 .. n + 6
      BY <1>2
    <3>8. n + 6 \in 1 .. n + 6
      BY <1>2
    <3> QED BY <3>2, <3>3, <3>4, <3>5, <3>6, <3>7, <3>8
  <2>11. /\ 1 \in 1 .. 5 /\ 2 \in 1 .. 5 /\ 3 \in 1 .. 5 /\ 4 \in 1 .. 5 /\ 5 \in 1 .. 5
         /\ \A j \in 1 .. 5 : n + j \in 1 .. n + 5
         /\ \A i \in 1 .. n : i \in 1 .. n + 5
    BY <1>2
  <2>12. \A j \in 1 .. 5 : st.stack[n + j] = hw[j]
    BY <2>9, <2>10, <2>11
  <2>13. \A i \in 1 .. n : st.stack[i] = a[i]
    BY <2>9, <2>10, <2>11
  <2> QED BY <2>1, <2>7, <2>10, <2>11, <2>12, <2>13 DEF lw, vw
<1>8. /\ frame \in Seq(Contents) /\ Len(frame) = n + 22
      /\ \A i \in 1 .. n + 7 : frame[i] = st.stack[i]
      /\ \A j \in 1 .. 15 : frame[n + 7 + j] = m.regs[PushOrder[j]]
  <2> DEFINE x == st.stack
  <2>1. x \in Seq(Contents) /\ Len(x) = n + 7
    BY <1>7
  <2> HIDE DEF n, x
  <2>2. /\ x \o saved \in Seq(Contents) /\ Len(x \o saved) = Len(x) + Len(saved)
        /\ \A i \in 1 .. Len(x) : (x \o saved)[i] = x[i]
        /\ \A j \in 1 .. Len(saved) : (x \o saved)[Len(x) + j] = saved[j]
    BY <1>6, <2>1, Pushed
  <2>3. /\ frame \in Seq(Contents) /\ Len(frame) = (n + 7) + 15
        /\ \A i \in 1 .. n + 7 : frame[i] = x[i]
        /\ \A j \in 1 .. 15 : frame[(n + 7) + j] = saved[j]
    BY <1>6, <2>1, <2>2 DEF x
  <2>4. (n + 7) + 15 = n + 22 /\ \A j \in 1 .. 15 : (n + 7) + j = n + 7 + j
    BY <1>2
  <2> QED BY <1>6, <2>3, <2>4 DEF x
<1> HIDE DEF frame
<1>9. /\ e.stack = Align(frame) /\ e.regs["rbp"] = Word(n + 22) /\ e \in Machine
  <2> DEFINE w == Word(Len(frame))
             s == Align(frame)
             g == [st.regs EXCEPT !["rbp"] = w, !["rdi"] = w]
  <2>1. w \in Contents /\ s \in Seq(Contents) /\ w = Word(n + 22)
    BY <1>2, <1>3, <1>8, AlignFacts
  <2>2. st.stack \o [i \in DOMAIN PushOrder |-> st.regs[PushOrder[i]]] = frame
    BY <1>5 DEF frame, saved
  <2>3. e = Saved(st)
    BY DEF Entered, st, d
  <2> HIDE DEF e
  <2>4. e = [st EXCEPT !.stack = s, !.regs["rbp"] = w, !.regs["rdi"] = w]
    BY <2>2, <2>3 DEF Saved
  <2> HIDE DEF w, s
  <2>5. st.regs \in [Registers -> Contents] /\ st \in Machine
    BY <1>1, <1>5
  <2>6. g \in [Registers -> Contents] /\ g["rbp"] = w
    BY <2>1, <2>5, RegisterFacts
  <2>7. e = [st EXCEPT !.stack = s, !.regs = g]
    BY <2>4, <2>5 DEF Machine
  <2> HIDE DEF g
  <2>8. e.stack = s /\ e.regs = g /\ e \in Machine
    BY <2>1, <2>5, <2>6, <2>7 DEF Machine
  <2> QED BY <2>1, <2>6, <2>8 DEF s
<1>10. /\ Align(frame) \in Seq(Contents) /\ Aligned(Align(frame)) /\ n + 22 <= Len(Align(frame))
       /\ \A i \in 1 .. n + 22 : Align(frame)[i] = frame[i]
  BY <1>8, AlignFacts
<1> DEFINE s == e.stack
<1>11. /\ s \in Seq(Contents) /\ Aligned(s) /\ n + 22 <= Len(s)
       /\ \A i \in 1 .. n + 22 : s[i] = frame[i]
  BY <1>9, <1>10
<1> HIDE DEF e, s, n, a
<1>12. \A i \in 1 .. n + 7 : s[i] = st.stack[i]
  <2>1. \A i \in 1 .. n + 7 : i \in 1 .. n + 22
    BY <1>2
  <2> QED BY <1>8, <1>11, <2>1
<1>13. \A j \in 1 .. 15 : s[n + 7 + j] = m.regs[PushOrder[j]]
  <2>1. \A j \in 1 .. 15 : n + 7 + j \in 1 .. n + 22
    BY <1>2
  <2> QED BY <1>8, <1>11, <2>1
<1>14. \A i \in 1 .. Len(m.stack) : s[i] = m.stack[i]
  BY <1>2, <1>7, <1>12
<1>15. \A j \in 1 .. 7 : s[n + j] = st.stack[n + j]
  BY <1>2, <1>12
<1>16. /\ s[n + 1] = m.ss /\ s[n + 2] = Word(Len(m.stack)) /\ s[n + 3] = m.rflags
       /\ s[n + 4] = m.cs /\ s[n + 5] = m.rip
       /\ s[n + 6] = Word(IF code = NoCode THEN 0 ELSE code)
       /\ s[n + 7] = Word(v)
  BY <1>7, <1>15
<1> QED BY <1>2, <1>9, <1>11, <1>13, <1>14, <1>16 DEF Framed, s, n, a, e

\* A C function leaves the frame and rbp alone.
LEMMA CalledFrame ==
  ASSUME NEW e \in Machine, NEW m, NEW v, NEW code, Framed(e, m, v, code)
  PROVE  Called(e) \in Machine /\ Framed(Called(e), m, v, code)
<1>1. Junk \in Contents
  BY DEF Contents
<1> DEFINE g == [r \in Registers |-> IF r \in CallerSaved THEN Junk ELSE e.regs[r]]
<1>2. g \in [Registers -> Contents] /\ g["rbp"] = e.regs["rbp"]
  <2> HIDE DEF Junk
  <2> QED BY <1>1, RegisterFacts DEF Machine
<1>3. Called(e) = [e EXCEPT !.regs = g]
  BY DEF Called
<1> HIDE DEF g
<1>4. Called(e).stack = e.stack /\ Called(e).regs = g /\ Called(e) \in Machine
  BY <1>2, <1>3 DEF Machine
<1> QED BY <1>2, <1>4 DEF Framed

\* The C handlers read the interrupted code's registers, and vector and code of the
\* trap, through their pointer.
LEMMA FrameShows ==
  ASSUME NEW e, NEW m, NEW v, NEW code, Framed(e, m, v, code)
  PROVE  /\ \A r \in Registers : Frame(e)[r] = m.regs[r]
         /\ Frame(e).rip = m.rip /\ Frame(e).cs = m.cs /\ Frame(e).rflags = m.rflags
         /\ Frame(e).ss = m.ss /\ Frame(e).rsp = Word(Len(m.stack))
         /\ Frame(e).vector = Word(v)
         /\ Frame(e).error_code = Word(IF code = NoCode THEN 0 ELSE code)
<1> DEFINE n == Len(Align(m.stack))
           s == e.stack
<1>1. /\ n \in Nat /\ s[n + 1] = m.ss /\ s[n + 2] = Word(Len(m.stack)) /\ s[n + 3] = m.rflags
      /\ s[n + 4] = m.cs /\ s[n + 5] = m.rip
      /\ s[n + 6] = Word(IF code = NoCode THEN 0 ELSE code)
      /\ s[n + 7] = Word(v)
      /\ \A j \in 1 .. 15 : s[n + 7 + j] = m.regs[PushOrder[j]]
      /\ e.regs["rbp"] = Word(n + 22)
  BY DEF Framed
<1>2. e.regs["rbp"][2] = n + 22
  BY <1>1 DEF Word
<1> HIDE DEF n, s
<1>3. ASSUME NEW i \in 1 .. 22 PROVE Frame(e)[FrameFields[i]] = s[(n + 22) - i + 1]
  <2>1. FrameFields[i] \in {FrameFields[k] : k \in DOMAIN FrameFields}
    BY RegisterFacts
  <2>2. IndexOf(FrameFields, FrameFields[i]) = i
    BY Places
  <2> HIDE DEF n, s
  <2> QED BY <1>2, <2>1, <2>2 DEF Frame, s
<1>4. ASSUME NEW r \in Registers PROVE Frame(e)[r] = m.regs[r]
  <2>1. PICK j \in 1 .. 15 : r = PopOrder[j]
    BY RegisterFacts
  <2>2. r = FrameFields[j] /\ r = PushOrder[16 - j] /\ j \in 1 .. 22 /\ 16 - j \in 1 .. 15
    BY <2>1, RegisterFacts
  <2>3. n \in Nat /\ j \in Int
    BY <1>1, <2>2
  <2>4. (n + 22) - j + 1 = n + 7 + (16 - j)
    BY ONLY <2>3, SMT
  <2> QED BY <1>1, <1>3, <2>2, <2>4
<1>5. /\ (n + 22) - 16 + 1 = n + 7 /\ (n + 22) - 17 + 1 = n + 6 /\ (n + 22) - 18 + 1 = n + 5
      /\ (n + 22) - 19 + 1 = n + 4 /\ (n + 22) - 20 + 1 = n + 3 /\ (n + 22) - 21 + 1 = n + 2
      /\ (n + 22) - 22 + 1 = n + 1
  BY <1>1
<1>6. /\ Frame(e)["vector"] = s[n + 7] /\ Frame(e)["error_code"] = s[n + 6] /\ Frame(e)["rip"] = s[n + 5]
      /\ Frame(e)["cs"] = s[n + 4] /\ Frame(e)["rflags"] = s[n + 3] /\ Frame(e)["rsp"] = s[n + 2]
      /\ Frame(e)["ss"] = s[n + 1]
  BY <1>3, <1>5, RegisterFacts
<1> QED BY <1>1, <1>4, <1>6

\* interrupt_return undoes the entry: registers, stack, flags and rip come back.
LEMMA ReturnRestores ==
  ASSUME NEW e, NEW m \in Machine, NEW v, NEW code, Framed(e, m, v, code)
  PROVE  interrupt_return(e) = m
<1> DEFINE n == Len(Align(m.stack))
           s == e.stack
           k == Len(m.stack)
<1>1. /\ n \in Nat /\ k \in Nat /\ k <= n /\ s \in Seq(Contents) /\ n + 22 <= Len(s)
      /\ \A i \in 1 .. k : s[i] = m.stack[i]
      /\ s[n + 1] = m.ss /\ s[n + 2] = Word(k) /\ s[n + 3] = m.rflags
      /\ s[n + 4] = m.cs /\ s[n + 5] = m.rip
      /\ \A j \in 1 .. 15 : s[n + 7 + j] = m.regs[PushOrder[j]]
      /\ e.regs["rbp"] = Word(n + 22)
  BY DEF Framed
<1>2. e.regs["rbp"][2] = n + 22 /\ s[n + 2][2] = k
  BY <1>1 DEF Word
<1>3. m.stack \in Seq(Contents) /\ m.regs \in [Registers -> Contents]
  BY DEF Machine
<1> DEFINE d == n + 22
           iret == d - Len(PopOrder) - Slots
<1>4. interrupt_return(e) =
        [regs |-> [r \in Registers |-> s[d - IndexOf(PopOrder, r) + 1]],
         rip |-> s[iret], cs |-> s[iret - 1], rflags |-> s[iret - 2], ss |-> s[iret - 4],
         stack |-> SubSeq(s, 1, s[iret - 3][2])]
  BY <1>2 DEF interrupt_return
<1> HIDE DEF n, s, k
<1>5. /\ iret = n + 5 /\ iret - 1 = n + 4 /\ iret - 2 = n + 3 /\ iret - 3 = n + 2 /\ iret - 4 = n + 1
  BY <1>1, RegisterFacts DEF Slots
<1> HIDE DEF iret
<1>6. [r \in Registers |-> s[d - IndexOf(PopOrder, r) + 1]] = m.regs
  <2>1. ASSUME NEW r \in Registers PROVE s[d - IndexOf(PopOrder, r) + 1] = m.regs[r]
    <3>1. PICK j \in 1 .. 15 : r = PopOrder[j]
      BY RegisterFacts
    <3>2. r = PushOrder[16 - j] /\ 16 - j \in 1 .. 15 /\ IndexOf(PopOrder, r) = j
      BY <3>1, RegisterFacts, Places
    <3>3. n \in Nat /\ j \in Int
      BY <1>1
    <3>4. d - j + 1 = n + 7 + (16 - j)
      BY ONLY <3>3, SMT
    <3> QED BY <1>1, <3>2, <3>4
  <2> HIDE DEF d
  <2> QED BY <1>3, <2>1
<1>7. SubSeq(s, 1, k) = m.stack
  <2>1. /\ SubSeq(s, 1, k) \in Seq(Contents) /\ Len(SubSeq(s, 1, k)) = k
        /\ \A i \in 1 .. k : SubSeq(s, 1, k)[i] = s[i]
    <3>0. \A i \in 1 .. k : m.stack[i] \in Contents
      BY <1>3 DEF k
    <3>1. \A i \in 1 .. k : s[i] \in Contents
      BY <1>1, <3>0
    <3>2. /\ SubSeq(s, 1, k) \in Seq(Contents)
          /\ Len(SubSeq(s, 1, k)) = (IF 1 <= k THEN k - 1 + 1 ELSE 0)
          /\ \A i \in 1 .. k - 1 + 1 : SubSeq(s, 1, k)[i] = s[1 + i - 1]
      BY <1>1, <3>1, SubSeqProperties
    <3>3. k - 1 + 1 = k /\ (1 <= k \/ k = 0) /\ \A i \in 1 .. k : 1 + i - 1 = i
      BY <1>1
    <3>4. Len(SubSeq(s, 1, k)) = k
      BY <3>2, <3>3
    <3>5. \A i \in 1 .. k : SubSeq(s, 1, k)[i] = s[i]
      BY <3>2, <3>3
    <3> QED BY <3>2, <3>4, <3>5
  <2>2. \A i \in 1 .. k : SubSeq(s, 1, k)[i] = m.stack[i]
    BY <1>1, <2>1
  <2> QED BY <1>3, <2>1, <2>2 DEF k
<1>8. interrupt_return(e) = [regs |-> m.regs, rip |-> m.rip, cs |-> m.cs, rflags |-> m.rflags,
                             ss |-> m.ss, stack |-> m.stack]
  BY <1>1, <1>2, <1>4, <1>5, <1>6, <1>7
<1> QED BY <1>8 DEF Machine

\* Which tail the stub jumps to.
LEMMA TailFound ==
  ASSUME NEW m \in Machine, NEW v \in Nat, NEW code
  PROVE  CommonTail(m, v, code) = IF v < 32 THEN "isr_common" ELSE "irq_common"
<1>1. Delivered(m, v, code).rip = Word(Offset(idt_set_gate(StubOf(v))))
  BY DEF Delivered, Machine
<1>2. Delivered(m, v, code).rip[2] = Offset(idt_set_gate(StubOf(v)))
  BY <1>1 DEF Word
<1> QED BY <1>2, StubFound DEF CommonTail

\* The kernel's code segment satisfies the CPU.
LEMMA KernelSelector ==
  \A v : Is64BitCode(KernelGdt, idt_set_gate(StubOf(v)).selector)
<1>1. ASSUME NEW v PROVE idt_set_gate(StubOf(v)).selector = 8
  BY DEF idt_set_gate, GDT_KERNEL_CODE_SELECTOR
<1>2. 8 \div 8 + 1 = 2 /\ 2 \in DOMAIN KernelGdt /\ KernelGdt[2].access = 154 /\ KernelGdt[2].flags = 10
  BY DEF KernelGdt, gdt_descriptor
<1>3. Bit(154, 7) = 1 /\ Bit(154, 4) = 1 /\ Bit(154, 3) = 1 /\ Bit(10, 1) = 1
  <2>1. 2 ^ 7 = 128 /\ 2 ^ 4 = 16 /\ 2 ^ 3 = 8 /\ 2 ^ 1 = 2
    OBVIOUS
  <2> QED BY <2>1 DEF Bit
<1> QED BY <1>1, <1>2, <1>3 DEF Is64BitCode

\* The CPU's error code has a bit for every fact.
LEMMA FaultCode ==
  ASSUME NEW facts
  PROVE  PageFaultCode(facts) =
           (IF "protection" \in facts THEN 1 ELSE 0) + (IF "write" \in facts THEN 2 ELSE 0)
           + (IF "user" \in facts THEN 4 ELSE 0) + (IF "reserved" \in facts THEN 8 ELSE 0)
           + (IF "fetch" \in facts THEN 16 ELSE 0)
<1> DEFINE I == 0 .. Len(FaultBits)
           bit(n) == IF FaultBits[n] \in facts THEN 2 ^ (n - 1) ELSE 0
           sum(g) == [n \in I |-> IF n = 0 THEN 0 ELSE g[n - 1] + bit(n)]
           g == CHOOSE f : f = sum(f)
           w == [n \in I |-> IF n = 0 THEN 0 ELSE IF n = 1 THEN bit(1)
                             ELSE IF n = 2 THEN bit(1) + bit(2)
                             ELSE IF n = 3 THEN bit(1) + bit(2) + bit(3)
                             ELSE IF n = 4 THEN bit(1) + bit(2) + bit(3) + bit(4)
                             ELSE bit(1) + bit(2) + bit(3) + bit(4) + bit(5)]
<1>1. I = 0 .. 5 /\ Len(FaultBits) = 5
  BY DEF FaultBits
<1>2. \A n \in 1 .. 5 : bit(n) \in Int
  <2>1. \A n \in 1 .. 5 : 2 ^ (n - 1) \in Int
    <3>1. \A n \in 1 .. 5 : n = 1 \/ n = 2 \/ n = 3 \/ n = 4 \/ n = 5
      OBVIOUS
    <3>2. 2 ^ (1 - 1) = 1 /\ 2 ^ (2 - 1) = 2 /\ 2 ^ (3 - 1) = 4 /\ 2 ^ (4 - 1) = 8 /\ 2 ^ (5 - 1) = 16
      OBVIOUS
    <3> QED BY <3>1, <3>2
  <2> QED BY <2>1
<1>3. /\ bit(1) = (IF "protection" \in facts THEN 1 ELSE 0) /\ bit(2) = (IF "write" \in facts THEN 2 ELSE 0)
      /\ bit(3) = (IF "user" \in facts THEN 4 ELSE 0) /\ bit(4) = (IF "reserved" \in facts THEN 8 ELSE 0)
      /\ bit(5) = (IF "fetch" \in facts THEN 16 ELSE 0)
  <2>1. 2 ^ (1 - 1) = 1 /\ 2 ^ (2 - 1) = 2 /\ 2 ^ (3 - 1) = 4 /\ 2 ^ (4 - 1) = 8 /\ 2 ^ (5 - 1) = 16
    OBVIOUS
  <2>2. /\ FaultBits[1] = "protection" /\ FaultBits[2] = "write" /\ FaultBits[3] = "user"
        /\ FaultBits[4] = "reserved" /\ FaultBits[5] = "fetch"
    BY DEF FaultBits
  <2> QED BY <2>1, <2>2
<1>4. PageFaultCode(facts) = g[Len(FaultBits)]
  BY DEF PageFaultCode
<1> HIDE DEF bit, I
<1>5. w = sum(w)
  <2> SUFFICES ASSUME NEW n \in 0 .. 5 PROVE w[n] = IF n = 0 THEN 0 ELSE w[n - 1] + bit(n)
    BY <1>1
  <2>1. n = 0 \/ n = 1 \/ n = 2 \/ n = 3 \/ n = 4 \/ n = 5
    OBVIOUS
  <2>2. /\ w[0] = 0 /\ w[1] = bit(1) /\ w[2] = bit(1) + bit(2) /\ w[3] = bit(1) + bit(2) + bit(3)
        /\ w[4] = bit(1) + bit(2) + bit(3) + bit(4)
        /\ w[5] = bit(1) + bit(2) + bit(3) + bit(4) + bit(5)
    BY <1>1
  <2> HIDE DEF w
  <2> QED BY <1>2, <2>1, <2>2
<1>6. g = sum(g)
  <2>1. \E f : f = sum(f)
    BY <1>5
  <2> QED BY <2>1
<1> HIDE DEF g, w
<1>7. \A n \in 0 .. 5 : g[n] = IF n = 0 THEN 0 ELSE g[n - 1] + bit(n)
  BY <1>1, <1>6
<1>8. /\ g[0] = 0 /\ g[1] = g[0] + bit(1) /\ g[2] = g[1] + bit(2) /\ g[3] = g[2] + bit(3)
      /\ g[4] = g[3] + bit(4) /\ g[5] = g[4] + bit(5)
  BY <1>7
<1> QED BY <1>1, <1>2, <1>3, <1>4, <1>8

\* Every exception's code goes with its vector.
LEMMA CodesMatch ==
  ASSUME NEW v \in Exceptions, NEW code \in Codes(v)
  PROVE  Trapped(v, code) /\ v < 32
<1>1. v \in Nat /\ v < 32
  BY InterruptsAssumption
<1>2. ISR_ERR = ErrorCodeVectors /\ 14 \in ISR_ERR
  BY DEF ISR_ERR, ErrorCodeVectors
<1>3. CASE v = 14
  <2>1. PICK a \in Accesses : code = PageFaultCode(a)
    BY <1>3 DEF Codes
  <2>2. PageFaultCode(a) \in Nat
    BY FaultCode
  <2> QED BY <1>1, <1>2, <1>3, <2>1, <2>2 DEF Trapped, NoCode
<1>4. CASE v # 14
  BY <1>1, <1>2, <1>4 DEF Codes, Trapped, NoCode
<1> QED BY <1>1, <1>3, <1>4

-----------------------------------------------------------------------------
\* The inductive invariant

\* The responses that were checked are there; a kernel that gave up had its serial port.
BootInv ==
  /\ booted \in 0 .. 22 /\ halted \in BOOLEAN
  /\ \A c \in DOMAIN Checks : c \in Done => Checks[c] \in responses
  /\ halted => 1 <= booted

\* Which table is in place from which step on.
TablesInv ==
  /\ 5 <= booted => gdt = KernelGdt
  /\ booted < 7 => gates = {}
  /\ 7 <= booted => 0 .. 31 \subseteq gates
  /\ 9 <= booted => base = IRQ_VECTOR_BASE
  /\ 10 <= booted => 32 .. 47 \subseteq gates
  /\ handlers \in [Lines -> {NoHandler, "timer_irq", "keyboard_irq"}]
  /\ 11 <= booted => handlers[0] = "timer_irq"
  /\ 12 <= booted => handlers[1] = "keyboard_irq"
  /\ irr \subseteq {0, 1}

\* kmain runs.
Running ==
  /\ interrupted = << >> /\ report = << >> /\ isr = {}
  /\ machine.rflags = Flags(TRUE) => booted = 22
  /\ halted => booted < 22

\* A handler runs for an interrupt, the only one.
Serving ==
  LET t == interrupted[1] IN
  /\ interrupted = <<t>> /\ t.kind = "interrupt" /\ t.machine \in Machine
  /\ t.machine.rflags = Flags(TRUE) /\ t.vector \in {32, 33, 39} /\ t.code = NoCode
  /\ Framed(machine, t.machine, t.vector, t.code)
  /\ isr = IF cpu = "iretq" \/ t.vector = 39 THEN {} ELSE {t.vector - 32}
  /\ ~halted /\ booted = 22 /\ report = << >>

\* The dump runs, or has run, for an exception.
Dumping ==
  LET t == Last(interrupted) IN
  /\ interrupted # << >> /\ t.kind = "exception"
  /\ t.machine \in Machine /\ Trapped(t.vector, t.code)
  /\ Framed(machine, t.machine, t.vector, t.code)
  /\ report = IF halted THEN <<dump(Frame(machine))>> ELSE << >>
  /\ 7 <= booted

\* An exception found no gate.
Lost ==
  /\ interrupted # << >> /\ Last(interrupted).kind = "exception"
  /\ booted < 7 /\ report = << >> /\ ~halted

CpuInv ==
  /\ machine \in Machine
  /\ cpu \in {"kmain", "irq_dispatch", "pic_send_eoi", "iretq", "isr_handler", "reset"}
  /\ cpu = "kmain" => Running
  /\ cpu \in {"irq_dispatch", "pic_send_eoi", "iretq"} => Serving
  /\ cpu = "isr_handler" => Dumping
  /\ cpu = "reset" => Lost

IntInv == BootInv /\ TablesInv /\ CpuInv

-----------------------------------------------------------------------------
\* The boot

\* The order of kmain's calls.
LEMMA BootFacts ==
  /\ Len(BootOrder) = 22
  /\ BootOrder[1] = "serial_init" /\ BootOrder[2] = "check_revision"
  /\ BootOrder[3] = "check_framebuffer" /\ BootOrder[4] = "console_init"
  /\ BootOrder[5] = "gdt_init" /\ BootOrder[6] = "idt_init" /\ BootOrder[7] = "isr_init"
  /\ BootOrder[8] = "lapic_disable" /\ BootOrder[9] = "pic_remap" /\ BootOrder[10] = "irq_init"
  /\ BootOrder[11] = "timer_init" /\ BootOrder[12] = "keyboard_init"
  /\ BootOrder[13] = "check_memmap" /\ BootOrder[14] = "check_hhdm" /\ BootOrder[15] = "pmm_init"
  /\ BootOrder[16] = "check_kaddr" /\ BootOrder[17] = "vmm_init" /\ BootOrder[18] = "buddy_init"
  /\ BootOrder[19] = "slab_init" /\ BootOrder[20] = "unmask_timer"
  /\ BootOrder[21] = "unmask_keyboard" /\ BootOrder[22] = "sti"
  /\ \A i, j \in 1 .. 22 : BootOrder[i] = BootOrder[j] => i = j
BY DEF BootOrder

\* A step is done when kmain has got that far.
LEMMA DoneAt ==
  ASSUME booted \in 0 .. 22, NEW k \in 1 .. 22
  PROVE  BootOrder[k] \in Done <=> k <= booted
<1>1. ASSUME k <= booted PROVE BootOrder[k] \in Done
  BY <1>1 DEF Done
<1>2. ASSUME BootOrder[k] \in Done PROVE k <= booted
  <2>1. PICK i \in 1 .. booted : BootOrder[k] = BootOrder[i]
    BY <1>2 DEF Done
  <2>2. i \in 1 .. 22
    OBVIOUS
  <2>3. i = k
    BY <2>1, <2>2, BootFacts
  <2> QED BY <2>3
<1> QED BY <1>1, <1>2

\* kmain about to call a step has done the ones before it.
LEMMA AtStep ==
  ASSUME booted \in 0 .. 22, NEW k \in 1 .. 22, At(BootOrder[k])
  PROVE  booted = k - 1 /\ ~halted
<1>1. booted < 22 /\ BootOrder[booted + 1] = BootOrder[k] /\ ~halted
  BY BootFacts DEF At
<1>2. booted + 1 \in 1 .. 22
  BY <1>1
<1>3. booted + 1 = k
  BY <1>1, <1>2, BootFacts
<1> QED BY <1>1, <1>3

\* One step more.
LEMMA DoneNext ==
  ASSUME booted \in 0 .. 22, NEW f, At(f), booted' = booted + 1
  PROVE  booted' \in 1 .. 22 /\ Done' = Done \cup {f}
<1>1. booted < 22 /\ BootOrder[booted + 1] = f
  BY BootFacts DEF At
<1>2. booted' \in 1 .. 22
  BY <1>1
<1>3. \A i : i \in 1 .. booted' <=> i \in 1 .. booted \/ i = booted + 1
  BY <1>1
<1> QED BY <1>1, <1>2, <1>3 DEF Done

\* A call that checks nothing.
LEMMA DoingKeeps ==
  ASSUME BootInv, NEW f, Doing(f), f \notin DOMAIN Checks
  PROVE  BootInv' /\ booted' = booted + 1 /\ booted' \in 1 .. 22 /\ ~halted /\ ~halted'
<1>1. booted \in 0 .. 22 /\ At(f) /\ booted' = booted + 1 /\ responses' = responses /\ halted' = halted
  BY DEF BootInv, Doing
<1>2. booted' \in 1 .. 22 /\ Done' = Done \cup {f} /\ ~halted
  BY <1>1, DoneNext DEF At
<1>3. \A c \in DOMAIN Checks : c \in Done' => Checks[c] \in responses'
  BY <1>1, <1>2 DEF BootInv
<1> QED BY <1>1, <1>2, <1>3 DEF BootInv

\* The checks are steps of the boot.
LEMMA CheckNames ==
  /\ DOMAIN Checks = {"check_revision", "check_framebuffer", "check_memmap", "check_hhdm", "check_kaddr"}
  /\ Checks["check_revision"] = "revision" /\ Checks["check_framebuffer"] = "framebuffer"
  /\ Checks["check_memmap"] = "memmap" /\ Checks["check_hhdm"] = "hhdm" /\ Checks["check_kaddr"] = "kaddr"
BY DEF Checks

LEMMA FlagsDiffer == Flags(FALSE) # Flags(TRUE) /\ Flags(FALSE) \in Contents /\ Flags(TRUE) \in Contents
<1>1. <<"flags", FALSE>>[2] # <<"flags", TRUE>>[2]
  BY Zenon
<1>2. Flags(FALSE) # Flags(TRUE)
  BY <1>1 DEF Flags
<1>3. Flags(FALSE) \in Contents /\ Flags(TRUE) \in Contents
  BY Zenon DEF Contents
<1> QED BY <1>2, <1>3

\* kmain goes on, with IF as it was or clear, or at its last step.
LEMMA KmainKeeps ==
  ASSUME IntInv, InKmain, machine' \in Machine, isr' = {}, booted < 22, booted' \in 0 .. 22,
         machine'.rflags \in {machine.rflags, Flags(FALSE)} \/ booted' = 22,
         halted' => booted' < 22
  PROVE  CpuInv'
<1>1. /\ cpu = "kmain" /\ cpu' = "kmain" /\ interrupted' = interrupted /\ report' = report
  BY DEF InKmain
<1>2. Running
  BY <1>1 DEF IntInv, CpuInv
<1>3. machine.rflags # Flags(TRUE) /\ interrupted = << >> /\ report = << >>
  <2>1. (machine.rflags = Flags(TRUE) => booted = 22) /\ interrupted = << >> /\ report = << >>
    BY <1>2 DEF Running
  <2>2. booted # 22
    OBVIOUS
  <2> QED BY <2>1, <2>2
<1>4. Running'
  <2>1. machine'.rflags = Flags(TRUE) => booted' = 22
    BY <1>3, FlagsDiffer
  <2> QED BY <1>1, <1>3, <2>1 DEF Running
<1> QED BY <1>1, <1>4 DEF CpuInv

-----------------------------------------------------------------------------
\* Every step preserves the invariant

LEMMA InitIntInv == Init => IntInv
<1> SUFFICES ASSUME Init PROVE IntInv
  OBVIOUS
<1>1. booted = 0 /\ halted = FALSE /\ responses = {}
  BY DEF Init, BootInit
<1>2. BootInv
  <2>1. Done = {}
    BY <1>1 DEF Done
  <2>2. booted \in 0 .. 22
    BY <1>1
  <2> QED BY <1>1, <2>1, <2>2, Zenon DEF BootInv
<1>3. TablesInv
  BY <1>1 DEF Init, TablesInv, Lines, IRQ_COUNT
<1>4. PICK d \in {0, 1} : machine = KmainMachine(d)
  BY DEF Init
<1>5. machine \in Machine /\ machine.rflags = Flags(FALSE)
  <2>1. /\ \A r \in Registers : Name(r) \in Contents
        /\ Name("local") \in Contents /\ Name("kmain") \in Contents
    BY DEF Contents
  <2>2. Word(LIMINE_CODE_SELECTOR) \in Contents /\ Word(LIMINE_DATA_SELECTOR) \in Contents
    BY DEF Contents, LIMINE_CODE_SELECTOR, LIMINE_DATA_SELECTOR
  <2>3. [i \in 1 .. d |-> Name("local")] \in Seq(Contents)
    <3>1. d \in Nat
      OBVIOUS
    <3> HIDE DEF Name
    <3> QED BY <2>1, <3>1
  <2> HIDE DEF Name, Word
  <2> QED BY <1>4, <2>1, <2>2, <2>3, FlagsDiffer DEF KmainMachine, Machine
<1>6. CpuInv
  <2>1. Running
    BY <1>1, <1>5, FlagsDiffer DEF Init, Running
  <2> QED BY <1>5, <2>1 DEF Init, CpuInv
<1> QED BY <1>2, <1>3, <1>6 DEF IntInv

\* The boot's steps that have a position of their own.
LEMMA BootStepInv ==
  ASSUME IntInv,
         \/ gdt_init \/ idt_init \/ isr_init \/ lapic_disable \/ pic_remap \/ irq_init
         \/ timer_init \/ keyboard_init \/ unmask_timer \/ unmask_keyboard \/ sti
  PROVE  IntInv'
<1>0. BootInv /\ TablesInv /\ booted \in 0 .. 22 /\ machine \in Machine
  BY DEF IntInv, BootInv, CpuInv
<1>1. InKmain
  BY DEF gdt_init, idt_init, isr_init, lapic_disable, pic_remap, irq_init, timer_init,
         keyboard_init, unmask_timer, unmask_keyboard, sti
<1>2. isr = {}
  BY <1>1 DEF IntInv, CpuInv, InKmain, Running
<1>3. /\ {0, 1} \subseteq Lines
      /\ \A h \in {"timer_irq", "keyboard_irq"} : \A i \in {0, 1} :
           irq_install_handler(i, h) =>
             /\ handlers' \in [Lines -> {NoHandler, "timer_irq", "keyboard_irq"}]
             /\ handlers'[i] = h /\ \A j \in {0, 1} : j # i => handlers'[j] = handlers[j]
  <2>1. {0, 1} \subseteq Lines
    BY DEF Lines, IRQ_COUNT
  <2> QED BY <1>0, <2>1 DEF TablesInv, irq_install_handler
<1>4. CASE gdt_init
  <2>1. Doing(BootOrder[5]) /\ booted = 4 /\ BootOrder[5] \notin DOMAIN Checks
    BY <1>0, <1>4, BootFacts, CheckNames, AtStep DEF gdt_init, Doing
  <2>2. BootInv' /\ booted' = 5 /\ ~halted'
    BY <1>0, <2>1, DoingKeeps
  <2>3. machine' \in Machine /\ machine'.rflags = machine.rflags
    <3>1. Word(GDT_KERNEL_CODE_SELECTOR) \in Contents /\ Word(GDT_KERNEL_DATA_SELECTOR) \in Contents
      BY DEF Contents, GDT_KERNEL_CODE_SELECTOR, GDT_KERNEL_DATA_SELECTOR
    <3> HIDE DEF Word
    <3> QED BY <1>0, <1>4, <3>1 DEF gdt_init, GdtLoaded, Machine
  <2>4. TablesInv'
    BY <1>0, <1>4, <2>1, <2>2 DEF gdt_init, TablesInv, picVars
  <2>5. CpuInv'
    BY <1>1, <1>2, <1>4, <2>1, <2>2, <2>3, KmainKeeps DEF gdt_init, picVars
  <2> QED BY <2>2, <2>4, <2>5 DEF IntInv
<1>5. CASE idt_init
  <2>1. Doing(BootOrder[6]) /\ booted = 5 /\ BootOrder[6] \notin DOMAIN Checks
    BY <1>0, <1>5, BootFacts, CheckNames, AtStep DEF idt_init, Doing
  <2>2. BootInv' /\ booted' = 6 /\ ~halted'
    BY <1>0, <2>1, DoingKeeps
  <2>4. TablesInv'
    BY <1>0, <1>5, <2>1, <2>2 DEF idt_init, TablesInv, picVars
  <2>5. CpuInv'
    BY <1>0, <1>1, <1>2, <1>5, <2>1, <2>2, KmainKeeps DEF idt_init, picVars
  <2> QED BY <2>2, <2>4, <2>5 DEF IntInv
<1>6. CASE isr_init
  <2>1. Doing(BootOrder[7]) /\ booted = 6 /\ BootOrder[7] \notin DOMAIN Checks
    BY <1>0, <1>6, BootFacts, CheckNames, AtStep DEF isr_init, Doing
  <2>2. BootInv' /\ booted' = 7 /\ ~halted'
    BY <1>0, <2>1, DoingKeeps
  <2>4. TablesInv'
    BY <1>0, <1>6, <2>1, <2>2 DEF isr_init, TablesInv, picVars
  <2>5. CpuInv'
    BY <1>0, <1>1, <1>2, <1>6, <2>1, <2>2, KmainKeeps DEF isr_init, picVars
  <2> QED BY <2>2, <2>4, <2>5 DEF IntInv
<1>7. CASE lapic_disable
  <2>1. Doing(BootOrder[8]) /\ booted = 7 /\ BootOrder[8] \notin DOMAIN Checks
    BY <1>0, <1>7, BootFacts, CheckNames, AtStep DEF lapic_disable, Doing
  <2>2. BootInv' /\ booted' = 8 /\ ~halted'
    BY <1>0, <2>1, DoingKeeps
  <2>4. TablesInv'
    BY <1>0, <1>7, <2>1, <2>2 DEF lapic_disable, TablesInv, picVars
  <2>5. CpuInv'
    BY <1>0, <1>1, <1>2, <1>7, <2>1, <2>2, KmainKeeps DEF lapic_disable, picVars
  <2> QED BY <2>2, <2>4, <2>5 DEF IntInv
<1>8. CASE pic_remap
  <2>1. Doing(BootOrder[9]) /\ booted = 8 /\ BootOrder[9] \notin DOMAIN Checks
    BY <1>0, <1>8, BootFacts, CheckNames, AtStep DEF pic_remap, Doing
  <2>2. BootInv' /\ booted' = 9 /\ ~halted'
    BY <1>0, <2>1, DoingKeeps
  <2>4. TablesInv'
    BY <1>0, <1>8, <2>1, <2>2 DEF pic_remap, TablesInv, tableVars
  <2>5. CpuInv'
    BY <1>0, <1>1, <1>2, <1>8, <2>1, <2>2, KmainKeeps DEF pic_remap, tableVars
  <2> QED BY <2>2, <2>4, <2>5 DEF IntInv
<1>9. CASE irq_init
  <2>1. Doing(BootOrder[10]) /\ booted = 9 /\ BootOrder[10] \notin DOMAIN Checks
    BY <1>0, <1>9, BootFacts, CheckNames, AtStep DEF irq_init, Doing
  <2>2. BootInv' /\ booted' = 10 /\ ~halted'
    BY <1>0, <2>1, DoingKeeps
  <2>4. TablesInv'
    BY <1>0, <1>9, <2>1, <2>2 DEF irq_init, TablesInv, picVars, IRQ_VECTOR_BASE, IRQ_COUNT
  <2>5. CpuInv'
    BY <1>0, <1>1, <1>2, <1>9, <2>1, <2>2, KmainKeeps DEF irq_init, picVars
  <2> QED BY <2>2, <2>4, <2>5 DEF IntInv
<1>10. CASE timer_init
  <2>1. Doing(BootOrder[11]) /\ booted = 10 /\ BootOrder[11] \notin DOMAIN Checks
    BY <1>0, <1>10, BootFacts, CheckNames, AtStep DEF timer_init, Doing
  <2>2. BootInv' /\ booted' = 11 /\ ~halted'
    BY <1>0, <2>1, DoingKeeps
  <2>4. TablesInv'
    BY <1>0, <1>3, <1>10, <2>1, <2>2 DEF timer_init, TablesInv, picVars
  <2>5. CpuInv'
    BY <1>0, <1>1, <1>2, <1>10, <2>1, <2>2, KmainKeeps DEF timer_init, picVars
  <2> QED BY <2>2, <2>4, <2>5 DEF IntInv
<1>11. CASE keyboard_init
  <2>1. Doing(BootOrder[12]) /\ booted = 11 /\ BootOrder[12] \notin DOMAIN Checks
    BY <1>0, <1>11, BootFacts, CheckNames, AtStep DEF keyboard_init, Doing
  <2>2. BootInv' /\ booted' = 12 /\ ~halted'
    BY <1>0, <2>1, DoingKeeps
  <2>4. TablesInv'
    BY <1>0, <1>3, <1>11, <2>1, <2>2 DEF keyboard_init, TablesInv, picVars
  <2>5. CpuInv'
    BY <1>0, <1>1, <1>2, <1>11, <2>1, <2>2, KmainKeeps DEF keyboard_init, picVars
  <2> QED BY <2>2, <2>4, <2>5 DEF IntInv
<1>12. CASE unmask_timer
  <2>1. Doing(BootOrder[20]) /\ booted = 19 /\ BootOrder[20] \notin DOMAIN Checks
    BY <1>0, <1>12, BootFacts, CheckNames, AtStep DEF unmask_timer, Doing
  <2>2. BootInv' /\ booted' = 20 /\ ~halted'
    BY <1>0, <2>1, DoingKeeps
  <2>4. TablesInv'
    BY <1>0, <1>12, <2>1, <2>2 DEF unmask_timer, TablesInv, tableVars
  <2>5. CpuInv'
    BY <1>0, <1>1, <1>2, <1>12, <2>1, <2>2, KmainKeeps DEF unmask_timer, tableVars
  <2> QED BY <2>2, <2>4, <2>5 DEF IntInv
<1>13. CASE unmask_keyboard
  <2>1. Doing(BootOrder[21]) /\ booted = 20 /\ BootOrder[21] \notin DOMAIN Checks
    BY <1>0, <1>13, BootFacts, CheckNames, AtStep DEF unmask_keyboard, Doing
  <2>2. BootInv' /\ booted' = 21 /\ ~halted'
    BY <1>0, <2>1, DoingKeeps
  <2>4. TablesInv'
    BY <1>0, <1>13, <2>1, <2>2 DEF unmask_keyboard, TablesInv, tableVars
  <2>5. CpuInv'
    BY <1>0, <1>1, <1>2, <1>13, <2>1, <2>2, KmainKeeps DEF unmask_keyboard, tableVars
  <2> QED BY <2>2, <2>4, <2>5 DEF IntInv
<1>14. CASE sti
  <2>1. Doing(BootOrder[22]) /\ booted = 21 /\ BootOrder[22] \notin DOMAIN Checks
    BY <1>0, <1>14, BootFacts, CheckNames, AtStep DEF sti, Doing
  <2>2. BootInv' /\ booted' = 22 /\ ~halted'
    BY <1>0, <2>1, DoingKeeps
  <2>3. machine' \in Machine
    BY <1>0, <1>14, FlagsDiffer DEF sti, Machine
  <2>4. TablesInv'
    BY <1>0, <1>14, <2>1, <2>2 DEF sti, TablesInv, tableVars, picVars
  <2>5. CpuInv'
    BY <1>1, <1>2, <1>14, <2>1, <2>2, <2>3, KmainKeeps DEF sti, picVars
  <2> QED BY <2>2, <2>4, <2>5 DEF IntInv
<1> QED BY <1>4, <1>5, <1>6, <1>7, <1>8, <1>9, <1>10, <1>11, <1>12, <1>13, <1>14

\* The tables do not change once they are in place.
LEMMA TablesKeep ==
  ASSUME IntInv, UNCHANGED <<tableVars, base>>, irr' \subseteq {0, 1},
         \/ booted' = booted
         \/ booted' = booted + 1 /\ booted \notin {4, 6, 8, 9, 10, 11}
  PROVE  TablesInv'
<1>1. /\ gdt' = gdt /\ gates' = gates /\ handlers' = handlers /\ base' = base /\ booted \in 0 .. 22
  BY DEF tableVars, IntInv, BootInv
<1> QED BY <1>1 DEF IntInv, TablesInv

\* The boot's other steps.
LEMMA QuietInv ==
  ASSUME IntInv, quiet_init
  PROVE  IntInv'
<1>0. BootInv /\ booted \in 0 .. 22 /\ machine \in Machine /\ irr \subseteq {0, 1}
  BY DEF IntInv, BootInv, CpuInv, TablesInv
<1>1. /\ InKmain /\ machine' = machine /\ isr' = isr /\ irr' = irr /\ UNCHANGED <<tableVars, base>>
  BY DEF quiet_init, picVars
<1>2. isr = {}
  BY <1>1 DEF IntInv, CpuInv, InKmain, Running
<1>3. PICK f \in {"serial_init", "console_init", "pmm_init", "vmm_init", "buddy_init", "slab_init"} : Doing(f)
  BY DEF quiet_init
<1>4. f \notin DOMAIN Checks
  BY CheckNames
<1>5. BootInv' /\ booted' = booted + 1 /\ booted' \in 1 .. 22 /\ ~halted'
  BY <1>0, <1>3, <1>4, DoingKeeps
<1>6. booted \notin {4, 6, 8, 9, 10, 11}
  <2>1. BootOrder[booted + 1] = f
    BY <1>3 DEF Doing, At
  <2> QED BY <2>1, BootFacts
<1>7. TablesInv'
  BY <1>0, <1>1, <1>5, <1>6, TablesKeep
<1>8. CpuInv'
  BY <1>0, <1>1, <1>2, <1>5, KmainKeeps
<1> QED BY <1>5, <1>7, <1>8 DEF IntInv

\* A check of the bootloader's answers, or giving up.
LEMMA CheckInv ==
  ASSUME IntInv, check_response \/ give_up
  PROVE  IntInv'
<1>0. BootInv /\ booted \in 0 .. 22 /\ machine \in Machine /\ irr \subseteq {0, 1}
  BY DEF IntInv, BootInv, CpuInv, TablesInv
<1>1. InKmain /\ isr' = isr /\ irr' = irr /\ UNCHANGED <<tableVars, base>>
  BY DEF check_response, give_up, picVars
<1>2. isr = {}
  BY <1>1 DEF IntInv, CpuInv, InKmain, Running
<1>3. machine' \in Machine /\ machine'.rflags \in {machine.rflags, Flags(FALSE)}
  BY <1>0, FlagsDiffer DEF check_response, give_up, Machine
<1>4. ASSUME NEW f, At(f), f \in DOMAIN Checks \cup {"pmm_init", "vmm_init"}
      PROVE  booted < 22 /\ 1 <= booted /\ booted \notin {4, 6, 8, 9, 10, 11} /\ ~halted
  <2>1. BootOrder[booted + 1] = f /\ booted < 22 /\ ~halted
    BY <1>4, BootFacts DEF At
  <2>2. f # "serial_init" /\ f # "gdt_init" /\ f # "isr_init" /\ f # "pic_remap" /\ f # "irq_init"
        /\ f # "timer_init" /\ f # "keyboard_init"
    BY <1>4, CheckNames
  <2>3. booted # 0
    BY <2>1, <2>2, BootFacts
  <2> QED BY <1>0, <2>1, <2>2, <2>3, BootFacts
<1>5. CASE Halting /\ \E f \in DOMAIN Checks \cup {"pmm_init", "vmm_init"} : At(f)
  <2>1. booted < 22 /\ 1 <= booted /\ booted' = booted /\ responses' = responses /\ halted' = TRUE
    BY <1>4, <1>5 DEF Halting
  <2>2. BootInv'
    BY <1>0, <2>1 DEF BootInv, Done
  <2>3. TablesInv'
    BY <1>0, <1>1, <2>1, TablesKeep
  <2>4. CpuInv'
    BY <1>0, <1>1, <1>2, <1>3, <2>1, KmainKeeps
  <2> QED BY <2>2, <2>3, <2>4 DEF IntInv
<1>6. CASE \E c \in DOMAIN Checks : /\ At(c) /\ responses' = responses \cup {Checks[c]}
                                    /\ booted' = booted + 1 /\ UNCHANGED halted
  <2>1. PICK c \in DOMAIN Checks : /\ At(c) /\ responses' = responses \cup {Checks[c]}
                                   /\ booted' = booted + 1 /\ halted' = halted
    BY <1>6
  <2>2. booted < 22 /\ booted \notin {4, 6, 8, 9, 10, 11} /\ ~halted
    BY <1>4, <2>1
  <2>3. booted' \in 1 .. 22 /\ Done' = Done \cup {c}
    BY <1>0, <2>1, DoneNext
  <2>4. BootInv'
    BY <1>0, <2>1, <2>2, <2>3 DEF BootInv
  <2>5. TablesInv'
    BY <1>0, <1>1, <2>1, <2>2, TablesKeep
  <2>6. ~halted'
    BY <2>1, <2>2
  <2>7. CpuInv'
    <3>1. booted' \in 0 .. 22 /\ isr' = {}
      BY <1>1, <1>2, <2>3
    <3>2. halted' => booted' < 22
      BY <2>6
    <3> QED BY <1>1, <1>3, <2>2, <3>1, <3>2, KmainKeeps
  <2> QED BY <2>4, <2>5, <2>7 DEF IntInv
<1> QED BY <1>5, <1>6 DEF check_response, give_up, check, memory_fails

\* The boot stands still.
LEMMA BootStill ==
  ASSUME BootInv, UNCHANGED bootVars
  PROVE  BootInv' /\ booted' = booted /\ halted' = halted
BY DEF BootInv, bootVars, Done

\* A device's step.
LEMMA DeviceInv ==
  ASSUME IntInv, Device, irr' \subseteq {0, 1}
  PROVE  IntInv'
<1>1. /\ UNCHANGED bootVars /\ UNCHANGED <<tableVars, base>> /\ isr' = isr
      /\ cpu' = cpu /\ machine' = machine /\ interrupted' = interrupted /\ report' = report
  BY DEF Device, cpuVars
<1>2. BootInv' /\ booted' = booted /\ halted' = halted
  BY <1>1, BootStill DEF IntInv
<1>3. TablesInv'
  BY <1>1, <1>2, TablesKeep
<1>4. CpuInv'
  BY <1>1, <1>2 DEF IntInv, CpuInv, Running, Serving, Dumping, Lost
<1> QED BY <1>2, <1>3, <1>4 DEF IntInv

\* What is behind the CPU once it has gone through a gate.
LEMMA LastAppended ==
  ASSUME NEW q, NEW x, q = << >> \/ \E y : q = <<y>>
  PROVE  Last(Append(q, x)) = x /\ Append(q, x) # << >> /\ (q = << >> => Append(q, x) = <<x>>)
<1>1. CASE q = << >>
  <2>1. Append(<< >>, x) = <<x>>
    OBVIOUS
  <2>2. Len(<<x>>) = 1 /\ <<x>>[1] = x /\ <<x>> # << >>
    OBVIOUS
  <2> QED BY <1>1, <2>1, <2>2 DEF Last
<1>2. CASE \E y : q = <<y>>
  <2>1. PICK y : q = <<y>>
    BY <1>2
  <2>2. <<y>> \in Seq({x, y}) /\ Len(<<y>>) = 1 /\ <<y>> # << >>
    OBVIOUS
  <2>3. /\ Len(Append(<<y>>, x)) = 2 /\ Append(<<y>>, x)[2] = x /\ Append(<<y>>, x) # << >>
    BY <2>2, AppendProperties
  <2> QED BY <2>1, <2>2, <2>3 DEF Last
<1> QED BY <1>1, <1>2

\* Through the gate, or lost without one.
LEMMA Through ==
  ASSUME IntInv, NEW kind, NEW v, NEW code, Trapped(v, code), Enter(kind, v, code)
  PROVE  /\ UNCHANGED bootVars /\ UNCHANGED <<tableVars, base>> /\ report' = report
         /\ interrupted' = Append(interrupted, [kind |-> kind, machine |-> machine,
                                                vector |-> v, code |-> code])
         /\ v \in gates /\ 7 <= booted =>
              /\ machine' \in Machine /\ Framed(machine', machine, v, code)
              /\ cpu' = IF v < 32 THEN "isr_handler" ELSE "irq_dispatch"
         /\ v \notin gates => cpu' = "reset" /\ machine' = machine
<1>1. machine \in Machine /\ v \in Nat
  BY DEF IntInv, CpuInv, Trapped
<1>2. /\ UNCHANGED bootVars /\ UNCHANGED <<tableVars, base>> /\ report' = report
      /\ interrupted' = Append(interrupted, [kind |-> kind, machine |-> machine,
                                             vector |-> v, code |-> code])
  BY DEF Enter
<1>3. ASSUME v \in gates, 7 <= booted
      PROVE  /\ machine' \in Machine /\ Framed(machine', machine, v, code)
             /\ cpu' = IF v < 32 THEN "isr_handler" ELSE "irq_dispatch"
  <2>1. gdt = KernelGdt
    BY <1>3 DEF IntInv, TablesInv, BootInv
  <2>2. Is64BitCode(gdt, idt_set_gate(StubOf(v)).selector)
    BY <2>1, KernelSelector
  <2>3. /\ machine' = Entered(machine, v, code)
        /\ cpu' = IF CommonTail(machine, v, code) = "isr_common" THEN "isr_handler" ELSE "irq_dispatch"
    BY <1>3, <2>2 DEF Enter
  <2>4. machine' \in Machine /\ Framed(machine', machine, v, code)
    BY <1>1, <2>3, EnteredFrame
  <2>5. CommonTail(machine, v, code) = IF v < 32 THEN "isr_common" ELSE "irq_common"
    BY <1>1, TailFound
  <2> QED BY <2>3, <2>4, <2>5
<1>4. ASSUME v \notin gates PROVE cpu' = "reset" /\ machine' = machine
  BY <1>4 DEF Enter
<1> QED BY <1>2, <1>3, <1>4

\* A device's interrupt, or a spurious one, is served with everything in place.
LEMMA InterruptInv ==
  ASSUME IntInv, NEW i \in Lines, interrupt(i) \/ spurious(i)
  PROVE  IntInv'
<1>1. CanInterrupt /\ i \in irr /\ irr' \subseteq irr
  BY DEF interrupt, spurious, Pending
<1>2. cpu = "kmain" /\ machine.rflags = Flags(TRUE) /\ machine \in Machine /\ Running
  BY <1>1 DEF CanInterrupt, IntInv, CpuInv
<1>3. booted = 22 /\ isr = {} /\ interrupted = << >> /\ report = << >> /\ ~halted
  BY <1>2 DEF Running
<1>4. irr \subseteq {0, 1} /\ base = 32 /\ 32 .. 47 \subseteq gates
  BY <1>3 DEF IntInv, TablesInv, IRQ_VECTOR_BASE
<1>5. i \in {0, 1} /\ irr' \subseteq {0, 1}
  BY <1>1, <1>4
<1>6. PICK v : /\ v \in {32, 33, 39} /\ Enter("interrupt", v, NoCode)
               /\ isr' = IF v = 39 THEN {} ELSE {v - 32}
  <2>1. CASE interrupt(i)
    <3>1. base + i \in {32, 33} /\ (base + i) - 32 = i
      BY <1>4, <1>5
    <3>2. isr' = {(base + i) - 32} /\ base + i # 39
      BY <1>3, <2>1, <3>1 DEF interrupt
    <3> QED BY <2>1, <3>1, <3>2 DEF interrupt
  <2>2. CASE spurious(i)
    <3>1. base + 7 = 39
      BY <1>4
    <3> QED BY <1>3, <2>2, <3>1 DEF spurious
  <2> QED BY <2>1, <2>2
<1> DEFINE t == [kind |-> "interrupt", machine |-> machine, vector |-> v, code |-> NoCode]
<1>7. Trapped(v, NoCode) /\ v \in gates /\ ~(v < 32)
  BY <1>4, <1>6 DEF Trapped, NoCode, ISR_ERR
<1>8. /\ UNCHANGED bootVars /\ UNCHANGED <<tableVars, base>> /\ report' = report
      /\ interrupted' = Append(interrupted, t)
      /\ machine' \in Machine /\ Framed(machine', machine, v, NoCode)
      /\ cpu' = "irq_dispatch"
  BY <1>3, <1>6, <1>7, Through
<1>9. interrupted' = <<t>>
  BY <1>3, <1>8, LastAppended
<1>10. BootInv' /\ booted' = booted /\ halted' = halted
  BY <1>8, BootStill DEF IntInv
<1>11. TablesInv'
  BY <1>5, <1>8, <1>10, TablesKeep
<1>12. CpuInv'
  <2>1. /\ interrupted'[1] = t /\ t.kind = "interrupt" /\ t.machine = machine
        /\ t.vector = v /\ t.code = NoCode
    BY <1>9
  <2> HIDE DEF t
  <2>2. Serving'
    BY <1>2, <1>3, <1>6, <1>8, <1>9, <1>10, <2>1 DEF Serving
  <2> QED BY <1>8, <2>2 DEF CpuInv
<1> QED BY <1>10, <1>11, <1>12 DEF IntInv

\* An exception reaches the dump once isr_init has run.
LEMMA ExceptionInv ==
  ASSUME IntInv, NEW v \in Exceptions, NEW code \in Codes(v), exception(v, code)
  PROVE  IntInv'
<1>1. Trapped(v, code) /\ v < 32 /\ v \in Nat
  BY CodesMatch DEF Trapped
<1>2. /\ ~halted /\ cpu \in {"kmain", "irq_dispatch", "pic_send_eoi"} /\ irr' = irr /\ isr' = isr
      /\ Enter("exception", v, code)
  BY DEF exception
<1>3. machine \in Machine /\ report = << >> /\ booted \in 0 .. 22
  BY <1>2 DEF IntInv, CpuInv, Running, Serving, BootInv
<1>4. interrupted = << >> \/ \E y : interrupted = <<y>>
  BY <1>2 DEF IntInv, CpuInv, Running, Serving
<1> DEFINE t == [kind |-> "exception", machine |-> machine, vector |-> v, code |-> code]
<1>5. v \in gates <=> 7 <= booted
  <2>1. v \in 0 .. 31
    BY <1>1
  <2>2. (booted < 7 => gates = {}) /\ (7 <= booted => 0 .. 31 \subseteq gates)
    BY DEF IntInv, TablesInv
  <2>3. CASE booted < 7
    BY <1>3, <2>2, <2>3
  <2>4. CASE 7 <= booted
    BY <2>1, <2>2, <2>4
  <2> QED BY <1>3, <2>3, <2>4
<1>6. /\ UNCHANGED bootVars /\ UNCHANGED <<tableVars, base>> /\ report' = report
      /\ interrupted' = Append(interrupted, t)
      /\ 7 <= booted => /\ machine' \in Machine /\ Framed(machine', machine, v, code)
                        /\ cpu' = "isr_handler"
      /\ booted < 7 => cpu' = "reset" /\ machine' = machine
  BY <1>1, <1>2, <1>3, <1>5, Through
<1>7. /\ t.kind = "exception" /\ t.machine = machine /\ t.vector = v /\ t.code = code
      /\ Last(interrupted') = t /\ interrupted' # << >>
  BY <1>4, <1>6, LastAppended
<1> HIDE DEF t
<1>8. BootInv' /\ booted' = booted /\ halted' = halted
  BY <1>6, BootStill DEF IntInv
<1>9. TablesInv'
  <2>1. irr' \subseteq {0, 1}
    BY <1>2 DEF IntInv, TablesInv
  <2> QED BY <1>6, <1>8, <2>1, TablesKeep
<1>10. CpuInv'
  <2>1. CASE 7 <= booted
    <3>1. Dumping'
      BY <1>1, <1>2, <1>3, <1>6, <1>7, <1>8, <2>1 DEF Dumping
    <3> QED BY <1>6, <2>1, <3>1 DEF CpuInv
  <2>2. CASE booted < 7
    <3>1. Lost'
      BY <1>2, <1>3, <1>6, <1>7, <1>8, <2>2 DEF Lost
    <3> QED BY <1>3, <1>6, <2>2, <3>1 DEF CpuInv
  <2> QED BY <1>3, <2>1, <2>2
<1> QED BY <1>8, <1>9, <1>10 DEF IntInv

\* The dump.
LEMMA DumpInv ==
  ASSUME IntInv, isr_handler
  PROVE  IntInv'
<1>1. /\ cpu = "isr_handler" /\ cpu' = cpu /\ ~halted /\ halted' = TRUE
      /\ report' = Append(report, dump(Frame(machine)))
      /\ machine' = Called(machine) /\ responses' = responses /\ booted' = booted
      /\ UNCHANGED <<tableVars, base>> /\ irr' = irr /\ interrupted' = interrupted
  BY DEF isr_handler, picVars
<1>2. machine \in Machine /\ Dumping
  BY <1>1 DEF IntInv, CpuInv
<1>3. report = << >>
  BY <1>1, <1>2 DEF Dumping
<1> DEFINE t == Last(interrupted)
<1>4. /\ interrupted # << >> /\ t.kind = "exception" /\ t.machine \in Machine
      /\ Trapped(t.vector, t.code) /\ 7 <= booted /\ Framed(machine, t.machine, t.vector, t.code)
  BY <1>2 DEF Dumping
<1>5. machine' \in Machine /\ Framed(machine', t.machine, t.vector, t.code)
  BY <1>1, <1>2, <1>4, CalledFrame
<1>6. Frame(machine') = Frame(machine)
  <2>1. machine'.stack = machine.stack /\ machine'.regs["rbp"] = machine.regs["rbp"]
    BY <1>1, <1>2, RegisterFacts DEF Called, Machine
  <2> QED BY <2>1 DEF Frame
<1>7. report' = <<dump(Frame(machine'))>>
  <2> HIDE DEF dump
  <2> QED BY <1>1, <1>3, <1>6, LastAppended
<1>8. BootInv'
  <2>1. 1 <= booted' /\ booted' \in 0 .. 22
    BY <1>1, <1>4 DEF IntInv, BootInv
  <2>2. \A c \in DOMAIN Checks : c \in Done' => Checks[c] \in responses'
    BY <1>1 DEF IntInv, BootInv, Done
  <2> QED BY <1>1, <2>1, <2>2, Zenon DEF BootInv
<1>9. TablesInv'
  <2>1. irr' \subseteq {0, 1}
    BY <1>1 DEF IntInv, TablesInv
  <2> QED BY <1>1, <2>1, TablesKeep
<1>10. Dumping'
  <2> HIDE DEF dump
  <2> QED BY <1>1, <1>4, <1>5, <1>7 DEF Dumping
<1>11. CpuInv'
  BY <1>1, <1>5, <1>10 DEF CpuInv
<1> QED BY <1>8, <1>9, <1>11 DEF IntInv

\* What is served is what the frame says.
LEMMA ServedVector ==
  ASSUME Serving
  PROVE  served = interrupted[1].vector - 32 /\ interrupted[1].vector \in {32, 33, 39}
<1> DEFINE t == interrupted[1]
<1>1. t.vector \in {32, 33, 39} /\ Framed(machine, t.machine, t.vector, t.code)
  BY DEF Serving
<1>2. Frame(machine).vector = Word(t.vector)
  BY <1>1, FrameShows
<1>3. Frame(machine).vector[2] = t.vector
  BY <1>2 DEF Word
<1>4. (t.vector - 32) % 256 = t.vector - 32
  BY <1>1
<1> QED BY <1>1, <1>3, <1>4 DEF served, IRQ_VECTOR_BASE

\* The handler, the EOI and the way back.
LEMMA DispatchInv ==
  ASSUME IntInv, run_handler \/ pic_send_eoi \/ iretq
  PROVE  IntInv'
<1> DEFINE t == interrupted[1]
<1>1. /\ UNCHANGED bootVars /\ UNCHANGED <<tableVars, base>> /\ irr' = irr /\ report' = report
      /\ cpu \in {"irq_dispatch", "pic_send_eoi", "iretq"}
  BY DEF run_handler, pic_send_eoi, iretq, picVars
<1>2. Serving /\ machine \in Machine /\ irr \subseteq {0, 1}
  BY <1>1 DEF IntInv, CpuInv, TablesInv
<1>3. /\ interrupted = <<t>> /\ t.kind = "interrupt" /\ t.machine \in Machine
      /\ t.machine.rflags = Flags(TRUE) /\ t.vector \in {32, 33, 39} /\ t.code = NoCode
      /\ Framed(machine, t.machine, t.vector, t.code)
      /\ isr = (IF cpu = "iretq" \/ t.vector = 39 THEN {} ELSE {t.vector - 32})
      /\ ~halted /\ booted = 22 /\ report = << >>
  BY <1>2 DEF Serving
<1>4. BootInv' /\ booted' = booted /\ halted' = halted
  BY <1>1, BootStill DEF IntInv
<1>5. TablesInv'
  BY <1>1, <1>2, <1>4, TablesKeep
<1>6. CASE run_handler
  <2>1. /\ cpu = "irq_dispatch" /\ cpu' = "pic_send_eoi" /\ machine' = Called(machine)
        /\ isr' = isr /\ interrupted' = interrupted
    BY <1>6 DEF run_handler, picVars
  <2>2. machine' \in Machine /\ Framed(machine', t.machine, t.vector, t.code)
    BY <1>2, <1>3, <2>1, CalledFrame
  <2>3. Serving'
    BY <1>1, <1>3, <1>4, <2>1, <2>2 DEF Serving
  <2>4. CpuInv'
    BY <2>1, <2>2, <2>3 DEF CpuInv
  <2> QED BY <1>4, <1>5, <2>4 DEF IntInv
<1>7. CASE pic_send_eoi
  <2>1. /\ cpu = "pic_send_eoi" /\ cpu' = "iretq" /\ machine' = machine /\ interrupted' = interrupted
        /\ isr' = isr \ {i \in isr : \E chip \in EoiTo : i \in chip /\ \A j \in isr \cap chip : i <= j}
    BY <1>7 DEF pic_send_eoi
  <2>2. isr' = {}
    <3>1. 0 .. 7 \in EoiTo
      BY DEF EoiTo
    <3>2. isr = {} \/ isr = {0} \/ isr = {1}
      BY <1>3, <2>1
    <3>3. \A i \in isr : i \in 0 .. 7 /\ \A j \in isr \cap 0 .. 7 : i <= j
      BY <3>2
    <3> QED BY <2>1, <3>1, <3>3
  <2>3. Serving'
    BY <1>1, <1>3, <1>4, <2>1, <2>2 DEF Serving
  <2>4. CpuInv'
    BY <1>2, <2>1, <2>3 DEF CpuInv
  <2> QED BY <1>4, <1>5, <2>4 DEF IntInv
<1>8. CASE iretq
  <2>1. /\ cpu = "iretq" /\ cpu' = "kmain" /\ machine' = interrupt_return(machine)
        /\ interrupted' = Front(interrupted) /\ isr' = isr
    BY <1>8 DEF iretq, picVars
  <2>2. machine' = t.machine
    BY <1>3, <2>1, ReturnRestores
  <2>3. interrupted' = << >>
    <3>1. Front(<<t>>) = << >>
      <4> HIDE DEF t
      <4> QED BY DEF Front
    <3> QED BY <1>3, <2>1, <3>1
  <2>4. Running'
    BY <1>1, <1>3, <1>4, <2>1, <2>3 DEF Running
  <2>5. CpuInv'
    BY <1>3, <2>1, <2>2, <2>4 DEF CpuInv
  <2> QED BY <1>4, <1>5, <2>5 DEF IntInv
<1> QED BY <1>6, <1>7, <1>8

-----------------------------------------------------------------------------
\* The theorems

LEMMA NextIntInv == IntInv /\ [Next]_vars => IntInv'
<1> SUFFICES ASSUME IntInv, [Next]_vars PROVE IntInv'
  OBVIOUS
<1>1. CASE kmain
  BY <1>1, BootStepInv, QuietInv, CheckInv DEF kmain
<1>2. CASE give_up
  BY <1>2, CheckInv
<1>3. CASE parked \/ UNCHANGED vars
  <2>1. UNCHANGED vars
    BY <1>3 DEF parked
  <2>2. /\ UNCHANGED bootVars /\ UNCHANGED <<tableVars, base>> /\ irr' = irr /\ isr' = isr
        /\ cpu' = cpu /\ machine' = machine /\ interrupted' = interrupted /\ report' = report
    BY <2>1 DEF vars, picVars, cpuVars
  <2>3. BootInv' /\ booted' = booted /\ halted' = halted
    BY <2>2, BootStill DEF IntInv
  <2>4. TablesInv'
    <3>1. irr' \subseteq {0, 1}
      BY <2>2 DEF IntInv, TablesInv
    <3> QED BY <2>2, <2>3, <3>1, TablesKeep
  <2>5. CpuInv'
    BY <2>2, <2>3 DEF IntInv, CpuInv, Running, Serving, Dumping, Lost
  <2> QED BY <2>3, <2>4, <2>5 DEF IntInv
<1>4. CASE pit_edge \/ key_ready \/ \E k \in Scancodes : key_typed(k)
  <2>1. irr \subseteq {0, 1}
    BY DEF IntInv, TablesInv
  <2>2. Device /\ irr' \subseteq {0, 1}
    BY <1>4, <2>1 DEF pit_edge, key_ready, key_typed
  <2> QED BY <2>2, DeviceInv
<1>5. CASE \E i \in Lines : interrupt(i) \/ spurious(i)
  BY <1>5, InterruptInv
<1>6. CASE \E v \in Exceptions : \E code \in Codes(v) : exception(v, code)
  BY <1>6, ExceptionInv
<1>7. CASE isr_handler
  BY <1>7, DumpInv
<1>8. CASE run_handler \/ pic_send_eoi \/ iretq
  BY <1>8, DispatchInv
<1> QED BY <1>1, <1>2, <1>3, <1>4, <1>5, <1>6, <1>7, <1>8 DEF Next

\* The inductive invariant holds: with interrupts, spurious ones and exceptions at any
\* moment of the boot and of the handlers, and on any stack.
THEOREM IntInvariant == Spec => []IntInv
BY InitIntInv, NextIntInv, PTL DEF Spec

\* kmain's order, on every path of bring-up: nothing runs before the bootloader's answer
\* it reads has been checked, or before the steps it builds on.
THEOREM BootSafe == Spec => []BootNeedsMet
<1>1. ASSUME IntInv PROVE BootNeedsMet
  <2>1. booted \in 0 .. 22 /\ (\A c \in DOMAIN Checks : c \in Done => Checks[c] \in responses)
        /\ (halted => 1 <= booted)
    BY <1>1 DEF IntInv, BootInv
  <2>2. \A k \in 1 .. 22 : BootOrder[k] \in Done <=> k <= booted
    BY <2>1, DoneAt
  <2>3. /\ 2 <= booted => "revision" \in responses
        /\ 3 <= booted => "framebuffer" \in responses
        /\ 13 <= booted => "memmap" \in responses
        /\ 14 <= booted => "hhdm" \in responses
        /\ 16 <= booted => "kaddr" \in responses
    BY <2>1, <2>2, BootFacts, CheckNames
  <2>4. /\ 8 <= booted => "lapic_disable" \in Done
        /\ 9 <= booted => "pic_remap" \in Done
        /\ 10 <= booted => "irq_init" \in Done
        /\ 11 <= booted => "timer_init" \in Done
        /\ 12 <= booted => "keyboard_init" \in Done
        /\ 15 <= booted => "pmm_init" \in Done
        /\ 18 <= booted => "buddy_init" \in Done
    BY <2>2, BootFacts
  <2>5. ASSUME NEW f \in Done PROVE Needs(f) \subseteq responses \cup Done
    <3>1. PICK k \in 1 .. booted : f = BootOrder[k]
      BY DEF Done
    <3>2. k \in 1 .. 22 /\ k <= booted
      BY <2>1
    <3>3. CASE k = 4
      <4>1. Needs(f) = {"revision", "framebuffer"}
        BY <3>1, <3>3, BootFacts DEF Needs
      <4> QED BY <2>1, <2>3, <3>2, <3>3, <4>1
    <3>4. CASE k = 15
      <4>1. Needs(f) = {"revision", "memmap", "hhdm"}
        BY <3>1, <3>4, BootFacts DEF Needs
      <4> QED BY <2>1, <2>3, <3>2, <3>4, <4>1
    <3>5. CASE k = 17
      <4>1. Needs(f) = {"revision", "memmap", "hhdm", "kaddr", "pmm_init"}
        BY <3>1, <3>5, BootFacts DEF Needs
      <4> QED BY <2>1, <2>3, <2>4, <3>2, <3>5, <4>1
    <3>6. CASE k = 18
      <4>1. Needs(f) = {"revision", "memmap", "hhdm", "pmm_init"}
        BY <3>1, <3>6, BootFacts DEF Needs
      <4> QED BY <2>1, <2>3, <2>4, <3>2, <3>6, <4>1
    <3>7. CASE k = 19
      <4>1. Needs(f) = {"revision", "hhdm", "buddy_init"}
        BY <3>1, <3>7, BootFacts DEF Needs
      <4> QED BY <2>1, <2>3, <2>4, <3>2, <3>7, <4>1
    <3>8. CASE k = 22
      <4>1. Needs(f) = {"lapic_disable", "pic_remap", "irq_init", "timer_init", "keyboard_init"}
        BY <3>1, <3>8, BootFacts DEF Needs
      <4> QED BY <2>1, <2>4, <3>2, <3>8, <4>1
    <3>9. CASE k \notin {4, 15, 17, 18, 19, 22}
      <4>1. f \notin {"console_init", "pmm_init", "vmm_init", "buddy_init", "slab_init", "sti"}
        BY <3>1, <3>2, <3>9, BootFacts
      <4>2. Needs(f) = {}
        BY <4>1 DEF Needs
      <4> QED BY <4>2
    <3> QED BY <3>3, <3>4, <3>5, <3>6, <3>7, <3>8, <3>9
  <2>6. halted => "serial_init" \in Done
    BY <2>1, <2>2, BootFacts
  <2> QED BY <2>5, <2>6 DEF BootNeedsMet
<1> QED BY <1>1, IntInvariant, PTL

\* An interrupt finds its gate, its stub and its handler; only exceptions end in the
\* dump or in a reset.
THEOREM LandsReal == Spec => []LandsSomewhereReal
<1>1. ASSUME IntInv PROVE LandsSomewhereReal
  <2>1. ASSUME cpu = "irq_dispatch"
        PROVE  IF isr = {} THEN served = 7 ELSE isr = {served} /\ Handler # NoHandler
    <3>1. Serving
      BY <1>1, <2>1 DEF IntInv, CpuInv
    <3>2. served = interrupted[1].vector - 32 /\ interrupted[1].vector \in {32, 33, 39}
      BY <3>1, ServedVector
    <3>3. isr = (IF interrupted[1].vector = 39 THEN {} ELSE {interrupted[1].vector - 32}) /\ booted = 22
      BY <2>1, <3>1 DEF Serving
    <3>4. handlers[0] = "timer_irq" /\ handlers[1] = "keyboard_irq"
      BY <1>1, <3>3 DEF IntInv, TablesInv
    <3>5. CASE interrupted[1].vector = 39
      BY <3>2, <3>3, <3>5
    <3>6. CASE interrupted[1].vector \in {32, 33}
      <4>1. isr = {served} /\ served \in {0, 1}
        BY <3>2, <3>3, <3>6
      <4>2. Handler # NoHandler
        BY <3>4, <4>1 DEF Handler, NoHandler, Lines, IRQ_COUNT
      <4> QED BY <4>1, <4>2
    <3> QED BY <3>2, <3>5, <3>6
  <2>2. cpu \in {"isr_handler", "reset"} => Last(interrupted).kind = "exception"
    BY <1>1 DEF IntInv, CpuInv, Dumping, Lost
  <2> QED BY <2>1, <2>2 DEF LandsSomewhereReal
<1> QED BY <1>1, IntInvariant, PTL

\* The EOI ends the line served: nothing is in service when kmain goes on.
THEOREM NothingStays == Spec => []NothingStaysInService
<1>1. ASSUME IntInv PROVE NothingStaysInService
  <2>1. ASSUME cpu \in {"irq_dispatch", "pic_send_eoi"} PROVE isr \subseteq {served}
    <3>1. Serving
      BY <1>1, <2>1 DEF IntInv, CpuInv
    <3>2. served = interrupted[1].vector - 32
      BY <3>1, ServedVector
    <3> QED BY <3>1, <3>2 DEF Serving
  <2>2. cpu = "kmain" => isr = {}
    BY <1>1 DEF IntInv, CpuInv, Running
  <2>3. cpu = "iretq" => isr = {}
    BY <1>1 DEF IntInv, CpuInv, Serving
  <2> QED BY <2>1, <2>2, <2>3 DEF NothingStaysInService
<1> QED BY <1>1, IntInvariant, PTL

\* What the dump says of a page fault is what the access did.
LEMMA CauseTrue ==
  ASSUME NEW f, NEW a \in Accesses, f.vector = Word(14), f.error_code = Word(PageFaultCode(a))
  PROVE  dump(f).cause =
           (a \ {"protection", "write"})
             \cup {IF "protection" \in a THEN "protection" ELSE "not present",
                   IF "write" \in a THEN "write" ELSE "read", "supervisor"}
<1> DEFINE ec == f.error_code[2]
<1>1. ec = PageFaultCode(a)
  BY DEF Word
<1>2. /\ Bit(0, 0) = 0 /\ Bit(0, 1) = 0 /\ Bit(0, 2) = 0 /\ Bit(0, 3) = 0 /\ Bit(0, 4) = 0
      /\ Bit(2, 0) = 0 /\ Bit(2, 1) = 1 /\ Bit(2, 2) = 0 /\ Bit(2, 3) = 0 /\ Bit(2, 4) = 0
      /\ Bit(3, 0) = 1 /\ Bit(3, 1) = 1 /\ Bit(3, 2) = 0 /\ Bit(3, 3) = 0 /\ Bit(3, 4) = 0
      /\ Bit(9, 0) = 1 /\ Bit(9, 1) = 0 /\ Bit(9, 2) = 0 /\ Bit(9, 3) = 1 /\ Bit(9, 4) = 0
      /\ Bit(16, 0) = 0 /\ Bit(16, 1) = 0 /\ Bit(16, 2) = 0 /\ Bit(16, 3) = 0 /\ Bit(16, 4) = 1
  <2>1. 2 ^ 0 = 1 /\ 2 ^ 1 = 2 /\ 2 ^ 2 = 4 /\ 2 ^ 3 = 8 /\ 2 ^ 4 = 16
    OBVIOUS
  <2> QED BY <2>1 DEF Bit
<1>3. dump(f).cause =
        {IF Bit(ec, 0) = 1 THEN "protection" ELSE "not present",
         IF Bit(ec, 1) = 1 THEN "write" ELSE "read",
         IF Bit(ec, 2) = 1 THEN "user" ELSE "supervisor"}
           \cup (IF Bit(ec, 3) = 1 THEN {"reserved"} ELSE {})
           \cup (IF Bit(ec, 4) = 1 THEN {"fetch"} ELSE {})
  <2> HIDE DEF ec
  <2> QED BY DEF dump, ec
<1> HIDE DEF ec
<1>4. CASE a = {}
  <2>1. ec = 0
    BY <1>1, <1>4, FaultCode
  <2>2. dump(f).cause = {"not present", "read", "supervisor"}
    <3>1. Bit(ec, 0) # 1 /\ Bit(ec, 1) # 1 /\ Bit(ec, 2) # 1 /\ Bit(ec, 3) # 1 /\ Bit(ec, 4) # 1
      BY <1>2, <2>1
    <3>2. dump(f).cause = {"not present", "read", "supervisor"} \cup {} \cup {}
      BY <1>3, <3>1, Zenon
    <3> QED BY <3>2
  <2> QED BY <1>4, <2>2
<1>5. CASE a = {"write"}
  <2>1. ec = 2
    BY <1>1, <1>5, FaultCode
  <2>2. dump(f).cause = {"not present", "write", "supervisor"}
    <3>1. Bit(ec, 0) # 1 /\ Bit(ec, 1) = 1 /\ Bit(ec, 2) # 1 /\ Bit(ec, 3) # 1 /\ Bit(ec, 4) # 1
      BY <1>2, <2>1
    <3>2. dump(f).cause = {"not present", "write", "supervisor"} \cup {} \cup {}
      BY <1>3, <3>1, Zenon
    <3> QED BY <3>2
  <2> QED BY <1>5, <2>2
<1>6. CASE a = {"protection", "write"}
  <2>1. ec = 3
    BY <1>1, <1>6, FaultCode
  <2>2. dump(f).cause = {"protection", "write", "supervisor"}
    BY <1>2, <1>3, <2>1
  <2> QED BY <1>6, <2>2
<1>7. CASE a = {"protection", "reserved"}
  <2>1. ec = 9
    BY <1>1, <1>7, FaultCode
  <2>2. dump(f).cause = {"protection", "read", "supervisor", "reserved"}
    BY <1>2, <1>3, <2>1
  <2> QED BY <1>7, <2>2
<1>8. CASE a = {"fetch"}
  <2>1. ec = 16
    BY <1>1, <1>8, FaultCode
  <2>2. dump(f).cause = {"not present", "read", "supervisor", "fetch"}
    <3>1. Bit(ec, 0) # 1 /\ Bit(ec, 1) # 1 /\ Bit(ec, 2) # 1 /\ Bit(ec, 3) # 1 /\ Bit(ec, 4) = 1
      BY <1>2, <2>1
    <3>2. dump(f).cause = {"not present", "read", "supervisor"} \cup {} \cup {"fetch"}
      BY <1>3, <3>1, Zenon
    <3> QED BY <3>2
  <2> QED BY <1>8, <2>2
<1> QED BY <1>4, <1>5, <1>6, <1>7, <1>8 DEF Accesses

\* The dump of an exception is true of what was running, for every register, vector,
\* error code and stack; C always runs on an aligned stack.
THEOREM FaultsReported == Spec => []FaultReportTrue
<1>1. ASSUME IntInv PROVE FaultReportTrue
  <2>1. cpu = "reset" => "isr_init" \notin Done
    <3>1. booted \in 0 .. 22
      BY <1>1 DEF IntInv, BootInv
    <3>2. "isr_init" \in Done <=> 7 <= booted
      BY <3>1, DoneAt, BootFacts
    <3> QED BY <1>1, <3>1, <3>2 DEF IntInv, CpuInv, Lost
  <2>2. cpu \in {"isr_handler", "irq_dispatch"} => Aligned(machine.stack)
    BY <1>1 DEF IntInv, CpuInv, Serving, Dumping, Framed
  <2> DEFINE t == Last(interrupted)
             m == t.machine
             frame == Last(report).frame
  <2>3. ASSUME report # << >>
        PROVE  /\ \A r \in Registers : frame[r] = m.regs[r]
               /\ <<frame.rip, frame.cs, frame.rflags, frame.ss>> = <<m.rip, m.cs, m.rflags, m.ss>>
               /\ frame.rsp = Word(Len(m.stack))
               /\ frame.vector = Word(t.vector)
               /\ frame.error_code = Word(IF t.code = NoCode THEN 0 ELSE t.code)
               /\ \A a \in Accesses : t.vector = 14 /\ t.code = PageFaultCode(a) =>
                    Last(report).cause =
                      (a \ {"protection", "write"})
                        \cup {IF "protection" \in a THEN "protection" ELSE "not present",
                              IF "write" \in a THEN "write" ELSE "read", "supervisor"}
    <3>1. cpu = "isr_handler"
      BY <1>1, <2>3 DEF IntInv, CpuInv, Running, Serving, Lost
    <3>2. Dumping
      BY <1>1, <3>1 DEF IntInv, CpuInv
    <3>3. Framed(machine, m, t.vector, t.code) /\ report = <<dump(Frame(machine))>>
      BY <2>3, <3>2 DEF Dumping
    <3>4. Last(report) = dump(Frame(machine))
      <4> HIDE DEF dump
      <4> QED BY <3>3 DEF Last
    <3>5. frame = Frame(machine)
      <4>1. PICK c : dump(Frame(machine)) = [frame |-> Frame(machine), cause |-> c]
        BY Zenon DEF dump
      <4> QED BY <3>4, <4>1
    <3>6. /\ \A r \in Registers : Frame(machine)[r] = m.regs[r]
          /\ Frame(machine).rip = m.rip /\ Frame(machine).cs = m.cs /\ Frame(machine).rflags = m.rflags
          /\ Frame(machine).ss = m.ss /\ Frame(machine).rsp = Word(Len(m.stack))
          /\ Frame(machine).vector = Word(t.vector)
          /\ Frame(machine).error_code = Word(IF t.code = NoCode THEN 0 ELSE t.code)
      BY <3>3, FrameShows
    <3>7. ASSUME NEW a \in Accesses, t.vector = 14, t.code = PageFaultCode(a)
          PROVE  Last(report).cause =
                   (a \ {"protection", "write"})
                     \cup {IF "protection" \in a THEN "protection" ELSE "not present",
                           IF "write" \in a THEN "write" ELSE "read", "supervisor"}
      <4>1. PageFaultCode(a) # NoCode
        BY FaultCode DEF NoCode
      <4>2. Frame(machine).vector = Word(14) /\ Frame(machine).error_code = Word(PageFaultCode(a))
        BY <3>6, <3>7, <4>1
      <4> QED BY <3>4, <4>2, CauseTrue
    <3> HIDE DEF t, m, frame
    <3> QED BY <3>5, <3>6, <3>7
  <2> HIDE DEF t, m, frame
  <2> QED BY <2>1, <2>2, <2>3 DEF FaultReportTrue, t, m, frame
<1> QED BY <1>1, IntInvariant, PTL

\* The code that was interrupted goes on with its own registers, stack, flags and rip.
THEOREM Resumes == Spec => ResumesIntact
<1>1. ASSUME IntInv, [Next]_vars, cpu = "iretq", cpu' = "kmain"
      PROVE  machine' = Last(interrupted).machine
  <2>1. Serving
    BY <1>1 DEF IntInv, CpuInv
  <2>2. machine' = interrupt_return(machine)
    BY <1>1 DEF Next, kmain, quiet_init, check_response, gdt_init, idt_init, isr_init,
                lapic_disable, pic_remap, irq_init, timer_init, keyboard_init, unmask_timer,
                unmask_keyboard, sti, InKmain, give_up, parked, pit_edge, key_ready, key_typed,
                Device, cpuVars, vars, interrupt, spurious, CanInterrupt, exception,
                isr_handler, run_handler, pic_send_eoi, iretq
  <2> DEFINE t == interrupted[1]
  <2>3. interrupted = <<t>> /\ t.machine \in Machine /\ Framed(machine, t.machine, t.vector, t.code)
    BY <2>1 DEF Serving
  <2>4. Last(interrupted) = t
    BY <2>3 DEF Last
  <2>5. interrupt_return(machine) = t.machine
    BY <2>3, ReturnRestores
  <2> QED BY <2>2, <2>4, <2>5
<1>2. IntInv /\ [Next]_vars => [cpu = "iretq" /\ cpu' = "kmain" => machine' = Last(interrupted).machine]_vars
  BY <1>1
<1> QED BY <1>2, IntInvariant, PTL DEF Spec, ResumesIntact

-----------------------------------------------------------------------------
\* The keyboard

\* The characters of the table.
Characters == {scancode_ascii[c] : c \in 0 .. 127}

\* A byte that is presented is there to be read; its line is up, or its handler is
\* about to read it, only while it is; no other line has the handler.
KeyInv ==
  /\ kbuf \in Seq(Scancodes) /\ typed \in Seq(Scancodes) /\ echoed \in Seq(Characters)
  /\ obf => kbuf # << >>
  /\ 1 \in irr => obf
  /\ cpu = "irq_dispatch" /\ 1 \in isr => obf /\ 1 \notin irr
  /\ \A i \in Lines \ {1} : handlers[i] # "keyboard_irq"
  /\ EchoExact

\* A scancode's share of the echo.
Press(k) == IF k < 128 /\ scancode_ascii[k] # NUL THEN <<scancode_ascii[k]>> ELSE << >>

LEMMA PressType == \A k \in Scancodes : Press(k) \in Seq(Characters)
<1> SUFFICES ASSUME NEW k \in Scancodes PROVE Press(k) \in Seq(Characters)
  OBVIOUS
<1>1. k < 128 => scancode_ascii[k] \in Characters
  BY InterruptsAssumption DEF Characters
<1> QED BY <1>1 DEF Press

\* The presses of nothing, of one scancode more, and of one scancode less.
LEMMA PressesOf ==
  /\ Presses(<< >>) = << >>
  /\ \A s \in Seq(Scancodes) : Presses(s) \in Seq(Characters)
  /\ \A s \in Seq(Scancodes), k \in Scancodes : Presses(Append(s, k)) = Presses(s) \o Press(k)
  /\ \A s \in Seq(Scancodes) : s # << >> => Presses(s) = Press(Head(s)) \o Presses(Tail(s))
<1> DEFINE P == [k \in Scancodes |-> Press(k)]
<1>1. Shares(P, Scancodes, Characters)
  BY PressType DEF Shares
<1>2. ASSUME NEW s \in Seq(Scancodes) PROVE Presses(s) = FlattenSeq(Each(s, P))
  <2>1. \A i \in DOMAIN s : s[i] \in Scancodes
    OBVIOUS
  <2>2. Each(s, P) = [i \in DOMAIN s |-> IF s[i] < 128 /\ scancode_ascii[s[i]] # NUL
                                         THEN <<scancode_ascii[s[i]]>> ELSE << >>]
    BY <2>1 DEF Each, Press
  <2> QED BY <2>2 DEF Presses
<1> HIDE DEF P
<1>3. Presses(<< >>) = << >>
  <2>1. << >> \in Seq(Scancodes)
    OBVIOUS
  <2> QED BY <1>2, <2>1, EachNone
<1>4. ASSUME NEW s \in Seq(Scancodes), NEW k \in Scancodes
      PROVE  Presses(s) \in Seq(Characters) /\ Presses(Append(s, k)) = Presses(s) \o Press(k)
  <2>1. Append(s, k) \in Seq(Scancodes) /\ P[k] = Press(k)
    BY DEF P
  <2>2. /\ FlattenSeq(Each(s, P)) \in Seq(Characters)
        /\ FlattenSeq(Each(Append(s, k), P)) = FlattenSeq(Each(s, P)) \o P[k]
    BY <1>1, EachAppend, SMT
  <2>3. Presses(s) = FlattenSeq(Each(s, P)) /\ Presses(Append(s, k)) = FlattenSeq(Each(Append(s, k), P))
    BY <1>2, <2>1
  <2> QED BY <2>1, <2>2, <2>3
<1>5. ASSUME NEW s \in Seq(Scancodes), s # << >>
      PROVE  Presses(s) = Press(Head(s)) \o Presses(Tail(s))
  <2>1. Tail(s) \in Seq(Scancodes) /\ P[Head(s)] = Press(Head(s))
    BY <1>5 DEF P
  <2> QED BY <1>1, <1>2, <1>5, <2>1, EachHead, Zenon
<1>6. ASSUME NEW s \in Seq(Scancodes) PROVE Presses(s) \in Seq(Characters)
  <2>1. CASE s = << >>
    <3>1. << >> \in Seq(Characters)
      OBVIOUS
    <3> QED BY <1>3, <2>1, <3>1, Zenon
  <2>2. CASE s # << >>
    <3>1. Head(s) \in Scancodes
      BY <2>2
    <3> QED BY <1>4, <3>1
  <2> QED BY <2>1, <2>2
<1> QED BY <1>3, <1>4, <1>5, <1>6

\* A step that leaves the keyboard and its handler alone.
LEMMA KeysAlone ==
  ASSUME KeyInv, UNCHANGED keyVars, irr' \subseteq irr \cup {0},
         cpu' = "irq_dispatch" /\ 1 \in isr' => cpu = "irq_dispatch" /\ 1 \in isr,
         \A i \in Lines \ {1} : handlers'[i] # "keyboard_irq"
  PROVE  KeyInv'
<1>1. kbuf' = kbuf /\ typed' = typed /\ echoed' = echoed /\ obf' = obf /\ (1 \in irr' => 1 \in irr)
  BY DEF keyVars
<1> QED BY <1>1 DEF KeyInv, EchoExact

\* kmain installs the handlers on their lines.
LEMMA KmainKeys ==
  ASSUME IntInv, KeyInv, kmain \/ give_up
  PROVE  KeyInv'
<1>1. UNCHANGED keyVars /\ cpu' = "kmain"
  BY DEF kmain, quiet_init, check_response, gdt_init, idt_init, isr_init, lapic_disable, pic_remap,
         irq_init, timer_init, keyboard_init, unmask_timer, unmask_keyboard, sti, InKmain, give_up
<1>2. irr' \subseteq irr
  BY DEF kmain, quiet_init, check_response, gdt_init, idt_init, isr_init, lapic_disable, pic_remap,
         irq_init, timer_init, keyboard_init, unmask_timer, unmask_keyboard, sti, give_up, picVars
<1>3. \/ handlers' = handlers \/ irq_install_handler(0, "timer_irq")
      \/ irq_install_handler(1, "keyboard_irq")
  BY DEF kmain, quiet_init, check_response, gdt_init, idt_init, isr_init, lapic_disable, pic_remap,
         irq_init, timer_init, keyboard_init, unmask_timer, unmask_keyboard, sti, give_up, tableVars
<1>4. ASSUME NEW i \in Lines \ {1} PROVE handlers'[i] # "keyboard_irq"
  <2>1. handlers[i] # "keyboard_irq" /\ i \in DOMAIN handlers
    BY DEF KeyInv, IntInv, TablesInv
  <2> QED BY <1>3, <2>1 DEF irq_install_handler
<1> QED BY <1>1, <1>2, <1>4, KeysAlone

\* The keyboard and its controller.
LEMMA DeviceKeys ==
  ASSUME KeyInv, pit_edge \/ key_ready \/ \E k \in Scancodes : key_typed(k)
  PROVE  KeyInv'
<1>1. cpu' = cpu /\ isr' = isr /\ handlers' = handlers /\ echoed' = echoed
  BY DEF pit_edge, key_ready, key_typed, Device, cpuVars, tableVars
<1>2. CASE pit_edge
  <2>1. UNCHANGED keyVars /\ irr' = irr \cup {0}
    BY <1>1, <1>2 DEF pit_edge, keyVars
  <2> QED BY <1>1, <2>1, KeysAlone DEF KeyInv
<1>3. CASE key_ready
  <2>1. ~obf /\ kbuf # << >> /\ obf' = TRUE /\ kbuf' = kbuf /\ typed' = typed
    BY <1>3 DEF key_ready
  <2> QED BY <1>1, <2>1 DEF KeyInv, EchoExact
<1>4. ASSUME NEW k \in Scancodes, key_typed(k) PROVE KeyInv'
  <2>1. typed' = Append(typed, k) /\ kbuf' = Append(kbuf, k) /\ irr' = irr /\ obf' = obf
    BY <1>4 DEF key_typed
  <2>2. kbuf \in Seq(Scancodes) /\ typed \in Seq(Scancodes) /\ echoed \in Seq(Characters)
    BY DEF KeyInv
  <2>3. typed' \in Seq(Scancodes) /\ kbuf' \in Seq(Scancodes) /\ kbuf' # << >>
    BY <2>1, <2>2
  <2>4. Presses(typed') = Presses(typed) \o Press(k) /\ Presses(kbuf') = Presses(kbuf) \o Press(k)
    BY <2>1, <2>2, PressesOf
  <2>5. Presses(kbuf) \in Seq(Characters) /\ Press(k) \in Seq(Characters)
    BY <2>2, PressesOf, PressType
  <2>6. echoed \o Presses(kbuf) = Presses(typed)
    BY DEF KeyInv, EchoExact
  <2>7. (echoed \o Presses(kbuf)) \o Press(k) = echoed \o (Presses(kbuf) \o Press(k))
    <3>1. ASSUME NEW x \in Seq(Characters), NEW y \in Seq(Characters), NEW z \in Seq(Characters)
          PROVE  (x \o y) \o z = x \o (y \o z)
      BY SMTT(60)
    <3> QED BY <2>2, <2>5, <3>1, Zenon
  <2>8. EchoExact'
    BY <1>1, <2>4, <2>6, <2>7, Zenon DEF EchoExact
  <2> QED BY <1>1, <2>1, <2>3, <2>8 DEF KeyInv
<1> QED BY <1>2, <1>3, <1>4

\* The CPU takes line 1 only for a byte that is there.
LEMMA InterruptKeys ==
  ASSUME IntInv, KeyInv, NEW i \in Lines, interrupt(i) \/ spurious(i)
  PROVE  KeyInv'
<1>1. CanInterrupt /\ i \in irr /\ irr' = irr \ {i}
  BY DEF interrupt, spurious, Pending
<1>2. isr = {}
  BY <1>1 DEF CanInterrupt, IntInv, CpuInv, Running
<1>3. UNCHANGED keyVars /\ handlers' = handlers
  BY DEF interrupt, spurious, Enter, tableVars
<1>4. 1 \in isr' => i = 1
  BY <1>2 DEF interrupt, spurious
<1>5. kbuf' = kbuf /\ typed' = typed /\ echoed' = echoed /\ obf' = obf
  BY <1>3 DEF keyVars
<1> QED BY <1>1, <1>3, <1>4, <1>5 DEF KeyInv, EchoExact

\* An exception does not end up in irq_dispatch.
LEMMA ExceptionKeys ==
  ASSUME IntInv, KeyInv, NEW v \in Exceptions, NEW code \in Codes(v), exception(v, code)
  PROVE  KeyInv'
<1> DEFINE t == [kind |-> "exception", machine |-> machine, vector |-> v, code |-> code]
<1>1. /\ irr' = irr /\ UNCHANGED keyVars /\ handlers' = handlers
      /\ interrupted' = Append(interrupted, t) /\ cpu \in {"kmain", "irq_dispatch", "pic_send_eoi"}
  BY DEF exception, Enter, tableVars
<1>2. interrupted = << >> \/ \E y : interrupted = <<y>>
  BY <1>1 DEF IntInv, CpuInv, Running, Serving
<1>3. Last(interrupted') = t /\ t.kind = "exception"
  BY <1>1, <1>2, LastAppended
<1> HIDE DEF t
<1>4. ASSUME cpu' = "irq_dispatch" PROVE FALSE
  <2>1. Serving'
    BY <1>4, ExceptionInv DEF IntInv, CpuInv
  <2>2. PICK y : interrupted' = <<y>> /\ y.kind = "interrupt"
    BY <2>1 DEF Serving
  <2>3. Last(<<y>>) = y
    BY DEF Last
  <2> QED BY <1>3, <2>2, <2>3
<1> QED BY <1>1, <1>4, KeysAlone DEF KeyInv

\* The handlers: the keyboard's reads the byte, which is there.
LEMMA HandlerKeys ==
  ASSUME IntInv, KeyInv, run_handler
  PROVE  KeyInv'
<1>1. /\ cpu = "irq_dispatch" /\ cpu' = "pic_send_eoi" /\ irr' = irr /\ isr' = isr /\ handlers' = handlers
  BY DEF run_handler, picVars, tableVars
<1>2. CASE UNCHANGED keyVars
  BY <1>1, <1>2, KeysAlone DEF KeyInv
<1>3. CASE Handler = "keyboard_irq" /\ keyboard_irq
  <2>1. Serving
    BY <1>1 DEF IntInv, CpuInv
  <2>2. served = interrupted[1].vector - 32 /\ interrupted[1].vector \in {32, 33, 39}
    BY <2>1, ServedVector
  <2>3. served \in {0, 1, 7}
    BY <2>2
  <2>4. served = 1
    BY <1>3, <2>3 DEF Handler, KeyInv, Lines, IRQ_COUNT
  <2>5. isr = {1}
    BY <1>1, <2>1, <2>2, <2>4 DEF Serving
  <2>6. obf /\ 1 \notin irr /\ kbuf # << >>
    BY <1>1, <2>5 DEF KeyInv
  <2>7. /\ obf' = FALSE /\ kbuf' = Tail(kbuf) /\ typed' = typed
        /\ echoed' = IF Head(kbuf) >= 128 \/ scancode_ascii[Head(kbuf)] = NUL THEN echoed
                     ELSE Append(echoed, scancode_ascii[Head(kbuf)])
    BY <1>3 DEF keyboard_irq
  <2>8. kbuf \in Seq(Scancodes) /\ echoed \in Seq(Characters) /\ typed \in Seq(Scancodes)
    BY DEF KeyInv
  <2>9. Head(kbuf) \in Scancodes /\ Tail(kbuf) \in Seq(Scancodes)
    BY <2>6, <2>8
  <2>10. echoed' = echoed \o Press(Head(kbuf)) /\ Press(Head(kbuf)) \in Seq(Characters)
    <3> DEFINE h == Head(kbuf)
    <3>0. h \in Scancodes /\ echoed' = IF h >= 128 \/ scancode_ascii[h] = NUL THEN echoed
                                       ELSE Append(echoed, scancode_ascii[h])
      BY <2>7, <2>9, Zenon
    <3> HIDE DEF h
    <3>1. Press(h) \in Seq(Characters) /\ h \in 0 .. 255
      <4>1. Press(h) \in Seq(Characters)
        BY <3>0, PressType, Zenon
      <4>2. h \in 0 .. 255
        BY <3>0, InterruptsAssumption
      <4> QED BY <4>1, <4>2, Zenon
    <3>2. CASE h >= 128 \/ scancode_ascii[h] = NUL
      <4>1. echoed' = echoed /\ Press(h) = << >>
        BY <3>0, <3>1, <3>2 DEF Press
      <4>2. echoed \o << >> = echoed
        BY <2>8
      <4> QED BY <3>1, <4>1, <4>2, Zenon DEF h
    <3>3. CASE ~(h >= 128 \/ scancode_ascii[h] = NUL)
      <4> DEFINE c == scancode_ascii[h]
      <4>1. echoed' = Append(echoed, c) /\ Press(h) = <<c>>
        BY <3>0, <3>1, <3>3 DEF Press
      <4>2. c \in Characters
        <5>1. h \in 0 .. 127
          BY <3>1, <3>3
        <5> QED BY <5>1, Zenon DEF Characters
      <4> HIDE DEF c
      <4>3. Append(echoed, c) = echoed \o <<c>>
        BY <2>8, <4>2
      <4> QED BY <3>1, <4>1, <4>3, Zenon DEF h
    <3> QED BY <3>2, <3>3
  <2>11. echoed' \in Seq(Characters)
    BY <2>8, <2>10
  <2>12. Presses(kbuf) = Press(Head(kbuf)) \o Presses(kbuf') /\ Presses(kbuf') \in Seq(Characters)
    BY <2>6, <2>7, <2>8, <2>9, PressesOf
  <2>13. (echoed \o Press(Head(kbuf))) \o Presses(kbuf') = echoed \o (Press(Head(kbuf)) \o Presses(kbuf'))
    <3>1. ASSUME NEW x \in Seq(Characters), NEW y \in Seq(Characters), NEW z \in Seq(Characters)
          PROVE  (x \o y) \o z = x \o (y \o z)
      BY SMTT(60)
    <3> QED BY <2>8, <2>10, <2>12, <3>1, Zenon
  <2>14. EchoExact'
    <3>1. echoed \o Presses(kbuf) = Presses(typed)
      BY DEF KeyInv, EchoExact
    <3> QED BY <2>7, <2>10, <2>12, <2>13, <3>1, Zenon DEF EchoExact
  <2> QED BY <1>1, <2>6, <2>7, <2>8, <2>9, <2>11, <2>14 DEF KeyInv
<1> QED BY <1>2, <1>3 DEF run_handler, timer_irq

LEMMA NextKeyInv == IntInv /\ KeyInv /\ [Next]_vars => KeyInv'
<1> SUFFICES ASSUME IntInv, KeyInv, [Next]_vars PROVE KeyInv'
  OBVIOUS
<1>1. CASE kmain \/ give_up
  BY <1>1, KmainKeys
<1>2. CASE parked \/ UNCHANGED vars
  <2>1. UNCHANGED vars
    BY <1>2 DEF parked
  <2>2. UNCHANGED keyVars /\ irr' = irr /\ isr' = isr /\ cpu' = cpu /\ handlers' = handlers
    BY <2>1 DEF vars, picVars, cpuVars, tableVars
  <2> QED BY <2>2, KeysAlone DEF KeyInv
<1>3. CASE pit_edge \/ key_ready \/ \E k \in Scancodes : key_typed(k)
  BY <1>3, DeviceKeys
<1>4. CASE \E i \in Lines : interrupt(i) \/ spurious(i)
  BY <1>4, InterruptKeys
<1>5. CASE \E v \in Exceptions : \E code \in Codes(v) : exception(v, code)
  BY <1>5, ExceptionKeys
<1>6. CASE isr_handler \/ pic_send_eoi \/ iretq
  <2>1. UNCHANGED keyVars /\ irr' = irr /\ cpu' # "irq_dispatch" /\ handlers' = handlers
    BY <1>6 DEF isr_handler, pic_send_eoi, iretq, picVars, tableVars
  <2> QED BY <2>1, KeysAlone DEF KeyInv
<1>7. CASE run_handler
  BY <1>7, HandlerKeys
<1> QED BY <1>1, <1>2, <1>3, <1>4, <1>5, <1>6, <1>7 DEF Next

\* For every table of characters: the character of every press is echoed once and in the
\* order of the presses, whatever interrupts, spurious ones and exceptions come in between;
\* the handler never reads a byte that is not there.
THEOREM EchoesExact == Spec => []EchoExact
<1>1. Init => KeyInv
  <2> SUFFICES ASSUME Init PROVE KeyInv
    OBVIOUS
  <2>1. /\ irr = {} /\ isr = {} /\ obf = FALSE /\ kbuf = << >> /\ typed = << >> /\ echoed = << >>
        /\ handlers = [i \in Lines |-> NoHandler]
    BY DEF Init
  <2>2. << >> \o Presses(<< >>) = Presses(<< >>)
    BY PressesOf
  <2>3. EchoExact
    BY <2>1, <2>2 DEF EchoExact
  <2> QED BY <2>1, <2>3 DEF KeyInv, NoHandler
<1>2. KeyInv => EchoExact
  BY DEF KeyInv
<1> QED BY <1>1, <1>2, NextKeyInv, IntInvariant, PTL DEF Spec

=============================================================================
