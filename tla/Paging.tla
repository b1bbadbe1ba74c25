------------------------------- MODULE Paging -------------------------------
(***************************************************************************)
(* The four-level page tables (kernel/arch/x86_64/paging.c), the kernel's  *)
(* address space built with them (kernel/core/mm/vmm.c) and the TLB.       *)
(*                                                                         *)
(* Virtual and physical addresses are page and frame numbers; a table has  *)
(* ENTRIES entries.  tbl is the set of the present entries of all frames; a *)
(* frame from the pmm holds what its last owner left there.  The           *)
(* memory map counts in units, UNITS to a frame, because regions that are  *)
(* not USABLE need not be aligned.  The pmm is Pmm: the lowest free frame. *)
(***************************************************************************)
EXTENDS Integers, Sequences, FiniteSets, FiniteSetsExt

CONSTANTS
  ENTRIES,          \* entries in a table: 512
  UNITS,            \* units of the memory map in a frame
  Memmaps,          \* memory maps: sequences of [base, length, usable], in units
  HHDM_OFFSET,      \* page at which physical frame 0 is mapped
  KERNEL_START, DATA_START, KERNEL_END,   \* pages of the kernel image
  KERNEL_PHYS,      \* frame of KERNEL_START
  STACK_PAGE,       \* page rsp points into when vmm_init runs
  CODE_PAGE,        \* page of paging_load_cr3
  ClientPages, ClientFrames, ClientFlags  \* what later callers of vmm_map pass

Entry == [base : Nat, length : Nat, usable : BOOLEAN]

ASSUME PagingAssumption ==
  /\ ENTRIES \in Nat \ {0} /\ UNITS \in Nat \ {0}
  /\ \A m \in Memmaps : m \in Seq(Entry)
  /\ HHDM_OFFSET \in Nat /\ KERNEL_PHYS \in Nat
  /\ KERNEL_START \in Nat /\ DATA_START \in Nat /\ KERNEL_END \in Nat
  /\ KERNEL_START <= DATA_START /\ DATA_START <= KERNEL_END
  /\ CODE_PAGE \in KERNEL_START .. DATA_START - 1

VARIABLES
  memmap,       \* the bootloader's answer
  phase,        \* how far vmm_init is: "start", "mapping", "live" or "panic"
  todo,         \* vmm_init: the mappings still to be made
  avail,        \* frames the pmm has left
  kernel_pml4,  \* frame of the top-level table, 0 before there is one
  tbl,          \* the entries in memory whose present bit is set
  cr3,          \* the live top-level table, 0 while the bootloader's is
  tlb           \* leaf entries the CPU has cached: [virt, leaf]

vars == <<memmap, phase, todo, avail, kernel_pml4, tbl, cr3, tlb>>

\* The pages one entry of a table of each level spans: the shifts of the address split.
Span == <<1, ENTRIES, ENTRIES * ENTRIES, ENTRIES * ENTRIES * ENTRIES>>

\* pml4_index .. pt_index, for levels 4 down to 1.
Index(v, level) == (v \div Span[level]) % ENTRIES

\* The pages of the address space.
Pages == 0 .. Span[4] * ENTRIES - 1

EntryAt(T, table, index) == {e \in T : e.table = table /\ e.index = index}

\* T with an entry written.
Write(T, table, index, addr, flags) ==
  (T \ EntryAt(T, table, index))
    \cup {[table |-> table, index |-> index, addr |-> addr,
           write |-> flags.write, user |-> flags.user]}

\* T with a whole frame zeroed.
Zeroed(T, frame) == {e \in T : e.table # frame}

-----------------------------------------------------------------------------
\* The walk.  w is [tbl, avail, table]; table 0 is the NULL a level returns.

\* Fault: the new table is not zeroed.
NewTable_dirty(w, index, frame, user) ==
  [tbl   |-> Write(w.tbl, w.table, index, frame, [write |-> TRUE, user |-> user]),
   avail |-> w.avail \ {frame},
   table |-> frame]

\* A frame from the pmm, zeroed and installed, present and writable.
NewTable(w, index, frame, user) ==
  [tbl   |-> Write(Zeroed(w.tbl, frame), w.table, index, frame,
                   [write |-> TRUE, user |-> user]),
   avail |-> w.avail \ {frame},
   table |-> frame]

\* next_level with create: follow the entry, or make the table if the pmm has a
\* frame.
next_level(w, index, user) ==
  LET there == EntryAt(w.tbl, w.table, index) IN
  IF there # {} THEN [w EXCEPT !.table = (CHOOSE e \in there : TRUE).addr]
  ELSE IF w.table # 0 /\ w.avail # {} THEN NewTable(w, index, Min(w.avail), user)
  ELSE [w EXCEPT !.table = 0]

\* The three levels above v's leaf entry, creating what is missing: one outcome.
CreatingWalk(v, user) ==
  {next_level(w2, Index(v, 2), user) : w2 \in
     {next_level(w3, Index(v, 3), user) : w3 \in
        {next_level([tbl |-> tbl, avail |-> avail, table |-> kernel_pml4],
                    Index(v, 4), user)}}}

\* next_level without create, on a set of tables: none where the entry is absent.
Below(T, index) == UNION {{e.addr : e \in EntryAt(tbl, t, index)} : t \in T}

PageTable(v) ==
  Below(Below(Below({kernel_pml4}, Index(v, 4)), Index(v, 3)), Index(v, 2))

\* paging_translate: v's leaf entry, when every level is present.
Leaves(v) == UNION {EntryAt(tbl, t, Index(v, 1)) : t \in PageTable(v)}
Mapped(v) == Leaves(v) # {}
Leaf(v) == CHOOSE e \in Leaves(v) : TRUE
paging_translate(v) == Leaf(v).addr

\* Fault: nothing is flushed.
Invlpg_omitted(v) == tlb

\* paging_invlpg
Invlpg(v) == {c \in tlb : c.virt # v}

\* paging_map, ok saying what it returns; on failure the tables made on the way
\* stay.
paging_map(v, phys, flags, ok) ==
  \E w \in CreatingWalk(v, flags.user) :
    /\ ok = (w.table # 0)
    /\ avail' = w.avail
    /\ IF ok
       THEN /\ tbl' = Write(w.tbl, w.table, Index(v, 1), phys, flags)
            /\ tlb' = Invlpg(v)
       ELSE tbl' = w.tbl /\ UNCHANGED tlb

\* Fault: the whole page table is cleared.
paging_unmap_table(v) ==
  IF Mapped(v)
  THEN tbl' = Zeroed(tbl, Leaf(v).table) /\ tlb' = Invlpg(v)
  ELSE UNCHANGED <<tbl, tlb>>

\* paging_unmap; false and no change when the page is not mapped.
paging_unmap(v) ==
  IF Mapped(v)
  THEN tbl' = tbl \ Leaves(v) /\ tlb' = Invlpg(v)
  ELSE UNCHANGED <<tbl, tlb>>

-----------------------------------------------------------------------------
\* vmm_init

UsableOf(m) == UNION {(m[i].base \div UNITS) .. ((m[i].base + m[i].length) \div UNITS - 1) :
                        i \in {j \in DOMAIN m : m[j].usable}}

\* Fault: a region's last, partly filled frame is left out.
HhdmFrames_floor(e) == (e.base \div UNITS) .. ((e.base + e.length) \div UNITS - 1)

\* map_hhdm_range: start rounded down, end rounded up.
HhdmFrames(e) == (e.base \div UNITS) .. ((e.base + e.length + UNITS - 1) \div UNITS - 1)

\* What the boot protocol guarantees and the code relies on: frame 0, the pmm's "none",
\* is not usable, and the HHDM lies below the kernel image, which ends with the address
\* space.  Later callers of vmm_map and vmm_unmap leave vmm_init's pages alone.
ASSUME LayoutAssumption ==
  /\ KERNEL_START .. KERNEL_END - 1 \subseteq Pages /\ STACK_PAGE \in Pages
  /\ \A m \in Memmaps :
       /\ 0 \notin UsableOf(m)
       /\ \A i \in DOMAIN m : \A f \in HhdmFrames(m[i]) :
            HHDM_OFFSET + f < KERNEL_START /\ HHDM_OFFSET + f \notin ClientPages
  /\ ClientPages \subseteq Pages \ (KERNEL_START .. KERNEL_END - 1 \cup {STACK_PAGE})

Writable == [write |-> TRUE, user |-> FALSE]
ReadOnly == [write |-> FALSE, user |-> FALSE]

HhdmRange(e) ==
  [k \in 1 .. Cardinality(HhdmFrames(e)) |->
     LET p == (e.base \div UNITS) + k - 1
     IN  [virt |-> HHDM_OFFSET + p, phys |-> p, flags |-> Writable]]

\* map_kernel_range(start, end): pages start .. end-1 of the image.
KernelRange(start, end, flags) ==
  [k \in 1 .. (end - start) |->
     [virt |-> start + k - 1, phys |-> (start + k - 1 - KERNEL_START) + KERNEL_PHYS,
      flags |-> flags]]

\* All of vmm_init's mappings, in order.
BootMappings ==
  LET hhdm[i \in 0 .. Len(memmap)] ==
        IF i = 0 THEN << >> ELSE hhdm[i - 1] \o HhdmRange(memmap[i])
  IN  hhdm[Len(memmap)]
        \o KernelRange(KERNEL_START, DATA_START, ReadOnly)
        \o KernelRange(DATA_START, KERNEL_END, Writable)

\* The pmm may already have spent any number of its lowest frames.  Frames hold
\* garbage: entry 0 of each looks like a present entry.
Init ==
  /\ memmap \in Memmaps
  /\ phase = "start" /\ todo = << >>
  /\ \E f \in UsableOf(memmap) \cup {Max(UsableOf(memmap)) + 1} :
       avail = {g \in UsableOf(memmap) : g >= f}
  /\ kernel_pml4 = 0 /\ cr3 = 0 /\ tlb = {}
  /\ tbl = {[table |-> f, index |-> 0, addr |-> f, write |-> TRUE, user |-> FALSE] :
              f \in UsableOf(memmap)}

\* The top-level table: a zeroed frame, or panic.
vmm_init_begin ==
  /\ phase = "start"
  /\ IF avail = {}
     THEN phase' = "panic" /\ UNCHANGED <<todo, avail, kernel_pml4, tbl>>
     ELSE /\ phase' = "mapping"
          /\ kernel_pml4' = Min(avail)
          /\ avail' = avail \ {Min(avail)}
          /\ tbl' = Zeroed(tbl, Min(avail))
          /\ todo' = BootMappings
  /\ UNCHANGED <<memmap, cr3, tlb>>

\* One vmm_map of the two ranges; panic when it fails.
vmm_init_map ==
  /\ phase = "mapping" /\ todo # << >>
  /\ \E ok \in BOOLEAN :
       /\ paging_map(Head(todo).virt, Head(todo).phys, Head(todo).flags, ok)
       /\ phase' = IF ok THEN phase ELSE "panic"
  /\ todo' = Tail(todo)
  /\ UNCHANGED <<memmap, kernel_pml4, cr3>>

\* Fault: only the code is looked up.
paging_can_switch_to_code == Mapped(CODE_PAGE)

paging_can_switch_to == Mapped(STACK_PAGE) /\ Mapped(CODE_PAGE)

\* The cr3 load, which also empties the TLB, or panic.
vmm_init_switch ==
  /\ phase = "mapping" /\ todo = << >>
  /\ IF paging_can_switch_to
     THEN phase' = "live" /\ cr3' = kernel_pml4 /\ tlb' = {}
     ELSE phase' = "panic" /\ UNCHANGED <<cr3, tlb>>
  /\ UNCHANGED <<memmap, todo, avail, kernel_pml4, tbl>>

-----------------------------------------------------------------------------
\* After boot

vmm_map(v, phys, flags) ==
  /\ phase = "live"
  /\ \E ok \in BOOLEAN : paging_map(v, phys, flags, ok)
  /\ UNCHANGED <<memmap, phase, todo, kernel_pml4, cr3>>

vmm_unmap(v) ==
  /\ phase = "live"
  /\ paging_unmap(v)
  /\ UNCHANGED <<memmap, phase, todo, avail, kernel_pml4, cr3>>

\* The CPU walks the live tables and caches a leaf entry, whenever it likes.
tlb_fill(v) ==
  /\ phase = "live"
  /\ Mapped(v)
  /\ tlb' = Invlpg(v) \cup {[virt |-> v, leaf |-> Leaf(v)]}
  /\ UNCHANGED <<memmap, phase, todo, avail, kernel_pml4, tbl, cr3>>

Panicked == phase = "panic" /\ UNCHANGED vars

Next ==
  \/ vmm_init_begin \/ vmm_init_map \/ vmm_init_switch \/ Panicked
  \/ \E v \in ClientPages :
       \/ \E phys \in ClientFrames, flags \in ClientFlags : vmm_map(v, phys, flags)
       \/ vmm_unmap(v)
       \/ tlb_fill(v)

\* vmm_init runs to its end.
Spec == Init /\ [][Next]_vars

-----------------------------------------------------------------------------
\* Properties

\* The entries of the tables of one level point at the tables of the next.
TablesBelow(T) == {e.addr : e \in {d \in tbl : d.table \in T}}
Level3 == TablesBelow({kernel_pml4})
Level2 == TablesBelow(Level3)
Level1 == TablesBelow(Level2)
Tables == (IF kernel_pml4 = 0 THEN {} ELSE {kernel_pml4}) \cup Level3 \cup Level2 \cup Level1

\* Every variable has its type.
PagingTypeOK ==
  /\ memmap \in Memmaps
  /\ phase \in {"start", "mapping", "live", "panic"}
  /\ avail \subseteq UsableOf(memmap)
  /\ kernel_pml4 \in {0} \cup UsableOf(memmap) /\ cr3 \in {0, kernel_pml4}
  /\ tbl \subseteq [table : UsableOf(memmap), index : 0 .. ENTRIES - 1, addr : Nat,
                     write : BOOLEAN, user : BOOLEAN]
  /\ \A d, e \in tbl : d.table = e.table /\ d.index = e.index => d = e
  /\ {c.virt : c \in tlb} \subseteq ClientPages

\* The tables form a tree: none is reached twice or at two levels, none is still
\* in the pmm's hands, and walking never runs into what a frame held before.
TablesFormTree ==
  LET upper == {e \in tbl : e.table \in {kernel_pml4} \cup Level3 \cup Level2} IN
  /\ Tables \cap avail = {}
  /\ Tables \subseteq UsableOf(memmap)
  /\ \A d, e \in upper : d.addr = e.addr => d = e
  /\ kernel_pml4 \notin Level3 \cup Level2 \cup Level1

\* After the switch, the frames the kernel reaches through the HHDM are mapped
\* there: all memory the bootloader reported, partly filled frames included, and
\* with it every page table, present and future ("Mapping every region Limine
\* reports at phys+offset keeps all physical RAM reachable").
HhdmComplete ==
  phase = "live" =>
    /\ \A i \in DOMAIN memmap :
         \A u \in memmap[i].base .. memmap[i].base + memmap[i].length - 1 :
           /\ Mapped(HHDM_OFFSET + u \div UNITS)
           /\ paging_translate(HHDM_OFFSET + u \div UNITS) = u \div UNITS
    /\ \A f \in Tables \cup avail : Mapped(HHDM_OFFSET + f)

\* "We survive only because steps 1-3 guarantee rip and rsp stay mapped": on the
\* new tables the stack and the kernel image are where they were, and code is
\* read-only, data writable.
LiveImageMapped ==
  cr3 # 0 =>
    /\ Mapped(STACK_PAGE)
    /\ \A v \in KERNEL_START .. KERNEL_END - 1 :
         /\ Mapped(v)
         /\ paging_translate(v) = v - KERNEL_START + KERNEL_PHYS
         /\ Leaf(v).write <=> v >= DATA_START

\* The CPU never uses a translation the tables no longer hold.
TlbCoherent ==
  \A c \in tlb : Mapped(c.virt) /\ c.leaf = Leaf(c.virt)

\* Pages whose translation the abstract address space shows.
WatchedPages ==
  ClientPages \cup KERNEL_START .. KERNEL_END - 1
    \cup {HHDM_OFFSET + f : f \in UNION {HhdmFrames(memmap[i]) : i \in DOMAIN memmap}}

\* Mapping or unmapping one page changes no other page's translation, also when an
\* allocation fails half-way down (AddressSpace).
Space == INSTANCE AddressSpace WITH
           space <- {[virt |-> v, leaf |-> Leaf(v)] : v \in {u \in WatchedPages : Mapped(u)}}
RefinesAddressSpace == Space!SpaceSpec

\* VM_USER: "page is reachable from ring 3 (user mode)", for which "every table
\* leading to it must be user-accessible".
UserPagesReachable ==
  \A v \in ClientPages :
    Mapped(v) /\ Leaf(v).user =>
      LET t3 == Below({kernel_pml4}, Index(v, 4))
          t2 == Below(t3, Index(v, 3))
          path == EntryAt(tbl, kernel_pml4, Index(v, 4))
                    \cup UNION {EntryAt(tbl, t, Index(v, 3)) : t \in t3}
                    \cup UNION {EntryAt(tbl, t, Index(v, 2)) : t \in t2}
      IN  \A e \in path : e.user

=============================================================================
