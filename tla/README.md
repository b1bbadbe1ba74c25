# A TLA+ verification of ScrapOS

ScrapOS is a small monolithic x86_64 kernel in C. This directory models the parts of it
that carry state and can go wrong over long sequences of steps: the memory subsystem
(frame allocator, page tables, buddy allocator, slab allocator), the scheduler with its
context switch, the boot, the interrupt and exception path, the serial port and the text console.
TLC checks every module on small instances. TLAPS proves the safety properties of the frame, buddy and
slab allocators, the scheduler, the page tables, the interrupt path and the console for every memory map,
every size of table, pool, page and screen and every number of tasks and keys (section 4).

Paths below are relative to the repository (`src/`).

## 1. Inventory of the system

| Component | State | Operations | Talks to |
|---|---|---|---|
| pmm (`kernel/core/mm/pmm.c`) | bitmap (stored in the memory it manages), `total_frames`, `usable_frames`, `free_frames`, `next_hint` | `pmm_init`, `pmm_alloc_frame`, `pmm_free_frame`, `pmm_claim_frame`, `pmm_get_stats` | reads the bootloader's memory map; called by paging (tables) and by `buddy_init` (claims) |
| buddy (`kernel/core/mm/buddy.c`) | per order an intrusive doubly linked free list and its count | `buddy_init`, `buddy_alloc`, `buddy_free`, `buddy_get_stats` | claims frames from the pmm; called by slab |
| slab (`kernel/core/mm/slab.c`) | per class a list of slabs and three counters; per slab a header and a free list threaded through the free slots | `slab_init`, `kmalloc`, `kfree`, `kmalloc_usable_size`, `slab_get_stats` | `buddy_alloc`, `buddy_free`; called by the scheduler |
| paging (`kernel/arch/x86_64/paging.c`) | page tables in memory, cr3, the CPU's TLB | map, unmap, translate, load cr3, invlpg, `paging_can_switch_to` | takes table frames from the pmm |
| vmm (`kernel/core/mm/vmm.c`) | `kernel_pml4` | `vmm_init`, `vmm_map`, `vmm_unmap`, `vmm_translate` | paging; may panic |
| scheduler (`kernel/core/sched`) | ring of tasks, `current`, `next_id`, task structs, stacks | `sched_init`, `task_create`, `sched_yield`, `task_trampoline` | `kmalloc`/`kfree`, `context_switch` |
| context switch (`kernel/arch/x86_64/context.asm`) | callee-saved registers, rsp, the stacks | `context_switch` | scheduler |
| IRQ dispatch and PIC (`irq.c`, `pic.c`, `arch.c`) | handler table, masks, in-service bits, IF | install, dispatch, EOI, unmask | timer and keyboard handlers |
| CPU tables (`gdt.c`, `idt.c`) | GDT, IDT, segment registers | `gdt_init`, `idt_init`, `idt_set_gate` | every interrupt and exception goes through them |
| exception dump and stubs (`isr.c`, `isr_stubs.asm`, `isr.h`) | the frame on the stack | entry stubs, the two common tails, `interrupt_return`, `isr_handler` | `irq_dispatch`; the dump halts |
| console (`kernel/drivers/console.c`) | cursor, framebuffer, `ready` | `console_init`, `console_putc`, `console_write` | called by `kmain` and, in interrupt context, by the keyboard |
| serial port (`kernel/lib/serial.c`) | the UART's registers and FIFO | `serial_init`, `serial_putc`, `serial_write` | written to by `kmain` and by both interrupt handlers |
| string routines (`kernel/lib/string.c`) | none | `memmove`, `memset` (`memcpy`, `memcmp` have no caller) | scroll, fresh page tables |
| timer, keyboard (`kernel/drivers`) | `ticks`, `tick_hz` | interrupt handlers | IRQ dispatch, console, serial |
| kmain (`kernel/kernel.c`) | none of its own | the boot order, the checks of the bootloader's responses, the halts | everything |
| font, linker script, build files | none | | |

What is hard here, and where:

- **Long sequences of legal calls.** Every allocator keeps redundant state (bitmap and count
  and hint; list and count; threaded links, header counts and cache counters) that is updated
  separately on every path. A slip shows many calls later.
- **Ownership across layers.** A frame belongs to the pmm, a page table, the buddy allocator, a
  slab or a caller, and to one of them only. The layers hand frames over while others keep
  allocating (`vmm_map` takes frames from the pmm after `buddy_init`).
- **Failure half-way.** A walk runs out of frames at its second level; `task_create` gets a
  struct but no stack; `vmm_init` runs dry in the middle of the HHDM.
- **Interleaving of tasks.** Any task may create tasks, yield or return; a saved context is
  restored many switches later.
- **Stale hardware state.** The TLB caches entries at any moment; fresh tables hold old bytes.
- **Machine words.** `data_off + size` and `SLAB_PAGE_SIZE << o` wrap.
- **The way in and out.** Ten of 32 exceptions push an error code, the stack may be aligned or not, a
  handler may fault: the frame that C reads, and the one `iretq` pops, must be right for all of them.
- **Missing answers.** Any of five bootloader responses may be absent, and each must have been looked at
  before the first step that follows it.
- **Interrupts.** `kprint` runs with interrupts on while the keyboard handler writes to the same
  console, and both handlers write to the same UART; requests of two devices, spurious ones and EOIs interleave; the first interrupt may be
  pending since before boot.

`PROJECT.json` lists these hazards at their lines, with the properties that watch them.

## 2. Modules

| Module | Models | Extends / instantiates |
|---|---|---|
| `Pmm` | `pmm.c` | |
| `PageAllocator` | abstract: a page allocator lends aligned blocks, no frame twice | |
| `Buddy` | `buddy.c` on top of the pmm, with kmain's boot order | `Pmm`; implements `PageAllocator` |
| `BuddyList` | the same on `buddy.c`'s intrusive doubly linked lists | `Buddy` |
| `SlabSizes` | the size arithmetic of `slab.c` | |
| `Slab` | `slab.c` over any page allocator | `PageAllocator`, `SlabSizes` |
| `LargeAlloc` | `large_alloc` and `order_for_bytes` with machine words | |
| `RunQueue` | abstract: a first-in first-out queue of tasks | |
| `Sched` | `sched.c` and `context.asm` | implements `RunQueue` |
| `AddressSpace` | abstract: a map of pages changed one page at a time | |
| `Paging` | `paging.c`, `vmm.c` and the TLB | implements `AddressSpace` |
| `Terminal` | abstract: a text terminal | |
| `Console` | `console.c`, `memmove` | implements `Terminal` |
| `Serial` | `serial.c` and the 16550 UART | |
| `ConsoleIrq` | `kprint` with the keyboard and timer handlers between its accesses | `Console`, `Serial` |
| `Boot` | kmain's and arch_init's order of calls, its checks and halts | |
| `Trap` | `gdt.c`, `idt.c`, `isr_stubs.asm`, `isr.h`, the dump of `isr.c` | |
| `Interrupts` | `irq.c`, `pic.c`, `arch.c`, `timer.c`, `keyboard.c`, exceptions, over the boot | `Boot`, `Trap` |
| `NatLemmas` | facts on naturals, recursion on a counter and joined sequences, used by proofs | |
| `BuddyProofs` | theorems about `Pmm`, `Buddy` and `BuddyList` | `BuddyList`, `NatLemmas` |
| `SlabProofs` | theorems about `Slab` | `Slab`, `NatLemmas` |
| `LargeAllocProofs` | theorems about `LargeAlloc` | `LargeAlloc`, `NatLemmas` |
| `SchedProofs` | theorems about `Sched` | `Sched`, `NatLemmas` |
| `PagingProofs` | theorems about `Paging` | `Paging`, `NatLemmas` |
| `InterruptsProofs` | theorems about `Interrupts`, `Boot` and `Trap` | `Interrupts`, `NatLemmas` |
| `ConsoleProofs` | theorems about `Console`, `Serial` and `ConsoleIrq` | `ConsoleIrq`, `NatLemmas` |
| `MC*` | instances for TLC | |

The layers compose by contract: `Buddy` is proved to implement `PageAllocator`, and `Slab` is
checked and proved over `PageAllocator`'s own actions `Lend` and `Return`, so what holds of `Slab` holds
over `Buddy`. In the same way `Paging` uses the property of `Pmm` that the lowest free frame is
returned, and `Sched` uses of `Slab` that `kmalloc` returns fresh memory or NULL.

### How state and actions correspond to the code

**Pmm.** Addresses are frame numbers. `bitmap` is the set of one bits. `pmm_init` is one action
(nothing runs beside it): pass 1 is `Highest`, pass 2 `BitmapHome`, pass 3 `UsableCount` and
`UsableFrames`, pass 4 the union with the bitmap's own frames; the `hlt` loop is
`pmm_init_halts`. `pmm_alloc_frame` is `ScanResult` (hint to end, then 0 to hint) and the three
stores. `pmm_free_frame` may be called with any frame lent, or with one that is already free.
`lent` and `claimed` are history variables: they say who holds a frame. A frame claimed by the
buddy allocator is never freed to the pmm, as in the code.

**Buddy.** A block is `<<base frame, order>>`; an order's list is the set of its blocks.
`buddy_init` is one action per turn of its loops (`buddy_init_claim`, `_skip`, `_seed`, `_next`),
which is what makes termination a real question; the three conditions of the inner loop are
`InRegion` and `Claimable`. `buddy_alloc` takes the smallest order with a free block and pushes
all upper halves; `buddy_free` merges up to `StopOrder`, the first order whose buddy is not on
its list. Since the kept base is the lower of each pair, the base after merging up to order `k`
is the old one with bits cleared (`MergedBase`). Block sizes are a constant function with
`BlockFrames[o+1] = 2 * BlockFrames[o]`.

**BuddyList.** `head` is `free_list`, `node` the bytes of the frames that hold a list node, `0` is NULL.
`list_push`, `list_remove` and `list_find` are done on the links; `list_alloc` and `list_free` run
the code's split and merge loops on them (`Split`, `Merge`), in the same step as `Buddy`'s operation on
sets. `list_remove` keeps no bytes of the node it took out and `list_alloc` none of the block it
lends, so a link into either reads as `Wild`. `ListsExact` says that both accounts agree.

**Slab.** Addresses are numbers in units of 16 bytes, so `PageOf` is the mask of the code. The
header at a page's base and the first word of each slot are memory (`hdr`, `link`): the free
list is really walked through what was stored. After `kfree` of a large block the header may be
overwritten by the buddy's list node or survive; both are allowed. `live` is history.

**LargeAlloc.** One call of `large_alloc`, one step per turn of `order_for_bytes`, with words of
`WORD_BITS` bits. A shift by the word's width or more is undefined in C; the model takes what the
x86 instruction does, shift by the count modulo the width. `Pow2` is a table of the powers of two, which
the proofs can reason about as a function that doubles.

**Sched.** A stack is the sequence of its words, `rsp` the number of words. `context_switch`'s
pushes, pops and `ret` are done on those words, so a wrong order or a forged frame of wrong size
shows as wrong registers. `ctx` remembers what the task itself left. `kmalloc` may fail at each
call. `sched_init` does not check `kmalloc`: a NULL leads to the phase "fault".

**Paging.** Virtual pages, frames and tables of `ENTRIES` entries; `Span[level]` is the shift of a level's
index as a number of pages, and `Pages` what four indices can address. `tbl` is the set of present
entries in memory, garbage in frames never zeroed included. `next_level` follows or creates;
`CreatingWalk` is the three calls of `paging_map`, which leaves behind the tables made before a
failure. `vmm_init` is one action per mapping, so that running out happens everywhere. `tlb_fill`
lets the CPU cache any live leaf at any moment.

**Console.** The framebuffer is scan lines by text columns. `draw_cell`, `paint_cursor` and `scroll` map
a picture to a picture; `Interpret` is the switch of `console_putc` and `Putc` the whole call with the
cursor taken down and brought back. All pixels of one line of a cell are one value: the glyph and its
line. `scroll` runs `memmove`'s loop, line by line in the direction the code chooses, for source and
target overlap. The tab's loop is its closed form. `Terminal` scrolls by dropping a line; that the memmove over a screen with a
strip below the last row does the same is what `RefinesTerminal` says.

**Serial.** `Setup` is the list of `serial_init`'s port writes and `outb` what the UART makes of one
(DLAB moves the divisor latch over registers 0 and 1, bit 2 of the FIFO control register clears the
transmitter). The status bit the driver polls comes up when the transmitter is empty; a byte written
to a full transmitter replaces the last one.

**ConsoleIrq.** kmain's last `kprint`: `serial_poll` and `serial_out` are the two steps of `serial_putc`,
then one action per load of the cursor and per store to cursor or screen. `keyboard_irq` and `timer_irq`
(a tick that fills a second and prints the heartbeat) are one action each, since they run with IF
clear; spinning on the UART inside a handler drains it. Bytes carry the name of their writer. `++cur_col`
may use the value loaded before the cell was drawn or a fresh one: the variables are neither volatile
nor guarded, so both are outcomes a compiler may produce.

**Boot.** `BootOrder` is the order of kmain's calls with `arch_init` and `arch_enable_irqs` in line;
`check(c)` finds a response or halts, `memory_fails` is a halt in `pmm_init` or `vmm_init`. `Needs(f)`
says what `f` reads and builds on.

**Trap.** The stack is a sequence of words. `Delivered` is what the CPU pushes (external), `Stub` the
entry stub, `Saved` the common tail's pushes and its alignment, `Frame` what C reads through the pointer,
by the fields' order in `isr.h`, `interrupt_return` the pops, `add rsp, 16` and `iretq`. The push order,
the pop order and the field order are three lists, as in the code, so a slip in one of them shows.
Descriptors keep their access and flag bytes, gates the three parts of their offset. `Called` leaves
junk in the registers a C function may use.

**Interrupts.** Each step of the boot that touches the CPU's tables or the PICs is an action; the others
are `quiet_init`. `machine` is what `Trap` works on, `interrupted` the machines as they were before
each interrupt or exception, `report` what `isr_handler` has dumped. `exception` hits kmain or a handler,
at any moment, with any vector below 32. `run_handler`, `pic_send_eoi` and `iretq` are
the steps of `irq_dispatch` and its stub, so that devices can raise their lines in between. The PICs are
their mask, request and in-service sets; a non-specific EOI ends the line of highest priority. External,
after the data sheets: a request is an edge, ICW1 forgets requests and needs a new edge, a request that
vanishes gives line 7 with no in-service bit, the keyboard controller holds its next byte back until the
last was read. The heartbeat print is in `ConsoleIrq`.

## 3. Runs

| Run | Instance | Result |
|---|---|---|
| `pmm` | all maps of two usable regions below frame 9, 3 bitmap bits per frame (the bitmap needs up to three frames, some maps cannot hold it) | passes |
| `buddy` | the lists of `BuddyList` on six maps of up to 17 frames, one holding a whole block of the largest order, orders 0..3, reserve of 1; maps cut by the bitmap, by lent frames, by the budget; one with regions that touch | passes |
| `slab` | 3 pages of 10 units, classes of 2 and 4 units, large requests on both sides of an order boundary | passes |
| `large` | 10-bit words, all sizes that do not wrap with the header | passes |
| `large_wrapping` | the sizes within a header of the largest `size_t` | violated, see 5 |
| `sched` | kmain and up to 3 tasks; safety, starvation freedom and refinement | passes |
| `paging` | tables of 8 entries, 3 maps (one leaves the stack out, one is unaligned), every number of frames already spent | passes |
| `paging_user` | as `paging` | violated, see 5 |
| `console` | 3 columns, 2 rows, one scan line below them; all characters | passes |
| `console_irq` | 2 by 2 cells, a message that wraps and scrolls, up to 3 keys and a heartbeat anywhere in it; serial bytes, the cursor, and that kprint ends | passes |
| `interrupts` | the whole boot with every response present or missing, all 32 exceptions, on an aligned and an unaligned stack, 2 scancodes of four kinds (two characters, a key without one, a release) typed at any time, before the PICs are set up too, ticks and spurious interrupts without bound; safety and liveness | passes |
| `interrupts_early` | one scancode, no exceptions | violated, see 5 |

What the properties say, run by run:

- `pmm`: every frame has one owner (`OwnersPartitionUsed`), the scan finds the lowest free frame, the
  statistics are exact.
- `buddy`: `ListsExact` (links, sets and counts agree, no link leaves the free blocks),
  `BlocksPartitionClaimed`, `AllocComplete` (a failure means that no block of that size is free),
  `FreeingRestoresSeed`, `BuddyInitTerminates`, `RefinesPageAllocator`.
- `slab`: objects never overlap, the threaded lists and all counters are exact, each page belongs to who
  the header says (`HeldExact`). `large`: the order is the least that fits, and the
  loop ends (`RequestAnswered`) as long as some power of two of the word holds the request, which is its hypothesis.
- `sched`: the ring holds all tasks, contexts come back as they were left, failures leak nothing, every
  task runs again, and the ring is a queue (`RefinesRunQueue`).
- `paging`: the tables form a tree, the direct map and the live image are complete at the switch, the TLB
  never holds what the tables do not, and the whole implements one map of pages.
- `console`: one cursor, whole glyphs, and the screen is what `Terminal` says. `console_irq`:
  `OnGridAtRest`, `SerialLossless` (no writer's byte is lost or reordered although a handler may take the
  transmitter kmain has just found empty: the sixteen-byte FIFO has room, and without it
  (`Setup_nofifo`) bytes are lost), `KprintEnds`.
- `interrupts`: `BootNeedsMet`, `LandsSomewhereReal` (right stub, right handler), `NothingStaysInService`,
  `FaultReportTrue` (the dump shows the interrupted code's own registers, vector and error code, for all 32
  vectors), `ResumesIntact`, `EchoExact` (the characters of the presses, in their order), `KeysRead` (every byte
  presented once `pic_remap` has run is read; for the earlier ones see 5), `TimeAdvances`.

Why the bounds are enough: the pmm's cases are a scan that wraps or not, a hint above, at or
below the freed frame, a bitmap of zero to several frames; nine frames have them all. Merging
has a case per order below, at and at the top of the range, and orders 0..3 contain a merge
that goes through, stops half-way and reaches the top. A slab with three slots has a first, middle
and last link; one with a single slot is full at once. A ring of four has a head, a tail and a
middle node to cut off. Eight entries and twelve frames let boot use eight tables and run out at
each of the three levels afterwards. On three columns a tab ends inside, at and beyond the line; two
rows scroll at once. Three keys are enough to move the cursor from below the screen to its first row
behind kprint's back; with kmain's byte and a heartbeat they also fill the UART beyond one byte. An
exception adds a frame whatever lies below it, so kmain and one handler, on both alignments, are all
cases of where it can hit; it hits before the first key only (`FaultKeys`), for keys do not change the
frame. Two scancodes make the controller present a byte while the last one is served, and two characters make
their order visible.
Symmetry is not used: frames and pages are ordered, and the
scheduler's liveness run would not be sound under it.

Named bounds: `TopFrame`, `Memmaps`, `Pool`, `Requests`, `Nodes`, `ClientPages`, `ClientFrames`,
`Sizes`, `UNSIGNED_RANGE`, `MaxKeys` (key events), `MaxBeats` (heartbeat lines), `FaultKeys` (keys typed
before an exception), `TickRange` (ticks wrap there instead of at 2^64). No
other counter needs an artificial cap: every one is bounded by the memory.

Fairness. `Buddy` and `LargeAlloc` assume weak fairness of the turns of `buddy_init` and
`order_for_bytes`: sequential code with interrupts masked (or with handlers that
return) goes on to its next turn. `Sched` assumes weak fairness of `sched_yield`: it is the
cooperative contract of `sched.h`, and the trampoline does nothing but yield. Nothing is assumed of
`task_create` or of the tasks' own steps. `Interrupts` assumes weak fairness of kmain, the handlers and
the devices, strong fairness of the CPU taking each line's interrupt (the timer's line has priority and
may drop at times), and `TicksApart`: unless the CPU has stopped or the timer's request is stuck, again and again the CPU can be
interrupted with no tick waiting, for ticks are 10 ms apart and handlers take microseconds. `ConsoleIrq` assumes weak fairness of kmain's next access, for
handlers return, and of the UART sending. Nothing is assumed of keys, ticks or exceptions there.

Deadlock is checked in every run; states where the kernel has really stopped (`Halted`, `Panicked`,
`Faulted`, `Returned`, `parked`) stutter explicitly.

## 4. Proofs

`BuddyProofs` proves first of the frame allocator, for every set of memory maps that satisfies `MemmapsAssumption` and every
`FRAME_BITS`:

- `PmmTypeCorrect`: `PmmSpec => []PmmTypeOK`
- `FramesHaveOneOwner`: `PmmSpec => []OwnersPartitionUsed`
- `ScanNeverLies`: `PmmSpec => []AllocFindsLowest`
- `StatsAreExact`: `PmmSpec => []StatsExact`

*Assumptions.* `MemmapsAssumption`: the map is a finite sequence, USABLE regions do not overlap,
and none starts at frame 0; these are guarantees of the Limine protocol and the statement in
`pmm.h`. `FrameBitsAssumption`: `FRAME_BITS` is a positive number. TLC evaluates both.

*Argument.* None of the four is inductive alone. That the scan finds the lowest frame needs that no
zero bit lies below the hint (`HintIsLow`) and that a zero count means no zero bit; that the count
stays exact needs that the scan returned a zero bit; that owners stay disjoint needs that a zero bit
belongs to nobody. `PmmInv` is their conjunction, with `HintIsLow`, `Idle` (nothing has happened
before `pmm_init`) and `Geometry` (what `pmm_init` computed: usable frames lie within the bitmap's
span and exclude frame 0, the bitmap's storage is usable, `usable_frames` is their number). The
invariant has one lemma per operation. `pmm_init` is the largest: `Highest` bounds every region
(`HighestBounds`), the bitmap's home has room (`BitmapInUsable`), and counting region by region
counts every frame once because regions are disjoint (`UsableCounted`, by a bijection).

`NatLemmas` replaces induction by least counterexamples: `LeastNat` follows from the
well-foundedness of `<`, and `FiniteFamilyBounded`, `MinNat`, `MaxNat` from it. `CountUp` is induction
over a set: counting stays in a set that each turn stays in. With it `Recursion` shows that a
function defined by recursion on a counter exists, so that the loops written as recursive functions can be
unfolded, and `FlattenAppend` and `FlattenHead` what the community module's `FlattenSeq` computes.

In the other modules the theorems have the same shape: one inductive invariant that TLC has checked on
the run's instance, one lemma per operation that keeps it, and the properties of the run as its
consequences.

**`BuddyProofs`** (assumptions: the pmm's and `BuddyAssumption`, block sizes that double from 1).
`BuddyTypes`, `BlocksPartition`, `OwnersUnderBuddy`, `CountsExact`, `MergingComplete`, `FreeingRestores`
and `BuddyIsPageAllocator`, each of `Spec` and of `ListSpec` (the machine on links takes the same steps on
the sets). `BuddyInv` adds to the run's invariants where `buddy_init`'s walk is and that nothing ahead of
it is claimed (`WalkInv`: without it a claim could hit a claimed frame), that the seeded blocks tile what
the lists and callers have between them (`SeedInv`), and that no two free blocks are buddies
(`MergedInv`). The last one needs of `buddy_init` that a block which ends where the next one of its run
begins was the largest that fitted (`GreedyInv`). `MergingComplete` and `FreeingRestores` then follow from
a fact on aligned blocks: two tilings of the same frames without buddies in them are equal. For the total
in `CountsExact` the frames of one order's blocks are put in bijection with blocks times offsets
(`LevelCount`), and the levels are added up as the code's loop does (`TotalIs`).

`LinksExact` is `ListSpec => []ListsExact`. Its invariant `ListInv` says that some sequence lists each order's
blocks without repetition, linked both ways and from the head on, and that nothing else is a node
(`Linked`); all other lists must be unharmed by a store to one, so it speaks of all orders at once. `PushLinked` and
`RemoveLinked` carry the sequence through the two primitives; that the node pushed is on no list yet comes
from `BuddyInv`'s tiling. `SplitLinked` and `MergeLinked` follow the loops turn by turn down and up the
orders: merging on the links stops where it does on the sets because `list_find` finds exactly what is on
the list (`FindIs`). `ChainIs` says that the walk along next meets the sequence and then NULL.

**`SlabProofs`** (`SizesAssumption`: headers and classes fit a page, classes ascend;
`PoolAssumption`: pages are numbers, not page 0, which is NULL). `SlabTypes`, `ObjectsKeptApart`,
`ListsWalkFreeSlots`, `CountersExact`, `NothingLeaks`. `SlabInv` says where each live object lies (a slot of
its class or a block of its own), that the headers of slabs are exactly those on the caches' lists, and
of each slab that some sequence threads all slots that are not live (`ListsInv`). That sequence is what
the proof carries through `kmalloc` (its tail), `kfree` (one in front) and `cache_grow` (all slots in
descending order); that the recursive walk `FreeChain` finds it is the last lemma.

**`LargeAllocProofs`** (`WordAssumption`: a page fits a word, the largest block too, and the counter's range
is a multiple of the width). Both theorems have the hypothesis `NoWrap`, that header and size do not wrap, which
the run `large` satisfies and `large_wrapping` does not. `LeastOrder`: the order found is the least that holds
the request. `LargeFits`: what is served fits. `OrderInv` says that every order passed is too small. The case to
argue about is the shift: once its bits are gone, and again once the count reaches the width, it gives 0 or
the size of an order already passed, so the loop goes on and never ends with a wrong order.

**`SchedProofs`** (`NodesAssumption`: NULL is no address). `SchedTypes`, `RingIsComplete`, `ContextsIntact`,
`AllocationsKept`, `ImplementsQueue`. `SchedTypes` covers every variable, down to the words in registers and stacks
(`WordsOK`). `SchedInv` has the ring as a sequence without repetition whose
members link to their successors (`RingInv`), and the exact contents of every stack that is switched
out (`SavedInv`): its forged or real return addresses and the pushed registers up to `rsp`.
`ImplementsQueue` is `Queue!QueueSafety`, the safety half of `RefinesRunQueue`.

**`PagingProofs`** (`PagingAssumption`: the ranges of the constants; `LayoutAssumption`: frame 0 is not
usable, the HHDM lies below the kernel image, both inside the address space, and callers of `vmm_map`
leave vmm_init's pages alone; the kernel has no caller yet, and one that unmapped the HHDM would lose
the page tables). `PagingInvariant`, `TreeKept`,
`TlbKept`, `HhdmKept`, `ImageKept`, `ImplementsSpace`. The heart is `Tree`: below `kernel_pml4` each table
is reached by one entry, its levels are disjoint, no table is free, and no entry below it is left over
from a frame's former use. A leaf is an entry at the end of a path of three tables (`LeafOf`). A new table
extends the tree wherever the walk stops (`Descended`), and since a page is its four indices (`Digits`,
by division) writing a leaf changes no other page's path: that gives the TLB's coherence, that mapped
pages stay mapped and that every step is one of `AddressSpace`. `BootListed` says what the recursive
`BootMappings` lists.

**`InterruptsProofs`** (`InterruptsAssumption`: ranges only; the table of characters is any function on the press codes). `IntInvariant`, `BootSafe`, `LandsReal`,
`NothingStays`, `FaultsReported`, `Resumes`, `EchoesExact`. `IntInv` is stated by what the CPU executes: kmain
(`Running`), a handler and its way out (`Serving`: the frame on the stack is the one saved from
`interrupted`, one line is in service or none when spurious), the dump (`Dumping`: the frame and the report
agree with what was interrupted) or a reset (`Lost`), and which tables are in place after which step of
the boot. The lemmas below it are about `Trap` alone: what `Entered` pushes for every vector, code and
alignment, what C reads of it, and that `interrupt_return` undoes it. `EchoesExact` rests on `KeyInv`: the
keyboard's line is up, or its handler about to read, only while a byte is presented, and no other line has that
handler; so no read finds the controller empty or the same byte twice.

**`ConsoleProofs`** (`ConsoleAssumption`: a cell of at least two lines fits on the screen, and glyph names
are not the model's own words; `MessageAssumption`). `ConsoleInvariant`, `CursorIsOne`, `TextIsWhole`,
`ImplementsTerminal` and, for `ConsoleIrq`, `BackOnGrid` and `SerialKept`. `ConsoleInv` speaks of the picture with the cursor
taken down (`Plain`), on which `console_putc` really works: no cursor pixel, an empty strip, and, until a
carriage return is written, a text (`Text`) of whole characters that ends before the cursor. Each drawing
operation has a lemma by cell and line; `MoveUp` shows that `memmove`'s loop in place, line by line from
the start, never reads a line it has written. `BackOnGrid` rests on `GridInv`: the cursor is off the grid
only between the stores of a new line, and a handler's character moves it from wherever it is to a place
that is no worse. `SerialKept` rests on `SerialInv`: when kmain has found the transmitter empty, a handler can
have left at most its last byte in it, for it polls before each; what a writer has on the wire and in the FIFO
is what it has written (`Stream`), through each of `serial_init`'s settings that matter (the FIFO on, DLAB off).

Only model-checked:

- all liveness and everything under fairness (`BuddyInitTerminates`, `RequestAnswered`, `EveryTaskRuns`,
  `KprintEnds`, `KeysRead`, `TimeAdvances`), which is out of the prover's reach.

Every invariant a passing run checks is a theorem, and so are its action properties and the
refinements, `RefinesRunQueue` in its safety half.

## 5. Disagreements between code and comments

| Run | What TLC shows | What the repository says |
|---|---|---|
| `large_wrapping` | a request within 16 bytes of 2^64 is served one page | `slab.h:34`: "Allocate at least `size` bytes [...] or NULL on failure" |
| `paging_user` | a user page below tables made for a supervisor page keeps a supervisor-only path | `paging.h:25`: "page is reachable from ring 3"; `paging.c:85` |
| `interrupts_early` | a byte the keyboard controller presented before `pic_remap` keeps its line high, ICW1 resets the edge detector (8259A data sheet) and `keyboard_init` does not read port 0x60: neither that byte nor any later key is ever read | `keyboard.c:33-34`: "we MUST read it [...] or the controller won't deliver the next" |

Further ones the models show, each by one change of an instance:

- `LargeAlloc`: for a size beyond half the address space that does not wrap, no shifted page size reaches
  the request and `order_for_bytes` never ends, where `slab.c:109-110` says "buddy_alloc() will refuse [...]
  the OOM path for huge requests". `RequestAnswered` without its hypothesis fails on the instance `large`.
- `Sched`: `sched_init` stores through the NULL that `kmalloc` returned (phase `fault`), where `sched.h:18`
  says "there is always exactly one task running" and `sched.c:17` that current is "always non-NULL".
- `ConsoleIrq`: a key pressed after kprint has loaded the column for its next character is drawn into that
  cell, and kprint draws over it: the key's character is on the serial port but lost from the screen;
  `keyboard.c:1` says "echoed to screen + serial", `kernel.c:222` "type and it echoes here".
- `Console`: without `~returned`, `GlyphsWhole` fails after "x\r\n", for the cursor stood on the x;
  `console.c:99-101` says "never eats a real glyph". No caller writes "\r" to the console.
- Within `kprint` the cursor can stand one past the grid for a moment, where a handler would draw
  off the grid; `OnGridAtRest` says that the cursor recovers.
- `Threading` in `Slab` leaves `free` at the last slot of a fresh slab, not at slot 0 as `slab.c:146` says
  (harmless); a large object starts 16 bytes into its page, so a task's stack is not the "whole,
  page-aligned kernel stack" of `sched.c:59` and takes a block of 32 KiB.

One limit that no comment contradicts: blocks seeded from two USABLE regions that touch are not
merged across the border, because each region is seeded by itself. Where merging is claimed to be complete
(`AllocComplete`, `FreeingRestoresSeed`) regions are therefore assumed apart (`RegionsApart`), as
bootloaders report them.

## 6. Not modelled

The font, the linker script and the build files: data and tooling without state. Within modelled
components: the texts and numbers that are printed (`put_dec`, `put_hex`, exception names, the layout
of the dump, the value of cr2), the contents of the scancode table (a constant of `Interrupts`), the PIT's divisor, the limit and base
fields of GDT descriptors (ignored in 64-bit mode), `memcpy` and `memcmp` (no caller).

Two simplifications that composition makes: `Slab` is checked over `PageAllocator` and not over `Buddy`
itself, and `Sched` takes `kmalloc` as an oracle that returns fresh memory or NULL; `Slab`'s
`ObjectsDisjoint` is the fact this rests on.

The type invariants of `Slab` and `Sched` are theorems and not properties of a run; `Paging`'s is part of
its module only, for its proofs use the stronger `PagingInv`.

## 7. Plan

All components with state are modelled, and their safety properties are proved. When the code
changes: a caller of `vmm_map` in the kernel would replace `LayoutAssumption`'s clause on client pages by its
own arguments; preemption (a `sched_yield` from the timer) would make `Sched` and `Interrupts` one composed
module; and a second CPU would need locks in every allocator before any of these theorems said something
of it.
