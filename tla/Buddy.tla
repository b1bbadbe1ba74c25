------------------------------- MODULE Buddy --------------------------------
(***************************************************************************)
(* The binary buddy allocator (kernel/core/mm/buddy.c) over the frame      *)
(* allocator it takes its memory from.                                     *)
(*                                                                         *)
(* A block is a pair <<base frame, order>>.  Each order's intrusive list   *)
(* is the set of the blocks on it; that buddy_alloc pops the one pushed    *)
(* last is left open, so what holds here holds for every such order.  The  *)
(* block sizes are a constant function: proofs need no exponentiation.     *)
(*                                                                         *)
(* buddy_init is one action per turn of its loops: nothing else runs then, *)
(* so the actions of phase "buddy_init" exclude all others.  Before it,    *)
(* vmm_init takes page-table frames from the pmm; after it, vmm_map may.   *)
(***************************************************************************)
EXTENDS Pmm

CONSTANTS
  BUDDY_MAX_ORDER,
  BlockFrames,          \* BlockFrames[o]: frames in a block of order o, 2^o
  RESERVE_FRAMES        \* the reserve_frames kmain passes to buddy_init

Orders == 0 .. BUDDY_MAX_ORDER

ASSUME BuddyAssumption ==
  /\ BUDDY_MAX_ORDER \in Nat
  /\ RESERVE_FRAMES \in Nat
  /\ BlockFrames \in [Orders -> Nat]
  /\ BlockFrames[0] = 1
  /\ \A o \in Orders \ {BUDDY_MAX_ORDER} : BlockFrames[o + 1] = 2 * BlockFrames[o]

VARIABLES
  free_list,    \* order -> base frames of the free blocks of that order
  free_count,   \* order -> number of them, as the code counts
  allocated,    \* history: blocks handed out by buddy_alloc and not freed since
  entry,        \* buddy_init: i, the index of the region being walked
  walk,         \* buddy_init: f, the next frame to look at
  run_start,    \* buddy_init: [run_start, walk) is claimed and not yet seeded
  taken,        \* buddy_init: claimed, the number of frames claimed
  budget,       \* buddy_init: how many it may claim
  seeded        \* history: the blocks buddy_init pushed

initVars == <<entry, walk, run_start, taken, budget>>
buddyVars == <<free_list, free_count, allocated, seeded>>
vars == <<pmmVars, buddyVars, initVars>>

Block == Nat \X Orders
Frames(b) == b[1] .. (b[1] + BlockFrames[b[2]] - 1)
FreeBlocks == UNION {free_list[o] \X {o} : o \in Orders}
Covered(B) == UNION {Frames(b) : b \in B}

\* phys ^ block_bytes(o): bit o of the frame number flipped.
BuddyOf(p, o) ==
  IF (p \div BlockFrames[o]) % 2 = 0 THEN p + BlockFrames[o] ELSE p - BlockFrames[o]

Aligned(p, o) == p % BlockFrames[o] = 0

-----------------------------------------------------------------------------
\* buddy_init

\* The region being walked: end = first for a region that is not USABLE.
RegionFirst(i) == memmap[i].base
RegionEnd(i) == memmap[i].base + (IF memmap[i].usable THEN memmap[i].length ELSE 0)

\* Entry: lists empty, budget computed from pmm_get_stats, f at the first region.
buddy_init_begin ==
  /\ phase = "pmm"
  /\ phase' = "buddy_init"
  /\ free_list' = [o \in Orders |-> {}]
  /\ free_count' = [o \in Orders |-> 0]
  /\ budget' = IF free_frames > RESERVE_FRAMES THEN free_frames - RESERVE_FRAMES ELSE 0
  /\ taken' = 0
  /\ entry' = 1
  /\ walk' = RegionFirst(1)
  /\ run_start' = RegionFirst(1)
  /\ UNCHANGED <<memmap, bitmap, counters, free_frames, next_hint, lent, claimed,
                 allocated, seeded>>

InRegion == walk < RegionEnd(entry) /\ taken < budget
RunEmpty == run_start = walk

\* pmm_claim_frame(f) succeeds: the run begins at f or grows by f.
buddy_init_claim ==
  /\ phase = "buddy_init"
  /\ InRegion
  /\ pmm_claim_frame(walk)
  /\ walk' = walk + 1
  /\ taken' = taken + 1
  /\ UNCHANGED <<phase, buddyVars, entry, run_start, budget>>

\* Fault: `continue` without f++.
buddy_init_skip_stuck ==
  /\ phase = "buddy_init"
  /\ RunEmpty
  /\ InRegion
  /\ ~Claimable(walk)
  /\ UNCHANGED vars

\* pmm_claim_frame(f) fails outside a run: skip f.
buddy_init_skip ==
  /\ phase = "buddy_init"
  /\ RunEmpty
  /\ InRegion
  /\ ~Claimable(walk)
  /\ walk' = walk + 1
  /\ run_start' = walk + 1
  /\ UNCHANGED <<pmmVars, buddyVars, entry, taken, budget>>

\* seed_run's order for the block at run_start: the largest that is aligned and
\* fits into the rest of the run; 0 always does.
SeedOrder ==
  Max({0} \cup {o \in Orders : Aligned(run_start, o) /\ run_start + BlockFrames[o] <= walk})

\* The run has ended (the inner loop's condition is false): seed_run pushes its
\* blocks, one per turn.
buddy_init_seed ==
  /\ phase = "buddy_init"
  /\ ~RunEmpty
  /\ ~(InRegion /\ Claimable(walk))
  /\ free_list' = [free_list EXCEPT ![SeedOrder] = @ \cup {run_start}]
  /\ free_count' = [free_count EXCEPT ![SeedOrder] = @ + 1]
  /\ seeded' = seeded \cup {<<run_start, SeedOrder>>}
  /\ run_start' = run_start + BlockFrames[SeedOrder]
  /\ UNCHANGED <<pmmVars, allocated, entry, walk, taken, budget>>

\* The region is done: on to the next, or out when it was the last one or the
\* budget is used up.
buddy_init_next ==
  /\ phase = "buddy_init"
  /\ RunEmpty
  /\ ~InRegion
  /\ IF entry < Len(memmap) /\ taken < budget
     THEN /\ entry' = entry + 1
          /\ walk' = RegionFirst(entry + 1)
          /\ run_start' = RegionFirst(entry + 1)
          /\ UNCHANGED phase
     ELSE phase' = "up" /\ UNCHANGED <<entry, walk, run_start>>
  /\ UNCHANGED <<memmap, bitmap, counters, free_frames, next_hint, lent, claimed,
                 buddyVars, taken, budget>>

-----------------------------------------------------------------------------
\* buddy_alloc

\* The smallest order >= `order` with a free block; none when the set is empty.
Candidates(order) == {o \in Orders : o >= order /\ free_list[o] # {}}

\* Fault: the upper half is computed before o--.
UpperHalf_late(p, order, o, k) ==
  IF order <= k /\ k < o THEN {p + BlockFrames[k + 1]} ELSE {}

\* Splitting p from order o down to `order` pushes the upper half at every order
\* in between.
UpperHalf(p, order, o, k) == IF order <= k /\ k < o THEN {p + BlockFrames[k]} ELSE {}

\* p is a block on the list of that order.
buddy_alloc(order, p) ==
  /\ Candidates(order) # {}
  /\ LET o == Min(Candidates(order)) IN
       /\ p \in free_list[o]
       /\ free_list' = [k \in Orders |->
                          (free_list[k] \ (IF k = o THEN {p} ELSE {}))
                            \cup UpperHalf(p, order, o, k)]
       /\ free_count' = [k \in Orders |->
                           free_count[k] - (IF k = o THEN 1 ELSE 0)
                             + (IF order <= k /\ k < o THEN 1 ELSE 0)]
       /\ allocated' = allocated \cup {<<p, order>>}
  /\ UNCHANGED <<pmmVars, seeded, initVars>>

\* order > BUDDY_MAX_ORDER, or nothing big enough is free: 0 and no change.
buddy_alloc_fails(order) == Candidates(order) = {} /\ UNCHANGED vars

-----------------------------------------------------------------------------
\* buddy_free

\* The block's base after it has merged up to order k: bits order .. k-1 of p
\* are cleared, since the lower of the two buddies is kept at every step.
MergedBase(p, order, k) == (p \div BlockFrames[k]) * BlockFrames[k] + (p % BlockFrames[order])

MergeBuddy(p, order, k) == BuddyOf(MergedBase(p, order, k), k)

\* Faults: no merging at all; merging stops one order too early.
StopOrder_never(p, order) == order
StopOrder_early(p, order) ==
  Min({k \in order .. BUDDY_MAX_ORDER :
         k + 1 >= BUDDY_MAX_ORDER \/ MergeBuddy(p, order, k) \notin free_list[k]})

\* Merging stops at the first order whose buddy is not on its list, or at the top.
StopOrder(p, order) ==
  Min({k \in order .. BUDDY_MAX_ORDER :
         k = BUDDY_MAX_ORDER \/ MergeBuddy(p, order, k) \notin free_list[k]})

buddy_free(p, order) ==
  /\ <<p, order>> \in allocated
  /\ LET stop == StopOrder(p, order) IN
     /\ free_list' = [k \in Orders |->
                        (free_list[k] \ (IF order <= k /\ k < stop
                                         THEN {MergeBuddy(p, order, k)} ELSE {}))
                          \cup (IF k = stop THEN {MergedBase(p, order, k)} ELSE {})]
     /\ free_count' = [k \in Orders |->
                         free_count[k] - (IF order <= k /\ k < stop THEN 1 ELSE 0)
                           + (IF k = stop THEN 1 ELSE 0)]
  /\ allocated' = allocated \ {<<p, order>>}
  /\ UNCHANGED <<pmmVars, seeded, initVars>>

\* buddy_get_stats: the sum of all free blocks' sizes, from the counts.
TotalFree ==
  LET total[o \in Orders] ==
        (IF o = 0 THEN 0 ELSE total[o - 1]) + free_count[o] * BlockFrames[o]
  IN  total[BUDDY_MAX_ORDER]

-----------------------------------------------------------------------------

Init ==
  /\ PmmInit
  /\ free_list = [o \in Orders |-> {}]
  /\ free_count = [o \in Orders |-> 0]
  /\ allocated = {} /\ seeded = {}
  /\ entry = 1 /\ walk = 0 /\ run_start = 0 /\ taken = 0 /\ budget = 0

\* pmm calls by the vmm: building the tables before buddy_init, mapping more after.
PmmStep ==
  /\ \/ pmm_init \/ pmm_init_halts
     \/ phase \in {"pmm", "up"} /\ (pmm_alloc_frame \/ pmm_alloc_fails)
     \/ Halted
  /\ UNCHANGED <<buddyVars, initVars>>

BuddyInitStep ==
  \/ buddy_init_begin \/ buddy_init_claim \/ buddy_init_skip
  \/ buddy_init_seed \/ buddy_init_next

\* kmalloc may ask for any order, larger ones than BUDDY_MAX_ORDER included.
BuddyStep ==
  /\ phase = "up"
  /\ \/ \E order \in 0 .. BUDDY_MAX_ORDER + 1 :
          buddy_alloc_fails(order) \/ \E p \in claimed : buddy_alloc(order, p)
     \/ \E b \in allocated : buddy_free(b[1], b[2])

Next == PmmStep \/ BuddyInitStep \/ BuddyStep

\* buddy_init runs to its end: every turn of its loops is taken.
Spec == Init /\ [][Next]_vars /\ WF_vars(BuddyInitStep)
-----------------------------------------------------------------------------
\* Properties

Blocks == FreeBlocks \cup allocated
Run == run_start .. (walk - 1)

\* Every variable has its type.
BuddyTypeOK ==
  /\ PmmTypeOK
  /\ free_list \in [Orders -> SUBSET Nat]
  /\ free_count \in [Orders -> Int]
  /\ allocated \in SUBSET Block /\ seeded \in SUBSET Block
  /\ entry \in Nat /\ taken \in Nat /\ budget \in Nat
  /\ walk \in Nat /\ run_start \in 0 .. walk

\* The frames buddy_init claimed are partitioned into the free blocks, the blocks
\* handed out and, while buddy_init is at work, the run not yet seeded: splitting
\* and merging never lose a frame or give one away twice, and every block stays
\* "2^o-aligned (guaranteed by alloc's splitting and by buddy_init's chop loop)", which
\* buddy_free's XOR relies on.
BlocksPartitionClaimed ==
  /\ \A b, c \in Blocks : b # c => Frames(b) \cap Frames(c) = {}
  /\ FreeBlocks \cap allocated = {}
  /\ Covered(Blocks) \cap Run = {}
  /\ Covered(Blocks) \cup Run = claimed
  /\ \A b \in Blocks : Aligned(b[1], b[2])

\* What buddy_get_stats reports is the length of every order's list and the number
\* of frames that are free.
FreeCountsExact ==
  /\ \A o \in Orders : free_count[o] = Cardinality(free_list[o])
  /\ TotalFree = Cardinality(Covered(FreeBlocks))

\* No two USABLE regions touch: the bootloader reports maximal ones.
RegionsApart ==
  \A i, j \in UsableEntries : memmap[i].base + memmap[i].length # memmap[j].base

\* Merging is complete: when all frames of some aligned block of an order are
\* free, buddy_alloc of that order succeeds.  (Across two regions that touch,
\* blocks seeded from different runs are not merged, hence RegionsApart.)
AllocComplete ==
  RegionsApart /\ phase = "up" =>
    \A order \in Orders, p \in claimed :
      Aligned(p, order) /\ Frames(<<p, order>>) \subseteq Covered(FreeBlocks)
        => Candidates(order) # {}

\* "The pushed-back halves are exactly the ones that will merge back when this
\* allocation is later freed": once everything is freed, whatever the order of the
\* calls, the lists hold the very blocks buddy_init seeded.
FreeingRestoresSeed ==
  RegionsApart /\ phase = "up" /\ allocated = {} => FreeBlocks = seeded

\* buddy_init's loops end, for every turn advances f, claims a frame or seeds a block,
\* and "we claim exactly `budget` previously-free frames; the rest stay free in the pmm".
BuddyInitTerminates ==
  phase = "buddy_init" ~> phase = "up" /\ taken = budget /\ Cardinality(claimed) = budget

\* The buddy allocator keeps a page allocator's promise (PageAllocator), whatever
\* the vmm takes from the pmm meanwhile.
Pages == INSTANCE PageAllocator WITH
           MaxOrder <- BUDDY_MAX_ORDER, pool <- Covered(Blocks), held <- allocated
RefinesPageAllocator == Pages!PagesSpec

=============================================================================
