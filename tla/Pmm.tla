--------------------------------- MODULE Pmm ---------------------------------
(***************************************************************************)
(* The physical frame allocator (kernel/core/mm/pmm.c): one bit per 4 KiB  *)
(* frame, a count of free frames and a hint where the next scan starts.    *)
(*                                                                         *)
(* Addresses are frame numbers (physical address / PMM_FRAME_SIZE): Limine *)
(* reports USABLE regions aligned in base and length, so every division in *)
(* the code is exact.  The bitmap is the set of frames whose bit is 1.     *)
(* Frame 0 is the address 0 that pmm_alloc_frame returns for "none".       *)
(***************************************************************************)
EXTENDS Integers, Sequences, FiniteSets, FiniteSetsExt

CONSTANTS
  Memmaps,     \* the memory maps the bootloader may report
  FRAME_BITS   \* frames that one frame of bitmap describes: 8 * PMM_FRAME_SIZE

ASSUME FrameBitsAssumption == FRAME_BITS \in Nat \ {0}

Entry == [base : Nat, length : Nat, usable : BOOLEAN]

\* The frames of one region of the memory map.
FramesOf(e) == e.base .. (e.base + e.length - 1)

\* What the boot protocol guarantees and the code relies on: USABLE regions do
\* not overlap and none holds frame 0 (pmm.h: "Physical address 0 never sits in
\* a usable region on PC memory maps").
ASSUME MemmapsAssumption ==
  \A m \in Memmaps :
    /\ m \in Seq(Entry)
    /\ \A i \in DOMAIN m : m[i].usable => m[i].base > 0
    /\ \A i, j \in DOMAIN m :
         i # j /\ m[i].usable /\ m[j].usable
           => FramesOf(m[i]) \cap FramesOf(m[j]) = {}

VARIABLES
  memmap,         \* the bootloader's answer; never changes
  phase,          \* how far kmain has come
  bitmap,         \* the frames whose bit is 1 (used)
  bitmap_first,   \* first frame of the bitmap's own storage
  total_frames,   \* frames the bitmap spans, holes included
  usable_frames,  \* frames in USABLE regions
  free_frames,    \* USABLE frames currently free
  next_hint,      \* where the next first-fit scan begins
  lent,           \* history: frames handed out and not freed since
  claimed         \* history: frames taken by pmm_claim_frame

counters == <<bitmap_first, total_frames, usable_frames>>
pmmVars == <<memmap, phase, bitmap, counters, free_frames, next_hint, lent, claimed>>

UsableEntries == {i \in DOMAIN memmap : memmap[i].usable}
UsableFrames == UNION {FramesOf(memmap[i]) : i \in UsableEntries}

\* Frames of bitmap needed for `total` frames (rounded up).
BitmapCount(total) == (total + FRAME_BITS - 1) \div FRAME_BITS
BitmapFrames == bitmap_first .. (bitmap_first + BitmapCount(total_frames) - 1)

\* kmain's progress: pmm_init has run from phase "pmm" on.
Phases == {"boot", "halted", "pmm", "buddy_init", "up"}
PmmUp == phase \notin {"boot", "halted"}

AllFrames == 0 .. (total_frames - 1)
FreeFrames == AllFrames \ bitmap

-----------------------------------------------------------------------------

\* Statics start zeroed; the bootloader has answered the memory-map request.
PmmInit ==
  /\ memmap \in Memmaps
  /\ phase = "boot"
  /\ bitmap = {} /\ bitmap_first = 0 /\ next_hint = 0
  /\ total_frames = 0 /\ usable_frames = 0 /\ free_frames = 0
  /\ lent = {} /\ claimed = {}

\* Pass 1: one past the highest USABLE frame.
Highest == Max({0} \cup {memmap[i].base + memmap[i].length : i \in UsableEntries})

\* Pass 2: the bitmap goes to the base of the first entry that can hold it; 0
\* when there is none.
BitmapHomes == {i \in UsableEntries : memmap[i].length >= BitmapCount(Highest)}
BitmapHome == IF BitmapHomes = {} THEN 0 ELSE memmap[Min(BitmapHomes)].base

\* Pass 3 counts one per frame of every USABLE entry, as its loops do.
UsableCount == Cardinality({x \in UsableEntries \X (0 .. Highest) :
                               x[2] \in FramesOf(memmap[x[1]])})

\* Fault: pass 4 forgotten, the bitmap's own frames stay free.
pmm_init_unreserved ==
  /\ phase = "boot"
  /\ BitmapHome # 0
  /\ bitmap_first' = BitmapHome
  /\ total_frames' = Highest
  /\ usable_frames' = UsableCount
  /\ bitmap' = (0 .. Highest - 1) \ UsableFrames
  /\ free_frames' = UsableCount
  /\ next_hint' = 0
  /\ phase' = "pmm"
  /\ UNCHANGED <<memmap, lent, claimed>>

\* pmm_init.  Everything used, USABLE frames cleared and counted, the bitmap's
\* own frames set again.
pmm_init ==
  /\ phase = "boot"
  /\ BitmapHome # 0
  /\ bitmap_first' = BitmapHome
  /\ total_frames' = Highest
  /\ usable_frames' = UsableCount
  /\ bitmap' = ((0 .. Highest - 1) \ UsableFrames)
                 \cup (BitmapHome .. BitmapHome + BitmapCount(Highest) - 1)
  /\ free_frames' = UsableCount - BitmapCount(Highest)
  /\ next_hint' = 0
  /\ phase' = "pmm"
  /\ UNCHANGED <<memmap, lent, claimed>>

\* No region can hold the bitmap: the CPU halts.
pmm_init_halts ==
  /\ phase = "boot"
  /\ BitmapHome = 0
  /\ phase' = "halted"
  /\ UNCHANGED <<memmap, bitmap, counters, free_frames, next_hint, lent, claimed>>

-----------------------------------------------------------------------------

\* The zero bits among frames a .. b-1.
Clear(a, b) == {i \in a .. (b - 1) : i \notin bitmap}

\* What pmm_alloc_frame returns in this state: the first zero bit from the hint
\* up, else the first below the hint, else 0.
ScanResult ==
  LET up == Clear(next_hint, total_frames)
      wrapped == Clear(0, next_hint)
  IN  CASE free_frames = 0 -> 0
        [] free_frames # 0 /\ up # {} -> Min(up)
        [] free_frames # 0 /\ up = {} /\ wrapped # {} -> Min(wrapped)
        [] OTHER -> 0

\* Fault: the hint skips one frame too many.
pmm_alloc_frame_overshoot ==
  /\ ScanResult # 0
  /\ bitmap' = bitmap \cup {ScanResult}
  /\ free_frames' = free_frames - 1
  /\ next_hint' = ScanResult + 2
  /\ lent' = lent \cup {ScanResult}
  /\ UNCHANGED <<memmap, phase, counters, claimed>>

pmm_alloc_frame ==
  /\ ScanResult # 0
  /\ bitmap' = bitmap \cup {ScanResult}
  /\ free_frames' = free_frames - 1
  /\ next_hint' = ScanResult + 1
  /\ lent' = lent \cup {ScanResult}
  /\ UNCHANGED <<memmap, phase, counters, claimed>>

\* Out of memory: 0 is returned and nothing changes.
pmm_alloc_fails == ScanResult = 0 /\ UNCHANGED pmmVars

\* Fault: freeing does not pull the hint back.
pmm_free_frame_hintless(f) ==
  \/ /\ f \in lent /\ f \in bitmap
     /\ bitmap' = bitmap \ {f}
     /\ free_frames' = free_frames + 1
     /\ lent' = lent \ {f}
     /\ UNCHANGED <<memmap, phase, counters, next_hint, claimed>>
  \/ f \in AllFrames /\ f \notin bitmap /\ UNCHANGED pmmVars

\* pmm_free_frame(f).  The caller passes a frame it was lent, or frees one that
\* is free already, which is ignored.
pmm_free_frame(f) ==
  \/ /\ f \in lent /\ f \in bitmap
     /\ bitmap' = bitmap \ {f}
     /\ free_frames' = free_frames + 1
     /\ next_hint' = IF f < next_hint THEN f ELSE next_hint
     /\ lent' = lent \ {f}
     /\ UNCHANGED <<memmap, phase, counters, claimed>>
  \/ f \in AllFrames /\ f \notin bitmap /\ UNCHANGED pmmVars

\* pmm_claim_frame(f): is f there to be claimed, and the effect when it is.
Claimable(f) == f < total_frames /\ f \notin bitmap

\* Fault: a claimed frame is still counted as free.
pmm_claim_frame_uncounted(f) ==
  /\ Claimable(f)
  /\ bitmap' = bitmap \cup {f}
  /\ claimed' = claimed \cup {f}
  /\ UNCHANGED <<memmap, counters, free_frames, next_hint, lent>>

pmm_claim_frame(f) ==
  /\ Claimable(f)
  /\ bitmap' = bitmap \cup {f}
  /\ free_frames' = free_frames - 1
  /\ claimed' = claimed \cup {f}
  /\ UNCHANGED <<memmap, counters, next_hint, lent>>

pmm_claim_fails(f) == ~Claimable(f) /\ UNCHANGED pmmVars

\* pmm_get_stats: frames in use (total and free are the counters themselves).
StatsUsed == usable_frames - free_frames

Halted == phase = "halted" /\ UNCHANGED pmmVars

\* The allocator on its own, under any sequence of calls.
PmmNext ==
  \/ pmm_init \/ pmm_init_halts \/ Halted
  \/ /\ phase = "pmm"
     /\ \/ pmm_alloc_frame \/ pmm_alloc_fails
        \/ \E f \in AllFrames : pmm_free_frame(f)
        \/ \E f \in 0 .. total_frames : /\ pmm_claim_frame(f)
                                        /\ UNCHANGED phase
        \/ \E f \in 0 .. total_frames : pmm_claim_fails(f)

PmmSpec == PmmInit /\ [][PmmNext]_pmmVars

-----------------------------------------------------------------------------

\* Every variable has its type; in particular the scan's start never passes the
\* end of the bitmap.
PmmTypeOK ==
  /\ memmap \in Memmaps
  /\ phase \in Phases
  /\ bitmap_first \in Nat /\ total_frames \in Nat /\ usable_frames \in Nat
  /\ free_frames \in Int
  /\ next_hint \in 0 .. total_frames
  /\ bitmap \in SUBSET AllFrames
  /\ lent \in SUBSET AllFrames /\ claimed \in SUBSET AllFrames

\* Every used frame has exactly one reason to be used: it is no usable RAM, it
\* stores the bitmap, it is lent, or it was claimed.  In particular pmm.c never
\* hands out its own backing store or a frame somebody holds.
OwnersPartitionUsed ==
  /\ PmmUp => bitmap = (AllFrames \ UsableFrames) \cup BitmapFrames \cup lent \cup claimed
  /\ lent \cap claimed = {}
  /\ lent \cup claimed \subseteq UsableFrames \ BitmapFrames

\* The figures pmm_get_stats reports are exact: free_frames, which decides alone
\* whether pmm_alloc_frame scans at all and how much buddy_init takes, is the
\* number of zero bits, and usable - free is what the bitmap, the callers and the
\* buddy allocator hold.  Count and bitmap are updated separately everywhere.
StatsExact ==
  /\ free_frames = Cardinality(FreeFrames)
  /\ PmmUp => StatsUsed = Cardinality(BitmapFrames \cup lent \cup claimed)

\* "The hint just avoids rescanning low frames we know are taken; correctness
\* does not depend on it": no zero bit ever lies below the hint, so the scan
\* finds the lowest free frame and 0 is returned only when every frame is used.
AllocFindsLowest ==
  ScanResult = IF FreeFrames = {} THEN 0 ELSE Min(FreeFrames)

=============================================================================
