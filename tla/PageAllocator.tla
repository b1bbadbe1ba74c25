--------------------------- MODULE PageAllocator ----------------------------
(***************************************************************************)
(* What a page allocator promises its callers (kernel/core/mm/buddy.h):    *)
(* out of a pool of frames it lends aligned blocks of 2^order frames, and  *)
(* never the same frame twice at a time.  Any call may find nothing.       *)
(***************************************************************************)
EXTENDS Integers

CONSTANTS
  MaxOrder,
  BlockFrames   \* BlockFrames[o]: frames in a block of order o

VARIABLES
  pool,         \* the frames the allocator owns
  held          \* the blocks <<base, order>> lent to callers

pageVars == <<pool, held>>

BlockSpan(b) == b[1] .. (b[1] + BlockFrames[b[2]] - 1)
Lent == UNION {BlockSpan(b) : b \in held}

PagesInit == pool = {} /\ held = {}

\* At init the allocator is given memory.
Donate == pool \subseteq pool' /\ UNCHANGED held

\* A block of free frames, aligned to its size, is lent.
Lend(b) ==
  /\ b[1] % BlockFrames[b[2]] = 0
  /\ BlockSpan(b) \subseteq pool \ Lent
  /\ held' = held \cup {b}
  /\ UNCHANGED pool

Return(b) ==
  /\ b \in held
  /\ held' = held \ {b}
  /\ UNCHANGED pool

PagesNext ==
  \/ Donate
  \/ \E p \in pool, o \in 0 .. MaxOrder : Lend(<<p, o>>)
  \/ \E b \in held : Return(b)

PagesSpec == PagesInit /\ [][PagesNext]_pageVars

=============================================================================
