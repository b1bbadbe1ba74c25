----------------------------- MODULE LargeAlloc -----------------------------
(***************************************************************************)
(* The arithmetic of a large request (kernel/core/mm/slab.c: large_alloc,  *)
(* order_for_bytes) with the machine's word: data_off + size wraps, and so *)
(* does the left shift of the page size.  One call, one turn of the loop   *)
(* per step.  A shift by the word's width or more is undefined in C; what  *)
(* the x86 instruction does, and so the build, is shift by the count       *)
(* modulo the width.                                                       *)
(***************************************************************************)
EXTENDS Integers, FiniteSetsExt

CONSTANTS
  WORD_BITS,       \* width of uint64_t and size_t, scaled down
  PAGE_BITS,       \* SLAB_PAGE_SIZE = 2^PAGE_BITS
  LARGE_DATA,      \* the large header, rounded up
  BUDDY_MAX_ORDER,
  UNSIGNED_RANGE,  \* bound: `unsigned o` counts modulo this multiple of WORD_BITS
  Sizes            \* the sizes asked for, none of which fits a class

\* The powers of two.
Pow2[n \in 0 .. 2 * WORD_BITS] == IF n = 0 THEN 1 ELSE 2 * Pow2[n - 1]

ASSUME WordAssumption ==
  /\ WORD_BITS \in Nat /\ PAGE_BITS \in 0 .. WORD_BITS - 1 /\ LARGE_DATA \in 0 .. Pow2[PAGE_BITS]
  /\ BUDDY_MAX_ORDER \in Nat /\ PAGE_BITS + BUDDY_MAX_ORDER < WORD_BITS
  /\ UNSIGNED_RANGE \in Nat /\ UNSIGNED_RANGE % WORD_BITS = 0 /\ UNSIGNED_RANGE > WORD_BITS
  /\ Sizes \subseteq 1 .. Pow2[WORD_BITS] - 1

VARIABLES size, bytes, o, pc
vars == <<size, bytes, o, pc>>

Wrap(n) == n % Pow2[WORD_BITS]

\* SLAB_PAGE_SIZE << o
Shifted(k) == Wrap(Pow2[PAGE_BITS] * Pow2[k % WORD_BITS])

\* large_alloc(size) calls order_for_bytes(data_off + size).
Init ==
  /\ size \in Sizes
  /\ bytes = Wrap(LARGE_DATA + size)
  /\ o = 0
  /\ pc = "order_for_bytes"

\* Fault: the loop stops one order short.
order_turn_short ==
  /\ pc = "order_for_bytes"
  /\ IF Shifted(o + 1) < bytes
     THEN o' = (o + 1) % UNSIGNED_RANGE /\ UNCHANGED pc
     ELSE pc' = "buddy_alloc" /\ UNCHANGED o
  /\ UNCHANGED <<size, bytes>>

\* Fault: o is never advanced.
order_turn_stuck ==
  /\ pc = "order_for_bytes"
  /\ pc' = IF Shifted(o) < bytes THEN pc ELSE "buddy_alloc"
  /\ UNCHANGED <<size, bytes, o>>

order_turn ==
  /\ pc = "order_for_bytes"
  /\ IF Shifted(o) < bytes
     THEN o' = (o + 1) % UNSIGNED_RANGE /\ UNCHANGED pc
     ELSE pc' = "buddy_alloc" /\ UNCHANGED o
  /\ UNCHANGED <<size, bytes>>

\* buddy_alloc(order) refuses an order beyond the largest; otherwise the block it
\* may return has 2^order pages.
buddy_answers ==
  /\ pc = "buddy_alloc"
  /\ pc' = IF o > BUDDY_MAX_ORDER THEN "refused" ELSE "served"
  /\ UNCHANGED <<size, bytes, o>>

Returned == pc \in {"refused", "served"} /\ UNCHANGED vars

Next == order_turn \/ buddy_answers \/ Returned

\* The call runs to its end: nothing else runs, so every turn is taken.
Spec == Init /\ [][Next]_vars /\ WF_vars(order_turn \/ buddy_answers)

-----------------------------------------------------------------------------

\* "Smallest buddy order whose block is at least `bytes`": the order found is the
\* least that holds header and object.
OrderIsLeast ==
  pc # "order_for_bytes" =>
    o = Min({k \in 0 .. WORD_BITS : LARGE_DATA + size <= Pow2[PAGE_BITS + k]})

\* kmalloc: "Allocate at least `size` bytes [...] or NULL on failure": a block is
\* served only when the object fits behind the header.
ServedFits == pc = "served" => LARGE_DATA + size <= Pow2[PAGE_BITS + o]

\* A call for which some power of two below the word's range holds header and object
\* comes back, however far beyond the largest block that is.  ("May exceed
\* BUDDY_MAX_ORDER, in which case buddy_alloc() will refuse" is so only up to there:
\* for a larger request that does not wrap the loop finds no end.)
RequestAnswered ==
  LARGE_DATA + size <= Pow2[WORD_BITS - 1] => <>(pc \in {"refused", "served"})

=============================================================================
