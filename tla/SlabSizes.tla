----------------------------- MODULE SlabSizes ------------------------------
(***************************************************************************)
(* The sizes of kernel/core/mm/slab.c: which class serves a request, and   *)
(* where objects lie in a page.  Sizes count units of SLAB_ALIGN bytes, so *)
(* every offset the code aligns is a whole number.                         *)
(***************************************************************************)
EXTENDS Integers, Sequences, FiniteSetsExt

CONSTANTS
  PAGE_SIZE,     \* SLAB_PAGE_SIZE
  SLAB_DATA,     \* slab_data_off(): the slab header, rounded up
  LARGE_DATA,    \* large_alloc's data_off: the large header, rounded up
  class_sizes    \* sizes of the classes, increasing

ASSUME SizesAssumption ==
  /\ PAGE_SIZE \in Nat \ {0} /\ SLAB_DATA \in 1 .. PAGE_SIZE - 1
  /\ LARGE_DATA \in 1 .. SLAB_DATA
  /\ class_sizes \in Seq(1 .. PAGE_SIZE - SLAB_DATA)
  /\ \A i, j \in DOMAIN class_sizes : i < j => class_sizes[i] < class_sizes[j]

Classes == DOMAIN class_sizes

\* kmalloc: the classes a request fits; the first one serves it.
FittingClasses(size) == {c \in Classes : size <= class_sizes[c]}
ClassFor(size) == Min(FittingClasses(size))

\* cache_grow: how many slots a slab of class c has, and the offset of each.
SlotsOf(c) == (PAGE_SIZE - SLAB_DATA) \div class_sizes[c]
SlotOffset(c, i) == SLAB_DATA + i * class_sizes[c]

=============================================================================
