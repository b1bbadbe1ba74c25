-------------------------------- MODULE Slab --------------------------------
(***************************************************************************)
(* kmalloc and kfree (kernel/core/mm/slab.c) over a page allocator, which  *)
(* Buddy implements.                                                       *)
(*                                                                         *)
(* An address is a number: page * PAGE_SIZE + offset, in SlabSizes' units. *)
(* What the allocator reads back from memory is modelled: the header at a  *)
(* page's base (hdr) and the first word of every slot (link), which is the *)
(* caller's while the slot is handed out.  A cache's singly linked list of *)
(* slabs is the sequence of their pages, the head first.                   *)
(***************************************************************************)
EXTENDS PageAllocator, SlabSizes, FiniteSets

CONSTANTS
  Pool,       \* the frames the buddy allocator owns
  Requests    \* sizes callers ask for

ASSUME PoolAssumption ==
  /\ Pool \subseteq Nat \ {0} /\ Requests \subseteq Nat
  /\ MaxOrder \in Nat /\ BlockFrames \in [0 .. MaxOrder -> Nat \ {0}]
  /\ BlockFrames[0] = 1

VARIABLES
  hdr,          \* page -> the header at its base
  link,         \* slot address -> the word stored there
  slabs,        \* class -> pages of its slabs
  slab_count, total_slots, free_slots,   \* class -> the cache's counters
  live          \* history: [ptr, size] of the requests not freed since

slabVars == <<hdr, link, slabs, slab_count, total_slots, free_slots, live>>
heapVars == <<pageVars, slabVars>>

NULL == 0
USER == -1      \* a slot's first word while it is the caller's

NoHeader == [magic |-> "none", cache |-> 0, order |-> 0,
             free |-> NULL, free_count |-> 0, total |-> 0]

PageOf(ptr) == ptr \div PAGE_SIZE          \* ptr & SLAB_PAGE_MASK
Base(page) == page * PAGE_SIZE
SlotAddr(page, c, i) == Base(page) + SlotOffset(c, i)
SlotAddrs(page, c) == {SlotAddr(page, c, i) : i \in 0 .. SlotsOf(c) - 1}

\* slab_init
slab_init ==
  /\ hdr = [p \in Pool |-> NoHeader]
  /\ link = << >>
  /\ slabs = [c \in Classes |-> << >>]
  /\ slab_count = [c \in Classes |-> 0]
  /\ total_slots = [c \in Classes |-> 0]
  /\ free_slots = [c \in Classes |-> 0]
  /\ live = {}

-----------------------------------------------------------------------------
\* kmalloc

\* Pop the head of slab s's threaded list, h and l being headers and links so far.
Pop(s, size, h, l) ==
  LET slot == h[s].free IN
  /\ hdr' = [h EXCEPT ![s].free = l[slot], ![s].free_count = @ - 1]
  /\ link' = [l EXCEPT ![slot] = USER]
  /\ live' = live \cup {[ptr |-> slot, size |-> size]}

\* Positions in c's slab list that have a free slot; the first is used.
SlabsWithRoom(c) == {i \in DOMAIN slabs[c] : hdr[slabs[c][i]].free_count # 0}

kmalloc_slot(size) ==
  /\ size # 0 /\ FittingClasses(size) # {}
  /\ LET c == ClassFor(size) IN
     /\ SlabsWithRoom(c) # {}
     /\ Pop(slabs[c][Min(SlabsWithRoom(c))], size, hdr, link)
     /\ free_slots' = [free_slots EXCEPT ![c] = @ - 1]
  /\ UNCHANGED <<pageVars, slabs, slab_count, total_slots>>

\* cache_grow's header: every slot has been pushed in turn, so the head is the last.
FreshHeader(page, c) ==
  [magic |-> "slab", cache |-> c, order |-> 0,
   free |-> SlotAddr(page, c, SlotsOf(c) - 1),
   free_count |-> SlotsOf(c), total |-> SlotsOf(c)]

\* Its slots: each one points at the one before it.
Threading(page, c) ==
  [a \in SlotAddrs(page, c) \cup DOMAIN link |->
     IF a \notin SlotAddrs(page, c) THEN link[a]
     ELSE IF a = SlotAddr(page, c, 0) THEN NULL ELSE a - class_sizes[c]]

kmalloc_grow(size) ==
  /\ size # 0 /\ FittingClasses(size) # {}
  /\ LET c == ClassFor(size) IN
     /\ SlabsWithRoom(c) = {}
     /\ \E page \in Pool :
          /\ Lend(<<page, 0>>)
          /\ Pop(page, size, [hdr EXCEPT ![page] = FreshHeader(page, c)],
                 Threading(page, c))
          /\ slabs' = [slabs EXCEPT ![c] = <<page>> \o @]
     /\ slab_count' = [slab_count EXCEPT ![c] = @ + 1]
     /\ total_slots' = [total_slots EXCEPT ![c] = @ + SlotsOf(c)]
     /\ free_slots' = [free_slots EXCEPT ![c] = @ + SlotsOf(c) - 1]

\* order_for_bytes where it does not overflow: the smallest order whose block holds
\* `bytes`; beyond MaxOrder buddy_alloc refuses every order alike.
OrderFor(bytes) ==
  Min({o \in 0 .. MaxOrder : bytes <= PAGE_SIZE * BlockFrames[o]} \cup {MaxOrder + 1})

\* large_alloc.  Fault: the header is not counted in.
LargeOrder_headerless(size) == OrderFor(size)

LargeOrder(size) == OrderFor(LARGE_DATA + size)

kmalloc_large(size) ==
  /\ size # 0 /\ FittingClasses(size) = {}
  /\ LargeOrder(size) <= MaxOrder
  /\ \E page \in Pool :
       /\ Lend(<<page, LargeOrder(size)>>)
       /\ hdr' = [hdr EXCEPT ![page] = [NoHeader EXCEPT !.magic = "large",
                                                        !.order = LargeOrder(size)]]
       /\ live' = live \cup {[ptr |-> Base(page) + LARGE_DATA, size |-> size]}
  /\ UNCHANGED <<link, slabs, slab_count, total_slots, free_slots>>

\* size 0, or pages are needed and the page allocator has none: NULL.
kmalloc_null(size) ==
  /\ \/ size = 0
     \/ FittingClasses(size) = {}
     \/ FittingClasses(size) # {} /\ SlabsWithRoom(ClassFor(size)) = {}
  /\ UNCHANGED heapVars

-----------------------------------------------------------------------------
\* kfree: the header at the page's base says what kind of page it is.

Forget(ptr) == {o \in live : o.ptr # ptr}

\* Fault: the slot's link is not written back.
kfree_slab_unlinked(ptr) ==
  LET s == PageOf(ptr) IN
  /\ hdr[s].magic = "slab"
  /\ hdr' = [hdr EXCEPT ![s].free = ptr, ![s].free_count = @ + 1]
  /\ free_slots' = [free_slots EXCEPT ![hdr[s].cache] = @ + 1]
  /\ live' = Forget(ptr)
  /\ UNCHANGED <<pageVars, link, slabs, slab_count, total_slots>>

\* Fault: the cache's count is not kept.
kfree_slab_uncounted(ptr) ==
  LET s == PageOf(ptr) IN
  /\ hdr[s].magic = "slab"
  /\ link' = [link EXCEPT ![ptr] = hdr[s].free]
  /\ hdr' = [hdr EXCEPT ![s].free = ptr, ![s].free_count = @ + 1]
  /\ live' = Forget(ptr)
  /\ UNCHANGED <<pageVars, slabs, slab_count, total_slots, free_slots>>

kfree_slab(ptr) ==
  LET s == PageOf(ptr) IN
  /\ hdr[s].magic = "slab"
  /\ link' = [link EXCEPT ![ptr] = hdr[s].free]
  /\ hdr' = [hdr EXCEPT ![s].free = ptr, ![s].free_count = @ + 1]
  /\ free_slots' = [free_slots EXCEPT ![hdr[s].cache] = @ + 1]
  /\ live' = Forget(ptr)
  /\ UNCHANGED <<pageVars, slabs, slab_count, total_slots>>

\* Fault: the block is never given back.
kfree_large_leak(ptr) ==
  /\ hdr[PageOf(ptr)].magic = "large"
  /\ live' = Forget(ptr)
  /\ UNCHANGED <<pageVars, hdr, link, slabs, slab_count, total_slots, free_slots>>

\* The block goes back to the buddy allocator, whose list node overwrites the
\* header unless the block merged into one that starts lower.
kfree_large(ptr) ==
  LET s == PageOf(ptr) IN
  /\ hdr[s].magic = "large"
  /\ Return(<<s, hdr[s].order>>)
  /\ hdr' \in {hdr, [hdr EXCEPT ![s] = NoHeader]}
  /\ live' = Forget(ptr)
  /\ UNCHANGED <<link, slabs, slab_count, total_slots, free_slots>>

\* kfree(NULL), or a page that bears no header of kmalloc's: ignored.
kfree_ignored(ptr) ==
  /\ ptr # NULL => hdr[PageOf(ptr)].magic = "none"
  /\ UNCHANGED heapVars

\* kmalloc_usable_size
kmalloc_usable_size(ptr) ==
  LET h == hdr[PageOf(ptr)] IN
  CASE h.magic = "slab"  -> class_sizes[h.cache]
    [] h.magic = "large" -> PAGE_SIZE * BlockFrames[h.order]
    [] OTHER -> 0

\* slab_get_stats: slots in use (the other figures are the counters themselves).
UsedSlots(c) == total_slots[c] - free_slots[c]

-----------------------------------------------------------------------------

SlabInit == pool = Pool /\ held = {} /\ slab_init

\* Callers free only what they hold; they may also free NULL or a foreign page.
SlabNext ==
  \/ \E size \in Requests :
       \/ kmalloc_slot(size) \/ kmalloc_grow(size)
       \/ kmalloc_large(size) \/ kmalloc_null(size)
  \/ \E o \in live : kfree_slab(o.ptr) \/ kfree_large(o.ptr)
  \/ \E ptr \in {NULL} \cup {Base(p) : p \in Pool} : kfree_ignored(ptr)

SlabSpec == SlabInit /\ [][SlabNext]_heapVars

-----------------------------------------------------------------------------
\* Properties

SlabPages(c) == {slabs[c][i] : i \in DOMAIN slabs[c]}
LivePtrs == {o.ptr : o \in live}

\* The words an object of the given size at ptr occupies.
Extent(ptr, size) == ptr .. (ptr + size - 1)

\* Every variable has its type.
SlabTypeOK ==
  /\ pool = Pool /\ held \in SUBSET (Pool \X (0 .. MaxOrder))
  /\ hdr \in [Pool -> [magic : {"none", "slab", "large"}, cache : {0} \cup Classes,
                       order : 0 .. MaxOrder, free : Nat, free_count : Nat, total : Nat]]
  /\ \A a \in DOMAIN link : link[a] \in DOMAIN link \cup {NULL, USER}
  /\ \A c \in Classes : \A i \in DOMAIN slabs[c] : slabs[c][i] \in Pool
  /\ slab_count \in [Classes -> Nat] /\ total_slots \in [Classes -> Nat]
  /\ free_slots \in [Classes -> Nat]
  /\ live \in SUBSET [ptr : Nat, size : Nat \ {0}]

\* Every caller has the bytes it asked for to itself: no two live objects overlap,
\* none overlaps a slab's or a large block's header, and each lies within pages
\* kmalloc holds ("Allocate at least `size` bytes").
ObjectsDisjoint ==
  /\ \A o, q \in live : o # q => Extent(o.ptr, o.size) \cap Extent(q.ptr, q.size) = {}
  /\ \A o \in live :
       LET e == Extent(o.ptr, o.size) IN
       /\ \A a \in e : PageOf(a) \in Lent
       /\ \A p \in Pool : hdr[p].magic = "slab" => e \cap (Base(p) .. Base(p) + SLAB_DATA - 1) = {}
       /\ Base(PageOf(o.ptr)) + LARGE_DATA <= o.ptr
       /\ o.size <= kmalloc_usable_size(o.ptr)

\* A slab's list, walked through the words stored in memory: chain[k] for k up to
\* free_count + 1.
FollowLink(a) == IF a \in DOMAIN link THEN link[a] ELSE NULL
FreeChain(s) ==
  LET n == hdr[s].free_count + 1
      chain[k \in 1 .. n] == IF k = 1 THEN hdr[s].free ELSE FollowLink(chain[k - 1])
  IN  chain

\* "The link only exists while the slot is free": walking a slab's list from its
\* head meets every free slot once and nothing else, and ends after free_count.
FreeListsExact ==
  \A c \in Classes : \A s \in SlabPages(c) :
    LET n == hdr[s].free_count
        nodes == {FreeChain(s)[k] : k \in 1 .. n}
    IN  /\ nodes = SlotAddrs(s, c) \ LivePtrs
        /\ Cardinality(nodes) = n
        /\ FreeChain(s)[n + 1] = NULL

\* slab_get_stats: the counters kept incrementally per cache agree with its slabs.
CacheCountersExact ==
  \A c \in Classes :
    /\ slab_count[c] = Cardinality(SlabPages(c))
    /\ slab_count[c] = Len(slabs[c])
    /\ total_slots[c] = SlotsOf(c) * slab_count[c]
    /\ UsedSlots(c) =
         Cardinality({a \in LivePtrs : PageOf(a) \in SlabPages(c)})

\* "Every byte it manages comes from buddy_alloc() and goes back via buddy_free()":
\* a block held is a slab of exactly one cache or carries one live large object,
\* and its header says so; nothing leaks, no page serves two masters.
HeldExact ==
  held = {<<s, 0>> : s \in UNION {SlabPages(c) : c \in Classes}}
           \cup {<<PageOf(o.ptr), LargeOrder(o.size)>> :
                   o \in {q \in live : FittingClasses(q.size) = {}}}

=============================================================================
