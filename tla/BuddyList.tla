------------------------------ MODULE BuddyList -----------------------------
(***************************************************************************)
(* The buddy allocator's intrusive lists (kernel/core/mm/buddy.c).  Buddy  *)
(* has each order's list as a set; here the lists are what the code has:   *)
(* heads, and nodes stored in the free blocks themselves.  The code's      *)
(* loops run on the lists, and Buddy's variables go along as the account   *)
(* of what the lists should hold.                                          *)
(*                                                                         *)
(* Frame 0 is never usable, so 0 is NULL.  node has the frames whose first *)
(* bytes are a node.  A block that is lent belongs to its caller, and what *)
(* list_remove leaves behind must not be read again: both are taken out of *)
(* node, and to read such bytes gives Wild.                                *)
(***************************************************************************)
EXTENDS Buddy

VARIABLES
  head,   \* order -> free_list[order], the first node
  node    \* frame -> the node stored there

lists == [head |-> head, node |-> node]
listVars == <<vars, head, node>>

NULL == 0
Wild == [next |-> -1, prev |-> -1]

\* The bytes at p, read as a node.
NodeAt(L, p) == IF p \in DOMAIN L.node THEN L.node[p] ELSE Wild

\* n->field = v.
Store(nodes, n, field, v) ==
  LET old == IF n \in DOMAIN nodes THEN nodes[n] ELSE Wild
  IN  [p \in DOMAIN nodes \cup {n} |-> IF p = n THEN [old EXCEPT ![field] = v] ELSE nodes[p]]

\* Without the bytes of the frames F.
Without(nodes, F) == [p \in DOMAIN nodes \ F |-> nodes[p]]

-----------------------------------------------------------------------------
\* The primitives

list_push(L, order, p) ==
  LET first == L.head[order]
      pushed == Store(Store(L.node, p, "prev", NULL), p, "next", first)
  IN  [head |-> [L.head EXCEPT ![order] = p],
       node |-> IF first # NULL THEN Store(pushed, first, "prev", p) ELSE pushed]

\* Fault: the successor keeps its link back.
list_remove_oneway(L, order, p) ==
  LET n == NodeAt(L, p)
      around == IF n.prev # NULL THEN Store(L.node, n.prev, "next", n.next) ELSE L.node
  IN  [head |-> IF n.prev # NULL THEN L.head ELSE [L.head EXCEPT ![order] = n.next],
       node |-> Without(around, {p})]

\* From anywhere in the list, given only the node.
list_remove(L, order, p) ==
  LET n == NodeAt(L, p)
      around == IF n.prev # NULL THEN Store(L.node, n.prev, "next", n.next) ELSE L.node
      back == IF n.next # NULL THEN Store(around, n.next, "prev", n.prev) ELSE around
  IN  [head |-> IF n.prev # NULL THEN L.head ELSE [L.head EXCEPT ![order] = n.next],
       node |-> Without(back, {p})]

\* The list as a walk along next meets it: NULL, or Wild's -1, from its end on.
\* It cannot have more nodes than there are.
Chain(L, order) ==
  LET walked[k \in 1 .. Cardinality(DOMAIN L.node) + 1] ==
        IF k = 1 THEN L.head[order]
        ELSE IF walked[k - 1] = NULL THEN NULL ELSE NodeAt(L, walked[k - 1]).next
  IN  walked

\* The scan stops at NULL, so it never finds frame 0.
list_find(L, order, p) ==
  p # NULL /\ \E k \in DOMAIN Chain(L, order) : Chain(L, order)[k] = p

-----------------------------------------------------------------------------
\* The operations

\* while (o > order): the upper halves are pushed, order by order.
Split(L, p, order, o) ==
  LET at[k \in order .. o] ==
        IF k = o THEN list_remove(L, o, p)
        ELSE list_push(at[k + 1], k, p + BlockFrames[k])
  IN  at[order]

\* The first block of the smallest order that has one; the caller owns its bytes.
list_alloc(order) ==
  /\ \E o \in Orders : o >= order /\ head[o] # NULL
  /\ LET o == Min({k \in Orders : k >= order /\ head[k] # NULL})
         p == head[o]
         left == Split(lists, p, order, o)
     IN  /\ buddy_alloc(order, p)
         /\ head' = left.head
         /\ node' = Without(left.node, Frames(<<p, order>>))

\* while (order < BUDDY_MAX_ORDER): at[k] is the loop's state when it gets to
\* order k; merging is over once open is false.
Merge(L, p, order) ==
  LET at[k \in order .. BUDDY_MAX_ORDER] ==
        IF k = order THEN [lists |-> L, phys |-> p, order |-> order, open |-> TRUE]
        ELSE LET s == at[k - 1]
                 buddy == BuddyOf(s.phys, k - 1)
             IN  IF s.open /\ list_find(s.lists, k - 1, buddy)
                 THEN [lists |-> list_remove(s.lists, k - 1, buddy),
                       phys |-> Min({buddy, s.phys}), order |-> k, open |-> TRUE]
                 ELSE [s EXCEPT !.open = FALSE]
  IN  at[BUDDY_MAX_ORDER]

list_free(p, order) ==
  /\ buddy_free(p, order)
  /\ LET m == Merge(lists, p, order)
         left == list_push(m.lists, m.order, m.phys)
     IN  head' = left.head /\ node' = left.node

list_init ==
  /\ buddy_init_begin
  /\ head' = [o \in Orders |-> NULL]
  /\ UNCHANGED node

list_seed ==
  /\ buddy_init_seed
  /\ LET left == list_push(lists, SeedOrder, run_start)
     IN  head' = left.head /\ node' = left.node

-----------------------------------------------------------------------------

ListInit ==
  /\ Init
  /\ head = [o \in Orders |-> NULL]
  /\ node = << >>

\* What touches no list.
Unlisted ==
  /\ \/ PmmStep
     \/ buddy_init_claim \/ buddy_init_skip \/ buddy_init_next
     \/ phase = "up" /\ \E order \in 0 .. BUDDY_MAX_ORDER + 1 : buddy_alloc_fails(order)
  /\ UNCHANGED <<head, node>>

ListNext ==
  \/ Unlisted \/ list_init \/ list_seed
  \/ /\ phase = "up"
     /\ \/ \E order \in Orders : list_alloc(order)
        \/ \E b \in allocated : list_free(b[1], b[2])

\* buddy_init runs to its end: every turn of its loops is taken.
ListSpec == ListInit /\ [][ListNext]_listVars /\ WF_listVars(BuddyInitStep /\ ListNext)

-----------------------------------------------------------------------------
\* Properties

\* "We must pull the buddy out of the MIDDLE of its list, given only the node", and
\* "scans only known-free nodes": along next, every order's list has exactly the free
\* blocks of that order, each once, and ends; prev leads back the same way; the counts
\* buddy_get_stats reports are the lists' lengths; and the only bytes the allocator has
\* written are those of free blocks.  So splitting and merging on the links do what
\* Buddy says of the sets.
ListsExact ==
  /\ FreeCountsExact
  /\ DOMAIN node = UNION {free_list[o] : o \in Orders}
  /\ \A o \in Orders :
       LET chain == Chain(lists, o)
           n == free_count[o]
       IN  /\ \A k \in DOMAIN chain : chain[k] = NULL <=> k > n
           /\ {chain[k] : k \in 1 .. n} = free_list[o]
           /\ \A k \in 1 .. n : node[chain[k]].prev = (IF k = 1 THEN NULL ELSE chain[k - 1])

=============================================================================
