---------------------------- MODULE AddressSpace ----------------------------
(***************************************************************************)
(* What the paging layer promises (kernel/arch/x86_64/paging.h): a map     *)
(* from virtual pages to leaf entries, changed one page at a time.         *)
(***************************************************************************)
EXTENDS Integers

VARIABLE space   \* the mappings [virt, leaf]

SpaceInit == space = {}

\* One page is mapped, mapped anew or unmapped; every other page keeps its mapping
\* and no page has two.
SpaceNext ==
  LET changed == (space \ space') \cup (space' \ space) IN
  /\ \A m, n \in changed : m.virt = n.virt
  /\ \A m, n \in space' : m.virt = n.virt => m = n

SpaceSpec == SpaceInit /\ [][SpaceNext]_space

=============================================================================
