------------------------------ MODULE MCPaging ------------------------------
(***************************************************************************)
(* Paging with tables of eight entries and sixteen frames.  Boot needs     *)
(* eight tables; what is left runs out half-way down a walk, at every      *)
(* level.  Client pages share a page table, a page directory or a PDPT.    *)
(* One memory map leaves the boot stack out, one has an unaligned region.  *)
(***************************************************************************)
EXTENDS Paging

Region(a, b, u) == [base |-> a, length |-> b - a, usable |-> u]

\* In half frames: frames 1..12 usable, the stack in 13, the image in 14 and 15.
MCMemmaps ==
  { <<Region(0, 1, FALSE), Region(2, 26, TRUE), Region(26, 28, FALSE), Region(28, 32, FALSE)>>,
    <<Region(2, 26, TRUE), Region(26, 27, FALSE), Region(28, 31, FALSE)>>,
    <<Region(2, 26, TRUE), Region(28, 32, FALSE)>> }

MCClientPages == {0, 1, 8, 64}
MCClientFlags == {[write |-> TRUE, user |-> FALSE], [write |-> FALSE, user |-> TRUE]}
=============================================================================
