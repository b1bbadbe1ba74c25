------------------------------- MODULE MCSlab -------------------------------
(***************************************************************************)
(* Slab with pages of 10 units, a slab header of 3 and a large header of 1  *)
(* (3 * 16 and 16 bytes in the code) and two classes: one of three slots per *)
(* slab, one whose single slot leaves slack.  Requests hit both classes at *)
(* and below their size, and large blocks at the boundary where the header *)
(* does and does not push them to the next order.                          *)
(***************************************************************************)
EXTENDS Slab

MCBlockFrames == [o \in 0 .. MaxOrder |-> 2 ^ o]
MCClassSizes == <<2, 4>>
=============================================================================
