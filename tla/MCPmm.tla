------------------------------- MODULE MCPmm --------------------------------
(***************************************************************************)
(* Pmm on every memory map with two usable regions (touching ones and an   *)
(* empty second one included) and a reserved one, below TopFrame.  With    *)
(* few bits per frame the bitmap needs more than one frame, and on some    *)
(* maps only the second region can hold it, or none can.                   *)
(***************************************************************************)
EXTENDS Pmm

CONSTANT TopFrame   \* bound: one past the highest usable frame

Region(a, b, u) == [base |-> a, length |-> b - a, usable |-> u]

MCMemmaps ==
  {<<Region(0, 1, FALSE), Region(q[1], q[2], TRUE), Region(q[3], q[4], TRUE)>> :
     q \in {r \in (1 .. TopFrame) \X (1 .. TopFrame) \X (1 .. TopFrame) \X (1 .. TopFrame) :
              r[1] < r[2] /\ r[2] <= r[3] /\ r[3] <= r[4]}}
=============================================================================
