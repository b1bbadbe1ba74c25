------------------------------- MODULE MCBuddy ------------------------------
(***************************************************************************)
(* Buddy with blocks of up to 2^BUDDY_MAX_ORDER frames on memory maps whose*)
(* regions start at odd and even frames, are cut by the bitmap, by lent    *)
(* frames and by the budget.  On one map two touch; on one a whole block   *)
(* of the largest order fits.                                              *)
(***************************************************************************)
EXTENDS BuddyList

Region(a, b, u) == [base |-> a, length |-> b - a, usable |-> u]

MCBlockFrames == [o \in Orders |-> 2 ^ o]

MCMemmaps ==
  { <<Region(0, 1, FALSE), Region(1, 11, TRUE)>>,
    <<Region(3, 9, TRUE), Region(9, 10, FALSE), Region(10, 13, TRUE)>>,
    <<Region(1, 2, TRUE), Region(4, 13, TRUE)>>,
    <<Region(1, 5, TRUE), Region(5, 11, TRUE)>>,
    <<Region(1, 2, TRUE), Region(8, 17, TRUE)>>,
    <<Region(2, 4, TRUE)>> }
=============================================================================
