------------------------------- MODULE MCSched ------------------------------
(***************************************************************************)
(* Sched with the nodes as model values: kmain and up to two (or three)    *)
(* tasks, created by kmain or by one another, each of which may compute,   *)
(* yield and return.                                                       *)
(***************************************************************************)
EXTENDS Sched
=============================================================================
