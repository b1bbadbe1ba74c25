----------------------------- MODULE MCConsoleIrq ---------------------------
(***************************************************************************)
(* ConsoleIrq on two columns and two rows, so that the message wraps and   *)
(* scrolls, with every kind of key the table has.                          *)
(***************************************************************************)
EXTENDS ConsoleIrq

SmallMessage == <<"x", "space", "LF", "x">>
SmallKeys == {"x", "LF", "BS", "TAB", "release"}
SmallChars == SmallKeys \ {"release"}
=============================================================================
