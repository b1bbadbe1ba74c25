------------------------------ MODULE MCConsole -----------------------------
(***************************************************************************)
(* Console on a grid of 3 columns and 2 rows with a strip of one scan line *)
(* below them; glyphs are two lines high, tab stops two cells apart, so a  *)
(* tab can end inside a line, at its end and beyond.                       *)
(***************************************************************************)
EXTENDS Console

\* Everything console_putc tells apart.
AllChars == Printable \cup Controls
=============================================================================
