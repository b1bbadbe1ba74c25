---------------------------- MODULE MCLargeAlloc ----------------------------
(***************************************************************************)
(* LargeAlloc with words of 10 bits, pages of 16 bytes and headers of 2.   *)
(***************************************************************************)
EXTENDS LargeAlloc

\* All requests for which header and object fit in a word.
FittingSizes == 1 .. Pow2[WORD_BITS] - 1 - LARGE_DATA

\* Requests within a header of the largest size_t.
WrappingSizes == Pow2[WORD_BITS] - LARGE_DATA .. Pow2[WORD_BITS] - 1
=============================================================================
