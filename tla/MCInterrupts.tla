---------------------------- MODULE MCInterrupts ----------------------------
(***************************************************************************)
(* Interrupts with scancodes typed at any time, ticks and spurious         *)
(* interrupts without bound, and any exception of the 32 at any time.      *)
(***************************************************************************)
EXTENDS Interrupts

AllExceptions == 0 .. 31

\* Three entries of the table: 'a' (0x1E), 'b' (0x30) and LShift (0x2A).
Table == [c \in 0 .. 127 |-> CASE c = 30 -> "a" [] c = 48 -> "b" [] OTHER -> NUL]

\* Two characters, a key without one, and the release of 'a'.
TypedCodes == {30, 48, 42, 128 + 30}
=============================================================================
