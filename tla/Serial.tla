------------------------------- MODULE Serial -------------------------------
(***************************************************************************)
(* The serial driver (kernel/lib/serial.c) and the 16550 UART it drives    *)
(* (external).  A UART u has the registers that serial_init writes and the *)
(* bytes it has taken and not yet sent.                                    *)
(***************************************************************************)
EXTENDS Integers, SequencesExt

DLAB(u) == u.lcr >= 128

\* The transmitter holds one byte, or sixteen with the FIFOs enabled (FCR bit 0).
Depth(u) == IF u.fcr % 2 = 1 THEN 16 ELSE 1

\* A byte written to a full transmitter takes the place of the last one.
Queued(u, b) ==
  IF Len(u.fifo) < Depth(u) THEN Append(u.fifo, b)
  ELSE Append(Front(u.fifo), b)

\* outb(COM1 + reg, v): registers 0 and 1 are the divisor latch while DLAB is set,
\* and bit 2 of the FIFO control register clears the transmitter.
outb(u, reg, v) ==
  CASE reg = 0 -> IF DLAB(u) THEN [u EXCEPT !.divisor_low = v] ELSE [u EXCEPT !.fifo = Queued(u, v)]
    [] reg = 1 -> IF DLAB(u) THEN [u EXCEPT !.divisor_high = v] ELSE [u EXCEPT !.ier = v]
    [] reg = 2 -> [u EXCEPT !.fcr = v, !.fifo = IF (v \div 4) % 2 = 1 THEN << >> ELSE @]
    [] reg = 3 -> [u EXCEPT !.lcr = v]
    [] reg = 4 -> [u EXCEPT !.mcr = v]

\* Line status bit 5: the transmitter has room for a byte.  With the FIFOs enabled
\* it comes up only when the last byte is out.
THRE(u) == u.fifo = << >>

-----------------------------------------------------------------------------

\* Fault: the FIFOs stay disabled.
Setup_nofifo == <<<<1, 0>>, <<3, 128>>, <<0, 1>>, <<1, 0>>, <<3, 3>>, <<4, 11>>>>

\* No interrupts; divisor 1 behind DLAB; 8 data bits; FIFOs (0xC7); modem lines (0x0B).
Setup == <<<<1, 0>>, <<3, 128>>, <<0, 1>>, <<1, 0>>, <<3, 3>>, <<2, 199>>, <<4, 11>>>>

serial_init(u) ==
  LET after[i \in 0 .. Len(Setup)] ==
        IF i = 0 THEN u ELSE outb(after[i - 1], Setup[i][1], Setup[i][2])
  IN  after[Len(Setup)]

\* As the firmware leaves it: FIFOs off, any divisor, no matter which.
PowerOn == [divisor_low |-> 12, divisor_high |-> 0, ier |-> 0, fcr |-> 0, lcr |-> 3,
            mcr |-> 0, fifo |-> << >>]

\* serial_write's bytes for the string s.
CRLF(s) == FlattenSeq([i \in DOMAIN s |-> IF s[i] = "LF" THEN <<"CR", "LF">> ELSE <<s[i]>>])

=============================================================================
