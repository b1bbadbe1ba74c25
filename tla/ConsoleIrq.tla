----------------------------- MODULE ConsoleIrq -----------------------------
(***************************************************************************)
(* Console and serial port under interrupts.  kmain's last kprint          *)
(* (kernel/kernel.c) runs with interrupts enabled: between any two of its  *)
(* loads and stores, and between its look at the UART's status and its     *)
(* write to it, the keyboard handler (kernel/drivers/keyboard.c) or the    *)
(* timer handler (kernel/drivers/timer.c) may run.  The keyboard handler   *)
(* calls console_putc on the same cursor and the same picture, and both    *)
(* write to the same UART.  The handlers run with IF clear, so each is one *)
(* step.                                                                   *)
(*                                                                         *)
(* col and row are the registers that a call of draw_cell or paint_cursor  *)
(* has its coordinates in, and newline the row it has counted up.  The     *)
(* accesses are a data race: whether ++cur_col starts from the register or *)
(* from memory is up to the compiler, and both are allowed.                *)
(***************************************************************************)
EXTENDS Console, Serial

CONSTANTS
  Message,  \* what kprint writes: printable characters and "LF"
  Keys,     \* scancodes: those of Chars, and others the handler drops
  MaxKeys,  \* bound: key events during the run
  MaxBeats  \* bound: seconds that pass during the run

ASSUME MessageAssumption ==
  /\ Message \in Seq(Printable \cup {"LF"}) /\ Message # << >>
  /\ MaxKeys \in Nat /\ MaxBeats \in Nat

VARIABLES
  pc,        \* where kmain is in serial_putc or console_putc
  rest,      \* the characters serial_write or console_write still has to write
  col, row,  \* registers
  uart,      \* COM1
  wire,      \* what has left it, by the writer
  dropped,   \* number of keys without a character so far
  echoed,    \* history: the keys echoed
  beats      \* number of heartbeat lines so far

serialVars == <<uart, wire>>
pressVars == <<dropped, echoed, beats>>
irqVars == <<pc, rest, col, row, serialVars, pressVars>>
vars == <<conVars, irqVars>>

\* Bytes are tagged with their writer, to follow each one's stream.
Writers == {"kmain", "keyboard", "timer"}
Tagged(w, bytes) == [i \in DOMAIN bytes |-> <<w, bytes[i]>>]

\* After arch_enable_irqs, about to print the last line.
IrqInit ==
  /\ fb = paint_cursor([y \in ScanLines |-> [x \in Columns |-> bg]], fg, 0, 0)
  /\ cur_col = 0 /\ cur_row = 0 /\ ready = TRUE /\ called = TRUE /\ returned = FALSE
  /\ pc = "poll"
  /\ rest = CRLF(Message)
  /\ col = 0 /\ row = 0
  /\ uart = serial_init(PowerOn) /\ wire = [w \in Writers |-> << >>]
  /\ dropped = 0 /\ echoed = << >> /\ beats = 0

-----------------------------------------------------------------------------
\* The UART sends its oldest byte (external).

Shifted(s) ==
  LET b == Head(s.uart.fifo)
  IN  [uart |-> [s.uart EXCEPT !.fifo = Tail(@)], wire |-> [s.wire EXCEPT ![b[1]] = Append(@, b[2])]]

Port == [uart |-> uart, wire |-> wire]

uart_sends ==
  /\ uart.fifo # << >>
  /\ uart' = Shifted(Port).uart /\ wire' = Shifted(Port).wire
  /\ UNCHANGED <<conVars, pc, rest, col, row, pressVars>>

\* A handler's serial_putc: it spins until the UART is ready.
serial_putc(s, b) ==
  LET drained[n \in 0 .. Len(s.uart.fifo)] == IF n = 0 THEN s ELSE Shifted(drained[n - 1])
      n == CHOOSE k \in DOMAIN drained :
             THRE(drained[k].uart) /\ \A j \in 0 .. k - 1 : ~THRE(drained[j].uart)
  IN  [drained[n] EXCEPT !.uart = outb(@, 0, b)]

SerialWritten(bytes) ==
  LET after[i \in 0 .. Len(bytes)] == IF i = 0 THEN Port ELSE serial_putc(after[i - 1], bytes[i])
  IN  after[Len(bytes)]

-----------------------------------------------------------------------------
\* kprint's serial_write: the status is read, and then the byte written

\* Fault: the test of the status bit is inverted.
serial_poll_inverted ==
  /\ pc = "poll" /\ ~THRE(uart)
  /\ pc' = "out"
  /\ UNCHANGED <<conVars, rest, col, row, serialVars, pressVars>>

serial_poll ==
  /\ pc = "poll" /\ THRE(uart)
  /\ pc' = "out"
  /\ UNCHANGED <<conVars, rest, col, row, serialVars, pressVars>>

serial_out ==
  /\ pc = "out"
  /\ uart' = outb(uart, 0, <<"kmain", Head(rest)>>)
  /\ IF Len(rest) > 1
     THEN pc' = "poll" /\ rest' = Tail(rest)
     ELSE pc' = "erase" /\ rest' = Message
  /\ UNCHANGED <<conVars, col, row, wire, pressVars>>

-----------------------------------------------------------------------------
\* kprint's console_write: one action per load or store of console_putc

Goto(from, to) == pc = from /\ pc' = to

\* The coordinates are loaded ...
Load(from, to) ==
  /\ Goto(from, to)
  /\ col' = cur_col /\ row' = cur_row
  /\ UNCHANGED <<conVars, rest, serialVars, pressVars>>

\* ... and pixels stored.
Store(f) ==
  /\ fb' = f
  /\ UNCHANGED <<cur_col, cur_row, ready, called, returned, col, row, serialVars, pressVars>>

load_erase == Load("erase", "erasing")

\* erase_cursor, and the switch on the character.
erase_cursor ==
  /\ Goto("erasing", IF Head(rest) = "LF" THEN "newline" ELSE "draw")
  /\ Store(paint_cursor(fb, bg, col, row))
  /\ UNCHANGED rest

load_draw == Load("draw", "drawing")

draw_glyph ==
  /\ Goto("drawing", "advance")
  /\ Store(draw_cell(fb, Head(rest), col, row))
  /\ UNCHANGED rest

\* ++cur_col, and the test on the value stored.
advance ==
  \E c \in {col, cur_col} :
    /\ Goto("advance", IF c + 1 >= cols THEN "newline" ELSE "cursor")
    /\ cur_col' = c + 1
    /\ UNCHANGED <<fb, cur_row, ready, called, returned, rest, col, row,
                  serialVars, pressVars>>

newline_col ==
  /\ Goto("newline", "count row")
  /\ cur_col' = 0
  /\ UNCHANGED <<fb, cur_row, ready, called, returned, rest, col, row,
                  serialVars, pressVars>>

newline_row ==
  /\ Goto("count row", IF cur_row + 1 >= rows THEN "scroll" ELSE "cursor")
  /\ cur_row' = cur_row + 1
  /\ UNCHANGED <<fb, cur_col, ready, called, returned, rest, col, row,
                  serialVars, pressVars>>

newline_scroll ==
  /\ Goto("scroll", "clamp")
  /\ Store(scroll(fb))
  /\ UNCHANGED rest

\* Fault: counted back instead of set.
ClampedRow_counted == cur_row - 1

ClampedRow == rows - 1

newline_clamp ==
  /\ Goto("clamp", "cursor")
  /\ cur_row' = ClampedRow
  /\ UNCHANGED <<fb, cur_col, ready, called, returned, rest, col, row,
                  serialVars, pressVars>>

load_cursor == Load("cursor", "showing")

\* draw_cursor, and console_write's loop; then kmain's hlt loop.
draw_cursor ==
  /\ Goto("showing", IF Len(rest) = 1 THEN "hlt" ELSE "erase")
  /\ Store(paint_cursor(fb, fg, col, row))
  /\ rest' = Tail(rest)

kprint ==
  \/ serial_poll \/ serial_out
  \/ load_erase \/ erase_cursor \/ load_draw \/ draw_glyph \/ advance
  \/ newline_col \/ newline_row \/ newline_scroll \/ newline_clamp
  \/ load_cursor \/ draw_cursor

-----------------------------------------------------------------------------
\* The handlers

\* A press with a character goes to the console and to the serial port.
keyboard_irq(k) ==
  /\ Len(echoed) + dropped < MaxKeys
  /\ k \in Chars
  /\ console_putc(k)
  /\ LET s == SerialWritten(Tagged("keyboard", CRLF(<<k>>))) IN uart' = s.uart /\ wire' = s.wire
  /\ echoed' = Append(echoed, k)
  /\ UNCHANGED <<pc, rest, col, row, dropped, beats>>

\* A release, or a key with no character: read and dropped.
keyboard_irq_drops ==
  /\ Len(echoed) + dropped < MaxKeys
  /\ Keys \ Chars # {}
  /\ dropped' = dropped + 1
  /\ UNCHANGED <<conVars, pc, rest, col, row, serialVars, echoed, beats>>

\* "[timer] tick ", the seconds, "s\n".
Heartbeat == CRLF(<<"tick", "seconds", "LF">>)

\* A second is full; other ticks only count.
timer_irq ==
  /\ beats < MaxBeats
  /\ beats' = beats + 1
  /\ LET s == SerialWritten(Tagged("timer", Heartbeat)) IN uart' = s.uart /\ wire' = s.wire
  /\ UNCHANGED <<conVars, pc, rest, col, row, dropped, echoed>>

\* hlt sleeps until the next interrupt.
Idle == pc = "hlt" /\ UNCHANGED vars

IrqNext ==
  \/ kprint
  \/ \E k \in Keys : keyboard_irq(k)
  \/ keyboard_irq_drops \/ timer_irq \/ uart_sends \/ Idle

\* kmain goes on when no handler runs, and the UART sends.
IrqSpec == IrqInit /\ [][IrqNext]_vars /\ WF_vars(kprint) /\ WF_vars(uart_sends)

-----------------------------------------------------------------------------
\* Properties

\* While kprint runs the cursor may stand one past the last column or row, and a
\* handler that finds it there draws off the grid.  But the damage does not stay:
\* once kprint is done the cursor is on the grid, whatever keys came in between
\* which of its stores, so every later echo is.
OnGridAtRest == pc = "hlt" => CursorOnGrid

\* The bytes of writer w among those of q.
Held(q, w) == FlattenSeq([i \in DOMAIN q |-> IF q[i][1] = w THEN <<q[i][2]>> ELSE << >>])

\* What writer w has written so far.
Due(w) ==
  LET line == CRLF(Message) IN
  CASE w = "kmain" -> IF pc \in {"poll", "out"} THEN SubSeq(line, 1, Len(line) - Len(rest)) ELSE line
    [] w = "keyboard" -> CRLF(echoed)
    [] w = "timer" -> FlattenSeq([i \in 1 .. beats |-> Heartbeat])

\* "Spin until the UART is ready to take the next byte, then send it": a handler may
\* write between kmain's look and its write, so the byte kmain writes may find the
\* transmitter taken.  Nothing is lost for it: of each writer all bytes it has written
\* leave the UART, in its order, with a CR before every LF.
SerialLossless ==
  \A w \in Writers : wire[w] \o Held(uart.fifo, w) = Due(w)

\* kprint comes to its end, and what it wrote is out, whatever the handlers do to the
\* UART it is waiting for.
KprintEnds == <>(pc = "hlt" /\ wire["kmain"] = CRLF(Message))

=============================================================================
