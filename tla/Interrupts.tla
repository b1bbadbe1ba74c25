----------------------------- MODULE Interrupts -----------------------------
(***************************************************************************)
(* Interrupts and exceptions: kmain's bring-up (Boot) with what its steps  *)
(* do to the CPU's tables and the PICs, the way into a handler and back    *)
(* (Trap), the handler table and irq_dispatch (irq.c), the pair of 8259    *)
(* PICs as pic.c drives them, the timer and keyboard handlers, and the     *)
(* exception dump (isr.c).  The devices, the PICs' answer to the CPU and   *)
(* the CPU's own interrupt sequence are external.                          *)
(***************************************************************************)
EXTENDS Boot, Trap, FiniteSets, SequencesExt

CONSTANTS
  TickRange,   \* the range of ticks (2^64 in the code)
  scancode_ascii, \* press code -> character, NUL for a key without one
  Scancodes,   \* the scancodes typed: releases are press codes with bit 7 set
  MaxKeys,     \* bound: scancodes typed
  Exceptions,  \* the exceptions that may hit: vectors below 32
  FaultKeys    \* bound: scancodes typed before an exception hits

ASSUME InterruptsAssumption ==
  /\ TickRange \in Nat \ {0}
  /\ DOMAIN scancode_ascii = 0 .. 127 /\ Scancodes \subseteq 0 .. 255 /\ MaxKeys \in Nat
  /\ Exceptions \subseteq 0 .. 31 /\ FaultKeys \in Nat

VARIABLES
  gdt,         \* the table the GDT register points to
  gates,       \* vectors with a present IDT gate
  lapic,       \* the local APIC is enabled and swallows the PIC's signal
  base,        \* the vector of IRQ0
  imr,         \* masked lines
  irr,         \* lines with an interrupt request latched
  isr,         \* lines in service
  handlers,    \* line -> handler
  cpu,         \* what the CPU executes
  machine,     \* its registers and stack
  interrupted, \* history: what was interrupted and why, the last one last
  report,      \* the exceptions isr_handler has dumped
  ticks,       \* the timer's count
  obf, kbuf,   \* the keyboard controller: a byte is ready; bytes not yet read
  typed,       \* history: all scancodes typed
  echoed       \* history: the characters echoed

tableVars == <<gdt, gates, lapic, handlers>>
picVars == <<base, imr, irr, isr>>
cpuVars == <<cpu, machine, interrupted, report>>
keyVars == <<obf, kbuf, typed, echoed>>
vars == <<bootVars, tableVars, picVars, cpuVars, ticks, keyVars>>

IRQ_COUNT == 16
Lines == 0 .. IRQ_COUNT - 1
IRQ_VECTOR_BASE == 32
NoHandler == "none"

\* The table's entry of a key that prints nothing.
NUL == "NUL"

\* kmain's machine: symbolic register contents, d words on the stack.
KmainMachine(d) ==
  [regs |-> [r \in Registers |-> Name(r)],
   stack |-> [i \in 1 .. d |-> Name("local")],
   rip |-> Name("kmain"), rflags |-> Flags(FALSE),
   cs |-> Word(LIMINE_CODE_SELECTOR), ss |-> Word(LIMINE_DATA_SELECTOR)]

\* The bootloader hands over with IF clear, the PICs where the firmware put them
\* and the local APIC enabled; any line may be unmasked.
Init ==
  /\ BootInit
  /\ gdt = LimineGdt /\ gates = {} /\ lapic = TRUE
  /\ base = 8 /\ imr \in {Lines, Lines \ {0, 1}} /\ irr = {} /\ isr = {}
  /\ handlers = [i \in Lines |-> NoHandler]
  /\ cpu = "kmain" /\ machine \in {KmainMachine(d) : d \in {0, 1}}
  /\ interrupted = << >> /\ report = << >>
  /\ ticks = 0
  /\ obf = FALSE /\ kbuf = << >> /\ typed = << >> /\ echoed = << >>

-----------------------------------------------------------------------------
\* kmain

InKmain == cpu = "kmain" /\ UNCHANGED <<cpu, interrupted, report, ticks, keyVars>>

gdt_init ==
  /\ InKmain /\ Doing("gdt_init")
  /\ gdt' = KernelGdt
  /\ machine' = GdtLoaded(machine)
  /\ UNCHANGED <<gates, lapic, handlers, picVars>>

idt_init ==
  /\ InKmain /\ Doing("idt_init")
  /\ gates' = {}
  /\ UNCHANGED <<gdt, lapic, handlers, picVars, machine>>

isr_init ==
  /\ InKmain /\ Doing("isr_init")
  /\ gates' = gates \cup 0 .. 31
  /\ UNCHANGED <<gdt, lapic, handlers, picVars, machine>>

lapic_disable ==
  /\ InKmain /\ Doing("lapic_disable")
  /\ lapic' = FALSE
  /\ UNCHANGED <<gdt, gates, handlers, picVars, machine>>

\* ICW1 forgets requests and in-service bits; a line that is already high makes no
\* new request.  ICW2 moves the vectors; then everything is masked.
pic_remap ==
  /\ InKmain /\ Doing("pic_remap")
  /\ base' = IRQ_VECTOR_BASE
  /\ irr' = {} /\ isr' = {}
  /\ imr' = Lines
  /\ UNCHANGED <<tableVars, machine>>

irq_init ==
  /\ InKmain /\ Doing("irq_init")
  /\ gates' = gates \cup IRQ_VECTOR_BASE .. IRQ_VECTOR_BASE + IRQ_COUNT - 1
  /\ UNCHANGED <<gdt, lapic, handlers, picVars, machine>>

irq_install_handler(i, h) ==
  handlers' = IF i \in Lines THEN [handlers EXCEPT ![i] = h] ELSE handlers

timer_init ==
  /\ InKmain /\ Doing("timer_init")
  /\ irq_install_handler(0, "timer_irq")
  /\ UNCHANGED <<gdt, gates, lapic, picVars, machine>>

keyboard_init ==
  /\ InKmain /\ Doing("keyboard_init")
  /\ irq_install_handler(1, "keyboard_irq")
  /\ UNCHANGED <<gdt, gates, lapic, picVars, machine>>

\* The steps without interrupt state.
quiet_init ==
  /\ InKmain
  /\ \E f \in {"serial_init", "console_init", "pmm_init", "vmm_init", "buddy_init", "slab_init"} :
       Doing(f)
  /\ UNCHANGED <<tableVars, picVars, machine>>

\* A check, and hcf's cli when it fails.
check_response ==
  /\ InKmain
  /\ \E c \in DOMAIN Checks : check(c)
  /\ machine' = IF halted' THEN [machine EXCEPT !.rflags = Flags(FALSE)] ELSE machine
  /\ UNCHANGED <<tableVars, picVars>>

give_up ==
  /\ InKmain /\ memory_fails
  /\ UNCHANGED <<tableVars, picVars, machine>>

\* Fault: the mask register is written, not modified: the other lines are masked.
pic_unmask_irq_alone(irq) == imr' = Lines \ {irq}

\* A read-modify-write of one chip's mask register.
pic_unmask_irq(irq) == imr' = imr \ {irq}

\* arch_enable_irqs
unmask_timer ==
  /\ InKmain /\ Doing("unmask_timer")
  /\ pic_unmask_irq(0)
  /\ UNCHANGED <<tableVars, base, irr, isr, machine>>

unmask_keyboard ==
  /\ InKmain /\ Doing("unmask_keyboard")
  /\ pic_unmask_irq(1)
  /\ UNCHANGED <<tableVars, base, irr, isr, machine>>

sti ==
  /\ InKmain /\ Doing("sti")
  /\ machine' = [machine EXCEPT !.rflags = Flags(TRUE)]
  /\ UNCHANGED <<tableVars, picVars>>

kmain ==
  \/ quiet_init \/ check_response
  \/ gdt_init \/ idt_init \/ isr_init \/ lapic_disable \/ pic_remap \/ irq_init
  \/ timer_init \/ keyboard_init
  \/ unmask_timer \/ unmask_keyboard \/ sti

-----------------------------------------------------------------------------
\* The devices (external).  Nobody looks at them once the CPU has stopped, and from
\* isr_handler there is no way back to code that would.

Stopped == halted \/ cpu \in {"isr_handler", "reset"}
Device == ~Stopped /\ UNCHANGED <<bootVars, tableVars, base, imr, isr, cpuVars, ticks, echoed>>

\* The PIT's output rises; a request that is already latched swallows the edge.
pit_edge ==
  /\ Device
  /\ irr' = irr \cup {0}
  /\ UNCHANGED <<obf, kbuf, typed>>

key_typed(k) ==
  /\ Device
  /\ Len(typed) < MaxKeys
  /\ typed' = Append(typed, k) /\ kbuf' = Append(kbuf, k)
  /\ UNCHANGED <<irr, obf>>

\* The controller presents the next byte and raises IRQ1; not before the last one
\* was read.
key_ready ==
  /\ Device
  /\ ~obf /\ kbuf # << >>
  /\ obf' = TRUE
  /\ irr' = irr \cup {1}
  /\ UNCHANGED <<kbuf, typed>>

-----------------------------------------------------------------------------
\* The CPU takes an interrupt or an exception (external)

\* Master lines have priority 0 .. 7 downwards; lines of the slave come in on line 2.
Pending == {i \in irr \ imr : i < 8 /\ \A j \in isr : i < j}

CanInterrupt == machine.rflags = Flags(TRUE) /\ ~lapic /\ cpu = "kmain"

\* Through the gate to the stub and its tail.  Without a gate, or with one whose
\* selector is no code segment, the CPU faults again and again, and resets.
Enter(kind, v, code) ==
  /\ interrupted' =
       Append(interrupted, [kind |-> kind, machine |-> machine, vector |-> v, code |-> code])
  /\ IF v \in gates /\ Is64BitCode(gdt, idt_set_gate(StubOf(v)).selector)
     THEN /\ machine' = Entered(machine, v, code)
          /\ cpu' = IF CommonTail(machine, v, code) = "isr_common" THEN "isr_handler" ELSE "irq_dispatch"
     ELSE cpu' = "reset" /\ UNCHANGED machine
  /\ UNCHANGED <<bootVars, tableVars, base, imr, report, ticks, keyVars>>

interrupt(i) ==
  /\ CanInterrupt
  /\ i \in Pending /\ \A j \in Pending : i <= j
  /\ irr' = irr \ {i} /\ isr' = isr \cup {i}
  /\ Enter("interrupt", base + i, NoCode)

\* The line dropped before the CPU asked: the PIC answers with line 7 and sets no
\* in-service bit.
spurious(i) ==
  /\ CanInterrupt
  /\ i \in Pending \ {1}
  /\ irr' = irr \ {i} /\ isr' = isr
  /\ Enter("interrupt", base + 7, NoCode)

\* The code in hand faults: kmain's, or a handler's.
exception(v, code) ==
  /\ ~halted /\ cpu \in {"kmain", "irq_dispatch", "pic_send_eoi"}
  /\ Len(typed) <= FaultKeys
  /\ UNCHANGED <<irr, isr>>
  /\ Enter("exception", v, code)

\* What the kernel's own accesses can do wrong, and the codes the CPU pushes.
Accesses == {{}, {"write"}, {"protection", "write"}, {"protection", "reserved"}, {"fetch"}}
Codes(v) ==
  IF v = 14 THEN {PageFaultCode(a) : a \in Accesses}
  ELSE IF v \in ErrorCodeVectors THEN {1} ELSE {NoCode}

-----------------------------------------------------------------------------
\* isr_handler

isr_handler ==
  /\ cpu = "isr_handler" /\ ~halted
  /\ report' = Append(report, dump(Frame(machine)))
  /\ halted' = TRUE
  /\ machine' = Called(machine)
  /\ UNCHANGED <<responses, booted, tableVars, picVars, cpu, interrupted, ticks, keyVars>>

-----------------------------------------------------------------------------
\* irq_dispatch

\* (uint8_t)(f->vector - IRQ_VECTOR_BASE)
served == (Frame(machine).vector[2] - IRQ_VECTOR_BASE) % 256
Handler == IF served \in Lines THEN handlers[served] ELSE NoHandler

\* Counts; the line it prints once a second is left out.
timer_irq ==
  /\ ticks' = (ticks + 1) % TickRange
  /\ UNCHANGED keyVars

\* Fault: the byte is left in the controller.
keyboard_irq_unread == UNCHANGED <<keyVars, ticks>>

\* Fault: bit 7 is masked off, so releases are looked up too.
keyboard_irq_breaks ==
  /\ obf' = FALSE
  /\ kbuf' = Tail(kbuf)
  /\ LET c == scancode_ascii[Head(kbuf) % 128] IN
     echoed' = IF c = NUL THEN echoed ELSE Append(echoed, c)
  /\ UNCHANGED <<typed, ticks>>

\* The byte is read, whatever it is; a press with a character is echoed.
keyboard_irq ==
  /\ obf' = FALSE
  /\ kbuf' = Tail(kbuf)
  /\ LET scancode == Head(kbuf) IN
     echoed' = IF scancode >= 128 \/ scancode_ascii[scancode] = NUL THEN echoed
               ELSE Append(echoed, scancode_ascii[scancode])
  /\ UNCHANGED <<typed, ticks>>

run_handler ==
  /\ cpu = "irq_dispatch"
  /\ cpu' = "pic_send_eoi"
  /\ \/ Handler = "timer_irq" /\ timer_irq
     \/ Handler = "keyboard_irq" /\ keyboard_irq
     \/ Handler = NoHandler /\ UNCHANGED <<ticks, keyVars>>
  /\ machine' = Called(machine)
  /\ UNCHANGED <<bootVars, tableVars, picVars, interrupted, report>>

\* Fault: the EOI goes to the slave.
EoiTo_slave == {8 .. 15}

\* The chips that get an EOI, as their lines: the slave for its own, the master always.
EoiTo == IF served >= 8 THEN {0 .. 7, 8 .. 15} ELSE {0 .. 7}

\* A non-specific EOI ends the chip's line of highest priority in service.
pic_send_eoi ==
  /\ cpu = "pic_send_eoi"
  /\ cpu' = "iretq"
  /\ isr' = isr \ {i \in isr : \E chip \in EoiTo : i \in chip /\ \A j \in isr \cap chip : i <= j}
  /\ UNCHANGED <<bootVars, tableVars, base, imr, irr, machine, interrupted, report, ticks, keyVars>>

\* irq_common's return: IF comes back with the flags.
iretq ==
  /\ cpu = "iretq"
  /\ cpu' = "kmain"
  /\ machine' = interrupt_return(machine)
  /\ interrupted' = Front(interrupted)
  /\ UNCHANGED <<bootVars, tableVars, picVars, report, ticks, keyVars>>

\* for (;;) hlt with IF clear, or a CPU that has reset.
parked == (halted \/ cpu = "reset") /\ UNCHANGED vars

Next ==
  \/ kmain \/ give_up \/ parked
  \/ pit_edge \/ key_ready \/ \E k \in Scancodes : key_typed(k)
  \/ \E i \in Lines : interrupt(i) \/ spurious(i)
  \/ \E v \in Exceptions : \E code \in Codes(v) : exception(v, code)
  \/ isr_handler \/ run_handler \/ pic_send_eoi \/ iretq

\* Ticks are 10 ms apart and the handlers take far less: unless the timer's request is
\* stuck, again and again kmain can be interrupted with no tick waiting.
TicksApart == <>Stopped \/ <>[](0 \in irr) \/ []<>(CanInterrupt /\ 0 \notin irr)

\* Sequential code and the handlers go on; the devices and the CPU do their part.
\* The timer's line comes before the keyboard's, and may drop before the CPU asks,
\* but neither for ever.
Fairness ==
  /\ WF_vars(kmain) /\ WF_vars(pit_edge) /\ WF_vars(key_ready)
  /\ SF_vars(interrupt(0)) /\ SF_vars(interrupt(1))
  /\ WF_vars(run_handler) /\ WF_vars(pic_send_eoi) /\ WF_vars(iretq) /\ WF_vars(isr_handler)
  /\ TicksApart

Spec == Init /\ [][Next]_vars /\ Fairness

-----------------------------------------------------------------------------
\* Properties

\* "Install the device handlers BEFORE anything can fire": an interrupt finds a
\* present gate and a usable selector, lands in the stub of its own vector, and one
\* that a device raised finds the device's handler.
LandsSomewhereReal ==
  /\ cpu = "irq_dispatch" =>
       IF isr = {} THEN served = 7 ELSE isr = {served} /\ Handler # NoHandler
  /\ cpu \in {"isr_handler", "reset"} => Last(interrupted).kind = "exception"

\* "Send the EOI unconditionally": the EOI ends the line that was served and no other,
\* spurious interrupts included, so that nothing is in service while kmain runs and
\* no line is blocked.
NothingStaysInService ==
  /\ cpu \in {"irq_dispatch", "pic_send_eoi"} => isr \subseteq {served}
  /\ cpu \in {"kmain", "iretq"} => isr = {}

\* "rsp now points at the fully-built interrupt_frame", "error code already beneath it":
\* whatever was running, kmain or a handler, on an aligned stack or not, the dump of an
\* exception shows its registers, its flags, its rip and rsp, the vector and the error
\* code of the exception itself, and what the code of a page fault means.  Once isr_init
\* has run, no exception is a silent reset, and C is always called on an aligned stack.
FaultReportTrue ==
  /\ cpu = "reset" => "isr_init" \notin Done
  /\ cpu \in {"isr_handler", "irq_dispatch"} => Aligned(machine.stack)
  /\ report # << >> =>
       LET t == Last(interrupted)
           m == t.machine
           frame == Last(report).frame
       IN  /\ \A r \in Registers : frame[r] = m.regs[r]
           /\ <<frame.rip, frame.cs, frame.rflags, frame.ss>> = <<m.rip, m.cs, m.rflags, m.ss>>
           /\ frame.rsp = Word(Len(m.stack))
           /\ frame.vector = Word(t.vector)
           /\ frame.error_code = Word(IF t.code = NoCode THEN 0 ELSE t.code)
           /\ \A a \in Accesses : t.vector = 14 /\ t.code = PageFaultCode(a) =>
                Last(report).cause =
                  (a \ {"protection", "write"})
                    \cup {IF "protection" \in a THEN "protection" ELSE "not present",
                          IF "write" \in a THEN "write" ELSE "read", "supervisor"}

\* "restores the saved registers and returns via iretq": after any interrupt, whichever
\* handler ran and however it used the registers, kmain goes on with the registers, the
\* stack, the flags and the rip it was interrupted with.
ResumesIntact ==
  [][cpu = "iretq" /\ cpu' = "kmain" => machine' = Last(interrupted).machine]_vars

\* The characters of the presses among the scancodes s.
Presses(s) ==
  FlattenSeq([i \in DOMAIN s |-> IF s[i] < 128 /\ scancode_ascii[s[i]] # NUL
                                 THEN <<scancode_ascii[s[i]]>> ELSE << >>])

\* "acts on presses only": the characters of the presses are echoed, each once and in
\* the order of the presses, however timer, keyboard and spurious interrupts follow
\* each other; what is not echoed yet is still in the controller.
EchoExact == echoed \o Presses(kbuf) = Presses(typed)

KeysDone == kbuf = << >> \/ Stopped

\* "we MUST read it (even to discard it) or the controller won't deliver the next":
\* whatever is typed is read from the controller, unless the CPU has stopped.
EveryKeyRead == [](kbuf # << >> => <>KeysDone)

\* The same of every byte that the controller presents once pic_remap has run: none is
\* presented yet, and all that are waiting, or are typed until then, are read.
KeysRead == [](base = IRQ_VECTOR_BASE /\ ~obf /\ kbuf # << >> => <>KeysDone)

\* Time does not stop: the count moves on for ever, unless the CPU has stopped.
TimeAdvances == \A n \in 0 .. TickRange - 1 : []<>(ticks # n \/ Stopped)

=============================================================================
