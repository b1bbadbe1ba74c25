-------------------------------- MODULE Trap --------------------------------
(***************************************************************************)
(* How the CPU gets from interrupted code to a C handler and back: the GDT *)
(* and the IDT gates (kernel/arch/x86_64/gdt.c, idt.c), the entry stubs    *)
(* and the two tails (isr_stubs.asm), the frame the handlers read (isr.h), *)
(* and what isr_handler shows of it (isr.c).                               *)
(*                                                                         *)
(* A machine m is the CPU's registers and the stack it runs on, as the     *)
(* sequence of its 8-byte words, the top last.  rsp is the number of words *)
(* and an address on the stack the number of words below it.  Words are    *)
(* pairs, so that values of all kinds can share a slot.  No code sets the  *)
(* direction flag, so cld changes nothing.                                 *)
(***************************************************************************)
EXTENDS Integers, Sequences

Word(n) == <<"word", n>>
Flags(interrupts) == <<"flags", interrupts>>
Name(n) == <<"name", n>>
Junk == <<"junk", "junk">>

\* isr_common's and irq_common's pushes.
PushOrder == <<"r15", "r14", "r13", "r12", "r11", "r10", "r9", "r8",
               "rbp", "rdi", "rsi", "rdx", "rcx", "rbx", "rax">>

\* Fault: rsi and rdi are popped in the order they were pushed.
PopOrder_swapped == <<"rax", "rbx", "rcx", "rdx", "rdi", "rsi", "rbp",
                      "r8", "r9", "r10", "r11", "r12", "r13", "r14", "r15">>

\* interrupt_return's pops.
PopOrder == <<"rax", "rbx", "rcx", "rdx", "rsi", "rdi", "rbp",
              "r8", "r9", "r10", "r11", "r12", "r13", "r14", "r15">>

\* struct interrupt_frame, from its lowest address.
FrameFields == <<"rax", "rbx", "rcx", "rdx", "rsi", "rdi", "rbp",
                 "r8", "r9", "r10", "r11", "r12", "r13", "r14", "r15",
                 "vector", "error_code", "rip", "cs", "rflags", "rsp", "ss">>

Registers == {PushOrder[i] : i \in DOMAIN PushOrder}

\* What a C function may change (the SysV ABI).
CallerSaved == {"rax", "rcx", "rdx", "rsi", "rdi", "r8", "r9", "r10", "r11"}

IndexOf(seq, x) == CHOOSE i \in DOMAIN seq : seq[i] = x

\* 16-byte alignment: CPU and stubs leave an unused word where it takes one.
Aligned(stack) == Len(stack) % 2 = 0
Align(stack) == IF Aligned(stack) THEN stack ELSE Append(stack, Junk)

-----------------------------------------------------------------------------
\* GDT and IDT

GDT_KERNEL_CODE_SELECTOR == 8
GDT_KERNEL_DATA_SELECTOR == 16

\* Only the two bytes that matter in 64-bit mode.
gdt_descriptor(access, flags) == [access |-> access, flags |-> flags % 16]

\* gdt_init's table: null, kernel code (0x9A, 0xA), kernel data (0x92, 0xA).
KernelGdt == <<gdt_descriptor(0, 0), gdt_descriptor(154, 10), gdt_descriptor(146, 10)>>

\* The bootloader's table (external): code and data of 16, 32 and 64 bits.
LimineGdt == <<gdt_descriptor(0, 0), gdt_descriptor(154, 0), gdt_descriptor(146, 0),
               gdt_descriptor(154, 12), gdt_descriptor(146, 12),
               gdt_descriptor(154, 2), gdt_descriptor(146, 0)>>
LIMINE_CODE_SELECTOR == 40
LIMINE_DATA_SELECTOR == 48

Bit(byte, n) == (byte \div 2 ^ n) % 2

\* The CPU's demand on a gate's selector (external): a present, executable 64-bit segment.
Is64BitCode(gdt, selector) ==
  /\ selector \div 8 + 1 \in DOMAIN gdt
  /\ LET d == gdt[selector \div 8 + 1]
     IN  Bit(d.access, 7) = 1 /\ Bit(d.access, 4) = 1 /\ Bit(d.access, 3) = 1 /\ Bit(d.flags, 1) = 1

\* gdt_load: the far return and the moves load the new selectors.
GdtLoaded(m) == [m EXCEPT !.cs = Word(GDT_KERNEL_CODE_SELECTOR),
                          !.ss = Word(GDT_KERNEL_DATA_SELECTOR)]

\* isr_stub_table and irq_stub_table: where each vector's stub lies.  FIELD stands
\* for 2^16, the range of a gate's first two offset fields.
FIELD == 4
TEXT == 21
StubOf(v) == TEXT + v
StubAt(addr) == addr - TEXT

\* The gate for the handler at addr: IST 0, an interrupt gate.
idt_set_gate(addr) ==
  [offset_low |-> addr % FIELD, offset_mid |-> (addr \div FIELD) % FIELD,
   offset_high |-> addr \div (FIELD * FIELD), selector |-> GDT_KERNEL_CODE_SELECTOR]

\* The CPU's reading of a gate (external).
Offset(gate) == gate.offset_low + FIELD * gate.offset_mid + FIELD * FIELD * gate.offset_high

-----------------------------------------------------------------------------
\* In

\* The vectors for which the CPU pushes an error code (external).
ErrorCodeVectors == {8, 10, 11, 12, 13, 14, 17, 21, 29, 30}
NoCode == -1

\* The CPU through v's gate (external): no stack switch, IF cleared.
Delivered(m, v, code) ==
  LET gate == idt_set_gate(StubOf(v)) IN
  [m EXCEPT
     !.stack = Align(@) \o <<m.ss, Word(Len(@)), m.rflags, m.cs, m.rip>>
                 \o (IF code = NoCode THEN << >> ELSE <<Word(code)>>),
     !.rflags = Flags(FALSE),
     !.cs = Word(gate.selector),
     !.rip = Word(Offset(gate))]

\* Fault: the control-protection vector is taken for one without error code.
ISR_ERR_short == {8, 10, 11, 12, 13, 14, 17, 29, 30}

\* The stubs that push no dummy error code.
ISR_ERR == {8, 10, 11, 12, 13, 14, 17, 21, 29, 30}

\* The stub the CPU has jumped to: a dummy unless the CPU pushed a code, the vector.
Stub(m) ==
  LET v == StubAt(m.rip[2]) IN
  [m EXCEPT !.stack = @ \o (IF v \in ISR_ERR THEN << >> ELSE <<Word(0)>>) \o <<Word(v)>>]

\* isr_common, irq_common: all registers saved, &frame in rbp and rdi.
Saved(m) ==
  LET frame == m.stack \o [i \in DOMAIN PushOrder |-> m.regs[PushOrder[i]]] IN
  [m EXCEPT !.stack = Align(frame),
            !.regs["rbp"] = Word(Len(frame)), !.regs["rdi"] = Word(Len(frame))]

Entered(m, v, code) == Saved(Stub(Delivered(m, v, code)))

\* Which of the two tails the stub jumps to.
CommonTail(m, v, code) ==
  IF StubAt(Delivered(m, v, code).rip[2]) < 32 THEN "isr_common" ELSE "irq_common"

\* *f, as the C handler reads it.
Frame(m) ==
  [f \in {FrameFields[i] : i \in DOMAIN FrameFields} |->
     m.stack[m.regs["rbp"][2] - IndexOf(FrameFields, f) + 1]]

\* The error code of a page fault (external): a bit for each fact about the access.
FaultBits == <<"protection", "write", "user", "reserved", "fetch">>
PageFaultCode(facts) ==
  LET sum[n \in 0 .. Len(FaultBits)] ==
        IF n = 0 THEN 0
        ELSE sum[n - 1] + IF FaultBits[n] \in facts THEN 2 ^ (n - 1) ELSE 0
  IN  sum[Len(FaultBits)]

\* isr_handler's dump: the frame, and for a page fault what the code's bits mean.
dump(f) ==
  [frame |-> f,
   cause |-> IF f.vector = Word(14)
             THEN LET ec == f.error_code[2] IN
                  {IF Bit(ec, 0) = 1 THEN "protection" ELSE "not present",
                   IF Bit(ec, 1) = 1 THEN "write" ELSE "read",
                   IF Bit(ec, 2) = 1 THEN "user" ELSE "supervisor"}
                    \cup (IF Bit(ec, 3) = 1 THEN {"reserved"} ELSE {})
                    \cup (IF Bit(ec, 4) = 1 THEN {"fetch"} ELSE {})
             ELSE {}]

-----------------------------------------------------------------------------
\* Out

\* A C function has run.
Called(m) == [m EXCEPT !.regs = [r \in Registers |-> IF r \in CallerSaved THEN Junk ELSE m.regs[r]]]

\* add rsp, 16: the vector's and the error code's slots.
Slots == 2

\* rsp from rbp, the registers, the two slots dropped, and iretq.
interrupt_return(m) ==
  LET d == m.regs["rbp"][2]
      iret == d - Len(PopOrder) - Slots      \* iretq's rsp: rip is on top there
      rsp == m.stack[iret - 3][2]
  IN  [regs |-> [r \in Registers |-> m.stack[d - IndexOf(PopOrder, r) + 1]],
       rip |-> m.stack[iret], cs |-> m.stack[iret - 1], rflags |-> m.stack[iret - 2],
       ss |-> m.stack[iret - 4],
       stack |-> SubSeq(m.stack, 1, rsp)]

=============================================================================
