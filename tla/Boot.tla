-------------------------------- MODULE Boot --------------------------------
(***************************************************************************)
(* kmain's bring-up (kernel/kernel.c) with arch_init and arch_enable_irqs  *)
(* (kernel/arch/x86_64/arch.c) in line: what is called in which order, the *)
(* answers of the bootloader it depends on, and where it gives up.  What   *)
(* the steps do is in the modules of their components; the texts and       *)
(* statistics printed in between are left out.                             *)
(***************************************************************************)
EXTENDS Integers, Sequences

VARIABLES
  responses,  \* the bootloader's responses that kmain has found to be there
  booted,     \* the steps of BootOrder done so far
  halted      \* the CPU is parked for good

bootVars == <<responses, booted, halted>>

\* Fault: interrupts go live before the drivers are in.
BootOrder_early ==
  <<"serial_init", "check_revision", "check_framebuffer", "console_init",
    "gdt_init", "idt_init", "isr_init", "lapic_disable", "pic_remap", "irq_init",
    "unmask_timer", "unmask_keyboard", "sti", "timer_init", "keyboard_init",
    "check_memmap", "check_hhdm", "pmm_init", "check_kaddr", "vmm_init",
    "buddy_init", "slab_init">>

\* Fault: the kernel-address response is looked at when vmm_init has used it.
BootOrder_unchecked ==
  <<"serial_init", "check_revision", "check_framebuffer", "console_init",
    "gdt_init", "idt_init", "isr_init", "lapic_disable", "pic_remap", "irq_init",
    "timer_init", "keyboard_init",
    "check_memmap", "check_hhdm", "pmm_init", "vmm_init", "check_kaddr",
    "buddy_init", "slab_init", "unmask_timer", "unmask_keyboard", "sti">>

BootOrder ==
  <<"serial_init", "check_revision", "check_framebuffer", "console_init",
    "gdt_init", "idt_init", "isr_init", "lapic_disable", "pic_remap", "irq_init",
    "timer_init", "keyboard_init",
    "check_memmap", "check_hhdm", "pmm_init", "check_kaddr", "vmm_init",
    "buddy_init", "slab_init", "unmask_timer", "unmask_keyboard", "sti">>

\* The response each check looks at, one for each request of kernel.c.
Checks == [check_revision |-> "revision", check_framebuffer |-> "framebuffer",
           check_memmap |-> "memmap", check_hhdm |-> "hhdm", check_kaddr |-> "kaddr"]

Done == {BootOrder[i] : i \in 1 .. booted}

BootInit ==
  /\ responses = {}
  /\ booted = 0 /\ halted = FALSE

\* kmain is about to call f.
At(f) == ~halted /\ booted < Len(BootOrder) /\ BootOrder[booted + 1] = f

Doing(f) ==
  /\ At(f)
  /\ booted' = booted + 1
  /\ UNCHANGED <<responses, halted>>

Halting ==
  /\ halted' = TRUE
  /\ UNCHANGED <<responses, booted>>

\* The bootloader has answered, or has not: serial_write and hcf.
check(c) ==
  /\ At(c)
  /\ \/ /\ responses' = responses \cup {Checks[c]}
        /\ booted' = booted + 1 /\ UNCHANGED halted
     \/ Halting

\* pmm_init finds no region for its bitmap; vmm_panic.
memory_fails == (At("pmm_init") \/ At("vmm_init")) /\ Halting

-----------------------------------------------------------------------------

\* What a step reads of the bootloader's answers, and which steps it builds on.
Needs(f) ==
  CASE f = "console_init" -> {"revision", "framebuffer"}
    [] f = "pmm_init" -> {"revision", "memmap", "hhdm"}
    [] f = "vmm_init" -> {"revision", "memmap", "hhdm", "kaddr", "pmm_init"}
    [] f = "buddy_init" -> {"revision", "memmap", "hhdm", "pmm_init"}
    [] f = "slab_init" -> {"revision", "hhdm", "buddy_init"}
    [] f = "sti" -> {"lapic_disable", "pic_remap", "irq_init", "timer_init", "keyboard_init"}
    [] OTHER -> {}

\* "Bail (loudly, over serial) if the bootloader couldn't honour our protocol revision",
\* "if the bootloader withheld either response we depend on": whichever responses are
\* missing, no step has followed one that was not found to be there or run before what
\* it builds on, and a kernel that has given up had its serial port to say so.
BootNeedsMet ==
  /\ \A f \in Done : Needs(f) \subseteq responses \cup Done
  /\ halted => "serial_init" \in Done

=============================================================================
