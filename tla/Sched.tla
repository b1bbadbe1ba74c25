-------------------------------- MODULE Sched -------------------------------
(***************************************************************************)
(* The cooperative round-robin scheduler (kernel/core/sched/sched.c) and   *)
(* the context switch under it (kernel/arch/x86_64/context.asm).           *)
(*                                                                         *)
(* A stack is the sequence of its words, the top of the stack last; the    *)
(* saved rsp is the number of words on it.  The CPU is its callee-saved    *)
(* registers and pc, the function it executes.  Words are pairs, so that a *)
(* register's value and a return address can sit in the same slot.         *)
(* kmalloc is the heap of Slab: it returns a node or fails.                *)
(***************************************************************************)
EXTENDS Integers, Sequences, FiniteSets

CONSTANTS
  Nodes,    \* addresses kmalloc may return for a struct task
  NoTask    \* the NULL pointer

ASSUME NodesAssumption == NoTask \notin Nodes

VARIABLES
  phase,        \* "boot", "running", or "fault" after a store through NULL
  current,      \* the running task
  next,         \* node -> task->next
  state,        \* node -> task->state
  id, next_id,  \* node -> task->id, and the source of ids
  rsp,          \* node -> task->rsp
  stack,        \* node -> the words of the stack it runs on
  regs, pc,     \* the CPU
  heap,         \* live kmalloc allocations
  ctx,          \* history: node -> registers and pc as the task itself left them
  ran           \* history: tasks that have been switched in

schedVars == <<current, next, state, id, next_id, rsp>>
vars == <<phase, schedVars, stack, regs, pc, heap, ctx, ran>>

tasks == {t \in Nodes : <<"task", t>> \in heap}

\* context_switch's pushes, in order.
PushOrder == <<"rbp", "rbx", "r12", "r13", "r14", "r15">>
Registers == {PushOrder[i] : i \in DOMAIN PushOrder}

Zero == <<"zero", "zero">>
Code(f) == <<"code", f>>
ZeroRegs == [r \in Registers |-> Zero]
NoContext == [regs |-> ZeroRegs, pc |-> "none"]

-----------------------------------------------------------------------------

\* The kernel boots: kmain runs on the boot stack.
Init ==
  /\ phase = "boot" /\ current = NoTask /\ next_id = 0
  /\ next = [t \in Nodes |-> NoTask]
  /\ state = [t \in Nodes |-> "READY"]
  /\ id = [t \in Nodes |-> 0]
  /\ rsp = [t \in Nodes |-> 0]
  /\ stack = [t \in Nodes |-> << >>]
  /\ regs = ZeroRegs /\ pc = "kmain"
  /\ heap = {}
  /\ ctx = [t \in Nodes |-> NoContext]
  /\ ran = {}

\* sched_init: kmain becomes task 0, a ring of one.
sched_init(t) ==
  /\ phase = "boot"
  /\ phase' = "running"
  /\ heap' = heap \cup {<<"task", t>>}
  /\ rsp' = [rsp EXCEPT ![t] = 0]
  /\ id' = [id EXCEPT ![t] = next_id]
  /\ next_id' = next_id + 1
  /\ state' = [state EXCEPT ![t] = "RUNNING"]
  /\ next' = [next EXCEPT ![t] = t]
  /\ current' = t
  /\ ctx' = [ctx EXCEPT ![t] = [regs |-> regs, pc |-> pc]]
  /\ ran' = {t}
  /\ UNCHANGED <<stack, regs, pc>>

\* kmalloc's answer is not looked at: a NULL is stored through.  Nothing is mapped
\* there, so the store is a page fault, and isr_handler halts.
sched_init_null ==
  /\ phase = "boot"
  /\ phase' = "fault"
  /\ UNCHANGED <<schedVars, stack, regs, pc, heap, ctx, ran>>

-----------------------------------------------------------------------------
\* task_create

\* The forged stack, from the top down: the trampoline, entry, the registers'
\* slots.
ForgedStack == <<Code("task_trampoline"), Code("entry")>> \o [i \in DOMAIN PushOrder |-> Zero]

\* Fault: no walk, as if the ring had one member.
RingTail_unwalked == current

\* The walk to the tail: the node that links back to current.
RingTail == CHOOSE u \in tasks : next[u] = current

\* Only running C code calls it; the trampoline does nothing but yield.
InTaskCode == phase = "running" /\ pc # "task_trampoline"

\* Fault: the new task is linked in right behind current.
task_create_front(t) ==
  /\ InTaskCode
  /\ t \in Nodes \ tasks
  /\ heap' = heap \cup {<<"task", t>>, <<"stack", t>>}
  /\ stack' = [stack EXCEPT ![t] = ForgedStack]
  /\ rsp' = [rsp EXCEPT ![t] = Len(ForgedStack)]
  /\ id' = [id EXCEPT ![t] = next_id]
  /\ next_id' = next_id + 1
  /\ state' = [state EXCEPT ![t] = "READY"]
  /\ next' = [next EXCEPT ![current] = t, ![t] = next[current]]
  /\ ctx' = [ctx EXCEPT ![t] = [regs |-> ZeroRegs, pc |-> "entry"]]
  /\ UNCHANGED <<phase, current, regs, pc, ran>>

task_create(t) ==
  /\ InTaskCode
  /\ t \in Nodes \ tasks
  /\ heap' = heap \cup {<<"task", t>>, <<"stack", t>>}
  /\ stack' = [stack EXCEPT ![t] = ForgedStack]
  /\ rsp' = [rsp EXCEPT ![t] = Len(ForgedStack)]
  /\ id' = [id EXCEPT ![t] = next_id]
  /\ next_id' = next_id + 1
  /\ state' = [state EXCEPT ![t] = "READY"]
  /\ next' = [next EXCEPT ![RingTail] = t, ![t] = current]
  /\ ctx' = [ctx EXCEPT ![t] = [regs |-> ZeroRegs, pc |-> "entry"]]
  /\ UNCHANGED <<phase, current, regs, pc, ran>>

\* Fault: the error path forgets the first allocation.
FreeTask_forgotten(h, t) == h

\* kfree(t)
FreeTask(h, t) == h \ {<<"task", t>>}

\* The struct was allocated, its stack was not: NULL.
task_create_no_stack(t) ==
  /\ InTaskCode
  /\ t \in Nodes \ tasks
  /\ heap' = FreeTask(heap \cup {<<"task", t>>}, t)
  /\ UNCHANGED <<phase, schedVars, stack, regs, pc, ctx, ran>>

\* Not even the struct was allocated: NULL.
task_create_no_task == InTaskCode /\ UNCHANGED vars

-----------------------------------------------------------------------------
\* sched_yield and context_switch

Pushed == [i \in DOMAIN PushOrder |-> regs[PushOrder[i]]]

\* Fault: popped in the order of the pushes.
Popped_forward(w) ==
  [r \in Registers |->
     LET i == CHOOSE k \in DOMAIN PushOrder : PushOrder[k] = r
     IN  w[Len(w) - i + 1]]

\* The registers popped from words w: the mirror of the pushes, from the top.
Popped(w) == [r \in Registers |->
                LET i == CHOOSE k \in DOMAIN PushOrder : PushOrder[k] = r
                IN  w[Len(w) - Len(PushOrder) + i]]

\* The words the incoming rsp has on its stack, and what is left after the pops
\* and the ret.
Resumed(t) == SubSeq(stack[t], 1, rsp[t])
AfterRet(w) == SubSeq(w, 1, Len(w) - Len(PushOrder) - 1)

\* The return address of the calls that led here keeps pc; the registers go on
\* top; rsp is saved; then everything runs on the incoming stack.
sched_yield ==
  /\ phase = "running"
  /\ next[current] # current
  /\ LET prev == current
         nxt  == next[prev]
         out  == stack[prev] \o <<Code(pc)>> \o Pushed
         in   == Resumed(nxt)
     IN  /\ state' = [state EXCEPT ![prev] = "READY", ![nxt] = "RUNNING"]
         /\ current' = nxt
         /\ rsp' = [rsp EXCEPT ![prev] = Len(out)]
         /\ stack' = [stack EXCEPT ![prev] = out, ![nxt] = AfterRet(in)]
         /\ regs' = Popped(in)
         /\ pc' = in[Len(in) - Len(PushOrder)][2]
         /\ ran' = ran \cup {nxt}
  /\ UNCHANGED <<phase, next, id, next_id, heap, ctx>>

\* The only task: nothing to switch to.
sched_yield_alone ==
  /\ phase = "running"
  /\ next[current] = current
  /\ UNCHANGED vars

-----------------------------------------------------------------------------
\* The running task's own code

\* It computes: the registers hold values of its own.
Work ==
  /\ InTaskCode
  /\ regs' = [r \in Registers |-> <<current, r>>]
  /\ ctx' = [ctx EXCEPT ![current].regs = regs']
  /\ UNCHANGED <<phase, schedVars, stack, pc, heap, ran>>

\* entry() returns: ret pops the word on top of the stack into pc.
entry_returns ==
  /\ phase = "running" /\ pc = "entry"
  /\ LET w == stack[current] IN
     /\ pc' = w[Len(w)][2]
     /\ stack' = [stack EXCEPT ![current] = SubSeq(w, 1, Len(w) - 1)]
  /\ ctx' = [ctx EXCEPT ![current].pc = "task_trampoline"]
  /\ UNCHANGED <<phase, schedVars, regs, heap, ran>>

Faulted == phase = "fault" /\ UNCHANGED vars

Next ==
  \/ \E t \in Nodes : sched_init(t) \/ task_create(t) \/ task_create_no_stack(t)
  \/ sched_init_null \/ Faulted \/ task_create_no_task
  \/ sched_yield \/ sched_yield_alone
  \/ Work \/ entry_returns

\* The tasks are cooperative: whoever runs calls sched_yield eventually.
Spec == Init /\ [][Next]_vars /\ WF_vars(sched_yield)

-----------------------------------------------------------------------------
\* Properties

PcNames == {"kmain", "entry", "task_trampoline"}

\* What a word on a stack or in a register can be: zero, a task's own value of a
\* register, or the address of a function.
WordSet == (Nodes \cup {"zero", "code"}) \X (Registers \cup {"zero"} \cup PcNames)

\* The scheduler's variables, the tasks' fields and the heap.
FieldsOK ==
  /\ phase \in {"boot", "running", "fault"}
  /\ current \in Nodes \cup {NoTask}
  /\ next \in [Nodes -> Nodes \cup {NoTask}]
  /\ state \in [Nodes -> {"READY", "RUNNING"}]
  /\ id \in [Nodes -> Nat] /\ next_id \in Nat /\ rsp \in [Nodes -> Nat]
  /\ pc \in PcNames
  /\ heap \subseteq {"task", "stack"} \X Nodes
  /\ ran \subseteq Nodes

\* The words in the registers, on the stacks and in the contexts the history keeps.
WordsOK ==
  /\ regs \in [Registers -> WordSet]
  /\ stack \in [Nodes -> Seq(WordSet)]
  /\ ctx \in [Nodes -> [regs : [Registers -> WordSet], pc : PcNames \cup {"none"}]]
  /\ \A t \in tasks : ctx[t].pc \in PcNames

\* Every variable has its type, down to the words of the registers and the stacks.
SchedTypeOK == FieldsOK /\ WordsOK

\* The ring as sched_yield walks it.
Ring ==
  LET walk[i \in 1 .. Cardinality(tasks)] ==
        IF i = 1 THEN current
        ELSE IF walk[i - 1] \in Nodes THEN next[walk[i - 1]] ELSE NoTask
  IN  walk

\* "A circular singly-linked list of every task": from current, next visits every
\* task exactly once and comes back; exactly current is RUNNING.
RingComplete ==
  phase = "running" =>
    LET n == Cardinality(tasks) IN
    /\ {Ring[i] : i \in 1 .. n} = tasks
    /\ next[Ring[n]] = current
    /\ \A t \in tasks : state[t] = "RUNNING" <=> t = current

\* "A saved task is restored byte-for-byte": whatever the others did meanwhile,
\* the CPU holds the registers and executes the function the running task left or
\* began with, and its stack is as deep as it was: nothing in kmain, entry()'s
\* return address in a task, nothing once that has been popped.
ContextIntact ==
  phase = "running" =>
    /\ regs = ctx[current].regs
    /\ pc = ctx[current].pc
    /\ stack[current] = IF pc = "entry" THEN <<Code("task_trampoline")>> ELSE << >>

\* No allocation is lost on task_create's error paths: each task has its struct,
\* each but kmain its stack, and every struct is on the ring.
NoLeak ==
  /\ phase = "running" => Cardinality(tasks) = next_id
  /\ {t \in Nodes : <<"stack", t>> \in heap} = {t \in tasks : id[t] # 0}

\* Every task runs again and again, for the scheduler is first-in first-out
\* (RunQueue) and whoever runs yields.
EveryTaskRuns == \A t \in Nodes : t \in tasks ~> current = t

Queue == INSTANCE RunQueue WITH queue <- IF phase = "running" THEN Ring ELSE << >>
RefinesRunQueue == Queue!QueueSpec

=============================================================================
