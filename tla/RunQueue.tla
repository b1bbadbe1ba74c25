------------------------------ MODULE RunQueue ------------------------------
(***************************************************************************)
(* What the scheduler promises (kernel/core/sched/sched.h): a first-in     *)
(* first-out queue of tasks.  The head runs; giving up the CPU sends it to *)
(* the tail; a new task joins at the tail.  Running tasks do give up the   *)
(* CPU, so every task runs again and again.                                *)
(***************************************************************************)
EXTENDS Naturals, Sequences

CONSTANT Nodes

VARIABLE queue

QueueInit == queue = << >>

Join(t) ==
  /\ \A i \in DOMAIN queue : queue[i] # t
  /\ queue' = Append(queue, t)

Rotate == Len(queue) > 1 /\ queue' = Append(Tail(queue), Head(queue))

QueueNext == Rotate \/ \E t \in Nodes : Join(t)

QueueSafety == QueueInit /\ [][QueueNext]_queue
QueueSpec == QueueSafety /\ WF_queue(Rotate)

=============================================================================
