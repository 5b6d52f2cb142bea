------------------------------ MODULE Scheduling ------------------------------
(***************************************************************************)
(* What must hold of the scheduler and the semaphores: the invariants of   *)
(* their queues, and the abstract scheduler they implement.                *)
(***************************************************************************)
EXTENDS Kernel, SequencesExt

\* The list from first to last, linked by next, holds each of members once.
Holds(first, last, members) ==
  LET list == Chain(k.next, first) IN
  /\ ~ IsCyclic(list)
  /\ ToSet(list) = members
  /\ list # << >> => list[Len(list)] = last

(***************************************************************************)
(* No ready process is ever lost from, or twice in, the queue that next()  *)
(* takes it from: each queue holds exactly the ready processes of its      *)
(* priority (ready and next in c/pcb.c).                                   *)
(***************************************************************************)
ReadyQueues ==
  \A i \in Priorities :
    Holds(k.head[i], k.tail[i],
          {p \in Slots \ {Idle} : k.state[p] = "READY" /\ k.priority[p] = i})

(***************************************************************************)
(* The lists of a semaphore hold exactly the processes blocked on it at    *)
(* each priority, and nobody is blocked while units are left (P_kern and   *)
(* V_kern in c/sem.c; removeFromBlockQueue relies on semNo being right).   *)
(***************************************************************************)
SemaphoreQueues ==
  \A s \in Semaphores :
    /\ \A i \in Priorities :
         Holds(k.sem[s].head[i], k.sem[s].tail[i],
               {p \in Slots : /\ k.state[p] = "BLOCKED"
                              /\ k.semNo[p] = s
                              /\ k.priority[p] = i})
    /\ k.sem[s].value > 0 => \A i \in Priorities : k.sem[s].head[i] = NULL

\* The queues of the kernel, read off its pointers.
QueueOf(heads) == [i \in Priorities |-> Chain(k.next, heads[i])]

Abstract == INSTANCE PriorityScheduler WITH
  Processes   <- Slots,
  IdleProcess <- Idle,
  running     <- k.pcb,
  readyq      <- QueueOf(k.head),
  semq        <- [s \in Semaphores |-> QueueOf(k.sem[s].head)],
  value       <- [s \in Semaphores |-> k.sem[s].value],
  priority    <- k.priority,
  suspended   <- {p \in Slots : k.state[p] \in {"SLEEP", "WAITING"}}

(***************************************************************************)
(* The linked lists of c/pcb.c and c/sem.c implement the abstract queues:  *)
(* every call has the effect, and picks the process, that the abstract     *)
(* scheduler says.                                                         *)
(***************************************************************************)
ImplementsQueues == Abstract!Spec

(***************************************************************************)
(* Under the timer alone, a process that is ready at the top priority gets *)
(* the processor: the round robin of ready and next cannot pass it over.   *)
(***************************************************************************)
TopPriorityRuns ==
  \A p \in Slots \ {Idle} :
    (k.state[p] = "READY" /\ k.priority[p] = TopPriority) ~> k.state[p] = "RUNNING"

(***************************************************************************)
(* A semaphore that keeps being signalled does not pass over a process     *)
(* blocked at the top priority (FIFO order in blockProcess and             *)
(* unblockProcess).                                                        *)
(***************************************************************************)
NoPassing ==
  \A s \in Semaphores, p \in Slots :
    []<><<V(s)>>_k =>
      ((k.state[p] = "BLOCKED" /\ k.semNo[p] = s /\ k.priority[p] = TopPriority)
         ~> k.state[p] # "BLOCKED")
=============================================================================
