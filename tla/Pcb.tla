-------------------------------- MODULE Pcb --------------------------------
(***************************************************************************)
(* The process table and the ready queue: c/pcb.c, c/create.c and the      *)
(* types of h/constants.h.                                                 *)
(*                                                                         *)
(* Every C function of the kernel is an operator from a kernel memory k    *)
(* to the kernel memory it leaves behind, so that a handler of the         *)
(* dispatcher reads as the composition of the functions it calls, in the   *)
(* order of the code.  k is a record: one field for each static variable   *)
(* and, for each field of struct process_control_block, a function from    *)
(* the slots of pcbTable to its value.                                     *)
(***************************************************************************)
EXTENDS Integers, Sequences

CONSTANTS
  PCB_TABLE_SIZE,   \* number of slots of pcbTable
  PQ_SIZE,          \* number of priorities
  NUM_SEMAPHORES,   \* number of semaphores
  SIG_TABLE_SIZE,   \* number of signals, and the width of a signal mask
  NULL              \* the null pointer

ASSUME PcbAssumption ==
  /\ PCB_TABLE_SIZE \in Nat \ {0, 1}
  /\ PQ_SIZE \in Nat \ {0}
  /\ NUM_SEMAPHORES \in Nat
  /\ SIG_TABLE_SIZE \in Nat \ {0}
  /\ NULL \notin 0 .. PCB_TABLE_SIZE - 1

Slots == 0 .. PCB_TABLE_SIZE - 1
Idle  == 0                          \* idle_pcb == &pcbTable[0]
Priorities  == 0 .. PQ_SIZE - 1
TopPriority == PQ_SIZE - 1
Semaphores  == 0 .. NUM_SEMAPHORES - 1
Signals == 0 .. SIG_TABLE_SIZE - 1
KillSignal == SIG_TABLE_SIZE - 1    \* the signal whose handler is sysstop

Pointers == Slots \cup {NULL}

\* The values of a pcb's state.
States == {"STOPPED", "RUNNING", "READY", "BLOCKED", "SLEEP", "WAITING", "DEV_BLOCK"}

\* Smallest and largest element of a nonempty set of numbers.
Least(S) == CHOOSE x \in S : \A y \in S : x <= y
Greatest(S) == CHOOSE x \in S : \A y \in S : y <= x

(***************************************************************************)
(* The slots met when following link from h.  A list that ends has at most *)
(* PCB_TABLE_SIZE members; a longer chain closes on itself.                *)
(***************************************************************************)
Chain(link, h) ==
  LET walk[n \in 0 .. PCB_TABLE_SIZE] ==
        IF n = 0 THEN IF h = NULL THEN << >> ELSE << h >>
        ELSE LET s == walk[n - 1] IN
             IF s = << >> \/ link[s[Len(s)]] = NULL THEN s
             ELSE Append(s, link[s[Len(s)]])
  IN  walk[PCB_TABLE_SIZE]

IsCyclic(chain) == Len(chain) > PCB_TABLE_SIZE

(***************************************************************************)
(* The kernel memory after dispInit, seminit and the static initialisers.  *)
(* frames stands for the signal contexts stacked below esp, stack says     *)
(* that addr_start is a block kmalloc gave out and kfree has not taken     *)
(* back, fault that a handler has left the behaviour C defines.            *)
(***************************************************************************)
BootMemory ==
  [ pcb_id      |-> 0,
    pcb         |-> NULL,
    head        |-> [i \in Priorities |-> NULL],
    tail        |-> [i \in Priorities |-> NULL],
    pid         |-> [p \in Slots |-> 0],
    state       |-> [p \in Slots |-> "STOPPED"],
    priority    |-> [p \in Slots |-> 0],
    next        |-> [p \in Slots |-> NULL],
    prev        |-> [p \in Slots |-> NULL],
    stack       |-> [p \in Slots |-> FALSE],
    semNo       |-> [p \in Slots |-> 0],
    sem         |-> [s \in Semaphores |->
                       [value |-> 0,
                        head  |-> [i \in Priorities |-> NULL],
                        tail  |-> [i \in Priorities |-> NULL]]],
    dl          |-> NULL,
    tick        |-> [p \in Slots |-> 0],
    wait_head   |-> [p \in Slots |-> NULL],
    wait_tail   |-> [p \in Slots |-> NULL],
    waiting_on  |-> [p \in Slots |-> NULL],
    sig_mask    |-> [p \in Slots |-> {}],
    sig_ignored |-> [p \in Slots |-> {}],
    sigTable    |-> [p \in Slots |-> {}],
    frames      |-> [p \in Slots |-> << >>],
    fault       |-> "none" ]

(***************************************************************************)
(* Appending p to a doubly linked list whose last member is last (NULL if  *)
(* the list is empty): the pointer assignments shared by ready and         *)
(* blockProcess.  When last is p itself, p ends up linked to itself.       *)
(***************************************************************************)
linkLast(k, p, last) ==
  IF last = NULL
  THEN [k EXCEPT !.next[p] = NULL, !.prev[p] = NULL]
  ELSE [k EXCEPT !.next = [@ EXCEPT ![p] = NULL, ![last] = p],
                 !.prev[p] = last]

\* Fault: ready puts p in front of the others.
ready_AtFront(k, p) ==
  LET i == k.priority[p]
  IN  IF k.pid[p] = 0
      THEN [k EXCEPT !.state[Idle] = "READY"]
      ELSE [k EXCEPT !.state[p] = "READY", !.next[p] = k.head[i], !.head[i] = p,
                     !.tail[i] = IF k.head[i] = NULL THEN p ELSE @]

\* ready(pcb): p goes to the end of the queue of its priority.
ready(k, p) ==
  LET i == k.priority[p]
      linked == linkLast(k, p, IF k.head[i] = NULL THEN NULL ELSE k.tail[i])
  IN  IF k.pid[p] = 0
      THEN [k EXCEPT !.state[Idle] = "READY"]
      ELSE [linked EXCEPT !.state[p] = "READY",
                          !.head[i] = IF @ = NULL THEN p ELSE @,
                          !.tail[i] = p]

\* Fault: next leaves the process it picks at the head of its queue.
next_HeadStays(k) ==
  LET busy == {i \in Priorities : k.head[i] # NULL}
      p == IF busy = {} THEN Idle ELSE k.head[Greatest(busy)]
  IN  [k EXCEPT !.state[p] = "RUNNING", !.next[p] = NULL, !.prev[p] = NULL, !.pcb = p]

(***************************************************************************)
(* pcb = next(): the first process of the highest nonempty queue, the idle *)
(* process when all are empty.  The head that moves is the one of the      *)
(* process's own priority; FAIL does nothing in the default build.         *)
(***************************************************************************)
next(k) ==
  LET busy == {i \in Priorities : k.head[i] # NULL}
      p == k.head[Greatest(busy)]
      i == k.priority[p]
  IN  IF busy = {}
      THEN [k EXCEPT !.state[Idle] = "RUNNING", !.pcb = Idle]
      ELSE IF k.head[i] = NULL
      THEN [k EXCEPT !.fault = "null"]
      ELSE [k EXCEPT !.head[i] = k.next[k.head[i]],
                     !.state[p] = "RUNNING",
                     !.next[p] = NULL,
                     !.prev[p] = NULL,
                     !.pcb = p]

\* Fault: cleanup does not give the stack back.
cleanup_StackKept(k, p) ==
  [k EXCEPT !.state[p] = "STOPPED", !.next[p] = NULL, !.prev[p] = NULL]

\* cleanup(pcb): the slot becomes free and its stack goes back to kfree.
cleanup(k, p) ==
  [k EXCEPT !.state[p] = "STOPPED", !.next[p] = NULL, !.prev[p] = NULL,
            !.stack[p] = FALSE]

\* Fault: getPCB searches from the end of the table.
getPCB_FromEnd(k, id) ==
  LET found == {p \in Slots : k.pid[p] = id}
  IN  IF found = {} THEN NULL ELSE Greatest(found)

\* getPCB(pid): the first slot that carries pid, live or not.
getPCB(k, id) ==
  LET found == {p \in Slots : k.pid[p] = id}
  IN  IF found = {} THEN NULL ELSE Least(found)

(***************************************************************************)
(* What create() sets in slot p before it calls ready().  The memset       *)
(* clears the size of a pointer, so of the fields not assigned here        *)
(* everything is left as the slot's last owner had it.                     *)
(***************************************************************************)
fill(k, p) ==
  [k EXCEPT !.pid[p] = k.pcb_id,
            !.pcb_id = @ + 1,
            !.stack[p] = TRUE,
            !.frames[p] = << >>,
            !.priority[p] = TopPriority,
            !.semNo[p] = -1,
            !.sig_mask[p] = Signals,
            !.sigTable[p] = @ \cup {KillSignal}]

\* create(): the first free slot, if any, becomes a ready process.
create(k) ==
  LET free == {p \in Slots : k.state[p] = "STOPPED"}
      p == Least(free)
  IN  IF free = {} THEN k ELSE ready(fill(k, p), p)
=============================================================================
