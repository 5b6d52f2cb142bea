------------------------------ MODULE Waiting ------------------------------
(***************************************************************************)
(* syswait: a process suspends itself until another one has terminated.    *)
(***************************************************************************)
EXTENDS Scheduling
-----------------------------------------------------------------------------
(***************************************************************************)
(* A waiter resumes only when the process it waits for terminates in this  *)
(* very step, or a signal interrupts it ("@return 0 if terminates          *)
(* normally, -1 otherwise", h/xeroskernel.h:352).                          *)
(***************************************************************************)
JoinSafe ==
  [][\A p \in Slots :
       (k.state[p] = "WAITING" /\ k'.state[p] # "WAITING") =>
         LET t == k.waiting_on[p] IN
         \/ k.state[t] # "STOPPED" /\ k'.state[t] = "STOPPED"
         \/ Len(k'.frames[p]) > Len(k.frames[p])]_k

(***************************************************************************)
(* Nobody waits for a process that has terminated: restoreToReadyQueue     *)
(* "Restores all waiting process back to the ready queue if the process    *)
(* terminates" (h/pcb.h:148).                                              *)
(***************************************************************************)
JoinComplete ==
  \A p \in Slots :
    k.state[p] = "WAITING" => k.state[k.waiting_on[p]] # "STOPPED"
=============================================================================
