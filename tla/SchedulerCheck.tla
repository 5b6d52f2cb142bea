--------------------------- MODULE SchedulerCheck ---------------------------
(***************************************************************************)
(* The scheduler for TLC: the properties of Scheduling, and the inductive  *)
(* invariant of KernelProofs as TLC can evaluate it, the rank that         *)
(* witnesses the order of the queues sought among small numbers.           *)
(***************************************************************************)
EXTENDS KernelProofs, Scheduling

SmallRanks == [Slots -> 0 .. PCB_TABLE_SIZE - 2]

(***************************************************************************)
(* IInv with small ranks: every process is in the place its state names,   *)
(* and every queue is well linked, between any two steps of the scheduler. *)
(***************************************************************************)
RankedIInv ==
  /\ k \in Memory
  /\ Placed(k, {k.pcb}, {})
  /\ Pids(k)
  /\ Untouched(k)
  /\ \E rank \in SmallRanks : Ranked(k, {}, rank)
=============================================================================
