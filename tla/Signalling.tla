----------------------------- MODULE Signalling -----------------------------
(***************************************************************************)
(* Signals: which may interrupt a process, and which must wait.            *)
(***************************************************************************)
EXTENDS Scheduling

\* The kernel when slots are fresh and the idle process is spared.
GSpec == Init /\ [][CautiousNext]_k
-----------------------------------------------------------------------------
(***************************************************************************)
(* The mask is the state of the handler that runs: a process in the        *)
(* handler of signal s accepts s and the signals above it, one that is in  *)
(* no handler accepts all.  signal() shifts the mask left and              *)
(* SYS_SIGRETURN shifts it back, whatever handlers nest in between.  A     *)
(* slot has a handler for KillSignal once it has had an owner.             *)
(***************************************************************************)
MaskMatchesHandler ==
  \A p \in Slots :
    KillSignal \in k.sigTable[p] =>
      k.sig_mask[p] = IF k.frames[p] = << >> THEN Signals
                      ELSE {s \in Signals : s >= k.frames[p][Len(k.frames[p])].signum}

(***************************************************************************)
(* A signal that is remembered is one the process could not accept; once   *)
(* it can, the signal has been delivered ("It also enables ignored         *)
(* signals", h/xeroskernel.h:342 of syssigreturn).  It takes handlers that *)
(* stay: one that was removed keeps its remembered signal from being sent. *)
(***************************************************************************)
PendingIsMasked ==
  \A p \in Slots : k.state[p] # "STOPPED" => k.sig_ignored[p] \cap k.sig_mask[p] = {}

(***************************************************************************)
(* A handler is never interrupted by a lower signal: the signals of the    *)
(* stacked frames never decrease from the bottom to the top.               *)
(***************************************************************************)
HandlersNestUpwards ==
  \A p \in Slots : \A i, j \in 1 .. Len(k.frames[p]) :
    i < j => k.frames[p][i].signum <= k.frames[p][j].signum

(***************************************************************************)
(* A new process starts without handlers, signals or waiters of the last   *)
(* owner of its slot: "clear any values a stopped process could have"      *)
(* (c/create.c:47).                                                        *)
(***************************************************************************)
NewProcessClean ==
  [][k'.pcb_id # k.pcb_id =>
       LET p == getPCB(k', k.pcb_id) IN
       /\ k'.sigTable[p] = {KillSignal}
       /\ k'.sig_ignored[p] = {}
       /\ k'.wait_head[p] = NULL]_k
=============================================================================
