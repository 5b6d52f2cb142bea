------------------------------- MODULE Signal -------------------------------
(***************************************************************************)
(* Signals and process waiting: c/signal.c.  A signal mask is the set of   *)
(* its 1 bits, the signals that may interrupt the process.  Each delivery  *)
(* stacks a frame with the signal and the distance the mask was shifted.   *)
(***************************************************************************)
EXTENDS Sleep

\* m << n and m >> n of a signed int; the right shift copies the top bit.
ShiftLeft(m, n) == {b \in Signals : b - n \in m}
ShiftRight(m, n) == {b \in Signals : IF b + n \in Signals THEN b + n \in m
                                                         ELSE KillSignal \in m}

(***************************************************************************)
(* addToWaitQueue(pcb, pid).  The first waiter becomes head and tail of    *)
(* the target's list; a later one is linked behind wait_tail, which stays  *)
(* where it is.                                                            *)
(***************************************************************************)
CanWaitFor(k, p, id) ==
  /\ id # 0
  /\ k.pid[p] # id
  /\ getPCB(k, id) # NULL
  /\ k.state[getPCB(k, id)] # "STOPPED"

addToWaitQueue(k, p, id) ==
  LET target == getPCB(k, id)
      first == k.wait_head[target] = NULL
      linked == linkLast(k, p, IF first THEN NULL ELSE k.wait_tail[target])
      queued == [linked EXCEPT !.state[p] = "WAITING", !.waiting_on[p] = target]
  IN  IF first
      THEN [queued EXCEPT !.wait_head[target] = p, !.wait_tail[target] = p]
      ELSE queued

\* Fault: removeFromWaitQueue forgets the head of the list.
removeFromWaitQueue_HeadStays(k, p) ==
  LET before == k.prev[p]
  IN  IF before = NULL THEN k ELSE [k EXCEPT !.next[before] = k.next[p]]

\* removeFromWaitQueue: a waiter leaves its list because of a signal.
removeFromWaitQueue(k, p) ==
  LET target == k.waiting_on[p]
      before == k.prev[p]
      after == k.next[p]
  IN  IF before = NULL THEN [k EXCEPT !.wait_head[target] = after]
      ELSE IF after = NULL THEN [k EXCEPT !.next[before] = NULL,
                                          !.wait_tail[target] = before]
      ELSE [k EXCEPT !.next[before] = after]

\* Fault: nobody is told that p has terminated.
restoreToReadyQueue_None(k, p) == k

(***************************************************************************)
(* restoreToReadyQueue: the loop steps through next, which ready has just  *)
(* cleared, so it ends after the first waiter; when that waiter already is *)
(* the last of its ready queue, ready links it to itself and it never ends.*)
(***************************************************************************)
restoreToReadyQueue(k, p) ==
  LET w == k.wait_head[p]
      r == ready(k, w)
  IN  IF w = NULL THEN k
      ELSE IF r.next[w] = NULL THEN r
      ELSE [r EXCEPT !.fault = "loop"]

\* removeFromQueue, for a process that is neither ready nor running.
removeFromQueue(k, p) ==
  CASE k.state[p] = "SLEEP"   -> removeFromSleepQueue(k, p)
    [] k.state[p] = "BLOCKED" -> removeFromBlockQueue(k, p)
    [] k.state[p] = "WAITING" -> removeFromWaitQueue(k, p)
    [] OTHER                  -> k

\* Fault: the mask stays as it is.
pushFrame_NoShift(k, p, s) ==
  [k EXCEPT !.frames[p] = Append(@, [signum |-> s, prevSigShift |-> 0]),
            !.sig_ignored[p] = @ \ {s}]

\* The interrupted process resumes in the handler of signal s.
pushFrame(k, p, s) ==
  LET shift == s - Least(k.sig_mask[p])
  IN  [k EXCEPT
         !.frames[p] = Append(@, [signum |-> s, prevSigShift |-> shift]),
         !.sig_mask[p] = ShiftLeft(@, shift),
         !.sig_ignored[p] = @ \ {s}]

\* Fault: a process that has stopped is signalled too.
signal_StoppedToo(k, id, s) ==
  LET p == getPCB(k, id)
      runnable == IF k.state[p] \in {"READY", "RUNNING"} THEN k
                  ELSE ready(removeFromQueue(k, p), p)
  IN  IF p = NULL THEN k
      ELSE IF s \notin k.sigTable[p] THEN k
      ELSE IF s \notin k.sig_mask[p] THEN [k EXCEPT !.sig_ignored[p] = @ \cup {s}]
      ELSE pushFrame(runnable, p, s)

(***************************************************************************)
(* signal(pid, signum): nothing happens unless the target lives and has a  *)
(* handler; a masked signal is remembered in sig_ignored; any other takes  *)
(* a suspended target out of its queue and interrupts it.                  *)
(***************************************************************************)
signal(k, id, s) ==
  LET p == getPCB(k, id)
      runnable == IF k.state[p] \in {"READY", "RUNNING"} THEN k
                  ELSE ready(removeFromQueue(k, p), p)
  IN  IF p = NULL THEN k
      ELSE IF s \notin k.sigTable[p] \/ k.state[p] = "STOPPED" THEN k
      ELSE IF s \notin k.sig_mask[p] THEN [k EXCEPT !.sig_ignored[p] = @ \cup {s}]
      ELSE pushFrame(runnable, p, s)

\* set_signal, with a handler or with NULL; the last signal cannot be set.
set_signal(k, p, s, handler) ==
  IF s \notin Signals \ {KillSignal} THEN k
  ELSE [k EXCEPT !.sigTable[p] = IF handler THEN @ \cup {s} ELSE @ \ {s}]

\* Faults: the mask is not restored; a remembered signal is not sent again.
sigreturn_MaskKept(k, p) ==
  [k EXCEPT !.frames[p] = SubSeq(@, 1, Len(@) - 1)]

sigreturn_NotSentAgain(k, p) ==
  LET n == Len(k.frames[p])
  IN  [k EXCEPT !.frames[p] = SubSeq(@, 1, n - 1),
                !.sig_mask[p] = ShiftRight(@, k.frames[p][n].prevSigShift)]

(***************************************************************************)
(* SYS_SIGRETURN: the interrupted context and the mask come back, then the *)
(* highest remembered signal, if any, is sent again.                       *)
(***************************************************************************)
sigreturn(k, p) ==
  LET n == Len(k.frames[p])
      back == [k EXCEPT
                 !.frames[p] = SubSeq(@, 1, n - 1),
                 !.sig_mask[p] = ShiftRight(@, k.frames[p][n].prevSigShift)]
  IN  IF k.sig_ignored[p] = {} THEN back
      ELSE signal(back, k.pid[p], Greatest(k.sig_ignored[p]))
=============================================================================
