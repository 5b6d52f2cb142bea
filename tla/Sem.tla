-------------------------------- MODULE Sem --------------------------------
(***************************************************************************)
(* The counting semaphores of c/sem.c.  Each has a value and, for each     *)
(* priority, a list of the processes blocked on it; the lists are threaded *)
(* through the same next and prev fields as the ready queue.               *)
(***************************************************************************)
EXTENDS Pcb

\* Fault: the list of blocked processes is a stack.
blockProcess_AtFront(k, s, p) ==
  LET i == k.priority[p]
      first == k.sem[s].head[i]
  IN  [k EXCEPT !.state[p] = "BLOCKED", !.next[p] = first,
                !.sem[s].head[i] = p,
                !.sem[s].tail[i] = IF first = NULL THEN p ELSE @]

blockProcess(k, s, p) ==
  LET i == k.priority[p]
      first == k.sem[s].head[i] = NULL
      linked == linkLast(k, p, IF first THEN NULL ELSE k.sem[s].tail[i])
  IN  [linked EXCEPT !.state[p] = "BLOCKED",
                     !.sem[s].head[i] = IF first THEN p ELSE @,
                     !.sem[s].tail[i] = p]

\* Fault: P_kern takes a unit without looking whether there is one.
P_kern_NoTest(k, s, p) == [k EXCEPT !.sem[s].value = @ - 1]

\* P_kern: takes a unit, or blocks the caller when there is none.
P_kern(k, s, p) ==
  IF k.sem[s].value = 0
  THEN [blockProcess(k, s, p) EXCEPT !.semNo[p] = s]
  ELSE [k EXCEPT !.sem[s].value = @ - 1]

\* Faults: V_kern serves the lowest priority first; the process it unblocks
\* stays at the head of its list.
V_kern_Lowest(k, s) ==
  LET waiting == {i \in Priorities : k.sem[s].head[i] # NULL}
      i == Least(waiting)
      p == k.sem[s].head[i]
  IN  IF waiting = {}
      THEN [k EXCEPT !.sem[s].value = @ + 1]
      ELSE ready([k EXCEPT !.sem[s].head[i] = k.next[p]], p)

V_kern_HeadStays(k, s) ==
  LET waiting == {i \in Priorities : k.sem[s].head[i] # NULL}
  IN  IF waiting = {}
      THEN [k EXCEPT !.sem[s].value = @ + 1]
      ELSE ready(k, k.sem[s].head[Greatest(waiting)])

(***************************************************************************)
(* V_kern with unblockProcess: the first process blocked at the highest    *)
(* priority becomes ready, or the value grows.  The next process of that   *)
(* list keeps its prev pointer to the one that left.                       *)
(***************************************************************************)
V_kern(k, s) ==
  LET waiting == {i \in Priorities : k.sem[s].head[i] # NULL}
      i == Greatest(waiting)
      p == k.sem[s].head[i]
  IN  IF waiting = {}
      THEN [k EXCEPT !.sem[s].value = @ + 1]
      ELSE ready([k EXCEPT !.sem[s].head[i] = k.next[p]], p)

\* Fault: removeFromBlockQueue forgets the head of the list.
removeFromBlockQueue_HeadStays(k, p) ==
  LET before == k.prev[p]
      after == k.next[p]
  IN  IF before = NULL THEN k ELSE [k EXCEPT !.next[before] = after]

(***************************************************************************)
(* removeFromBlockQueue: a blocked process leaves its list because of a    *)
(* signal.  It is taken for the first only when its prev is NULL.          *)
(***************************************************************************)
removeFromBlockQueue(k, p) ==
  LET s == k.semNo[p]
      i == k.priority[p]
      before == k.prev[p]
      after == k.next[p]
  IN  IF s \notin Semaphores THEN k
      ELSE IF before = NULL THEN [k EXCEPT !.sem[s].head[i] = after]
      ELSE IF after = NULL THEN [k EXCEPT !.next[before] = NULL,
                                          !.sem[s].tail[i] = before]
      ELSE [k EXCEPT !.next[before] = after]
=============================================================================
