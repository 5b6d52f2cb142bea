----------------------------- MODULE Suspending -----------------------------
(***************************************************************************)
(* What takes a suspended process out of where it is: the end of the       *)
(* process it waits for, V, its time, or a signal.                         *)
(***************************************************************************)
EXTENDS Waiting

VARIABLE suspend   \* how the processes of a behaviour suspend themselves

svars == << k, suspend >>
-----------------------------------------------------------------------------
(***************************************************************************)
(* A signal takes a suspended process out of the middle of a list, by way  *)
(* of its prev pointer.  It can do so as long as every list holds those    *)
(* that belong to it, and the lists of suspended processes are linked      *)
(* backwards as they are forwards.                                         *)
(***************************************************************************)
LinkedBack(list) ==
  \A n \in DOMAIN list : k.prev[list[n]] = IF n = 1 THEN NULL ELSE list[n - 1]

BothWays ==
  LET sleepers == Chain(k.next, k.dl) IN
  /\ ReadyQueues /\ SemaphoreQueues
  /\ \A s \in Semaphores, i \in Priorities : LinkedBack(Chain(k.next, k.sem[s].head[i]))
  /\ ToSet(sleepers) = {p \in Slots : k.state[p] = "SLEEP"}
  /\ LinkedBack(sleepers)
-----------------------------------------------------------------------------
\* Processes wait for each other and end, in any order.
WaitStep == \/ CreateFresh
            \/ Yield
            \/ Stop
            \/ \E id \in 0 .. MaxPid : Wait(id)
            \/ KillUser
            \/ TimerInt

\* Processes block and sleep, and end by a signal only, as long as BothWays holds.
QueueStep == /\ BothWays
             /\ \/ CreateFresh
                \/ Killed(k.pcb) /\ Stop
                \/ \E s \in Semaphores : P(s)
                \/ \E s \in Semaphores : V(s)
                \/ \E ms \in Millis : SysSleep(ms)
                \/ KillUser
                \/ TimerInt

\* The step before left a list linked one way only.
Unlinked == ~ BothWays /\ UNCHANGED k

SuspendInit == Init /\ suspend \in {"wait", "queue"}
SuspendNext == /\ \/ suspend = "wait" /\ WaitStep
                  \/ suspend = "queue" /\ (QueueStep \/ Unlinked)
               /\ UNCHANGED suspend
SuspendSpec == SuspendInit /\ [][SuspendNext]_svars
-----------------------------------------------------------------------------
Interrupted(p) == Len(k'.frames[p]) > Len(k.frames[p])

(***************************************************************************)
(* A process that leaves the list of a semaphore, by a signal or by V,     *)
(* costs nobody else the place: the list then has exactly the processes    *)
(* that are blocked there, those that were there before in their order and *)
(* in front (removeFromBlockQueue, unblockProcess and blockProcess of      *)
(* c/sem.c).  It takes lists that are linked both ways; V and the signal   *)
(* itself leave one that is not, and a later signal may then go wrong.     *)
(***************************************************************************)
BlockedKeepOrder ==
  [][BothWays => \A s \in Semaphores, i \in Priorities :
       LET old    == Chain(k.next, k.sem[s].head[i])
           new    == Chain(k'.next, k'.sem[s].head[i])
           Here(p) == k'.state[p] = "BLOCKED" /\ k'.semNo[p] = s /\ k'.priority[p] = i
       IN  /\ IsPrefix(SelectSeq(old, Here), new)
           /\ IsInjective(new) /\ ToSet(new) = {p \in Slots : Here(p)}]_k

(***************************************************************************)
(* A signal that interrupts a process leaves the other sleepers as they    *)
(* were: each wakes after as many interrupts as before, in the same order. *)
(* If it was asleep itself, its tick tells how many were left to it        *)
(* (removeFromSleepQueue of c/sleep.c, again with lists that are linked    *)
(* both ways).                                                             *)
(***************************************************************************)
SleepersKeepTime ==
  [][BothWays => \A p \in Slots : Interrupted(p) =>
       LET old == Chain(k.next, k.dl)
           new == Chain(k'.next, k'.dl)
           Left(m, list, q) == TicksBefore(m, list, CHOOSE n \in DOMAIN list : list[n] = q)
       IN  /\ new = SelectSeq(old, LAMBDA q : q # p)
           /\ \A q \in ToSet(new) : Left(k', new, q) = Left(k, old, q)
           /\ k.state[p] = "SLEEP" => k'.tick[p] = Left(k, old, p)]_k
=============================================================================
