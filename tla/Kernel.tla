------------------------------- MODULE Kernel -------------------------------
(***************************************************************************)
(* The dispatcher of c/disp.c: the state machine of the kernel.            *)
(*                                                                         *)
(* The kernel runs with interrupts disabled, so one turn of dispatch's     *)
(* loop, from the interrupt that enters it to the process it resumes, is   *)
(* one step.  What interleaves is the user processes: which of them runs,  *)
(* which call it makes next, and whether the timer interrupts it first.    *)
(* What a call returns to its caller (rc), and the calls on devices, are   *)
(* in module Devices.                                                      *)
(***************************************************************************)
EXTENDS Signal, FiniteSets

CONSTANTS
  Calls,       \* the calls user processes make in this workload
  Millis,      \* the arguments of syssleep
  MaxPid,      \* bound: the last pid given out
  MaxSem,      \* bound: the value up to which sysV is called
  MaxFrames,   \* bound: nested signal handlers of one process
  MaxWaiters   \* bound: processes that wait for the same one

ASSUME KernelAssumption ==
  /\ Calls \subseteq {"CREATE", "YIELD", "STOP", "SETPRIO", "P", "V", "SLEEP",
                      "WAIT", "KILL", "SIGNAL", "UNSIGNAL", "SIGRETURN",
                      "OPEN", "CLOSE", "READ", "WRITE", "IOCTL"}
  /\ Millis \subseteq Nat
  /\ MaxPid \in Nat /\ MaxSem \in Nat /\ MaxFrames \in Nat /\ MaxWaiters \in Nat

VARIABLE k     \* the kernel memory

(***************************************************************************)
(* Who may enter the kernel, and how.  A process whose stack has been      *)
(* freed, or a kernel that has left defined behaviour, takes no step.  The *)
(* idle process halts in a loop and makes no call; a process interrupted   *)
(* by KillSignal is in sysstop, so SYS_STOP is the call it makes.          *)
(***************************************************************************)
Running == k.fault = "none" /\ k.stack[k.pcb]

Killed(p) == /\ k.frames[p] # << >>
             /\ k.frames[p][Len(k.frames[p])].signum = KillSignal

UserCall(call) == /\ call \in Calls
                  /\ Running
                  /\ k.pid[k.pcb] # 0
                  /\ ~ Killed(k.pcb)

\* initproc: boot, create(idleproc), create(root), and dispatch's first next().
Init == k = next(create(create(BootMemory)))

\* SYS_CREATE.  When kmalloc finds no room nothing changes: a stuttering step.
Create == /\ UserCall("CREATE")
          /\ k.pcb_id <= MaxPid
          /\ k' = create(k)

Yield == UserCall("YIELD") /\ k' = next(ready(k, k.pcb))

\* SYS_STOP: sysstop, the return of the process's function, or its being killed.
Stop == /\ Running
        /\ UserCall("STOP") \/ Killed(k.pcb)
        /\ k' = next(cleanup(restoreToReadyQueue(k, k.pcb), k.pcb))

SetPrio == /\ UserCall("SETPRIO")
           /\ \E i \in Priorities : k' = [k EXCEPT !.priority[k.pcb] = i]

P(s) == /\ UserCall("P")
        /\ LET done == P_kern(k, s, k.pcb)
           IN  k' = IF done.state[k.pcb] = "BLOCKED" THEN next(done) ELSE done

V(s) == /\ UserCall("V")
        /\ k.sem[s].value < MaxSem
        /\ k' = V_kern(k, s)

SysSleep(ms) == UserCall("SLEEP") /\ k' = next(sleep(k, k.pcb, ms))

Waiters(p) == {q \in Slots : k.state[q] = "WAITING" /\ k.waiting_on[q] = p}

Wait(id) == /\ UserCall("WAIT")
            /\ CanWaitFor(k, k.pcb, id)
            /\ Cardinality(Waiters(getPCB(k, id))) < MaxWaiters
            /\ k' = next(addToWaitQueue(k, k.pcb, id))

Kill(id, s) == /\ UserCall("KILL")
               /\ \A p \in Slots : Len(k.frames[p]) < MaxFrames
               /\ k' = signal(k, id, s)

\* SYS_SIGNAL.  Calls has SIGNAL for a handler and UNSIGNAL for NULL.
SetSignal(s, handler) == /\ UserCall(IF handler THEN "SIGNAL" ELSE "UNSIGNAL")
                         /\ k' = set_signal(k, k.pcb, s, handler)

\* SYS_SIGRETURN: sigtramp calls it when the handler has returned.
SigReturn == /\ UserCall("SIGRETURN")
             /\ k.frames[k.pcb] # << >>
             /\ k' = sigreturn(k, k.pcb)

\* Fault: the running process is preempted and is not made ready again.
TimerInt_CallerLost == Running /\ k' = next(tick(k))

\* TIMER_INT: the running process is preempted.
TimerInt == Running /\ k' = next(ready(tick(k), k.pcb))

\* The calls that name no other process.
OwnCall == \/ Yield
           \/ Stop
           \/ SetPrio
           \/ \E s \in Semaphores : P(s)
           \/ \E s \in Semaphores : V(s)
           \/ \E s \in Signals, handler \in BOOLEAN : SetSignal(s, handler)
           \/ SigReturn

\* Every call but syssleep.
OtherCall == \/ Create
             \/ OwnCall
             \/ \E id \in 0 .. MaxPid : Wait(id)
             \/ \E id \in 0 .. MaxPid, s \in Signals : Kill(id, s)

Next == \/ OtherCall
        \/ \E ms \in Millis : SysSleep(ms)
        \/ TimerInt

Spec == Init /\ [][Next]_k

\* The timer keeps interrupting: initPIT programs it to run forever.
FairSpec == Spec /\ WF_k(TimerInt)

(***************************************************************************)
(* The kernel as far as it works when two defects are left alone: a new    *)
(* process gets a slot that had no owner before, and nobody signals the    *)
(* idle process, whose pid is 0.                                           *)
(***************************************************************************)
CreateFresh == Create /\ k.pid[getPCB(k', k.pcb_id)] = 0

KillUser == \E id \in 1 .. MaxPid, s \in Signals : Kill(id, s)

CautiousNext == \/ CreateFresh
                \/ OwnCall
                \/ \E id \in 0 .. MaxPid : Wait(id)
                \/ KillUser
                \/ \E ms \in Millis : SysSleep(ms)
                \/ TimerInt
-----------------------------------------------------------------------------
\* The types of the kernel's variables.
Queues == [Priorities -> Pointers]
Memory ==
  [ pcb_id      : Nat,
    pcb         : Pointers,
    head        : Queues,
    tail        : Queues,
    pid         : [Slots -> Nat],
    state       : [Slots -> States],
    priority    : [Slots -> Priorities],
    next        : [Slots -> Pointers],
    prev        : [Slots -> Pointers],
    stack       : [Slots -> BOOLEAN],
    semNo       : [Slots -> Semaphores \cup {-1, 0}],
    sem         : [Semaphores -> [value : Nat, head : Queues, tail : Queues]],
    dl          : Pointers,
    tick        : [Slots -> 0 .. UINT_MAX],
    wait_head   : [Slots -> Pointers],
    wait_tail   : [Slots -> Pointers],
    waiting_on  : [Slots -> Pointers],
    sig_mask    : [Slots -> SUBSET Signals],
    sig_ignored : [Slots -> SUBSET Signals],
    sigTable    : [Slots -> SUBSET Signals],
    frames      : [Slots -> Seq([signum : Signals, prevSigShift : Nat])],
    fault       : {"none", "null", "loop"} ]

\* The pcb that dispatch() resumes is a slot of the table.
TypeOK == k \in Memory /\ k.pcb \in Slots

(***************************************************************************)
(* The process that contextswitch resumes is the only one marked running,  *)
(* every live process owns its stack and no dead one does, and no handler  *)
(* has followed a null pointer or looped.                                  *)
(***************************************************************************)
ResumesOwner ==
  /\ k.fault = "none"
  /\ {p \in Slots : k.state[p] = "RUNNING"} = {k.pcb}
  /\ \A p \in Slots : k.stack[p] <=> k.state[p] # "STOPPED"

(***************************************************************************)
(* A pid, looked up, leads to the live process that was given it, even     *)
(* though a stopped slot keeps its old pid (getPCB in c/pcb.c, as signal   *)
(* and addToWaitQueue use it).                                             *)
(***************************************************************************)
PidFindsOwner ==
  \A p \in Slots : k.state[p] # "STOPPED" => getPCB(k, k.pid[p]) = p

(***************************************************************************)
(* The assertion of next(), FAIL("Process was not in ready state"), cannot *)
(* fire: who is first in a ready queue is ready.                           *)
(***************************************************************************)
NextAssertion ==
  \A i \in Priorities : k.head[i] # NULL => k.state[k.head[i]] = "READY"

(***************************************************************************)
(* The assertion of unblockProcess, FAIL("PCB was not in blocked state"),  *)
(* cannot fire: who is first in a list of a semaphore is blocked.          *)
(***************************************************************************)
UnblockAssertion ==
  \A s \in Semaphores, i \in Priorities :
    LET p == k.sem[s].head[i] IN p # NULL => k.state[p] = "BLOCKED"
=============================================================================
