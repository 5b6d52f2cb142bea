-------------------------- MODULE PriorityScheduler --------------------------
(***************************************************************************)
(* What the scheduler promises, without a pointer in sight: a FIFO queue   *)
(* of ready processes for each priority, a FIFO queue of blocked processes *)
(* for each priority of each semaphore, and always the first process of    *)
(* the highest nonempty ready queue on the processor.                      *)
(***************************************************************************)
EXTENDS Integers, Sequences, SequencesExt

CONSTANTS Processes,      \* the processes there may be at one time
          TopPriority,    \* priorities are 0 .. TopPriority
          Semaphores,
          IdleProcess     \* runs when no process is ready

VARIABLES running,     \* the process on the processor
          readyq,      \* for each priority, the ready processes in order
          semq,        \* for each semaphore and priority, the blocked ones
          value,       \* for each semaphore, its units
          priority,    \* of each process
          suspended    \* the processes that wait for something else

vars == << running, readyq, semq, value, priority, suspended >>

Levels == 0 .. TopPriority
Nonempty(q) == {i \in Levels : q[i] # << >>}
Highest(q) == CHOOSE i \in Nonempty(q) : \A j \in Nonempty(q) : j <= i

Members(q) == UNION {ToSet(q[i]) : i \in Levels}
Free == (Processes \ ({running, IdleProcess} \cup suspended))
          \ (Members(readyq) \cup UNION {Members(semq[s]) : s \in Semaphores})

\* Process p behind the others of its priority.
Enqueue(q, p) == [q EXCEPT ![priority[p]] = Append(@, p)]

EnqueueAll(q, ps) == FoldLeft(Enqueue, q, ps)

\* The processor goes to the first process of the highest nonempty queue of q.
Dispatch(q) ==
  IF Nonempty(q) = {}
  THEN running' = IdleProcess /\ readyq' = q
  ELSE /\ running' = Head(q[Highest(q)])
       /\ readyq' = [q EXCEPT ![Highest(q)] = Tail(@)]

\* The queues once the running process has gone to the end of its own.
Requeued(q) == IF running = IdleProcess THEN q ELSE Enqueue(q, running)

Init == \E root \in Processes \ {IdleProcess} :
          /\ running = root
          /\ readyq = [i \in Levels |-> << >>]
          /\ semq = [s \in Semaphores |-> [i \in Levels |-> << >>]]
          /\ value = [s \in Semaphores |-> 0]
          /\ priority \in [Processes -> Levels]
          /\ priority[root] = TopPriority
          /\ suspended = {}

\* A process that is not the idle one is running.
Busy == running # IdleProcess

\* A new process starts at the top priority and does not preempt its creator.
Create == /\ Busy
          /\ \E p \in Free :
               /\ priority' = [priority EXCEPT ![p] = TopPriority]
               /\ readyq' = [readyq EXCEPT ![TopPriority] = Append(@, p)]
          /\ UNCHANGED << running, semq, value, suspended >>

Yield == /\ Busy
         /\ Dispatch(Requeued(readyq))
         /\ UNCHANGED << semq, value, priority, suspended >>

Stop == /\ Busy
        /\ Dispatch(readyq)
        /\ UNCHANGED << semq, value, priority, suspended >>

SetPriority == /\ Busy
               /\ \E i \in Levels : priority' = [priority EXCEPT ![running] = i]
               /\ UNCHANGED << running, readyq, semq, value, suspended >>

Take(s) == /\ Busy
           /\ value[s] > 0
           /\ value' = [value EXCEPT ![s] = @ - 1]
           /\ UNCHANGED << running, readyq, semq, priority, suspended >>

Block(s) == /\ Busy
            /\ value[s] = 0
            /\ semq' = [semq EXCEPT ![s] = Enqueue(@, running)]
            /\ Dispatch(readyq)
            /\ UNCHANGED << value, priority, suspended >>

\* A unit goes to the first process of the highest priority, or is kept.
Release(s) ==
  /\ Busy
  /\ IF Nonempty(semq[s]) = {}
     THEN value' = [value EXCEPT ![s] = @ + 1] /\ UNCHANGED << readyq, semq >>
     ELSE LET i == Highest(semq[s]) IN
          /\ readyq' = Enqueue(readyq, Head(semq[s][i]))
          /\ semq' = [semq EXCEPT ![s][i] = Tail(@)]
          /\ UNCHANGED value
  /\ UNCHANGED << running, priority, suspended >>

Suspend == /\ Busy
           /\ suspended' = suspended \cup {running}
           /\ Dispatch(readyq)
           /\ UNCHANGED << semq, value, priority >>

(***************************************************************************)
(* A timer interrupt: some suspended processes are due, in some order, and *)
(* the running process goes behind them.                                   *)
(***************************************************************************)
Preempt == \E due \in SUBSET suspended : \E order \in SetToSeqs(due) :
             /\ Dispatch(Requeued(EnqueueAll(readyq, order)))
             /\ suspended' = suspended \ due
             /\ UNCHANGED << semq, value, priority >>

Next == \/ Create
        \/ Yield
        \/ Stop
        \/ SetPriority
        \/ \E s \in Semaphores : Take(s) \/ Block(s) \/ Release(s)
        \/ Suspend
        \/ Preempt

Spec == Init /\ [][Next]_vars
=============================================================================
