---------------------------- MODULE KernelProofs ----------------------------
(***************************************************************************)
(* Proofs about the scheduler: every process ready, running or blocked,    *)
(* for any number of slots, priorities and semaphores.  The workload is    *)
(* that of the calls below; module Kernel's other calls reuse the links of *)
(* the queues and do not keep them well linked in every workload.          *)
(***************************************************************************)
EXTENDS Kernel, QueueLemmas

SchedulerCalls == {"CREATE", "YIELD", "STOP", "SETPRIO", "P", "V"}

(***************************************************************************)
(* The inductive invariant, of a memory m in the middle of a handler too:  *)
(* R is the set of running processes, empty between a process's leaving    *)
(* the processor and next(), and X the set of those on their way from one  *)
(* queue to another.                                                       *)
(***************************************************************************)
InReady(m, X, i) ==
  {p \in Slots \ ({Idle} \cup X) : m.state[p] = "READY" /\ m.priority[p] = i}

InSem(m, X, s, i) ==
  {p \in Slots \ ({Idle} \cup X) :
     m.state[p] = "BLOCKED" /\ m.semNo[p] = s /\ m.priority[p] = i}

Ranked(m, X, rank) ==
  /\ \A i \in Priorities :
       IsQueue(InReady(m, X, i), m.head[i], m.tail[i], m.next, rank)
  /\ \A s \in Semaphores, i \in Priorities :
       IsQueue(InSem(m, X, s, i), m.sem[s].head[i], m.sem[s].tail[i], m.next, rank)

Queued(m, X) == \E rank \in [Slots -> Nat] : Ranked(m, X, rank)

Placed(m, R, X) ==
  /\ \A p \in Slots \ X :
       /\ m.state[p] \in {"STOPPED", "RUNNING", "READY", "BLOCKED"}
       /\ m.stack[p] <=> m.state[p] # "STOPPED"
       /\ p \in R <=> m.state[p] = "RUNNING"
       /\ m.state[p] = "BLOCKED" => m.semNo[p] \in Semaphores
  /\ \A p \in X : m.stack[p] /\ p \notin R
  /\ m.state[Idle] \in {"RUNNING", "READY"}

Pids(m) ==
  /\ m.pid[Idle] = 0
  /\ \A p \in Slots : m.pid[p] < m.pcb_id
  /\ \A p \in Slots \ {Idle} :
       m.stack[p] => m.pid[p] # 0 /\ \A q \in Slots \ {p} : m.pid[q] # m.pid[p]

\* What the workload leaves untouched.
Untouched(m) ==
  /\ m.dl = NULL
  /\ \A p \in Slots : m.wait_head[p] = NULL /\ m.frames[p] = << >>
  /\ m.fault = "none"

Core(m, R, X) ==
  /\ m \in Memory
  /\ X \subseteq Slots \ {Idle}
  /\ R \subseteq Slots
  /\ Placed(m, R, X)
  /\ Pids(m)
  /\ Untouched(m)
  /\ Queued(m, X)

IInv == Core(k, {k.pcb}, {})
-----------------------------------------------------------------------------
\* What the assumptions on the constants give: the slots and priorities in use.
LEMMA Constants ==
  /\ Idle \in Slots
  /\ NULL \notin Slots
  /\ TopPriority \in Priorities
  /\ Priorities \in SUBSET Nat
  /\ Slots \in SUBSET Nat
BY PcbAssumption DEF Slots, Idle, Priorities, TopPriority

(***************************************************************************)
(* What ready() does to each field of the memory that the proofs read.     *)
(***************************************************************************)
IsReadied(m, p, r) ==
  LET i == m.priority[p] IN
  /\ r \in Memory
  /\ r.state = [m.state EXCEPT ![p] = "READY"]
  /\ r.head = [m.head EXCEPT ![i] = IF m.head[i] = NULL THEN p ELSE m.head[i]]
  /\ r.tail = [m.tail EXCEPT ![i] = p]
  /\ r.next = IF m.head[i] = NULL THEN [m.next EXCEPT ![p] = NULL]
              ELSE [m.next EXCEPT ![p] = NULL, ![m.tail[i]] = p]
  /\ r.pcb_id = m.pcb_id
  /\ r.pcb = m.pcb
  /\ r.pid = m.pid
  /\ r.priority = m.priority
  /\ r.stack = m.stack
  /\ r.semNo = m.semNo
  /\ r.sem = m.sem
  /\ r.dl = m.dl
  /\ r.wait_head = m.wait_head
  /\ r.frames = m.frames
  /\ r.fault = m.fault

\* ready(p) in c/pcb.c, for a process that is not the idle one, changes the
\* fields that IsReadied lists and no other.
LEMMA ReadyEffect ==
  ASSUME NEW m \in Memory, NEW p \in Slots, m.pid[p] # 0,
         m.head[m.priority[p]] # NULL => m.tail[m.priority[p]] \in Slots
  PROVE  IsReadied(m, p, ready(m, p))
<1> DEFINE i == m.priority[p]
           nxt == IF m.head[i] = NULL THEN [m.next EXCEPT ![p] = NULL]
                  ELSE [m.next EXCEPT ![p] = NULL, ![m.tail[i]] = p]
           prv == [m.prev EXCEPT ![p] = IF m.head[i] = NULL THEN NULL ELSE m.tail[i]]
           sta == [m.state EXCEPT ![p] = "READY"]
           hea == [m.head EXCEPT ![i] = IF m.head[i] = NULL THEN p ELSE m.head[i]]
           tai == [m.tail EXCEPT ![i] = p]
<1>1. ready(m, p) = [m EXCEPT !.next = nxt, !.prev = prv, !.state = sta,
                              !.head = hea, !.tail = tai]
  <2> DEFINE l == linkLast(m, p, IF m.head[i] = NULL THEN NULL ELSE m.tail[i])
  <2>1. l = [m EXCEPT !.next = nxt, !.prev = prv]
    <3>1. CASE m.head[i] = NULL
      BY <3>1 DEF linkLast
    <3>2. CASE m.head[i] # NULL
      <4>1. m.tail[i] # NULL
        BY <3>2, PcbAssumption DEF Slots
      <4> QED BY <3>2, <4>1 DEF linkLast
    <3> QED BY <3>1, <3>2
  <2>2. ready(m, p) = [l EXCEPT !.state[p] = "READY",
                                !.head[i] = IF @ = NULL THEN p ELSE @,
                                !.tail[i] = p]
    BY DEF ready
  <2> HIDE DEF l, nxt, prv
  <2> QED BY <2>1, <2>2
<1>2. /\ nxt \in [Slots -> Pointers] /\ prv \in [Slots -> Pointers]
      /\ sta \in [Slots -> States] /\ hea \in Queues /\ tai \in Queues
  BY DEF Memory, Queues, Pointers, States
<1> HIDE DEF nxt, prv, sta, hea, tai
<1> DEFINE r == [m EXCEPT !.next = nxt, !.prev = prv, !.state = sta,
                          !.head = hea, !.tail = tai]
<1>3. r \in Memory
  BY <1>2 DEF Memory
<1>4. /\ r.state = sta /\ r.head = hea /\ r.tail = tai /\ r.next = nxt
  BY DEF Memory
<1>5. /\ r.pcb_id = m.pcb_id /\ r.pcb = m.pcb /\ r.pid = m.pid
      /\ r.priority = m.priority /\ r.stack = m.stack /\ r.semNo = m.semNo
  BY DEF Memory
<1>6. /\ r.sem = m.sem /\ r.dl = m.dl /\ r.wait_head = m.wait_head
      /\ r.frames = m.frames /\ r.fault = m.fault
  BY DEF Memory
<1> HIDE DEF r
<1>7. ready(m, p) = r
  BY <1>1 DEF r
<1> QED BY <1>3, <1>4, <1>5, <1>6, <1>7 DEF nxt, sta, hea, tai, IsReadied

(***************************************************************************)
(* The queues stay as they are when their heads and tails, their members   *)
(* and the links of their members do.                                      *)
(***************************************************************************)
SameQueues(m, X, n, Y) ==
  /\ n.head = m.head /\ n.tail = m.tail
  /\ \A s \in Semaphores : n.sem[s].head = m.sem[s].head /\ n.sem[s].tail = m.sem[s].tail
  /\ \A i \in Priorities : InReady(n, Y, i) = InReady(m, X, i)
  /\ \A s \in Semaphores, i \in Priorities : InSem(n, Y, s, i) = InSem(m, X, s, i)
  /\ \A p \in Slots \ X :
       m.state[p] \in {"READY", "BLOCKED"} => n.next[p] = m.next[p]

\* A step that leaves the queued processes' links alone keeps all queues.
LEMMA QueuedFrame ==
  ASSUME NEW m, NEW X, NEW n, NEW Y, Queued(m, X), SameQueues(m, X, n, Y)
  PROVE  Queued(n, Y)
<1>1. PICK rank \in [Slots -> Nat] : Ranked(m, X, rank)
  BY DEF Queued
<1>2. ASSUME NEW i \in Priorities
      PROVE  IsQueue(InReady(n, Y, i), n.head[i], n.tail[i], n.next, rank)
  <2>1. \A p \in InReady(m, X, i) : n.next[p] = m.next[p]
    BY DEF SameQueues, InReady
  <2>2. IsQueue(InReady(m, X, i), m.head[i], m.tail[i], m.next, rank)
    BY <1>1 DEF Ranked
  <2>3. IsQueue(InReady(m, X, i), m.head[i], m.tail[i], n.next, rank)
    BY <2>1, <2>2, QueueFrame
  <2> QED BY <2>3 DEF SameQueues
<1>3. ASSUME NEW s \in Semaphores, NEW i \in Priorities
      PROVE  IsQueue(InSem(n, Y, s, i), n.sem[s].head[i], n.sem[s].tail[i], n.next, rank)
  <2>1. \A p \in InSem(m, X, s, i) : n.next[p] = m.next[p]
    BY DEF SameQueues, InSem
  <2>2. IsQueue(InSem(m, X, s, i), m.sem[s].head[i], m.sem[s].tail[i], m.next, rank)
    BY <1>1 DEF Ranked
  <2>3. IsQueue(InSem(m, X, s, i), m.sem[s].head[i], m.sem[s].tail[i], n.next, rank)
    BY <2>1, <2>2, QueueFrame
  <2> QED BY <2>3 DEF SameQueues
<1> QED BY <1>1, <1>2, <1>3 DEF Queued, Ranked

(***************************************************************************)
(* ready() of a process that was running or is on its way.                 *)
(***************************************************************************)
LEMMA ReadyCore ==
  ASSUME NEW m, NEW R, NEW X, Core(m, R, X), NEW p \in R \cup X
  PROVE  Core(ready(m, p), R \ {p}, X \ {p})
<1> DEFINE i == m.priority[p]
           r == ready(m, p)
<1>0. /\ m \in Memory /\ p \in Slots /\ i \in Priorities
      /\ X \subseteq Slots \ {Idle} /\ R \subseteq Slots
      /\ Placed(m, R, X) /\ Pids(m) /\ Untouched(m) /\ Queued(m, X)
  BY DEF Core, Memory
<1>1. m.stack[p]
  BY <1>0 DEF Placed
<1>2. CASE p = Idle
  <2>1. r = [m EXCEPT !.state = [m.state EXCEPT ![Idle] = "READY"]]
    BY <1>0, <1>2 DEF ready, Pids, Memory
  <2> HIDE DEF r
  <2>2. r \in Memory
    <3> DEFINE sta == [m.state EXCEPT ![Idle] = "READY"]
    <3>1. sta \in [Slots -> States]
      BY <1>0, Constants DEF Memory, States
    <3>2. r = [m EXCEPT !.state = sta]
      BY <2>1
    <3> HIDE DEF sta
    <3> QED BY <1>0, <3>1, <3>2 DEF Memory
  <2>3. r.state = [m.state EXCEPT ![Idle] = "READY"]
    BY <2>1, <1>0 DEF Memory
  <2>4. /\ r.stack = m.stack /\ r.semNo = m.semNo /\ r.pid = m.pid
        /\ r.pcb_id = m.pcb_id /\ r.dl = m.dl /\ r.wait_head = m.wait_head
        /\ r.frames = m.frames /\ r.fault = m.fault
    BY <2>1, <1>0 DEF Memory
  <2>5. /\ r.head = m.head /\ r.tail = m.tail /\ r.next = m.next
        /\ r.priority = m.priority /\ r.sem = m.sem
    BY <2>1, <1>0 DEF Memory
  <2>6. Idle \notin X /\ X \ {p} = X
    BY <1>0, <1>2
  <2>7. Placed(r, R \ {p}, X)
    BY SMTT(40), <1>0, <1>2, <2>3, <2>4, <2>6, Constants DEF Placed, Memory
  <2>8. Pids(r) /\ Untouched(r)
    BY <1>0, <2>4 DEF Pids, Untouched
  <2>9. Queued(r, X)
    <3>1. \A j \in Priorities : InReady(r, X, j) = InReady(m, X, j)
      BY <1>0, <2>3, <2>5 DEF InReady, Memory
    <3>2. \A s \in Semaphores, j \in Priorities : InSem(r, X, s, j) = InSem(m, X, s, j)
      BY <1>0, <2>3, <2>4, <2>5 DEF InSem, Memory
    <3>3. SameQueues(m, X, r, X)
      BY <2>5, <3>1, <3>2 DEF SameQueues
    <3> QED BY <1>0, <3>3, QueuedFrame
  <2> QED BY <1>0, <2>2, <2>6, <2>7, <2>8, <2>9 DEF Core, r
<1>3. CASE p # Idle
  <2>1. m.pid[p] # 0
    BY <1>0, <1>1, <1>3 DEF Pids
  <2>2. PICK rank \in [Slots -> Nat] : Ranked(m, X, rank)
    BY <1>0 DEF Queued
  <2>3. /\ IsQueue(InReady(m, X, i), m.head[i], m.tail[i], m.next, rank)
        /\ m.head[i] # NULL => m.tail[i] \in InReady(m, X, i)
    BY <1>0, <2>2 DEF Ranked, IsQueue
  <2>4. InReady(m, X, i) \subseteq Slots
    BY DEF InReady
  <2>5. /\ r \in Memory
        /\ r.state = [m.state EXCEPT ![p] = "READY"]
        /\ r.head = [m.head EXCEPT ![i] = IF m.head[i] = NULL THEN p ELSE m.head[i]]
        /\ r.tail = [m.tail EXCEPT ![i] = p]
        /\ r.next = IF m.head[i] = NULL THEN [m.next EXCEPT ![p] = NULL]
                    ELSE [m.next EXCEPT ![p] = NULL, ![m.tail[i]] = p]
        /\ r.pcb_id = m.pcb_id
        /\ r.pid = m.pid
        /\ r.priority = m.priority
        /\ r.stack = m.stack
        /\ r.semNo = m.semNo
        /\ r.sem = m.sem
        /\ r.dl = m.dl
        /\ r.wait_head = m.wait_head
        /\ r.frames = m.frames
        /\ r.fault = m.fault
    <3>1. m.head[i] # NULL => m.tail[i] \in Slots
      BY <2>3, <2>4
    <3>2. IsReadied(m, p, r)
      BY <1>0, <2>1, <3>1, ReadyEffect
    <3> QED BY <3>2 DEF IsReadied
  <2> HIDE DEF r
  <2>6. Placed(r, R \ {p}, X \ {p})
    BY SMTT(40), <1>0, <1>1, <1>3, <2>5 DEF Placed, Memory
  <2>7. Pids(r) /\ Untouched(r)
    BY <1>0, <2>5 DEF Pids, Untouched
  <2>8. Queued(r, X \ {p})
    <3> DEFINE S == InReady(m, X, i)
               rank2 == [rank EXCEPT ![p] = IF m.head[i] = NULL THEN 0
                                            ELSE rank[m.tail[i]] + 1]
    <3>1. /\ p \notin S
          /\ \A j \in Priorities : p \notin InReady(m, X, j)
          /\ \A s \in Semaphores, j \in Priorities : p \notin InSem(m, X, s, j)
      BY <1>0 DEF InReady, InSem, Placed
    <3>2. rank2 \in [Slots -> Nat]
      <4>1. (IF m.head[i] = NULL THEN 0 ELSE rank[m.tail[i]] + 1) \in Nat
        <5>1. CASE m.head[i] = NULL BY <5>1
        <5>2. CASE m.head[i] # NULL
          <6>1. rank[m.tail[i]] \in Nat BY <5>2, <2>3, <2>4
          <6> QED BY <5>2, <6>1
        <5> QED BY <5>1, <5>2
      <4> QED BY <4>1
    <3>3. /\ InReady(r, X \ {p}, i) = S \cup {p}
          /\ \A j \in Priorities \ {i} : InReady(r, X \ {p}, j) = InReady(m, X, j)
      BY <1>0, <1>3, <2>5 DEF InReady, Memory
    <3>4. \A s \in Semaphores, j \in Priorities :
            InSem(r, X \ {p}, s, j) = InSem(m, X, s, j)
      BY <1>0, <3>1, <2>5 DEF InSem, Memory
    <3>5. r.next \in [Slots -> Pointers] /\ m.next \in [Slots -> Pointers]
      BY <1>0, <2>5 DEF Memory
    <3>6. /\ r.next[p] = NULL
          /\ m.head[i] # NULL => r.next[m.tail[i]] = p
          /\ \A q \in Slots : q # p /\ (m.head[i] # NULL => q # m.tail[i])
                              => r.next[q] = m.next[q]
      <4>1. /\ p \in Slots
            /\ m.head[i] # NULL => m.tail[i] \in Slots /\ m.tail[i] # p
            /\ r.next = IF m.head[i] = NULL THEN [m.next EXCEPT ![p] = NULL]
                        ELSE [m.next EXCEPT ![p] = NULL, ![m.tail[i]] = p]
        BY <1>0, <2>3, <2>4, <2>5, <3>1
      <4> QED BY <3>5, <4>1
    <3>7. \A q \in Slots \ {p} : rank2[q] = rank[q]
      OBVIOUS
    <3>8. m.head[i] # NULL => rank2[p] = rank[m.tail[i]] + 1
      BY <1>0
    <3> HIDE DEF rank2
    <3>9. IsQueue(InReady(r, X \ {p}, i), r.head[i], r.tail[i], r.next, rank2)
      <4>1. r.head[i] = (IF m.head[i] = NULL THEN p ELSE m.head[i]) /\ r.tail[i] = p
        BY <1>0, <2>5 DEF Memory, Queues
      <4>2. \A q \in S \ {m.tail[i]} : r.next[q] = m.next[q]
        BY <2>4, <3>1, <3>6
      <4>3. \A q \in S : rank2[q] = rank[q]
        BY <2>4, <3>1, <3>7
      <4>4. S \in SUBSET Slots /\ p \in Slots \ S
        BY <1>0, <2>4, <3>1
      <4>5. Enqueues(S, InReady(r, X \ {p}, i), p, m.head[i], r.head[i], m.tail[i],
                     m.next, r.next, rank, rank2)
        BY <2>3, <3>2, <3>3, <3>5, <3>6, <3>8, <4>1, <4>2, <4>3, <4>4 DEF Enqueues
      <4>6. IsQueue(InReady(r, X \ {p}, i), r.head[i], p, r.next, rank2)
        BY <4>5, EnqueueKeepsQueue
      <4> QED BY <4>1, <4>6
    <3>10. ASSUME NEW j \in Priorities \ {i}
           PROVE  IsQueue(InReady(r, X \ {p}, j), r.head[j], r.tail[j], r.next, rank2)
      <4>1. r.head[j] = m.head[j] /\ r.tail[j] = m.tail[j]
        BY <2>5, <1>0 DEF Memory, Queues
      <4>2. InReady(m, X, j) \subseteq Slots /\ InReady(m, X, j) \cap S = {}
        BY DEF InReady
      <4>3. \A q \in InReady(m, X, j) : r.next[q] = m.next[q] /\ rank2[q] = rank[q]
        BY <4>2, <3>1, <3>6, <3>7, <2>3
      <4>4. IsQueue(InReady(m, X, j), m.head[j], m.tail[j], m.next, rank)
        BY <2>2 DEF Ranked
      <4>5. IsQueue(InReady(m, X, j), m.head[j], m.tail[j], r.next, rank2)
        BY <4>3, <4>4, QueueFrame
      <4> QED BY <3>3, <4>1, <4>5
    <3>11. ASSUME NEW s \in Semaphores, NEW j \in Priorities
           PROVE  IsQueue(InSem(r, X \ {p}, s, j), r.sem[s].head[j], r.sem[s].tail[j],
                          r.next, rank2)
      <4>1. InSem(m, X, s, j) \subseteq Slots /\ InSem(m, X, s, j) \cap S = {}
        BY DEF InSem, InReady
      <4>2. \A q \in InSem(m, X, s, j) : r.next[q] = m.next[q] /\ rank2[q] = rank[q]
        BY <4>1, <3>1, <3>6, <3>7, <2>3
      <4>3. IsQueue(InSem(m, X, s, j), m.sem[s].head[j], m.sem[s].tail[j], m.next, rank)
        BY <2>2 DEF Ranked
      <4>4. IsQueue(InSem(m, X, s, j), m.sem[s].head[j], m.sem[s].tail[j], r.next, rank2)
        BY <4>2, <4>3, QueueFrame
      <4> QED BY <2>5, <3>4, <4>4
    <3> QED BY <3>2, <3>9, <3>10, <3>11 DEF Queued, Ranked
  <2>9. X \ {p} \subseteq Slots \ {Idle} /\ R \ {p} \subseteq Slots
    BY <1>0
  <2> QED BY <2>5, <2>6, <2>7, <2>8, <2>9 DEF Core, r
<1> QED BY <1>2, <1>3

(***************************************************************************)
(* What next() does to the fields of the memory that the proofs read, when *)
(* it takes p from the ready queue of priority i.                          *)
(***************************************************************************)
IsServed(m, i, p, n) ==
  /\ n \in Memory
  /\ n.head = [m.head EXCEPT ![i] = m.next[p]]
  /\ n.state = [m.state EXCEPT ![p] = "RUNNING"]
  /\ n.next = [m.next EXCEPT ![p] = NULL]
  /\ n.pcb = p
  /\ n.stack = m.stack /\ n.semNo = m.semNo /\ n.pid = m.pid
  /\ n.pcb_id = m.pcb_id /\ n.dl = m.dl /\ n.wait_head = m.wait_head
  /\ n.frames = m.frames /\ n.fault = m.fault
  /\ n.tail = m.tail /\ n.priority = m.priority /\ n.sem = m.sem

IsFirst(m, i, p) ==
  /\ i \in Priorities /\ p \in InReady(m, {}, i) /\ p = m.head[i] /\ p # NULL
  /\ \A j \in Priorities : m.head[j] # NULL => j <= i

\* next() in c/pcb.c takes the head of the highest queue.
LEMMA NextEffect ==
  ASSUME NEW m \in Memory, Queued(m, {}), {j \in Priorities : m.head[j] # NULL} # {}
  PROVE  \E i, p : IsFirst(m, i, p) /\ IsServed(m, i, p, next(m))
<1> DEFINE busy == {j \in Priorities : m.head[j] # NULL}
           i == Greatest(busy)
           p == m.head[i]
           n == next(m)
<1>1. i \in busy /\ i \in Priorities /\ p # NULL /\ \A j \in busy : j <= i
  <2>1. busy \in SUBSET (0 .. PQ_SIZE - 1) /\ PQ_SIZE - 1 \in Nat /\ busy # {}
    BY PcbAssumption DEF Priorities
  <2> HIDE DEF busy
  <2>2. i \in busy /\ \A j \in busy : j <= i
    BY <2>1, GreatestElement
  <2> QED BY <2>2 DEF busy
<1>2. PICK rank \in [Slots -> Nat] : Ranked(m, {}, rank)
  BY DEF Queued
<1>3. IsQueue(InReady(m, {}, i), m.head[i], m.tail[i], m.next, rank)
  BY <1>1, <1>2 DEF Ranked
<1>4. \A j \in Priorities : m.head[j] # NULL => j <= i
  BY <1>1
<1>5. busy # {}
  OBVIOUS
<1> HIDE DEF i, busy
<1>6. p \in InReady(m, {}, i)
  BY <1>1, <1>3 DEF IsQueue
<1>7. /\ p \in Slots /\ p # Idle /\ m.state[p] = "READY" /\ m.priority[p] = i
  BY <1>6 DEF InReady
<1>8. n = [m EXCEPT !.head = [m.head EXCEPT ![i] = m.next[p]],
                    !.state = [m.state EXCEPT ![p] = "RUNNING"],
                    !.next = [m.next EXCEPT ![p] = NULL],
                    !.prev = [m.prev EXCEPT ![p] = NULL],
                    !.pcb = p]
  BY <1>1, <1>5, <1>7 DEF next, Memory, i, busy
<1>9. IsFirst(m, i, p)
  BY <1>1, <1>4, <1>6 DEF IsFirst
<1> HIDE DEF n, p
<1>10. n \in Memory
  <2> DEFINE hea == [m.head EXCEPT ![i] = m.next[p]]
             sta == [m.state EXCEPT ![p] = "RUNNING"]
             nxt == [m.next EXCEPT ![p] = NULL]
             prv == [m.prev EXCEPT ![p] = NULL]
  <2>1. /\ hea \in Queues /\ sta \in [Slots -> States] /\ p \in Pointers
        /\ nxt \in [Slots -> Pointers] /\ prv \in [Slots -> Pointers]
    BY <1>1, <1>7 DEF Memory, States, Pointers, Queues
  <2>2. n = [m EXCEPT !.head = hea, !.state = sta, !.next = nxt, !.prev = prv, !.pcb = p]
    BY <1>8
  <2> HIDE DEF hea, sta, nxt, prv
  <2> QED BY <1>1, <2>1, <2>2 DEF Memory
<1>11. /\ n.head = [m.head EXCEPT ![i] = m.next[p]]
       /\ n.state = [m.state EXCEPT ![p] = "RUNNING"]
       /\ n.next = [m.next EXCEPT ![p] = NULL]
       /\ n.pcb = p
  BY <1>8 DEF Memory
<1>12. /\ n.stack = m.stack /\ n.semNo = m.semNo /\ n.pid = m.pid
       /\ n.pcb_id = m.pcb_id /\ n.dl = m.dl /\ n.wait_head = m.wait_head
       /\ n.frames = m.frames /\ n.fault = m.fault
  BY <1>8 DEF Memory
<1>13. n.tail = m.tail /\ n.priority = m.priority /\ n.sem = m.sem
  BY <1>8 DEF Memory
<1>14. IsServed(m, i, p, n)
  BY <1>10, <1>11, <1>12, <1>13 DEF IsServed
<1> QED BY <1>9, <1>14 DEF n

(***************************************************************************)
(* next() when nobody runs: the first process of the highest queue, or the *)
(* idle process, is the one that does.                                     *)
(***************************************************************************)
LEMMA NextCore ==
  ASSUME NEW m, Core(m, {}, {})
  PROVE  next(m).pcb \in Slots /\ Core(next(m), {next(m).pcb}, {})
<1> DEFINE busy == {j \in Priorities : m.head[j] # NULL}
           n == next(m)
<1>0. /\ m \in Memory /\ Placed(m, {}, {}) /\ Pids(m) /\ Untouched(m) /\ Queued(m, {})
  BY DEF Core
<1>1. CASE busy = {}
  <2>1. n = [m EXCEPT !.state = [m.state EXCEPT ![Idle] = "RUNNING"], !.pcb = Idle]
    BY <1>0, <1>1 DEF next, Memory
  <2> HIDE DEF n
  <2>2. n \in Memory
    <3> DEFINE sta == [m.state EXCEPT ![Idle] = "RUNNING"]
    <3>1. sta \in [Slots -> States] /\ Idle \in Pointers
      BY <1>0, Constants DEF Memory, States, Pointers
    <3>2. n = [m EXCEPT !.state = sta, !.pcb = Idle]
      BY <2>1
    <3> HIDE DEF sta
    <3> QED BY <1>0, <3>1, <3>2 DEF Memory
  <2>3. n.state = [m.state EXCEPT ![Idle] = "RUNNING"] /\ n.pcb = Idle
    BY <2>1, <1>0 DEF Memory
  <2>4. /\ n.stack = m.stack /\ n.semNo = m.semNo /\ n.pid = m.pid
        /\ n.pcb_id = m.pcb_id /\ n.dl = m.dl /\ n.wait_head = m.wait_head
        /\ n.frames = m.frames /\ n.fault = m.fault
    BY <2>1, <1>0 DEF Memory
  <2>5. /\ n.head = m.head /\ n.tail = m.tail /\ n.next = m.next
        /\ n.priority = m.priority /\ n.sem = m.sem
    BY <2>1, <1>0 DEF Memory
  <2>6. Placed(n, {Idle}, {})
    BY <1>0, <2>3, <2>4, Constants DEF Placed, Memory
  <2>7. Pids(n) /\ Untouched(n)
    BY <1>0, <2>4 DEF Pids, Untouched
  <2>8. Queued(n, {})
    <3>1. \A j \in Priorities : InReady(n, {}, j) = InReady(m, {}, j)
      BY <1>0, <2>3, <2>5 DEF InReady, Memory
    <3>2. \A s \in Semaphores, j \in Priorities : InSem(n, {}, s, j) = InSem(m, {}, s, j)
      BY <1>0, <2>3, <2>4, <2>5 DEF InSem, Memory
    <3>3. SameQueues(m, {}, n, {})
      BY <2>5, <3>1, <3>2 DEF SameQueues
    <3> QED BY <1>0, <3>3, QueuedFrame
  <2> QED BY <2>2, <2>3, <2>6, <2>7, <2>8, Constants DEF Core, n
<1>2. CASE busy # {}
  <2>1. PICK i, p : IsFirst(m, i, p) /\ IsServed(m, i, p, n)
    BY <1>0, <1>2, NextEffect
  <2>2. PICK rank \in [Slots -> Nat] : Ranked(m, {}, rank)
    BY <1>0 DEF Queued
  <2>3. i \in Priorities /\ IsQueue(InReady(m, {}, i), m.head[i], m.tail[i], m.next, rank)
    BY <2>1, <2>2 DEF Ranked, IsFirst
  <2> HIDE DEF busy, n
  <2>4. p \in InReady(m, {}, i) /\ p = m.head[i] /\ p # NULL
    BY <2>1 DEF IsFirst
  <2>5. /\ p \in Slots /\ p # Idle /\ m.state[p] = "READY" /\ m.priority[p] = i
    BY <2>4 DEF InReady
  <2>7. n \in Memory
    BY <2>1 DEF IsServed
  <2>8. /\ n.head = [m.head EXCEPT ![i] = m.next[p]]
        /\ n.state = [m.state EXCEPT ![p] = "RUNNING"]
        /\ n.next = [m.next EXCEPT ![p] = NULL]
        /\ n.pcb = p
    BY <2>1 DEF IsServed
  <2>9. /\ n.stack = m.stack /\ n.semNo = m.semNo /\ n.pid = m.pid
        /\ n.pcb_id = m.pcb_id /\ n.dl = m.dl /\ n.wait_head = m.wait_head
        /\ n.frames = m.frames /\ n.fault = m.fault
    BY <2>1 DEF IsServed
  <2>10. n.tail = m.tail /\ n.priority = m.priority /\ n.sem = m.sem
    BY <2>1 DEF IsServed
  <2>11. Placed(n, {p}, {})
    BY <1>0, <2>5, <2>8, <2>9 DEF Placed, Memory
  <2>12. Pids(n) /\ Untouched(n)
    BY <1>0, <2>9 DEF Pids, Untouched
  <2>13. \A q \in Slots \ {p} : n.next[q] = m.next[q]
    BY <1>0, <2>8 DEF Memory
  <2>14. IsQueue(InReady(n, {}, i), n.head[i], n.tail[i], n.next, rank)
    <3>1. InReady(n, {}, i) = InReady(m, {}, i) \ {p}
      BY <1>0, <2>5, <2>8, <2>10 DEF InReady, Memory
    <3>2. InReady(m, {}, i) \subseteq Slots
      BY DEF InReady
    <3>3. Dequeues(InReady(m, {}, i), InReady(n, {}, i), p, m.tail[i], m.next, n.next, rank)
      BY <1>0, <2>3, <2>4, <2>13, <3>1, <3>2 DEF Dequeues, Memory
    <3>4. IsQueue(InReady(n, {}, i), m.next[p], m.tail[i], n.next, rank)
      BY <3>3, DequeueKeepsQueue
    <3>5. n.head[i] = m.next[p] /\ n.tail[i] = m.tail[i]
      BY <1>0, <2>3, <2>8, <2>10 DEF Memory, Queues
    <3> QED BY <3>4, <3>5
  <2>15. ASSUME NEW j \in Priorities \ {i}
         PROVE  IsQueue(InReady(n, {}, j), n.head[j], n.tail[j], n.next, rank)
    <3>1. InReady(n, {}, j) = InReady(m, {}, j)
      BY <1>0, <2>5, <2>8, <2>10 DEF InReady, Memory
    <3>2. n.head[j] = m.head[j] /\ n.tail[j] = m.tail[j]
      BY <1>0, <2>8, <2>10 DEF Memory, Queues
    <3>3. \A q \in InReady(m, {}, j) : n.next[q] = m.next[q]
      BY <2>5, <2>13 DEF InReady
    <3>4. IsQueue(InReady(m, {}, j), m.head[j], m.tail[j], m.next, rank)
      BY <2>2 DEF Ranked
    <3>5. IsQueue(InReady(m, {}, j), m.head[j], m.tail[j], n.next, rank)
      BY <3>3, <3>4, QueueFrame
    <3> QED BY <3>1, <3>2, <3>5
  <2>16. ASSUME NEW s \in Semaphores, NEW j \in Priorities
         PROVE  IsQueue(InSem(n, {}, s, j), n.sem[s].head[j], n.sem[s].tail[j], n.next, rank)
    <3>1. InSem(n, {}, s, j) = InSem(m, {}, s, j)
      BY <1>0, <2>5, <2>8, <2>9, <2>10 DEF InSem, Memory
    <3>2. \A q \in InSem(m, {}, s, j) : n.next[q] = m.next[q]
      BY <2>5, <2>13 DEF InSem
    <3>3. IsQueue(InSem(m, {}, s, j), m.sem[s].head[j], m.sem[s].tail[j], m.next, rank)
      BY <2>2 DEF Ranked
    <3>4. IsQueue(InSem(m, {}, s, j), m.sem[s].head[j], m.sem[s].tail[j], n.next, rank)
      BY <3>2, <3>3, QueueFrame
    <3> QED BY <2>10, <3>1, <3>4
  <2>17. Queued(n, {})
    BY <2>14, <2>15, <2>16 DEF Queued, Ranked
  <2> QED BY <2>5, <2>7, <2>8, <2>11, <2>12, <2>17 DEF Core, n
<1> QED BY <1>1, <1>2

(***************************************************************************)
(* cleanup() of the running process.                                       *)
(***************************************************************************)
LEMMA CleanupCore ==
  ASSUME NEW m, NEW R, Core(m, R, {}), NEW p \in R \ {Idle}
  PROVE  Core(cleanup(m, p), R \ {p}, {})
<1> DEFINE c == cleanup(m, p)
<1>0. /\ m \in Memory /\ p \in Slots /\ R \subseteq Slots
      /\ Placed(m, R, {}) /\ Pids(m) /\ Untouched(m) /\ Queued(m, {})
  BY DEF Core
<1>1. c = [m EXCEPT !.state = [m.state EXCEPT ![p] = "STOPPED"],
                    !.next = [m.next EXCEPT ![p] = NULL],
                    !.prev = [m.prev EXCEPT ![p] = NULL],
                    !.stack = [m.stack EXCEPT ![p] = FALSE]]
  BY <1>0 DEF cleanup, Memory
<1> HIDE DEF c
<1>2. c \in Memory
  <2> DEFINE sta == [m.state EXCEPT ![p] = "STOPPED"]
             nxt == [m.next EXCEPT ![p] = NULL]
             prv == [m.prev EXCEPT ![p] = NULL]
             stk == [m.stack EXCEPT ![p] = FALSE]
  <2>1. /\ sta \in [Slots -> States] /\ stk \in [Slots -> BOOLEAN]
        /\ nxt \in [Slots -> Pointers] /\ prv \in [Slots -> Pointers]
    BY <1>0 DEF Memory, States, Pointers
  <2>2. c = [m EXCEPT !.state = sta, !.next = nxt, !.prev = prv, !.stack = stk]
    BY <1>1
  <2> HIDE DEF sta, nxt, prv, stk
  <2> QED BY <1>0, <2>1, <2>2 DEF Memory
<1>3. /\ c.state = [m.state EXCEPT ![p] = "STOPPED"]
      /\ c.next = [m.next EXCEPT ![p] = NULL]
      /\ c.stack = [m.stack EXCEPT ![p] = FALSE]
  BY <1>0, <1>1 DEF Memory
<1>4. /\ c.semNo = m.semNo /\ c.pid = m.pid /\ c.priority = m.priority
      /\ c.pcb_id = m.pcb_id /\ c.dl = m.dl /\ c.wait_head = m.wait_head
      /\ c.frames = m.frames /\ c.fault = m.fault
  BY <1>0, <1>1 DEF Memory
<1>5. c.head = m.head /\ c.tail = m.tail /\ c.sem = m.sem
  BY <1>0, <1>1 DEF Memory
<1>6. Placed(c, R \ {p}, {})
  BY <1>0, <1>3, <1>4 DEF Placed, Memory
<1>7. Pids(c) /\ Untouched(c)
  <2>1. \A q \in Slots : c.stack[q] => m.stack[q]
    BY <1>0, <1>3 DEF Memory
  <2> QED BY <1>0, <1>4, <2>1 DEF Pids, Untouched
<1>8. Queued(c, {})
  <2>1. \A j \in Priorities : InReady(c, {}, j) = InReady(m, {}, j)
    BY <1>0, <1>3, <1>4 DEF InReady, Memory, Placed
  <2>2. \A s \in Semaphores, j \in Priorities : InSem(c, {}, s, j) = InSem(m, {}, s, j)
    BY <1>0, <1>3, <1>4 DEF InSem, Memory, Placed
  <2>3. \A q \in Slots : m.state[q] \in {"READY", "BLOCKED"} => c.next[q] = m.next[q]
    BY <1>0, <1>3 DEF Memory, Placed
  <2>4. SameQueues(m, {}, c, {})
    BY <1>5, <2>1, <2>2, <2>3 DEF SameQueues
  <2> QED BY <1>0, <2>4, QueuedFrame
<1> QED BY <1>0, <1>2, <1>6, <1>7, <1>8 DEF Core, c

(***************************************************************************)
(* syssetprio: the running process is in no queue, so its priority is free *)
(* to change.                                                              *)
(***************************************************************************)
LEMMA SetPrioCore ==
  ASSUME NEW m, NEW R, Core(m, R, {}), NEW p \in R, NEW i \in Priorities
  PROVE  Core([m EXCEPT !.priority[p] = i], R, {})
<1> DEFINE c == [m EXCEPT !.priority[p] = i]
<1>0. /\ m \in Memory /\ p \in Slots /\ R \subseteq Slots
      /\ Placed(m, R, {}) /\ Pids(m) /\ Untouched(m) /\ Queued(m, {})
  BY DEF Core
<1>1. c = [m EXCEPT !.priority = [m.priority EXCEPT ![p] = i]]
  BY <1>0 DEF Memory
<1> HIDE DEF c
<1>2. c \in Memory
  BY <1>0, <1>1 DEF Memory
<1>3. c.priority = [m.priority EXCEPT ![p] = i]
  BY <1>0, <1>1 DEF Memory
<1>4. /\ c.state = m.state /\ c.stack = m.stack /\ c.semNo = m.semNo /\ c.pid = m.pid
      /\ c.pcb_id = m.pcb_id /\ c.dl = m.dl /\ c.wait_head = m.wait_head
      /\ c.frames = m.frames /\ c.fault = m.fault
  BY <1>0, <1>1 DEF Memory
<1>5. c.head = m.head /\ c.tail = m.tail /\ c.sem = m.sem /\ c.next = m.next
  BY <1>0, <1>1 DEF Memory
<1>6. Placed(c, R, {}) /\ Pids(c) /\ Untouched(c)
  BY <1>0, <1>4 DEF Placed, Pids, Untouched
<1>7. Queued(c, {})
  <2>1. \A j \in Priorities : InReady(c, {}, j) = InReady(m, {}, j)
    BY <1>0, <1>3, <1>4 DEF InReady, Memory, Placed
  <2>2. \A s \in Semaphores, j \in Priorities : InSem(c, {}, s, j) = InSem(m, {}, s, j)
    BY <1>0, <1>3, <1>4 DEF InSem, Memory, Placed
  <2>3. SameQueues(m, {}, c, {})
    BY <1>5, <2>1, <2>2 DEF SameQueues
  <2> QED BY <1>0, <2>3, QueuedFrame
<1> QED BY <1>0, <1>2, <1>6, <1>7 DEF Core, c

(***************************************************************************)
(* P_kern when there is a unit: only the value changes.                    *)
(***************************************************************************)
LEMMA ValueCore ==
  ASSUME NEW m, NEW R, Core(m, R, {}), NEW s \in Semaphores, NEW v \in Nat
  PROVE  Core([m EXCEPT !.sem[s].value = v], R, {})
<1> DEFINE c == [m EXCEPT !.sem[s].value = v]
<1>0. /\ m \in Memory /\ R \subseteq Slots
      /\ Placed(m, R, {}) /\ Pids(m) /\ Untouched(m) /\ Queued(m, {})
  BY DEF Core
<1>1. c = [m EXCEPT !.sem = [m.sem EXCEPT ![s] = [m.sem[s] EXCEPT !.value = v]]]
  BY <1>0 DEF Memory
<1> HIDE DEF c
<1>2. c \in Memory
  <2>1. m.sem \in [Semaphores -> [value : Nat, head : Queues, tail : Queues]]
    BY <1>0 DEF Memory
  <2>2. [m.sem EXCEPT ![s] = [m.sem[s] EXCEPT !.value = v]]
          \in [Semaphores -> [value : Nat, head : Queues, tail : Queues]]
    BY <2>1
  <2> QED BY <1>0, <1>1, <2>2 DEF Memory
<1>3. c.sem = [m.sem EXCEPT ![s] = [m.sem[s] EXCEPT !.value = v]]
  BY <1>0, <1>1 DEF Memory
<1>4. /\ c.state = m.state /\ c.stack = m.stack /\ c.semNo = m.semNo /\ c.pid = m.pid
      /\ c.pcb_id = m.pcb_id /\ c.dl = m.dl /\ c.wait_head = m.wait_head
      /\ c.frames = m.frames /\ c.fault = m.fault
  BY <1>0, <1>1 DEF Memory
<1>5. c.head = m.head /\ c.tail = m.tail /\ c.next = m.next /\ c.priority = m.priority
  BY <1>0, <1>1 DEF Memory
<1>6. \A t \in Semaphores : c.sem[t].head = m.sem[t].head /\ c.sem[t].tail = m.sem[t].tail
  BY <1>0, <1>3 DEF Memory
<1>7. Placed(c, R, {}) /\ Pids(c) /\ Untouched(c)
  BY <1>0, <1>4 DEF Placed, Pids, Untouched
<1>8. Queued(c, {})
  <2>1. \A j \in Priorities : InReady(c, {}, j) = InReady(m, {}, j)
    BY <1>4, <1>5 DEF InReady
  <2>2. \A t \in Semaphores, j \in Priorities : InSem(c, {}, t, j) = InSem(m, {}, t, j)
    BY <1>4, <1>5 DEF InSem
  <2>3. SameQueues(m, {}, c, {})
    BY <1>5, <1>6, <2>1, <2>2 DEF SameQueues
  <2> QED BY <1>0, <2>3, QueuedFrame
<1> QED BY <1>0, <1>2, <1>7, <1>8 DEF Core, c

(***************************************************************************)
(* What P_kern does to each field of the memory that the proofs read, when *)
(* there is no unit: p joins the list of its priority.                     *)
(***************************************************************************)
IsBlocked(m, s, p, b) ==
  LET i == m.priority[p]
      first == m.sem[s].head[i]
  IN
  /\ b \in Memory
  /\ b.next = IF first = NULL THEN [m.next EXCEPT ![p] = NULL]
              ELSE [m.next EXCEPT ![p] = NULL, ![m.sem[s].tail[i]] = p]
  /\ b.state = [m.state EXCEPT ![p] = "BLOCKED"]
  /\ b.semNo = [m.semNo EXCEPT ![p] = s]
  /\ b.sem[s].head = [m.sem[s].head EXCEPT ![i] = IF first = NULL THEN p ELSE first]
  /\ b.sem[s].tail = [m.sem[s].tail EXCEPT ![i] = p]
  /\ b.sem[s].value = m.sem[s].value
  /\ \A t \in Semaphores \ {s} : b.sem[t] = m.sem[t]
  /\ b.head = m.head /\ b.tail = m.tail /\ b.priority = m.priority
  /\ b.stack = m.stack /\ b.pid = m.pid /\ b.pcb_id = m.pcb_id
  /\ b.dl = m.dl /\ b.wait_head = m.wait_head /\ b.frames = m.frames
  /\ b.fault = m.fault

\* blockProcess() in c/sem.c, and P_kern's assignment of semNo, change the
\* fields that IsBlocked lists and no other.
LEMMA BlockEffect ==
  ASSUME NEW m \in Memory, NEW p \in Slots, NEW s \in Semaphores,
         m.sem[s].head[m.priority[p]] # NULL => m.sem[s].tail[m.priority[p]] \in Slots
  PROVE  IsBlocked(m, s, p, [blockProcess(m, s, p) EXCEPT !.semNo[p] = s])
<1> DEFINE b == [blockProcess(m, s, p) EXCEPT !.semNo[p] = s]
           i == m.priority[p]
           first == m.sem[s].head[i]
           last == m.sem[s].tail[i]
           nxt == IF first = NULL THEN [m.next EXCEPT ![p] = NULL]
                  ELSE [m.next EXCEPT ![p] = NULL, ![last] = p]
           prv == [m.prev EXCEPT ![p] = IF first = NULL THEN NULL ELSE last]
           sta == [m.state EXCEPT ![p] = "BLOCKED"]
           num == [m.semNo EXCEPT ![p] = s]
           lists == [m.sem[s] EXCEPT
                       !.head = [@ EXCEPT ![i] = IF first = NULL THEN p ELSE first],
                       !.tail = [@ EXCEPT ![i] = p]]
           sems == [m.sem EXCEPT ![s] = lists]
<1>0. m \in Memory /\ p \in Slots /\ i \in Priorities
  BY DEF Memory
<1>2. first # NULL => last \in Slots
  OBVIOUS
<1>3. b = [m EXCEPT !.next = nxt, !.prev = prv, !.state = sta, !.semNo = num, !.sem = sems]
  <2> DEFINE l == linkLast(m, p, IF first = NULL THEN NULL ELSE last)
  <2>1. l = [m EXCEPT !.next = nxt, !.prev = prv]
    <3>1. first # NULL => last # NULL
      BY <1>2, Constants
    <3>2. m.next \in [Slots -> Pointers] /\ m.prev \in [Slots -> Pointers]
      BY <1>0 DEF Memory
    <3> HIDE DEF first, last
    <3>3. CASE first = NULL
      BY <1>0, <3>2, <3>3 DEF linkLast, Memory
    <3>4. CASE first # NULL
      BY <1>0, <3>1, <3>2, <3>4 DEF linkLast, Memory
    <3> QED BY <3>3, <3>4
  <2>2. blockProcess(m, s, p)
          = [l EXCEPT !.state[p] = "BLOCKED",
                      !.sem[s].head[i] = IF first = NULL THEN p ELSE l.sem[s].head[i],
                      !.sem[s].tail[i] = p]
    BY DEF blockProcess
  <2> HIDE DEF l, nxt, prv
  <2>3. l.state = m.state /\ l.sem = m.sem /\ l.semNo = m.semNo
    BY <1>0, <2>1 DEF Memory
  <2>4. /\ [m.state EXCEPT ![p] = "BLOCKED"] = sta
        /\ [m.sem EXCEPT ![s].head[i] = IF first = NULL THEN p ELSE first,
                         ![s].tail[i] = p] = sems
    <3>1. m.sem \in [Semaphores -> [value : Nat, head : Queues, tail : Queues]]
      BY <1>0 DEF Memory
    <3> QED BY <3>1 DEF Queues
  <2> HIDE DEF sta, sems, lists
  <2>5. blockProcess(m, s, p)
          = [l EXCEPT !.state = [l.state EXCEPT ![p] = "BLOCKED"],
                      !.sem = [l.sem EXCEPT ![s].head[i] = IF first = NULL THEN p ELSE first,
                                            ![s].tail[i] = p]]
    <3>1. l \in Memory
      <4>1. nxt \in [Slots -> Pointers] /\ prv \in [Slots -> Pointers]
        BY <1>0, <1>2 DEF Memory, Pointers, nxt, prv
      <4> QED BY <1>0, <2>1, <4>1 DEF Memory
    <3>2. l.sem[s].head[i] = first
      BY <2>3
    <3> DEFINE h == IF first = NULL THEN p ELSE first
    <3>3. (IF first = NULL THEN p ELSE l.sem[s].head[i]) = h
      BY <3>2
    <3> HIDE DEF h, i, first
    <3>4. [l EXCEPT !.state[p] = "BLOCKED", !.sem[s].head[i] = h, !.sem[s].tail[i] = p]
           = [l EXCEPT !.state = [l.state EXCEPT ![p] = "BLOCKED"],
                       !.sem = [l.sem EXCEPT ![s].head[i] = h, ![s].tail[i] = p]]
      <4> DEFINE u == [l.sem EXCEPT ![s].head[i] = h]
                 l1 == [l EXCEPT !.state = [l.state EXCEPT ![p] = "BLOCKED"], !.sem = u]
      <4>1. [l EXCEPT !.state[p] = "BLOCKED", !.sem[s].head[i] = h] = l1
        BY <3>1 DEF Memory
      <4>2. l1.sem = u
        BY <3>1 DEF Memory
      <4>3. [l1 EXCEPT !.sem[s].tail[i] = p] = [l1 EXCEPT !.sem = [u EXCEPT ![s].tail[i] = p]]
        BY <4>2
      <4>4. [l1 EXCEPT !.sem = [u EXCEPT ![s].tail[i] = p]]
              = [l EXCEPT !.state = [l.state EXCEPT ![p] = "BLOCKED"],
                          !.sem = [u EXCEPT ![s].tail[i] = p]]
        <5> HIDE DEF u
        <5> QED BY <3>1 DEF Memory
      <4> QED BY <4>1, <4>3, <4>4, Zenon
    <3> QED BY <2>2, <3>3, <3>4 DEF h
  <2>6. blockProcess(m, s, p) = [l EXCEPT !.state = sta, !.sem = sems]
    BY <2>3, <2>4, <2>5
  <2>7. blockProcess(m, s, p) = [m EXCEPT !.next = nxt, !.prev = prv,
                                          !.state = sta, !.sem = sems]
    BY <1>0, <2>1, <2>6 DEF Memory
  <2> QED BY <1>0, <2>7 DEF Memory
<1>4. /\ nxt \in [Slots -> Pointers] /\ prv \in [Slots -> Pointers]
      /\ sta \in [Slots -> States] /\ num \in [Slots -> Semaphores \cup {-1, 0}]
  BY <1>0, <1>2 DEF Memory, Pointers, States
<1>5. /\ lists \in [value : Nat, head : Queues, tail : Queues]
      /\ lists.head = [m.sem[s].head EXCEPT ![i] = IF first = NULL THEN p ELSE first]
      /\ lists.tail = [m.sem[s].tail EXCEPT ![i] = p]
      /\ lists.value = m.sem[s].value
  <2>1. /\ m.sem[s] \in [value : Nat, head : Queues, tail : Queues]
        /\ first \in Pointers
    BY <1>0 DEF Memory, Queues
  <2> QED BY <1>0, <2>1 DEF Queues, Pointers
<1> HIDE DEF lists
<1>6. sems \in [Semaphores -> [value : Nat, head : Queues, tail : Queues]]
  BY <1>0, <1>5 DEF Memory
<1> HIDE DEF nxt, prv, sta, num, sems, b
<1>7. b \in Memory
  BY <1>0, <1>3, <1>4, <1>6 DEF Memory
<1>8. b.next = nxt /\ b.state = sta /\ b.semNo = num /\ b.sem = sems
  BY <1>0, <1>3 DEF Memory
<1>9. /\ b.stack = m.stack /\ b.pid = m.pid /\ b.pcb_id = m.pcb_id
      /\ b.dl = m.dl /\ b.wait_head = m.wait_head /\ b.frames = m.frames
      /\ b.fault = m.fault
  BY <1>0, <1>3 DEF Memory
<1>10. b.head = m.head /\ b.tail = m.tail /\ b.priority = m.priority
  BY <1>0, <1>3 DEF Memory
<1>11. b.sem[s] = lists /\ \A t \in Semaphores \ {s} : b.sem[t] = m.sem[t]
  BY <1>0, <1>8 DEF Memory, sems
<1>12. /\ b.sem[s].head = [m.sem[s].head EXCEPT ![i] = IF first = NULL THEN p ELSE first]
       /\ b.sem[s].tail = [m.sem[s].tail EXCEPT ![i] = p]
       /\ b.sem[s].value = m.sem[s].value
  BY <1>5, <1>11
<1>13. IsBlocked(m, s, p, b)
  BY <1>7, <1>8, <1>9, <1>10, <1>11, <1>12 DEF IsBlocked, nxt, sta, num
<1> QED BY <1>13 DEF b

(***************************************************************************)
(* P_kern when there is none: the running process p joins the list of its  *)
(* priority.                                                               *)
(***************************************************************************)
LEMMA BlockCore ==
  ASSUME NEW m, NEW R, Core(m, R, {}), NEW p \in R \ {Idle}, NEW s \in Semaphores
  PROVE  LET b == [blockProcess(m, s, p) EXCEPT !.semNo[p] = s]
         IN  Core(b, R \ {p}, {}) /\ b.state[p] = "BLOCKED"
<1> DEFINE b == [blockProcess(m, s, p) EXCEPT !.semNo[p] = s]
           i == m.priority[p]
           first == m.sem[s].head[i]
           last == m.sem[s].tail[i]
           S == InSem(m, {}, s, i)
           nxt == IF first = NULL THEN [m.next EXCEPT ![p] = NULL]
                  ELSE [m.next EXCEPT ![p] = NULL, ![last] = p]
           sta == [m.state EXCEPT ![p] = "BLOCKED"]
           num == [m.semNo EXCEPT ![p] = s]
<1>0. /\ m \in Memory /\ p \in Slots /\ R \subseteq Slots /\ i \in Priorities
      /\ Placed(m, R, {}) /\ Pids(m) /\ Untouched(m) /\ Queued(m, {})
  <2>1. /\ m \in Memory /\ R \subseteq Slots /\ p \in Slots
        /\ Placed(m, R, {}) /\ Pids(m) /\ Untouched(m) /\ Queued(m, {})
    BY DEF Core
  <2>2. m.priority \in [Slots -> Priorities]
    BY <2>1 DEF Memory
  <2> QED BY <2>1, <2>2
<1>1. PICK rank \in [Slots -> Nat] : Ranked(m, {}, rank)
  BY <1>0 DEF Queued
<1>2. /\ IsQueue(S, first, last, m.next, rank)
      /\ first # NULL => last \in S
      /\ S \subseteq Slots
  <2>1. IsQueue(S, first, last, m.next, rank)
    BY <1>0, <1>1 DEF Ranked
  <2>2. first # NULL => last \in S
    BY <2>1 DEF IsQueue
  <2> QED BY <2>1, <2>2 DEF InSem
<1>3. IsBlocked(m, s, p, b)
  <2>1. first # NULL => last \in Slots
    BY <1>2
  <2> QED BY <1>0, <2>1, BlockEffect
<1> HIDE DEF b
<1>7. b \in Memory
  BY <1>3 DEF IsBlocked
<1>8. b.next = nxt /\ b.state = sta /\ b.semNo = num
  BY <1>3 DEF IsBlocked
<1>9. /\ b.stack = m.stack /\ b.pid = m.pid /\ b.pcb_id = m.pcb_id
      /\ b.dl = m.dl /\ b.wait_head = m.wait_head /\ b.frames = m.frames
      /\ b.fault = m.fault
  BY <1>3 DEF IsBlocked
<1>10. b.head = m.head /\ b.tail = m.tail /\ b.priority = m.priority
  BY <1>3 DEF IsBlocked
<1>5. /\ b.sem[s].head = [m.sem[s].head EXCEPT ![i] = IF first = NULL THEN p ELSE first]
      /\ b.sem[s].tail = [m.sem[s].tail EXCEPT ![i] = p]
      /\ \A t \in Semaphores \ {s} : b.sem[t] = m.sem[t]
  BY <1>3 DEF IsBlocked
<1> HIDE DEF nxt, sta, num
<1>11. /\ b.state[p] = "BLOCKED" /\ b.semNo[p] = s
       /\ \A q \in Slots \ {p} : b.state[q] = m.state[q] /\ b.semNo[q] = m.semNo[q]
  BY <1>0, <1>8 DEF Memory, sta, num
<1>12. Placed(b, R \ {p}, {})
  BY <1>0, <1>9, <1>11, Constants DEF Placed
<1>13. Pids(b) /\ Untouched(b)
  BY <1>0, <1>9 DEF Pids, Untouched
<1>14. m.state[p] = "RUNNING"
  BY <1>0 DEF Placed
<1> DEFINE rank2 == [rank EXCEPT ![p] = IF first = NULL THEN 0 ELSE rank[last] + 1]
<1>15. rank2 \in [Slots -> Nat]
  <2>1. (IF first = NULL THEN 0 ELSE rank[last] + 1) \in Nat
    <3>1. first # NULL => rank[last] \in Nat BY <1>2
    <3> HIDE DEF first, last
    <3> QED BY <3>1
  <2> QED BY <2>1
<1>16. /\ \A q \in Slots \ {p} : rank2[q] = rank[q]
       /\ first # NULL => rank2[p] = rank[last] + 1
  BY <1>0
<1>17. /\ b.next[p] = NULL
       /\ first # NULL => b.next[last] = p
       /\ \A q \in Slots : q # p /\ (first # NULL => q # last) => b.next[q] = m.next[q]
  <2>1. p \notin S
    BY <1>14 DEF InSem
  <2>2. m.next \in [Slots -> Pointers]
    BY <1>0 DEF Memory
  <2> QED BY <1>0, <1>2, <1>8, <2>1, <2>2 DEF nxt
<1> HIDE DEF rank2
<1>18. ASSUME NEW j \in Priorities
       PROVE  IsQueue(InReady(b, {}, j), b.head[j], b.tail[j], b.next, rank2)
  <2>1. InReady(b, {}, j) = InReady(m, {}, j)
    BY <1>10, <1>11, <1>14 DEF InReady
  <2>2. \A q \in InReady(m, {}, j) : b.next[q] = m.next[q] /\ rank2[q] = rank[q]
    BY <1>2, <1>14, <1>16, <1>17 DEF InReady, InSem
  <2>3. IsQueue(InReady(m, {}, j), m.head[j], m.tail[j], m.next, rank)
    BY <1>1 DEF Ranked
  <2>4. IsQueue(InReady(m, {}, j), m.head[j], m.tail[j], b.next, rank2)
    BY <2>2, <2>3, QueueFrame
  <2> QED BY <1>10, <2>1, <2>4
<1>19. IsQueue(InSem(b, {}, s, i), b.sem[s].head[i], b.sem[s].tail[i], b.next, rank2)
  <2>1. InSem(b, {}, s, i) = S \cup {p} /\ p \notin S
    BY <1>0, <1>10, <1>11, <1>14 DEF InSem
  <2>2. /\ b.sem[s].head[i] = IF first = NULL THEN p ELSE first
        /\ b.sem[s].tail[i] = p
    <3>1. m.sem[s].head \in Queues /\ m.sem[s].tail \in Queues
      BY <1>0 DEF Memory
    <3> QED BY <1>0, <1>5, <3>1 DEF Queues
  <2>3. Enqueues(S, InSem(b, {}, s, i), p, first, b.sem[s].head[i], last,
                 m.next, b.next, rank, rank2)
    <3>1. m.next \in [Slots -> Pointers]
      BY <1>0 DEF Memory
    <3> HIDE DEF S, first, last, i
    <3> QED BY <1>0, <1>2, <1>15, <1>16, <1>17, <2>1, <2>2, <3>1 DEF Enqueues
  <2>4. IsQueue(InSem(b, {}, s, i), b.sem[s].head[i], p, b.next, rank2)
    BY <2>3, EnqueueKeepsQueue
  <2> QED BY <2>2, <2>4
<1>20. ASSUME NEW t \in Semaphores, NEW j \in Priorities, t # s \/ j # i
       PROVE  IsQueue(InSem(b, {}, t, j), b.sem[t].head[j], b.sem[t].tail[j], b.next, rank2)
  <2>1. InSem(b, {}, t, j) = InSem(m, {}, t, j)
    BY <1>0, <1>10, <1>11, <1>14, <1>20 DEF InSem
  <2>2. b.sem[t].head[j] = m.sem[t].head[j] /\ b.sem[t].tail[j] = m.sem[t].tail[j]
    <3>1. m.sem[t].head \in Queues /\ m.sem[t].tail \in Queues
      BY <1>0 DEF Memory
    <3>2. CASE t = s
      BY <1>0, <1>5, <1>20, <3>1, <3>2 DEF Queues
    <3>3. CASE t # s
      BY <1>5, <3>3
    <3> QED BY <3>2, <3>3
  <2>3. \A q \in InSem(m, {}, t, j) : b.next[q] = m.next[q] /\ rank2[q] = rank[q]
    BY <1>2, <1>14, <1>16, <1>17, <1>20 DEF InSem
  <2>4. IsQueue(InSem(m, {}, t, j), m.sem[t].head[j], m.sem[t].tail[j], m.next, rank)
    BY <1>1 DEF Ranked
  <2>5. IsQueue(InSem(m, {}, t, j), m.sem[t].head[j], m.sem[t].tail[j], b.next, rank2)
    BY <2>3, <2>4, QueueFrame
  <2> QED BY <2>1, <2>2, <2>5
<1>21. Queued(b, {})
  BY <1>15, <1>18, <1>19, <1>20 DEF Queued, Ranked
<1>22. Core(b, R \ {p}, {})
  BY <1>0, <1>7, <1>12, <1>13, <1>21 DEF Core
<1> QED BY <1>11, <1>22 DEF b

(***************************************************************************)
(* What V_kern does to each field when it takes p, the first of list i.    *)
(***************************************************************************)
IsUnblocked(m, s, i, p, c) ==
  /\ c \in Memory
  /\ c.sem[s].head = [m.sem[s].head EXCEPT ![i] = m.next[p]]
  /\ c.sem[s].tail = m.sem[s].tail
  /\ c.sem[s].value = m.sem[s].value
  /\ \A t \in Semaphores \ {s} : c.sem[t] = m.sem[t]
  /\ c.semNo = m.semNo /\ c.state = m.state /\ c.pcb = m.pcb
  /\ c.stack = m.stack /\ c.pid = m.pid /\ c.pcb_id = m.pcb_id
  /\ c.dl = m.dl /\ c.wait_head = m.wait_head /\ c.frames = m.frames
  /\ c.fault = m.fault
  /\ c.head = m.head /\ c.tail = m.tail /\ c.next = m.next
  /\ c.priority = m.priority

\* unblockProcess() in c/sem.c moves the head and changes nothing else.
LEMMA UnblockEffect ==
  ASSUME NEW m \in Memory, NEW p \in Slots, NEW s \in Semaphores, NEW i \in Priorities
  PROVE  IsUnblocked(m, s, i, p, [m EXCEPT !.sem[s].head[i] = m.next[p]])
<1> DEFINE c == [m EXCEPT !.sem[s].head[i] = m.next[p]]
           lists == [m.sem[s] EXCEPT !.head = [m.sem[s].head EXCEPT ![i] = m.next[p]]]
           sems == [m.sem EXCEPT ![s] = lists]
<1>0. m \in Memory
  OBVIOUS
<1>4. m.sem \in [Semaphores -> [value : Nat, head : Queues, tail : Queues]]
      /\ m.next[p] \in Pointers
  BY <1>0 DEF Memory
<1>5. c = [m EXCEPT !.sem = sems]
  BY <1>0 DEF Memory
<1>6. /\ lists \in [value : Nat, head : Queues, tail : Queues]
      /\ lists.head = [m.sem[s].head EXCEPT ![i] = m.next[p]]
      /\ lists.tail = m.sem[s].tail
      /\ lists.value = m.sem[s].value
  <2>1. m.sem[s] \in [value : Nat, head : Queues, tail : Queues]
    BY <1>4
  <2> QED BY <1>4, <2>1 DEF Queues
<1> HIDE DEF lists
<1>7. sems \in [Semaphores -> [value : Nat, head : Queues, tail : Queues]]
  BY <1>4, <1>6
<1> HIDE DEF sems, c
<1>8. c \in Memory
  BY <1>0, <1>5, <1>7 DEF Memory
<1>9. /\ c.sem = sems /\ c.semNo = m.semNo /\ c.state = m.state /\ c.pcb = m.pcb
      /\ c.stack = m.stack /\ c.pid = m.pid /\ c.pcb_id = m.pcb_id
  BY <1>0, <1>5 DEF Memory
<1>10. /\ c.dl = m.dl /\ c.wait_head = m.wait_head /\ c.frames = m.frames
       /\ c.fault = m.fault
  BY <1>0, <1>5 DEF Memory
<1>11. /\ c.head = m.head /\ c.tail = m.tail /\ c.next = m.next
       /\ c.priority = m.priority
  BY <1>0, <1>5 DEF Memory
<1>12. c.sem[s] = lists /\ \A t \in Semaphores \ {s} : c.sem[t] = m.sem[t]
  BY <1>4, <1>9 DEF sems
<1>13. IsUnblocked(m, s, i, p, c)
  BY <1>6, <1>8, <1>9, <1>10, <1>11, <1>12 DEF IsUnblocked
<1> QED BY <1>13 DEF c

(***************************************************************************)
(* V_kern when somebody waits: the first of the highest list leaves it.    *)
(***************************************************************************)
LEMMA UnblockCore ==
  ASSUME NEW m, NEW R, Core(m, R, {}), NEW s \in Semaphores,
         NEW i \in Priorities, m.sem[s].head[i] # NULL
  PROVE  LET p == m.sem[s].head[i]
         IN  /\ p \in Slots
             /\ Core([m EXCEPT !.sem[s].head[i] = m.next[p]], R, {p})
<1> DEFINE p == m.sem[s].head[i]
           c == [m EXCEPT !.sem[s].head[i] = m.next[p]]
           S == InSem(m, {}, s, i)
<1>0. /\ m \in Memory /\ R \subseteq Slots
      /\ Placed(m, R, {}) /\ Pids(m) /\ Untouched(m) /\ Queued(m, {})
  BY DEF Core
<1>1. PICK rank \in [Slots -> Nat] : Ranked(m, {}, rank)
  BY <1>0 DEF Queued
<1>2. /\ IsQueue(S, p, m.sem[s].tail[i], m.next, rank)
      /\ p \in S /\ S \subseteq Slots
  <2>1. IsQueue(S, p, m.sem[s].tail[i], m.next, rank)
    BY <1>1 DEF Ranked
  <2>2. p \in S
    BY <2>1 DEF IsQueue
  <2> QED BY <2>1, <2>2 DEF InSem
<1>3. /\ p \in Slots /\ p # Idle /\ p # NULL
      /\ m.state[p] = "BLOCKED" /\ m.semNo[p] = s /\ m.priority[p] = i
  BY <1>2 DEF InSem
<1>4. IsUnblocked(m, s, i, p, c)
  BY <1>0, <1>3, UnblockEffect
<1> HIDE DEF c
<1>6. /\ c.sem[s].head = [m.sem[s].head EXCEPT ![i] = m.next[p]]
      /\ c.sem[s].tail = m.sem[s].tail
      /\ \A t \in Semaphores \ {s} : c.sem[t] = m.sem[t]
  BY <1>4 DEF IsUnblocked
<1>7. m.sem \in [Semaphores -> [value : Nat, head : Queues, tail : Queues]]
  BY <1>0 DEF Memory
<1>8. c \in Memory
  BY <1>4 DEF IsUnblocked
<1>9. /\ c.semNo = m.semNo /\ c.state = m.state
      /\ c.stack = m.stack /\ c.pid = m.pid /\ c.pcb_id = m.pcb_id
  BY <1>4 DEF IsUnblocked
<1>10. /\ c.dl = m.dl /\ c.wait_head = m.wait_head /\ c.frames = m.frames
       /\ c.fault = m.fault
  BY <1>4 DEF IsUnblocked
<1>11. /\ c.head = m.head /\ c.tail = m.tail /\ c.next = m.next
       /\ c.priority = m.priority
  BY <1>4 DEF IsUnblocked
<1>12. Placed(c, R, {p})
  BY <1>0, <1>3, <1>9 DEF Placed
<1>13. Pids(c) /\ Untouched(c)
  BY <1>0, <1>9, <1>10 DEF Pids, Untouched
<1>14. ASSUME NEW j \in Priorities
       PROVE  IsQueue(InReady(c, {p}, j), c.head[j], c.tail[j], c.next, rank)
  <2>1. InReady(c, {p}, j) = InReady(m, {}, j)
    BY <1>3, <1>9, <1>11 DEF InReady
  <2>2. IsQueue(InReady(m, {}, j), m.head[j], m.tail[j], m.next, rank)
    BY <1>1 DEF Ranked
  <2> QED BY <1>11, <2>1, <2>2
<1>15. IsQueue(InSem(c, {p}, s, i), c.sem[s].head[i], c.sem[s].tail[i], c.next, rank)
  <2>1. InSem(c, {p}, s, i) = S \ {p}
    BY <1>9, <1>11 DEF InSem
  <2>2. c.sem[s].head[i] = m.next[p] /\ c.sem[s].tail[i] = m.sem[s].tail[i]
    <3>1. m.sem[s].head \in Queues
      BY <1>7
    <3> HIDE DEF p
    <3> QED BY <1>6, <3>1 DEF Queues
  <2>3. Dequeues(S, InSem(c, {p}, s, i), p, m.sem[s].tail[i], m.next, c.next, rank)
    <3>1. m.next \in [Slots -> Pointers]
      BY <1>0 DEF Memory
    <3> HIDE DEF p, S
    <3> QED BY <1>2, <1>3, <1>11, <2>1, <3>1 DEF Dequeues
  <2>4. IsQueue(InSem(c, {p}, s, i), m.next[p], m.sem[s].tail[i], c.next, rank)
    BY <2>3, DequeueKeepsQueue
  <2> QED BY <2>2, <2>4
<1>16. ASSUME NEW t \in Semaphores, NEW j \in Priorities, t # s \/ j # i
       PROVE  IsQueue(InSem(c, {p}, t, j), c.sem[t].head[j], c.sem[t].tail[j], c.next, rank)
  <2>1. InSem(c, {p}, t, j) = InSem(m, {}, t, j)
    BY <1>3, <1>9, <1>11, <1>16 DEF InSem
  <2>2. c.sem[t].head[j] = m.sem[t].head[j] /\ c.sem[t].tail[j] = m.sem[t].tail[j]
    <3>1. m.sem[t].head \in Queues
      BY <1>7
    <3> HIDE DEF p
    <3>2. CASE t = s
      BY <1>6, <1>16, <3>1, <3>2 DEF Queues
    <3>3. CASE t # s
      BY <1>6, <3>3
    <3> QED BY <3>2, <3>3
  <2>3. IsQueue(InSem(m, {}, t, j), m.sem[t].head[j], m.sem[t].tail[j], m.next, rank)
    BY <1>1 DEF Ranked
  <2> QED BY <1>11, <2>1, <2>2, <2>3
<1>17. Queued(c, {p})
  BY <1>14, <1>15, <1>16 DEF Queued, Ranked
<1>18. Core(c, R, {p})
  BY <1>0, <1>3, <1>8, <1>12, <1>13, <1>17 DEF Core
<1> QED BY <1>3, <1>18 DEF c

(***************************************************************************)
(* ready() does not touch pcb, so the running process stays the same.      *)
(***************************************************************************)
LEMMA ReadyPcb ==
  ASSUME NEW m \in Memory, NEW p \in Slots
  PROVE  ready(m, p).pcb = m.pcb
<1> DEFINE l(last) == linkLast(m, p, last)
<1>1. \A last : l(last).pcb = m.pcb /\ DOMAIN l(last) = DOMAIN m /\ "pcb" \in DOMAIN m
  BY DEF linkLast, Memory
<1> HIDE DEF l
<1>2. CASE m.pid[p] = 0
  BY <1>2 DEF ready, Memory
<1>3. CASE m.pid[p] # 0
  BY <1>1, <1>3 DEF ready, l
<1> QED BY <1>2, <1>3

(***************************************************************************)
(* What create() has set in slot p when it calls ready().                  *)
(***************************************************************************)
Filled(m, p) ==
  [m EXCEPT !.pid = [m.pid EXCEPT ![p] = m.pcb_id],
            !.pcb_id = m.pcb_id + 1,
            !.stack = [m.stack EXCEPT ![p] = TRUE],
            !.frames = [m.frames EXCEPT ![p] = << >>],
            !.priority = [m.priority EXCEPT ![p] = TopPriority],
            !.semNo = [m.semNo EXCEPT ![p] = -1],
            !.sig_mask = [m.sig_mask EXCEPT ![p] = Signals],
            !.sigTable = [m.sigTable EXCEPT ![p] = m.sigTable[p] \cup {KillSignal}]]

IsFilled(m, p, f) ==
  /\ f \in Memory
  /\ f.pid = [m.pid EXCEPT ![p] = m.pcb_id]
  /\ f.pcb_id = m.pcb_id + 1
  /\ f.stack = [m.stack EXCEPT ![p] = TRUE]
  /\ f.frames = [m.frames EXCEPT ![p] = << >>]
  /\ f.priority = [m.priority EXCEPT ![p] = TopPriority]
  /\ f.semNo = [m.semNo EXCEPT ![p] = -1]
  /\ f.state = m.state /\ f.head = m.head /\ f.tail = m.tail
  /\ f.next = m.next /\ f.sem = m.sem /\ f.pcb = m.pcb
  /\ f.dl = m.dl /\ f.wait_head = m.wait_head /\ f.fault = m.fault

\* The assignments of create() in c/create.c, before it calls ready, change
\* the fields that IsFilled lists and no other.
LEMMA FilledEffect ==
  ASSUME NEW m \in Memory, NEW p \in Slots
  PROVE  IsFilled(m, p, Filled(m, p))
<1> DEFINE a == [m.pid EXCEPT ![p] = m.pcb_id]
           b == m.pcb_id + 1
           c == [m.stack EXCEPT ![p] = TRUE]
           d == [m.frames EXCEPT ![p] = << >>]
           e == [m.priority EXCEPT ![p] = TopPriority]
           g == [m.semNo EXCEPT ![p] = -1]
           h == [m.sig_mask EXCEPT ![p] = Signals]
           j == [m.sigTable EXCEPT ![p] = m.sigTable[p] \cup {KillSignal}]
           f == [m EXCEPT !.pid = a, !.pcb_id = b, !.stack = c, !.frames = d,
                          !.priority = e, !.semNo = g, !.sig_mask = h, !.sigTable = j]
<1>1. /\ a \in [Slots -> Nat] /\ b \in Nat /\ c \in [Slots -> BOOLEAN]
      /\ e \in [Slots -> Priorities] /\ g \in [Slots -> Semaphores \cup {-1, 0}]
  BY SMTT(40), Constants DEF Memory
<1>2. /\ h \in [Slots -> SUBSET Signals] /\ j \in [Slots -> SUBSET Signals]
  <2>1. KillSignal \in Signals
    BY PcbAssumption DEF KillSignal, Signals
  <2> QED BY <2>1 DEF Memory
<1>3. d \in [Slots -> Seq([signum : Signals, prevSigShift : Nat])]
  <2> DEFINE T == [signum : Signals, prevSigShift : Nat]
  <2>1. m.frames \in [Slots -> Seq(T)]
    BY DEF Memory
  <2> HIDE DEF T
  <2>2. << >> \in Seq(T)
    OBVIOUS
  <2>3. d \in [Slots -> Seq(T)]
    BY <2>1, <2>2
  <2> QED BY <2>3 DEF T
<1> HIDE DEF a, b, c, d, e, g, h, j
<1>4. f \in Memory
  BY <1>1, <1>2, <1>3 DEF Memory
<1>5. /\ f.pid = a /\ f.pcb_id = b /\ f.stack = c /\ f.frames = d
      /\ f.priority = e /\ f.semNo = g
  BY DEF Memory
<1>6. /\ f.state = m.state /\ f.head = m.head /\ f.tail = m.tail
      /\ f.next = m.next /\ f.sem = m.sem /\ f.pcb = m.pcb
  BY DEF Memory
<1>7. f.dl = m.dl /\ f.wait_head = m.wait_head /\ f.fault = m.fault
  BY DEF Memory
<1>8. Filled(m, p) = f
  BY DEF Filled, a, b, c, d, e, g, h, j
<1> HIDE DEF f
<1> QED BY <1>4, <1>5, <1>6, <1>7, <1>8 DEF IsFilled, a, b, c, d, e, g

\* create() in c/create.c fills a slot that was stopped, and readies it.
LEMMA CreateFills ==
  ASSUME NEW m \in Memory,
         {q \in Slots : m.state[q] = "STOPPED"} # {}
  PROVE  LET p == Least({q \in Slots : m.state[q] = "STOPPED"})
         IN  /\ create(m) = ready(Filled(m, p), p)
             /\ p \in Slots /\ m.state[p] = "STOPPED"
             /\ \A q \in Slots : m.state[q] = "STOPPED" => p <= q
<1> DEFINE free == {q \in Slots : m.state[q] = "STOPPED"}
           p == Least(free)
<1>1. p \in free /\ \A q \in free : p <= q
  <2>1. free \in SUBSET Nat
    BY Constants
  <2> HIDE DEF free
  <2> QED BY <2>1, LeastElement DEF free
<1>2. create(m) = ready(Filled(m, p), p)
  <2>1. create(m) = ready(fill(m, p), p)
    BY DEF create
  <2> HIDE DEF p
  <2>2. fill(m, p) = Filled(m, p)
    BY DEF fill, Filled, Memory
  <2> QED BY <2>1, <2>2
<1> QED BY <1>1, <1>2

(***************************************************************************)
(* create(): a slot that was free gets a pid of its own and becomes ready. *)
(***************************************************************************)
LEMMA CreateCore ==
  ASSUME NEW m, NEW R, Core(m, R, {})
  PROVE  Core(create(m), R, {}) /\ create(m).pcb = m.pcb
<1> DEFINE free == {q \in Slots : m.state[q] = "STOPPED"}
           p == Least(free)
           f == Filled(m, p)
<1>0. /\ m \in Memory /\ R \subseteq Slots
      /\ Placed(m, R, {}) /\ Pids(m) /\ Untouched(m) /\ Queued(m, {})
  BY DEF Core
<1>1. CASE free = {}
  <2>1. create(m) = m
    BY <1>1 DEF create
  <2> QED BY <2>1
<1>2. CASE free # {}
  <2>1. /\ create(m) = ready(f, p)
        /\ p \in Slots /\ m.state[p] = "STOPPED"
    BY <1>0, <1>2, CreateFills
  <2> HIDE DEF p
  <2>2. p # Idle /\ p \notin R
    BY <1>0, <2>1 DEF Placed
  <2>3. IsFilled(m, p, f)
    BY <1>0, <2>1, FilledEffect
  <2> HIDE DEF f
  <2>4. /\ f \in Memory
        /\ f.stack = [m.stack EXCEPT ![p] = TRUE]
        /\ f.priority = [m.priority EXCEPT ![p] = TopPriority]
        /\ f.semNo = [m.semNo EXCEPT ![p] = -1]
    BY <2>3 DEF IsFilled
  <2>5. /\ f.pid = [m.pid EXCEPT ![p] = m.pcb_id]
        /\ f.pcb_id = m.pcb_id + 1
        /\ f.frames = [m.frames EXCEPT ![p] = << >>]
        /\ f.dl = m.dl /\ f.wait_head = m.wait_head /\ f.fault = m.fault
    BY <2>3 DEF IsFilled
  <2>6. /\ f.state = m.state /\ f.head = m.head /\ f.tail = m.tail
        /\ f.next = m.next /\ f.sem = m.sem /\ f.pcb = m.pcb
    BY <2>3 DEF IsFilled
  <2>9. Placed(f, R, {p})
    <3>1. /\ \A q \in Slots \ {p} : f.stack[q] = m.stack[q] /\ f.semNo[q] = m.semNo[q]
          /\ f.stack[p] = TRUE
      BY <1>0, <2>1, <2>4 DEF Memory
    <3> QED BY <1>0, <2>1, <2>2, <2>6, <3>1 DEF Placed
  <2>10. Pids(f)
    <3>1. /\ m.pid \in [Slots -> Nat] /\ m.pcb_id \in Nat /\ Idle \in Slots
          /\ m.stack \in [Slots -> BOOLEAN]
      BY <1>0, Constants DEF Memory
    <3>2. m.pid[Idle] = 0 /\ \A q \in Slots : m.pid[q] < m.pcb_id
      BY <1>0 DEF Pids
    <3>3. m.pcb_id # 0
      BY <3>1, <3>2
    <3>4. ASSUME NEW q \in Slots \ {Idle}, f.stack[q]
          PROVE  f.pid[q] # 0 /\ \A r \in Slots \ {q} : f.pid[r] # f.pid[q]
      <4>1. CASE q = p
        <5>1. f.pid[p] = m.pcb_id /\ \A r \in Slots \ {p} : f.pid[r] = m.pid[r]
          BY <2>1, <2>5, <3>1
        <5>2. \A r \in Slots : m.pid[r] < m.pcb_id /\ m.pid[r] \in Nat /\ m.pcb_id \in Nat
          BY <3>1, <3>2
        <5> QED BY <3>3, <4>1, <5>1, <5>2
      <4>2. CASE q # p
        <5>1. m.stack[q]
          BY <3>1, <2>1, <2>4, <3>4, <4>2
        <5> QED BY <1>0, <2>1, <2>5, <3>1, <3>2, <4>2, <5>1 DEF Pids
      <4> QED BY <4>1, <4>2
    <3>5. ASSUME NEW q \in Slots PROVE f.pid[q] < f.pcb_id
      <4>1. f.pid[q] = (IF q = p THEN m.pcb_id ELSE m.pid[q]) /\ f.pcb_id = m.pcb_id + 1
        BY <2>1, <2>5, <3>1
      <4>2. m.pid[q] < m.pcb_id /\ m.pid[q] \in Nat /\ m.pcb_id \in Nat
        BY <3>1, <3>2
      <4> QED BY <4>1, <4>2
    <3> QED BY <2>1, <2>2, <2>5, <3>1, <3>2, <3>4, <3>5 DEF Pids
  <2>11. Untouched(f)
    BY <1>0, <2>1, <2>5 DEF Untouched, Memory
  <2>12. Queued(f, {p})
    <3>1. \A j \in Priorities : InReady(f, {p}, j) = InReady(m, {}, j)
      BY <1>0, <2>1, <2>4, <2>6 DEF InReady, Memory
    <3>2. \A s \in Semaphores, j \in Priorities : InSem(f, {p}, s, j) = InSem(m, {}, s, j)
      <4>1. \A q \in Slots : q # p => f.semNo[q] = m.semNo[q] /\ f.priority[q] = m.priority[q]
        BY <1>0, <2>1, <2>4 DEF Memory
      <4>2. m.state[p] # "BLOCKED" /\ f.state = m.state
        BY <2>1, <2>6
      <4> QED BY <4>1, <4>2 DEF InSem
    <3>3. SameQueues(m, {}, f, {p})
      BY <2>6, <3>1, <3>2 DEF SameQueues
    <3> QED BY <1>0, <3>3, QueuedFrame
  <2>13. Core(f, R, {p})
    BY <1>0, <2>1, <2>2, <2>4, <2>9, <2>10, <2>11, <2>12 DEF Core
  <2>14. Core(ready(f, p), R \ {p}, {p} \ {p})
    <3> DEFINE X == {p}
    <3>1. p \in R \cup X /\ Core(f, R, X)
      BY <2>13
    <3> HIDE DEF X
    <3>2. Core(ready(f, p), R \ {p}, X \ {p})
      BY <3>1, ReadyCore
    <3> QED BY <3>2 DEF X
  <2>15. R \ {p} = R /\ {p} \ {p} = {}
    BY <2>2
  <2>16. ready(f, p).pcb = m.pcb
    BY <2>1, <2>4, <2>6, ReadyPcb
  <2> QED BY <2>1, <2>14, <2>15, <2>16
<1> QED BY <1>1, <1>2

(***************************************************************************)
(* Boot: the first create() makes the idle process, which is ready without *)
(* being in a queue.                                                       *)
(***************************************************************************)
Booted(m) ==
  /\ \A q \in Slots \ {Idle} : m.state[q] = "STOPPED"
  /\ \A j \in Priorities : m.head[j] = NULL
  /\ \A s \in Semaphores :
       m.sem[s].value = 0 /\ \A j \in Priorities : m.sem[s].head[j] = NULL

LEMMA BootCore == LET c == create(BootMemory) IN Core(c, {}, {}) /\ Booted(c)
<1> DEFINE B == BootMemory
           f == Filled(B, Idle)
           c == create(B)
<1>1. B \in Memory
  <2> DEFINE T == [signum : Signals, prevSigShift : Nat]
             none == [j \in Priorities |-> NULL]
             noFrames == [q \in Slots |-> << >>]
             sems == [s \in Semaphores |-> [value |-> 0, head |-> none, tail |-> none]]
             null == [q \in Slots |-> NULL]
             stopped == [q \in Slots |-> "STOPPED"]
             zero == [q \in Slots |-> 0]
             false == [q \in Slots |-> FALSE]
             empty == [q \in Slots |-> {}]
  <2>1. noFrames \in [Slots -> Seq(T)]
    <3> HIDE DEF T
    <3> QED OBVIOUS
  <2>2. none \in Queues
    BY DEF Queues, Pointers
  <2>3. sems \in [Semaphores -> [value : Nat, head : Queues, tail : Queues]]
    <3> HIDE DEF none
    <3> QED BY <2>2
  <2>4. /\ null \in [Slots -> Pointers] /\ NULL \in Pointers
        /\ stopped \in [Slots -> States]
        /\ false \in [Slots -> BOOLEAN]
        /\ empty \in [Slots -> SUBSET Signals]
    BY DEF Pointers, States
  <2>5. /\ zero \in [Slots -> Nat] /\ zero \in [Slots -> Priorities]
        /\ zero \in [Slots -> Semaphores \cup {-1, 0}]
        /\ zero \in [Slots -> 0 .. UINT_MAX]
    BY PcbAssumption, SleepAssumption DEF Priorities
  <2>6. B = [ pcb_id |-> 0, pcb |-> NULL, head |-> none, tail |-> none, pid |-> zero,
              state |-> stopped, priority |-> zero, next |-> null, prev |-> null,
              stack |-> false, semNo |-> zero, sem |-> sems, dl |-> NULL,
              tick |-> zero, wait_head |-> null, wait_tail |-> null,
              waiting_on |-> null, sig_mask |-> empty, sig_ignored |-> empty,
              sigTable |-> empty, frames |-> noFrames, fault |-> "none" ]
    BY DEF BootMemory
  <2> HIDE DEF none, noFrames, sems, null, stopped, zero, false, empty, B
  <2> QED BY <2>1, <2>2, <2>3, <2>4, <2>5, <2>6 DEF Memory
<1>2. /\ B.state = [q \in Slots |-> "STOPPED"] /\ B.stack = [q \in Slots |-> FALSE]
      /\ B.pid = [q \in Slots |-> 0] /\ B.pcb_id = 0
      /\ B.semNo = [q \in Slots |-> 0]
      /\ B.frames = [q \in Slots |-> << >>]
  BY DEF BootMemory
<1>3. /\ B.dl = NULL /\ B.wait_head = [q \in Slots |-> NULL] /\ B.fault = "none"
      /\ B.head = [j \in Priorities |-> NULL]
      /\ \A s \in Semaphores, j \in Priorities : B.sem[s].head[j] = NULL
      /\ \A s \in Semaphores : B.sem[s].value = 0
  BY DEF BootMemory
<1> HIDE DEF B
<1>4. c = ready(f, Idle)
  <2> DEFINE free == {q \in Slots : B.state[q] = "STOPPED"}
             p == Least(free)
  <2>1. free # {}
    BY <1>2, Constants
  <2>2. c = ready(Filled(B, p), p) /\ p \in Slots /\ \A q \in Slots : p <= q
    <3>1. /\ c = ready(Filled(B, p), p) /\ p \in Slots
          /\ \A q \in Slots : B.state[q] = "STOPPED" => p <= q
      BY <1>1, <2>1, CreateFills DEF c
    <3> HIDE DEF p
    <3> QED BY <1>2, <3>1
  <2> HIDE DEF p
  <2>3. p = Idle
    BY <2>2, Constants DEF Idle, Slots
  <2> QED BY <2>2, <2>3
<1> HIDE DEF c, f
<1>5. IsFilled(B, Idle, f)
  BY <1>1, Constants, FilledEffect DEF f
<1>6. /\ f \in Memory /\ f.state = B.state /\ f.head = B.head /\ f.sem = B.sem
      /\ f.pid[Idle] = 0
  BY <1>2, <1>5, Constants DEF IsFilled
<1>7. /\ \A q \in Slots : /\ f.stack[q] <=> q = Idle
                          /\ f.pid[q] = 0
                          /\ f.frames[q] = << >>
      /\ f.pcb_id = 1
  <2>1. /\ f.stack = [B.stack EXCEPT ![Idle] = TRUE] /\ f.pid = [B.pid EXCEPT ![Idle] = B.pcb_id]
        /\ f.frames = [B.frames EXCEPT ![Idle] = << >>] /\ f.pcb_id = B.pcb_id + 1
    BY <1>5 DEF IsFilled
  <2>2. \A q \in Slots : f.stack[q] <=> q = Idle
    BY <1>2, <2>1, Constants
  <2> QED BY SMTT(40), <1>2, <2>1, <2>2, Constants
<1>8. f.dl = NULL /\ f.wait_head = [q \in Slots |-> NULL] /\ f.fault = "none"
  BY <1>3, <1>5 DEF IsFilled
<1>9. c = [f EXCEPT !.state = [f.state EXCEPT ![Idle] = "READY"]]
  BY <1>4, <1>6 DEF ready, Memory
<1>10. /\ c \in Memory
       /\ c.state = [f.state EXCEPT ![Idle] = "READY"]
       /\ c.head = f.head /\ c.sem = f.sem /\ c.stack = f.stack
  BY ZenonT(60), <1>6, <1>9, Constants DEF Memory, States
<1>11. /\ c.pid = f.pid /\ c.pcb_id = f.pcb_id /\ c.frames = f.frames
       /\ c.dl = f.dl /\ c.wait_head = f.wait_head /\ c.fault = f.fault
  BY <1>6, <1>9 DEF Memory
<1>12. c.state = [q \in Slots |-> IF q = Idle THEN "READY" ELSE "STOPPED"]
  BY <1>2, <1>6, <1>10
<1>13. Placed(c, {}, {})
  <2>1. \A q \in Slots : /\ c.stack[q] <=> q = Idle
                         /\ q = Idle => c.state[q] = "READY"
                         /\ q # Idle => c.state[q] = "STOPPED"
    BY <1>7, <1>10, <1>12
  <2> QED BY <2>1, Constants DEF Placed
<1>14. Pids(c) /\ Untouched(c)
  <2>1. \A q \in Slots : c.stack[q] <=> q = Idle
    BY <1>7, <1>10
  <2> QED BY <1>7, <1>8, <1>11, <2>1, Constants DEF Pids, Untouched
<1>15. Queued(c, {})
  <2> DEFINE rank == [q \in Slots |-> 0]
  <2>1. \A j \in Priorities : InReady(c, {}, j) = {} /\ c.head[j] = NULL
    BY <1>3, <1>6, <1>10, <1>12 DEF InReady
  <2>2. \A s \in Semaphores, j \in Priorities :
          InSem(c, {}, s, j) = {} /\ c.sem[s].head[j] = NULL
    BY <1>3, <1>6, <1>10, <1>12 DEF InSem
  <2>3. rank \in [Slots -> Nat]
    OBVIOUS
  <2> HIDE DEF rank
  <2> QED BY <2>1, <2>2, <2>3 DEF Queued, Ranked, IsQueue
<1>16. Booted(c)
  BY <1>3, <1>6, <1>10, <1>12 DEF Booted
<1> QED BY <1>10, <1>13, <1>14, <1>15, <1>16 DEF Core, c, B
-----------------------------------------------------------------------------
(***************************************************************************)
(* A running process gives up the processor and next() picks another:      *)
(* SYS_YIELD and TIMER_INT.                                                *)
(***************************************************************************)
LEMMA PreemptCore ==
  ASSUME NEW m, NEW p, Core(m, {p}, {})
  PROVE  LET n == next(ready(m, p)) IN Core(n, {n.pcb}, {})
<1> DEFINE R == {p}
           X == {}
<1>1. p \in R \cup X /\ Core(m, R, X) /\ R \ {p} = {} /\ X \ {p} = {}
  OBVIOUS
<1> HIDE DEF R, X
<1>2. Core(ready(m, p), R \ {p}, X \ {p})
  BY <1>1, ReadyCore
<1>3. Core(ready(m, p), {}, {})
  BY <1>1, <1>2
<1> QED BY <1>3, NextCore

\* The invariant holds when the first process is about to run.
LEMMA InitInv == Init => IInv
<1>1. Core(create(create(BootMemory)), {}, {})
  BY BootCore, CreateCore
<1>2. LET n == next(create(create(BootMemory))) IN Core(n, {n.pcb}, {})
  BY <1>1, NextCore
<1> QED BY <1>2 DEF Init, IInv

(***************************************************************************)
(* What the invariant says of the running process.                         *)
(***************************************************************************)
LEMMA RunningProcess ==
  ASSUME IInv
  PROVE  /\ k \in Memory /\ k.pcb \in Slots /\ k.state[k.pcb] = "RUNNING"
         /\ k.dl = NULL /\ k.wait_head[k.pcb] = NULL
         /\ ~ Killed(k.pcb)
         /\ k.pid[k.pcb] # 0 => k.pcb # Idle
<1> DEFINE R == {k.pcb}
<1>1. Core(k, R, {})
  BY DEF IInv
<1>2. /\ k \in Memory /\ R \subseteq Slots /\ Placed(k, R, {})
      /\ Pids(k) /\ Untouched(k)
  BY <1>1 DEF Core
<1>3. k.pcb \in Slots
  BY <1>2
<1>4. k.state[k.pcb] = "RUNNING"
  BY <1>2, <1>3 DEF Placed
<1>5. k.dl = NULL /\ k.wait_head[k.pcb] = NULL /\ k.frames[k.pcb] = << >>
  BY <1>2, <1>3 DEF Untouched
<1>6. k.pid[Idle] = 0
  BY <1>2 DEF Pids
<1> QED BY <1>2, <1>3, <1>4, <1>5, <1>6 DEF Killed

(***************************************************************************)
(* Every step of a workload without sleeping, waiting and signals keeps    *)
(* the invariant.                                                          *)
(***************************************************************************)
LEMMA StepInv ==
  ASSUME Calls \subseteq SchedulerCalls, IInv, Next
  PROVE  IInv'
<1> DEFINE R == {k.pcb}
<1>0. /\ k \in Memory /\ k.pcb \in Slots /\ k.pcb \in R /\ R \ {k.pcb} = {}
      /\ k.state[k.pcb] = "RUNNING"
      /\ k.dl = NULL /\ k.wait_head[k.pcb] = NULL
      /\ ~ Killed(k.pcb)
      /\ k.pid[k.pcb] # 0 => k.pcb # Idle
      /\ Core(k, R, {})
  BY RunningProcess DEF IInv
<1>1. CASE Create
  <2> HIDE DEF R
  <2>1. Core(create(k), R, {}) /\ create(k).pcb = k.pcb
    BY <1>0, CreateCore
  <2>2. k' = create(k)
    BY <1>1 DEF Create
  <2> QED BY <2>1, <2>2 DEF IInv, R
<1>2. CASE Yield
  <2>1. LET n == next(ready(k, k.pcb)) IN Core(n, {n.pcb}, {})
    BY <1>0, PreemptCore
  <2> QED BY <1>2, <2>1 DEF Yield, IInv
<1>3. CASE Stop
  <2>1. k.pid[k.pcb] # 0
    BY <1>0, <1>3 DEF Stop, UserCall
  <2>2. restoreToReadyQueue(k, k.pcb) = k
    BY <1>0 DEF restoreToReadyQueue
  <2> HIDE DEF R
  <2>3. Core(cleanup(k, k.pcb), R \ {k.pcb}, {})
    BY <1>0, <2>1, CleanupCore
  <2>4. Core(cleanup(k, k.pcb), {}, {})
    BY <1>0, <2>3
  <2>5. LET n == next(cleanup(k, k.pcb)) IN Core(n, {n.pcb}, {})
    BY <2>4, NextCore
  <2> QED BY <1>3, <2>2, <2>5 DEF Stop, IInv
<1>4. CASE SetPrio
  <2>1. PICK i \in Priorities : k' = [k EXCEPT !.priority[k.pcb] = i]
    BY <1>4 DEF SetPrio
  <2> HIDE DEF R
  <2>2. Core(k', R, {})
    BY <1>0, <2>1, SetPrioCore
  <2>3. k'.pcb = k.pcb
    BY <1>0, <2>1 DEF Memory
  <2> QED BY <2>2, <2>3 DEF IInv, R
<1>5. ASSUME NEW s \in Semaphores, P(s)
      PROVE  IInv'
  <2>1. k.pid[k.pcb] # 0
    BY <1>5 DEF P, UserCall
  <2>2. k.sem[s].value \in Nat
    BY <1>0 DEF Memory
  <2>3. CASE k.sem[s].value = 0
    <3> DEFINE b == [blockProcess(k, s, k.pcb) EXCEPT !.semNo[k.pcb] = s]
    <3> HIDE DEF R
    <3>1. Core(b, R \ {k.pcb}, {}) /\ b.state[k.pcb] = "BLOCKED"
      BY <1>0, <2>1, BlockCore
    <3>2. k' = next(b)
      <4>1. P_kern(k, s, k.pcb) = b
        BY <2>3 DEF P_kern
      <4> HIDE DEF b
      <4> QED BY <1>5, <3>1, <4>1 DEF P
    <3> HIDE DEF b
    <3>3. Core(b, {}, {})
      BY <1>0, <3>1
    <3>4. LET n == next(b) IN Core(n, {n.pcb}, {})
      BY <3>3, NextCore
    <3> QED BY <3>2, <3>4 DEF IInv
  <2>4. CASE k.sem[s].value # 0
    <3> DEFINE v == k.sem[s].value - 1
               d == [k EXCEPT !.sem[s].value = v]
    <3>1. P_kern(k, s, k.pcb) = d /\ v \in Nat
      BY <2>2, <2>4 DEF P_kern
    <3>2. d.state = k.state /\ d.pcb = k.pcb
      BY <1>0 DEF Memory
    <3> HIDE DEF R, v
    <3>3. Core(d, R, {})
      BY <1>0, <3>1, ValueCore
    <3> HIDE DEF d
    <3>4. k' = d
      BY <1>0, <1>5, <3>1, <3>2 DEF P
    <3> QED BY <3>2, <3>3, <3>4 DEF IInv, R
  <2> QED BY <2>3, <2>4
<1>6. ASSUME NEW s \in Semaphores, V(s)
      PROVE  IInv'
  <2> DEFINE waiting == {j \in Priorities : k.sem[s].head[j] # NULL}
             i == Greatest(waiting)
             p == k.sem[s].head[i]
  <2>1. CASE waiting = {}
    <3> DEFINE v == k.sem[s].value + 1
               d == [k EXCEPT !.sem[s].value = v]
    <3>1. v \in Nat
      <4>1. k.sem[s].value \in Nat
        BY <1>0 DEF Memory
      <4> QED BY <4>1
    <3>2. d.pcb = k.pcb
      BY <1>0 DEF Memory
    <3>3. k' = d
      BY <1>6, <2>1 DEF V, V_kern
    <3> HIDE DEF R, v
    <3>4. Core(d, R, {})
      BY <1>0, <3>1, ValueCore
    <3> HIDE DEF d
    <3> QED BY <3>2, <3>3, <3>4 DEF IInv, R
  <2>2. CASE waiting # {}
    <3> DEFINE d == [k EXCEPT !.sem[s].head[i] = k.next[p]]
    <3>1. i \in waiting
      <4>1. waiting \in SUBSET (0 .. PQ_SIZE - 1) /\ PQ_SIZE - 1 \in Nat
        BY PcbAssumption DEF Priorities
      <4> HIDE DEF waiting
      <4> QED BY <2>2, <4>1, GreatestElement
    <3>2. k' = ready(d, p)
      BY <1>6, <2>2 DEF V, V_kern
    <3> HIDE DEF i, R
    <3>3. i \in Priorities /\ k.sem[s].head[i] # NULL
      BY <3>1
    <3>4. p \in Slots /\ Core(d, R, {p})
      BY <1>0, <3>3, UnblockCore
    <3>5. d.pcb = k.pcb
      BY <1>0 DEF Memory
    <3> HIDE DEF p, d
    <3> DEFINE X == {p}
    <3>6. p \in R \cup X /\ Core(d, R, X) /\ X \ {p} = {}
      BY <3>4
    <3> HIDE DEF X
    <3>7. Core(ready(d, p), R \ {p}, X \ {p})
      BY <3>6, ReadyCore
    <3>8. p \notin R /\ d \in Memory
      BY <3>4 DEF Core, Placed
    <3>9. Core(k', R, {})
      BY <3>2, <3>6, <3>7, <3>8
    <3>10. k'.pcb = k.pcb
      BY <3>2, <3>4, <3>5, <3>8, ReadyPcb
    <3> QED BY <3>9, <3>10 DEF IInv, R
  <2> QED BY <2>1, <2>2
<1>7. CASE TimerInt
  <2>1. tick(k) = k
    BY <1>0 DEF tick
  <2>2. LET n == next(ready(k, k.pcb)) IN Core(n, {n.pcb}, {})
    BY <1>0, PreemptCore
  <2> QED BY <1>7, <2>1, <2>2 DEF TimerInt, IInv
<1>8. ~ \E ms \in Millis : SysSleep(ms)
  BY DEF SysSleep, UserCall, SchedulerCalls
<1>9. ~ \E id \in 0 .. MaxPid : Wait(id)
  BY DEF Wait, UserCall, SchedulerCalls
<1>10. ~ \E id \in 0 .. MaxPid, s \in Signals : Kill(id, s)
  BY DEF Kill, UserCall, SchedulerCalls
<1>11. ~ (\E s \in Signals, handler \in BOOLEAN : SetSignal(s, handler)) /\ ~ SigReturn
  BY DEF SetSignal, SigReturn, UserCall, SchedulerCalls
<1> QED BY <1>1, <1>2, <1>3, <1>4, <1>5, <1>6, <1>7, <1>8, <1>9, <1>10, <1>11
        DEF Next, OtherCall, OwnCall
-----------------------------------------------------------------------------
(***************************************************************************)
(* The scheduler keeps every process in the place its state names: a free  *)
(* slot, the processor, the ready queue of its priority or the list of the *)
(* semaphore it waits for, all of them well linked, whatever the processes *)
(* do with create, yield, stop, setprio, P and V and whenever the timer    *)
(* interrupts them.                                                        *)
(***************************************************************************)
THEOREM SchedulerInvariant ==
  ASSUME Calls \subseteq SchedulerCalls
  PROVE  Spec => []IInv
<1>1. IInv /\ UNCHANGED k => IInv'
  BY DEF IInv
<1>2. IInv /\ [Next]_k => IInv'
  BY StepInv, <1>1
<1> QED BY InitInv, <1>2, PTL DEF Spec

(***************************************************************************)
(* Every variable of the kernel keeps its type, and the pcb that           *)
(* contextswitch resumes is a slot of pcbTable.                            *)
(***************************************************************************)
THEOREM SchedulerTypes ==
  ASSUME Calls \subseteq SchedulerCalls
  PROVE  Spec => []TypeOK
<1>1. IInv => TypeOK
  BY RunningProcess DEF TypeOK
<1> QED BY SchedulerInvariant, <1>1, PTL

(***************************************************************************)
(* The processor belongs to one process, the one contextswitch resumes; a  *)
(* process owns a stack as long as it lives; no queue operation follows a  *)
(* null pointer.                                                           *)
(***************************************************************************)
THEOREM SchedulerResumesOwner ==
  ASSUME Calls \subseteq SchedulerCalls
  PROVE  Spec => []ResumesOwner
<1>1. ASSUME IInv PROVE ResumesOwner
  <2> DEFINE R == {k.pcb}
  <2>1. /\ Placed(k, R, {}) /\ Untouched(k) /\ R \subseteq Slots
    BY <1>1 DEF IInv, Core
  <2>2. k.fault = "none"
    BY <2>1 DEF Untouched
  <2>3. \A p \in Slots : p \in R <=> k.state[p] = "RUNNING"
    BY <2>1 DEF Placed
  <2>4. {p \in Slots : k.state[p] = "RUNNING"} = R
    BY <2>1, <2>3
  <2>5. \A p \in Slots : k.stack[p] <=> k.state[p] # "STOPPED"
    BY <2>1 DEF Placed
  <2> QED BY <2>2, <2>4, <2>5 DEF ResumesOwner
<1> QED BY SchedulerInvariant, <1>1, PTL

(***************************************************************************)
(* A pid never leads to a slot other than its live owner's, though slots   *)
(* are reused and stopped ones keep the pid they had.                      *)
(***************************************************************************)
THEOREM SchedulerPidFindsOwner ==
  ASSUME Calls \subseteq SchedulerCalls
  PROVE  Spec => []PidFindsOwner
<1>1. ASSUME IInv PROVE PidFindsOwner
  <2> DEFINE R == {k.pcb}
  <2>1. k \in Memory /\ Placed(k, R, {}) /\ Pids(k)
    BY <1>1 DEF IInv, Core
  <2> SUFFICES ASSUME NEW p \in Slots, k.state[p] # "STOPPED"
               PROVE  getPCB(k, k.pid[p]) = p
    BY DEF PidFindsOwner
  <2> DEFINE found == {q \in Slots : k.pid[q] = k.pid[p]}
  <2>2. k.stack[p]
    BY <2>1 DEF Placed
  <2>3. p \in found
    OBVIOUS
  <2>4. Least(found) \in found /\ \A q \in found : Least(found) <= q
    <3>1. found \in SUBSET Nat
      BY Constants
    <3> HIDE DEF found
    <3> QED BY <2>3, <3>1, LeastElement
  <2>5. Least(found) = p
    <3> DEFINE l == Least(found)
    <3>1. l \in Slots /\ k.pid[l] = k.pid[p] /\ l <= p
      BY <2>3, <2>4
    <3> HIDE DEF l, found
    <3>2. p = Idle => l = p
      BY <3>1 DEF Idle, Slots
    <3>3. p # Idle => l = p
      BY <2>1, <2>2, <3>1 DEF Pids
    <3> QED BY <3>2, <3>3 DEF l
  <2>6. getPCB(k, k.pid[p]) = Least(found)
    BY <2>3 DEF getPCB
  <2> QED BY <2>5, <2>6
<1> QED BY SchedulerInvariant, <1>1, PTL

(***************************************************************************)
(* The assertions that next() and unblockProcess() make of the process at  *)
(* the head of a queue never fail: a ready queue is headed by a ready      *)
(* process, a list of a semaphore by a blocked one.                        *)
(***************************************************************************)
THEOREM SchedulerAssertions ==
  ASSUME Calls \subseteq SchedulerCalls
  PROVE  Spec => [](NextAssertion /\ UnblockAssertion)
<1>1. ASSUME IInv PROVE NextAssertion /\ UnblockAssertion
  <2>1. PICK rank \in [Slots -> Nat] : Ranked(k, {}, rank)
    BY <1>1 DEF IInv, Core, Queued
  <2>2. \A i \in Priorities : k.head[i] # NULL => k.head[i] \in InReady(k, {}, i)
    BY <2>1 DEF Ranked, IsQueue
  <2>3. \A s \in Semaphores, i \in Priorities :
          k.sem[s].head[i] # NULL => k.sem[s].head[i] \in InSem(k, {}, s, i)
    BY <2>1 DEF Ranked, IsQueue
  <2> QED BY <2>2, <2>3 DEF NextAssertion, UnblockAssertion, InReady, InSem
<1> QED BY SchedulerInvariant, <1>1, PTL
=============================================================================
