--------------------------- MODULE SchedulerProofs ---------------------------
(***************************************************************************)
(* That the linked lists of the kernel implement the queues of             *)
(* PriorityScheduler, for any number of slots, priorities and semaphores,  *)
(* in the workload of KernelProofs.  Its invariant says that every queue   *)
(* is well linked; a lemma for each function of the kernel says here what  *)
(* the function does to the lists that Chain reads off the queues, and     *)
(* each step of the kernel is then a step of the abstract scheduler.       *)
(***************************************************************************)
EXTENDS KernelProofs, Scheduling

Lists(link, heads) == [i \in Priorities |-> Chain(link, heads[i])]

ReadyLists(m) == Lists(m.next, m.head)
SemLists(m) == [s \in Semaphores |-> Lists(m.next, m.sem[s].head)]
Values(m) == [s \in Semaphores |-> m.sem[s].value]

\* The types of what a queue is made of.
LEMMA QueueTypes ==
  ASSUME NEW m \in Memory
  PROVE  /\ m.next \in [Slots -> Pointers]
         /\ \A i \in Priorities : m.head[i] \in Pointers /\ m.tail[i] \in Pointers
         /\ \A s \in Semaphores, i \in Priorities :
              m.sem[s].head[i] \in Pointers /\ m.sem[s].tail[i] \in Pointers
         /\ \A s \in Semaphores : m.sem[s].value \in Nat
BY DEF Memory, Queues

\* Links outside the ready queue of priority i leave its list alone.
LEMMA ReadyFrame ==
  ASSUME NEW m \in Memory, NEW X, Queued(m, X), NEW i \in Priorities,
         NEW link \in [Slots -> Pointers],
         \A q \in InReady(m, X, i) : link[q] = m.next[q]
  PROVE  Chain(link, m.head[i]) = Chain(m.next, m.head[i])
<1>1. PICK rank \in [Slots -> Nat] :
        IsQueue(InReady(m, X, i), m.head[i], m.tail[i], m.next, rank)
  BY DEF Queued, Ranked
<1>2. InReady(m, X, i) \in SUBSET Slots
  BY DEF InReady
<1>3. m.head[i] \in Pointers /\ m.next \in [Slots -> Pointers]
  BY QueueTypes
<1> QED BY <1>1, <1>2, <1>3, ChainFrame

\* Nor do links outside a list of a semaphore change that list.
LEMMA SemFrame ==
  ASSUME NEW m \in Memory, NEW X, Queued(m, X), NEW s \in Semaphores, NEW i \in Priorities,
         NEW link \in [Slots -> Pointers],
         \A q \in InSem(m, X, s, i) : link[q] = m.next[q]
  PROVE  Chain(link, m.sem[s].head[i]) = Chain(m.next, m.sem[s].head[i])
<1>1. PICK rank \in [Slots -> Nat] :
        IsQueue(InSem(m, X, s, i), m.sem[s].head[i], m.sem[s].tail[i], m.next, rank)
  BY DEF Queued, Ranked
<1>2. InSem(m, X, s, i) \in SUBSET Slots
  BY DEF InSem
<1>3. m.sem[s].head[i] \in Pointers /\ m.next \in [Slots -> Pointers]
  BY QueueTypes
<1> QED BY <1>1, <1>2, <1>3, ChainFrame

(***************************************************************************)
(* A step that moves no head and leaves the links of the queued processes  *)
(* leaves all lists.                                                       *)
(***************************************************************************)
SameLists(m, n) == ReadyLists(n) = ReadyLists(m) /\ SemLists(n) = SemLists(m)

SameLinks(m, X, n) ==
  /\ n.head = m.head
  /\ \A s \in Semaphores : n.sem[s].head = m.sem[s].head
  /\ \A p \in Slots \ ({Idle} \cup X) :
       m.state[p] \in {"READY", "BLOCKED"} => n.next[p] = m.next[p]

LEMMA ListsFrame ==
  ASSUME NEW m \in Memory, NEW X, Queued(m, X), NEW n \in Memory, SameLinks(m, X, n)
  PROVE  SameLists(m, n)
<1>0. /\ n.head = m.head
      /\ \A s \in Semaphores : n.sem[s].head = m.sem[s].head
      /\ \A p \in Slots \ ({Idle} \cup X) :
           m.state[p] \in {"READY", "BLOCKED"} => n.next[p] = m.next[p]
  BY DEF SameLinks
<1>1. n.next \in [Slots -> Pointers]
  BY QueueTypes
<1>2. ASSUME NEW i \in Priorities PROVE Chain(n.next, n.head[i]) = Chain(m.next, m.head[i])
  <2>1. \A q \in InReady(m, X, i) : n.next[q] = m.next[q]
    BY <1>0 DEF InReady
  <2>2. Chain(n.next, m.head[i]) = Chain(m.next, m.head[i])
    BY <1>1, <2>1, ReadyFrame
  <2> QED BY <1>0, <2>2
<1>3. ASSUME NEW s \in Semaphores, NEW i \in Priorities
      PROVE  Chain(n.next, n.sem[s].head[i]) = Chain(m.next, m.sem[s].head[i])
  <2>1. \A q \in InSem(m, X, s, i) : n.next[q] = m.next[q]
    BY <1>0 DEF InSem
  <2>2. Chain(n.next, m.sem[s].head[i]) = Chain(m.next, m.sem[s].head[i])
    BY <1>1, <2>1, SemFrame
  <2> QED BY <1>0, <2>2
<1>4. ReadyLists(n) = ReadyLists(m)
  BY <1>2 DEF ReadyLists, Lists
<1>5. ASSUME NEW s \in Semaphores
      PROVE  Lists(n.next, n.sem[s].head) = Lists(m.next, m.sem[s].head)
  BY <1>3 DEF Lists
<1>6. SemLists(n) = SemLists(m)
  BY <1>5 DEF SemLists
<1> QED BY <1>4, <1>6 DEF SameLists

\* A list is empty when its head is null, and begins with its head otherwise.
LEMMA ChainBegins ==
  ASSUME NEW link \in [Slots -> Pointers], NEW h \in Pointers
  PROVE  /\ Chain(link, h) = << >> <=> h = NULL
         /\ h # NULL => Head(Chain(link, h)) = h
         /\ Chain(link, h) \in Seq(Slots)
<1>1. Walked(Chain(link, h), PCB_TABLE_SIZE, link, h)
  BY ChainIsWalked
<1> QED BY <1>1 DEF Walked

\* The list of each ready queue of a memory, and its first process.
LEMMA ReadyBegins ==
  ASSUME NEW m \in Memory, NEW i \in Priorities
  PROVE  /\ ReadyLists(m)[i] = Chain(m.next, m.head[i])
         /\ ReadyLists(m)[i] = << >> <=> m.head[i] = NULL
         /\ m.head[i] # NULL => Head(ReadyLists(m)[i]) = m.head[i]
         /\ ReadyLists(m)[i] \in Seq(Slots)
<1>1. ReadyLists(m)[i] = Chain(m.next, m.head[i])
  BY DEF ReadyLists, Lists
<1>2. m.next \in [Slots -> Pointers] /\ m.head[i] \in Pointers
  BY QueueTypes
<1> QED BY <1>1, <1>2, ChainBegins

LEMMA SemBegins ==
  ASSUME NEW m \in Memory, NEW s \in Semaphores, NEW i \in Priorities
  PROVE  /\ SemLists(m)[s][i] = Chain(m.next, m.sem[s].head[i])
         /\ SemLists(m)[s][i] = << >> <=> m.sem[s].head[i] = NULL
         /\ m.sem[s].head[i] # NULL => Head(SemLists(m)[s][i]) = m.sem[s].head[i]
         /\ SemLists(m)[s][i] \in Seq(Slots)
<1>1. SemLists(m)[s][i] = Chain(m.next, m.sem[s].head[i])
  BY DEF SemLists, Lists
<1>2. m.next \in [Slots -> Pointers] /\ m.sem[s].head[i] \in Pointers
  BY QueueTypes
<1> QED BY <1>1, <1>2, ChainBegins
-----------------------------------------------------------------------------
(***************************************************************************)
(* ready(): p, which is in no queue, goes to the end of the list of its    *)
(* priority.                                                               *)
(***************************************************************************)
Unqueued(m, X, p) == p \in X \cup {Idle} \/ m.state[p] \notin {"READY", "BLOCKED"}

JoinsReady(m, r, p) ==
  /\ ReadyLists(r) = [ReadyLists(m) EXCEPT ![m.priority[p]] = Append(@, p)]
  /\ SemLists(r) = SemLists(m)
  /\ Values(r) = Values(m)
  /\ r.priority = m.priority

LEMMA ReadyJoins ==
  ASSUME NEW m \in Memory, NEW X, Queued(m, X), NEW p \in Slots, Unqueued(m, X, p),
         NEW r, IsReadied(m, p, r)
  PROVE  JoinsReady(m, r, p)
<1> DEFINE i == m.priority[p]
           S == InReady(m, X, i)
<1>1. PICK rank \in [Slots -> Nat] : Ranked(m, X, rank)
  BY DEF Queued
<1>2. /\ i \in Priorities
      /\ m.next \in [Slots -> Pointers] /\ r.next \in [Slots -> Pointers]
      /\ r \in Memory /\ r.priority = m.priority /\ r.sem = m.sem
  <2>1. r \in Memory /\ r.priority = m.priority /\ r.sem = m.sem
    BY DEF IsReadied
  <2>2. m.priority \in [Slots -> Priorities]
    BY DEF Memory
  <2> QED BY <2>1, <2>2, QueueTypes
<1>3. /\ IsQueue(S, m.head[i], m.tail[i], m.next, rank)
      /\ m.head[i] # NULL => m.tail[i] \in S
      /\ S \subseteq Slots /\ p \notin S
  <2>1. IsQueue(S, m.head[i], m.tail[i], m.next, rank)
    BY <1>1, <1>2 DEF Ranked
  <2>2. S \subseteq Slots /\ p \notin S
    BY DEF InReady, Unqueued
  <2> QED BY <2>1, <2>2 DEF IsQueue
<1>4. r.next = IF m.head[i] = NULL THEN [m.next EXCEPT ![p] = NULL]
               ELSE [m.next EXCEPT ![p] = NULL, ![m.tail[i]] = p]
  BY DEF IsReadied
<1>5. /\ r.next[p] = NULL
      /\ m.head[i] # NULL => r.next[m.tail[i]] = p
      /\ \A q \in Slots : q # p /\ (m.head[i] # NULL => q # m.tail[i]) => r.next[q] = m.next[q]
  BY <1>2, <1>3, <1>4
<1>6. /\ r.head[i] = IF m.head[i] = NULL THEN p ELSE m.head[i]
      /\ \A j \in Priorities \ {i} : r.head[j] = m.head[j]
  <2>1. m.head \in [Priorities -> Pointers]
    BY DEF Memory, Queues
  <2> QED BY <1>2, <2>1 DEF IsReadied
<1>7. Chain(r.next, r.head[i]) = Append(Chain(m.next, m.head[i]), p)
  <2>1. Grows(S, p, m.head[i], r.head[i], m.tail[i], m.next, r.next, rank)
    <3> HIDE DEF S, i
    <3> QED BY <1>2, <1>3, <1>5, <1>6 DEF Grows
  <2>2. m.head[i] \in Pointers /\ r.head[i] \in Pointers
    BY <1>2, QueueTypes
  <2>3. Appended(m.next, r.next, m.head[i], r.head[i], p)
    BY <1>2, <2>1, <2>2, ChainGrows
  <2> QED BY <2>3 DEF Appended
<1>8. ASSUME NEW j \in Priorities \ {i}
      PROVE  Chain(r.next, r.head[j]) = Chain(m.next, m.head[j])
  <2>1. \A q \in InReady(m, X, j) : r.next[q] = m.next[q]
    <3> TAKE q \in InReady(m, X, j)
    <3>1. q \in Slots /\ q # p /\ q \notin S
      BY <1>8 DEF InReady, Unqueued
    <3> QED BY <1>3, <1>5, <3>1
  <2>2. Chain(r.next, m.head[j]) = Chain(m.next, m.head[j])
    BY <1>2, <2>1, ReadyFrame
  <2> QED BY <1>6, <2>2
<1>9. ASSUME NEW s \in Semaphores, NEW j \in Priorities
      PROVE  Chain(r.next, r.sem[s].head[j]) = Chain(m.next, m.sem[s].head[j])
  <2>1. \A q \in InSem(m, X, s, j) : r.next[q] = m.next[q]
    <3> TAKE q \in InSem(m, X, s, j)
    <3>1. q \in Slots /\ q # p /\ q \notin S
      BY DEF InSem, InReady, Unqueued
    <3> QED BY <1>3, <1>5, <3>1
  <2>2. Chain(r.next, m.sem[s].head[j]) = Chain(m.next, m.sem[s].head[j])
    BY <1>2, <2>1, SemFrame
  <2> QED BY <1>2, <2>2
<1> HIDE DEF S
<1>10. ReadyLists(r) = [ReadyLists(m) EXCEPT ![i] = Append(@, p)]
  BY <1>2, <1>7, <1>8 DEF ReadyLists, Lists
<1>11. ASSUME NEW s \in Semaphores
       PROVE  Lists(r.next, r.sem[s].head) = Lists(m.next, m.sem[s].head)
  BY <1>9 DEF Lists
<1>12. SemLists(r) = SemLists(m)
  BY <1>11 DEF SemLists
<1>13. Values(r) = Values(m)
  BY <1>2 DEF Values
<1> QED BY <1>2, <1>10, <1>12, <1>13 DEF JoinsReady

(***************************************************************************)
(* next(): the first process of the highest nonempty list leaves it, or    *)
(* the idle process is picked because all lists are empty.                 *)
(***************************************************************************)
FirstLeaves(m, i, n) ==
  /\ ReadyLists(m)[i] # << >>
  /\ \A j \in Priorities : ReadyLists(m)[j] # << >> => j <= i
  /\ n.pcb = Head(ReadyLists(m)[i]) /\ n.pcb # Idle
  /\ ReadyLists(n) = [ReadyLists(m) EXCEPT ![i] = Tail(@)]

NobodyLeaves(m, n) ==
  /\ \A j \in Priorities : ReadyLists(m)[j] = << >>
  /\ n.pcb = Idle
  /\ ReadyLists(n) = ReadyLists(m)

Dispatched(m, n) ==
  /\ NobodyLeaves(m, n) \/ \E i \in Priorities : FirstLeaves(m, i, n)
  /\ SemLists(n) = SemLists(m)
  /\ Values(n) = Values(m)
  /\ n.priority = m.priority

\* What IsServed says of the fields of the queues is what happens to the lists.
LEMMA ServedLeaves ==
  ASSUME NEW m \in Memory, Queued(m, {}), NEW i, NEW p, NEW n,
         IsFirst(m, i, p), IsServed(m, i, p, n)
  PROVE  Dispatched(m, n)
<1> DEFINE S == InReady(m, {}, i)
<1>1. PICK rank \in [Slots -> Nat] : Ranked(m, {}, rank)
  BY DEF Queued
<1>2. /\ i \in Priorities /\ p \in S /\ p = m.head[i] /\ p # NULL
      /\ \A j \in Priorities : m.head[j] # NULL => j <= i
  BY DEF IsFirst
<1>3. /\ n \in Memory /\ n.pcb = p
      /\ n.next = [m.next EXCEPT ![p] = NULL]
      /\ n.priority = m.priority /\ n.sem = m.sem
  BY DEF IsServed
<1>4. /\ m.next \in [Slots -> Pointers] /\ n.next \in [Slots -> Pointers]
      /\ p \in Slots /\ p # Idle /\ S \subseteq Slots
      /\ IsQueue(S, p, m.tail[i], m.next, rank)
  <2>1. IsQueue(S, p, m.tail[i], m.next, rank)
    BY <1>1, <1>2 DEF Ranked
  <2> QED BY <1>2, <1>3, <2>1, QueueTypes DEF InReady
<1>5. \A q \in Slots \ {p} : n.next[q] = m.next[q]
  BY <1>3, <1>4
<1>6. /\ n.head[i] = m.next[p]
      /\ \A j \in Priorities \ {i} : n.head[j] = m.head[j]
  <2>1. m.head \in [Priorities -> Pointers]
    BY DEF Memory, Queues
  <2> QED BY <1>2, <2>1 DEF IsServed
<1>7. Advanced(m.next, n.next, p)
  <2> DEFINE T == S \ {p}
  <2>1. \A q \in T : n.next[q] = m.next[q]
    BY <1>4, <1>5
  <2>2. Dequeues(S, T, p, m.tail[i], m.next, n.next, rank)
    BY <1>2, <1>4, <2>1 DEF Dequeues
  <2> HIDE DEF S, T
  <2>3. p \in Pointers
    BY <1>4 DEF Pointers
  <2> QED BY <1>4, <2>2, <2>3, ChainTail
<1>8. Chain(n.next, n.head[i]) = Tail(Chain(m.next, m.head[i]))
  BY <1>2, <1>6, <1>7 DEF Advanced
<1>9. ASSUME NEW j \in Priorities \ {i}
      PROVE  Chain(n.next, n.head[j]) = Chain(m.next, m.head[j])
  <2>1. \A q \in InReady(m, {}, j) : n.next[q] = m.next[q]
    BY <1>2, <1>5, <1>9 DEF InReady
  <2>2. Chain(n.next, m.head[j]) = Chain(m.next, m.head[j])
    BY <1>4, <2>1, ReadyFrame
  <2> QED BY <1>6, <2>2
<1>10. ASSUME NEW s \in Semaphores, NEW j \in Priorities
       PROVE  Chain(n.next, n.sem[s].head[j]) = Chain(m.next, m.sem[s].head[j])
  <2>1. \A q \in InSem(m, {}, s, j) : n.next[q] = m.next[q]
    BY <1>2, <1>5 DEF InReady, InSem
  <2>2. Chain(n.next, m.sem[s].head[j]) = Chain(m.next, m.sem[s].head[j])
    BY <1>4, <2>1, SemFrame
  <2> QED BY <1>3, <2>2
<1> HIDE DEF S
<1>11. ReadyLists(n) = [ReadyLists(m) EXCEPT ![i] = Tail(@)]
  BY <1>2, <1>8, <1>9 DEF ReadyLists, Lists
<1>12. ASSUME NEW s \in Semaphores
       PROVE  Lists(n.next, n.sem[s].head) = Lists(m.next, m.sem[s].head)
  BY <1>10 DEF Lists
<1>13. SemLists(n) = SemLists(m)
  BY <1>12 DEF SemLists
<1>14. Values(n) = Values(m)
  BY <1>3 DEF Values
<1>15. FirstLeaves(m, i, n)
  <2>1. /\ ReadyLists(m)[i] # << >> /\ Head(ReadyLists(m)[i]) = p
        /\ \A j \in Priorities : ReadyLists(m)[j] # << >> => j <= i
    BY <1>2, ReadyBegins
  <2> QED BY <1>3, <1>4, <1>11, <2>1 DEF FirstLeaves
<1> QED BY <1>2, <1>3, <1>13, <1>14, <1>15 DEF Dispatched

LEMMA NextDispatched ==
  ASSUME NEW m \in Memory, Queued(m, {})
  PROVE  Dispatched(m, next(m))
<1> DEFINE busy == {j \in Priorities : m.head[j] # NULL}
           n == next(m)
<1>1. CASE busy = {}
  <2>1. n = [m EXCEPT !.state = [m.state EXCEPT ![Idle] = "RUNNING"], !.pcb = Idle]
    BY <1>1 DEF next, Memory
  <2>2. /\ n.pcb = Idle /\ n.head = m.head /\ n.next = m.next
        /\ n.sem = m.sem /\ n.priority = m.priority
    BY <2>1 DEF Memory
  <2>3. \A j \in Priorities : ReadyLists(m)[j] = << >>
    <3> TAKE j \in Priorities
    <3>1. m.head[j] = NULL
      BY <1>1
    <3> QED BY <3>1, ReadyBegins
  <2> HIDE DEF n, busy
  <2>4. /\ ReadyLists(n) = ReadyLists(m) /\ SemLists(n) = SemLists(m)
        /\ Values(n) = Values(m)
    BY <2>2 DEF ReadyLists, SemLists, Values
  <2>5. Dispatched(m, n)
    BY <2>2, <2>3, <2>4 DEF Dispatched, NobodyLeaves
  <2> QED BY <2>5 DEF n
<1>2. CASE busy # {}
  <2>1. PICK i, p : IsFirst(m, i, p) /\ IsServed(m, i, p, n)
    BY <1>2, NextEffect
  <2> QED BY <2>1, ServedLeaves
<1> QED BY <1>1, <1>2

(***************************************************************************)
(* P_kern without a unit: p goes to the end of a list of the semaphore.    *)
(***************************************************************************)
JoinsSem(m, b, s, p) ==
  /\ SemLists(b) =
       [SemLists(m) EXCEPT ![s] = [SemLists(m)[s] EXCEPT ![m.priority[p]] = Append(@, p)]]
  /\ ReadyLists(b) = ReadyLists(m)
  /\ Values(b) = Values(m)
  /\ b.priority = m.priority

LEMMA BlockJoins ==
  ASSUME NEW m \in Memory, Queued(m, {}), NEW p \in Slots, Unqueued(m, {}, p),
         NEW s \in Semaphores, NEW b, IsBlocked(m, s, p, b)
  PROVE  JoinsSem(m, b, s, p)
<1> DEFINE i == m.priority[p]
           first == m.sem[s].head[i]
           last == m.sem[s].tail[i]
           S == InSem(m, {}, s, i)
<1>1. PICK rank \in [Slots -> Nat] : Ranked(m, {}, rank)
  BY DEF Queued
<1>2. /\ b \in Memory /\ b.head = m.head /\ b.priority = m.priority
      /\ b.sem[s].value = m.sem[s].value
      /\ \A t \in Semaphores \ {s} : b.sem[t] = m.sem[t]
  BY DEF IsBlocked
<1>3. /\ i \in Priorities
      /\ m.next \in [Slots -> Pointers] /\ b.next \in [Slots -> Pointers]
      /\ m.sem[s].head \in Queues
  <2>1. m.priority \in [Slots -> Priorities]
    BY DEF Memory
  <2>2. m.sem[s].head \in Queues
    BY DEF Memory
  <2> QED BY <1>2, <2>1, <2>2, QueueTypes
<1>4. /\ IsQueue(S, first, last, m.next, rank)
      /\ first # NULL => last \in S
      /\ S \subseteq Slots /\ p \notin S
  <2>1. IsQueue(S, first, last, m.next, rank)
    BY <1>1, <1>3 DEF Ranked
  <2>2. S \subseteq Slots /\ p \notin S
    BY DEF InSem, Unqueued
  <2> QED BY <2>1, <2>2 DEF IsQueue
<1>5. b.next = IF first = NULL THEN [m.next EXCEPT ![p] = NULL]
               ELSE [m.next EXCEPT ![p] = NULL, ![last] = p]
  BY DEF IsBlocked
<1>6. b.sem[s].head = [m.sem[s].head EXCEPT ![i] = IF first = NULL THEN p ELSE first]
  BY DEF IsBlocked
<1> HIDE DEF first, last
<1>7. /\ b.next[p] = NULL
      /\ first # NULL => b.next[last] = p
      /\ \A q \in Slots : q # p /\ (first # NULL => q # last) => b.next[q] = m.next[q]
  BY <1>3, <1>4, <1>5
<1>8. /\ b.sem[s].head[i] = IF first = NULL THEN p ELSE first
      /\ \A j \in Priorities \ {i} : b.sem[s].head[j] = m.sem[s].head[j]
  BY <1>3, <1>6 DEF Queues
<1>9. Chain(b.next, b.sem[s].head[i]) = Append(Chain(m.next, m.sem[s].head[i]), p)
  <2> DEFINE first2 == b.sem[s].head[i]
  <2>1. first2 = IF first = NULL THEN p ELSE first
    BY <1>8
  <2>2. first \in Pointers /\ first2 \in Pointers
    BY <1>2, <1>3, QueueTypes DEF first
  <2> HIDE DEF first2
  <2>3. Grows(S, p, first, first2, last, m.next, b.next, rank)
    <3> HIDE DEF S, i
    <3> QED BY <1>3, <1>4, <1>7, <2>1 DEF Grows
  <2>4. Appended(m.next, b.next, first, first2, p)
    BY <1>3, <2>2, <2>3, ChainGrows
  <2> QED BY <2>4 DEF Appended, first, first2
<1>10. ASSUME NEW j \in Priorities
       PROVE  Chain(b.next, b.head[j]) = Chain(m.next, m.head[j])
  <2>1. \A q \in InReady(m, {}, j) : b.next[q] = m.next[q]
    <3> TAKE q \in InReady(m, {}, j)
    <3>1. q \in Slots /\ q # p /\ q \notin S
      BY DEF InReady, InSem, Unqueued
    <3> QED BY <1>4, <1>7, <3>1
  <2>2. Chain(b.next, m.head[j]) = Chain(m.next, m.head[j])
    BY <1>3, <2>1, ReadyFrame
  <2> QED BY <1>2, <2>2
<1>11. ASSUME NEW t \in Semaphores, NEW j \in Priorities, t # s \/ j # i
       PROVE  Chain(b.next, b.sem[t].head[j]) = Chain(m.next, m.sem[t].head[j])
  <2>1. \A q \in InSem(m, {}, t, j) : b.next[q] = m.next[q]
    <3> TAKE q \in InSem(m, {}, t, j)
    <3>1. q \in Slots /\ q # p /\ q \notin S
      BY <1>11 DEF InSem, Unqueued
    <3> QED BY <1>4, <1>7, <3>1
  <2>2. Chain(b.next, m.sem[t].head[j]) = Chain(m.next, m.sem[t].head[j])
    BY <1>3, <2>1, SemFrame
  <2>3. b.sem[t].head[j] = m.sem[t].head[j]
    BY <1>2, <1>8, <1>11
  <2> QED BY <2>2, <2>3
<1> HIDE DEF S
<1>12. ReadyLists(b) = ReadyLists(m)
  BY <1>10 DEF ReadyLists, Lists
<1>13. Lists(b.next, b.sem[s].head)
         = [Lists(m.next, m.sem[s].head) EXCEPT ![i] = Append(@, p)]
  BY <1>3, <1>9, <1>11 DEF Lists
<1>14. \A t \in Semaphores \ {s} :
         Lists(b.next, b.sem[t].head) = Lists(m.next, m.sem[t].head)
  <2> TAKE t \in Semaphores \ {s}
  <2>1. \A j \in Priorities : Chain(b.next, b.sem[t].head[j]) = Chain(m.next, m.sem[t].head[j])
    BY <1>11
  <2> QED BY <2>1 DEF Lists
<1>15. SemLists(b) =
         [SemLists(m) EXCEPT ![s] = [SemLists(m)[s] EXCEPT ![i] = Append(@, p)]]
  BY <1>13, <1>14 DEF SemLists
<1>16. Values(b) = Values(m)
  BY <1>2 DEF Values
<1> QED BY <1>2, <1>12, <1>15, <1>16 DEF JoinsSem

(***************************************************************************)
(* V_kern: the first process of a list of the semaphore leaves it.         *)
(***************************************************************************)
LeavesSem(m, c, s, i) ==
  /\ SemLists(c) = [SemLists(m) EXCEPT ![s] = [SemLists(m)[s] EXCEPT ![i] = Tail(@)]]
  /\ ReadyLists(c) = ReadyLists(m)
  /\ Values(c) = Values(m)
  /\ c.priority = m.priority

LEMMA UnblockLeaves ==
  ASSUME NEW m \in Memory, Queued(m, {}), NEW s \in Semaphores, NEW i \in Priorities,
         NEW p \in Slots, p = m.sem[s].head[i],
         NEW c, IsUnblocked(m, s, i, p, c)
  PROVE  LeavesSem(m, c, s, i)
<1> DEFINE S == InSem(m, {}, s, i)
<1>1. PICK rank \in [Slots -> Nat] : Ranked(m, {}, rank)
  BY DEF Queued
<1>2. /\ c \in Memory /\ c.head = m.head /\ c.next = m.next /\ c.priority = m.priority
      /\ c.sem[s].value = m.sem[s].value
      /\ \A t \in Semaphores \ {s} : c.sem[t] = m.sem[t]
  BY DEF IsUnblocked
<1>3. /\ m.next \in [Slots -> Pointers]
      /\ m.sem[s].head \in Queues
      /\ IsQueue(S, p, m.sem[s].tail[i], m.next, rank)
      /\ S \subseteq Slots /\ p # NULL /\ p \in Pointers
  <2>1. IsQueue(S, p, m.sem[s].tail[i], m.next, rank)
    BY <1>1 DEF Ranked
  <2>2. m.sem[s].head \in Queues
    BY DEF Memory
  <2>3. S \subseteq Slots /\ p # NULL /\ p \in Pointers
    BY Constants DEF InSem, Pointers
  <2> QED BY <2>1, <2>2, <2>3, QueueTypes
<1>4. /\ c.sem[s].head[i] = m.next[p]
      /\ \A j \in Priorities \ {i} : c.sem[s].head[j] = m.sem[s].head[j]
  BY <1>3 DEF Queues, IsUnblocked
<1>5. Chain(c.next, c.sem[s].head[i]) = Tail(Chain(m.next, m.sem[s].head[i]))
  <2> DEFINE T == S \ {p}
  <2>1. Dequeues(S, T, p, m.sem[s].tail[i], m.next, m.next, rank)
    BY <1>3 DEF Dequeues
  <2> HIDE DEF S, T
  <2>2. Advanced(m.next, m.next, p)
    BY <1>3, <2>1, ChainTail
  <2> QED BY <1>2, <1>4, <2>2 DEF Advanced
<1>6. \A t \in Semaphores, j \in Priorities :
        t # s \/ j # i => Chain(c.next, c.sem[t].head[j]) = Chain(m.next, m.sem[t].head[j])
  BY <1>2, <1>4
<1> HIDE DEF S
<1>7. ReadyLists(c) = ReadyLists(m)
  BY <1>2 DEF ReadyLists
<1>8. Lists(c.next, c.sem[s].head) = [Lists(m.next, m.sem[s].head) EXCEPT ![i] = Tail(@)]
  BY <1>5, <1>6 DEF Lists
<1>9. \A t \in Semaphores \ {s} :
         Lists(c.next, c.sem[t].head) = Lists(m.next, m.sem[t].head)
  BY <1>2
<1>10. SemLists(c) = [SemLists(m) EXCEPT ![s] = [SemLists(m)[s] EXCEPT ![i] = Tail(@)]]
  BY <1>8, <1>9 DEF SemLists
<1>11. Values(c) = Values(m)
  BY <1>2 DEF Values
<1> QED BY <1>2, <1>7, <1>10, <1>11 DEF LeavesSem
-----------------------------------------------------------------------------
(***************************************************************************)
(* What the abstract scheduler sees of the kernel memory.                  *)
(***************************************************************************)
LEMMA Views ==
  /\ QueueOf(k.head) = ReadyLists(k)
  /\ QueueOf(k.head)' = ReadyLists(k')
  /\ [s \in Semaphores |-> QueueOf(k.sem[s].head)] = SemLists(k)
  /\ [s \in Semaphores |-> QueueOf(k.sem[s].head)]' = SemLists(k')
  /\ [s \in Semaphores |-> k.sem[s].value] = Values(k)
  /\ [s \in Semaphores |-> k.sem[s].value]' = Values(k')
<1>1. QueueOf(k.head) = ReadyLists(k) /\ QueueOf(k.head)' = ReadyLists(k')
  BY DEF QueueOf, ReadyLists, Lists
<1>2. /\ [s \in Semaphores |-> QueueOf(k.sem[s].head)] = SemLists(k)
      /\ [s \in Semaphores |-> QueueOf(k.sem[s].head)]' = SemLists(k')
  BY DEF QueueOf, SemLists, Lists
<1> QED BY <1>1, <1>2 DEF Values

\* Taking the first of the highest list is what Dispatch says.
LEMMA AbstractDispatch ==
  ASSUME NEW m \in Memory, NEW q, q = ReadyLists(m), Dispatched(m, k')
  PROVE  Abstract!Dispatch(q)
<1>1. Abstract!Nonempty(q) = {j \in Priorities : q[j] # << >>}
  BY DEF Abstract!Nonempty, Abstract!Levels, Priorities, TopPriority
<1>2. CASE NobodyLeaves(m, k')
  <2>1. Abstract!Nonempty(q) = {}
    BY <1>1, <1>2 DEF NobodyLeaves
  <2>2. k'.pcb = Idle /\ ReadyLists(k') = q
    BY <1>2 DEF NobodyLeaves
  <2> QED BY <2>1, <2>2, Views DEF Abstract!Dispatch
<1>3. ASSUME NEW i \in Priorities, FirstLeaves(m, i, k')
      PROVE  Abstract!Dispatch(q)
  <2>1. i \in Abstract!Nonempty(q) /\ \A j \in Abstract!Nonempty(q) : j <= i
    BY <1>1, <1>3 DEF FirstLeaves
  <2>2. Abstract!Nonempty(q) \in SUBSET Nat
    BY <1>1, Constants
  <2>3. Abstract!Highest(q) = i
    BY <2>1, <2>2 DEF Abstract!Highest
  <2>4. k'.pcb = Head(q[i]) /\ ReadyLists(k') = [q EXCEPT ![i] = Tail(@)]
    BY <1>3 DEF FirstLeaves
  <2> QED BY <2>1, <2>3, <2>4, Views DEF Abstract!Dispatch
<1> QED BY <1>2, <1>3 DEF Dispatched
-----------------------------------------------------------------------------
(***************************************************************************)
(* The invariant of the refinement adds to IInv what makes the simplest    *)
(* abstract scheduler enough: nobody is blocked while units are left, and  *)
(* the idle process runs only while nobody is ready.                       *)
(***************************************************************************)
Served(m) ==
  \A s \in Semaphores : Values(m)[s] > 0 => \A i \in Priorities : SemLists(m)[s][i] = << >>

Conserved(m) == m.pcb = Idle => \A i \in Priorities : ReadyLists(m)[i] = << >>

QIInv == IInv /\ Served(k) /\ Conserved(k)

\* The list that Chain reads off a queue lists its members.
LEMMA ReadyListed ==
  ASSUME NEW m \in Memory, NEW X, Queued(m, X), NEW i \in Priorities
  PROVE  IsListing(ReadyLists(m)[i], InReady(m, X, i), m.head[i], m.tail[i], m.next)
<1>1. PICK rank \in [Slots -> Nat] :
        IsQueue(InReady(m, X, i), m.head[i], m.tail[i], m.next, rank)
  BY DEF Queued, Ranked
<1>2. InReady(m, X, i) \in SUBSET Slots
  BY DEF InReady
<1>3. m.head[i] \in Pointers /\ m.next \in [Slots -> Pointers]
  BY QueueTypes
<1>4. IsListing(Chain(m.next, m.head[i]), InReady(m, X, i), m.head[i], m.tail[i], m.next)
  BY <1>1, <1>2, <1>3, ChainLists
<1> QED BY <1>4, ReadyBegins

LEMMA SemListed ==
  ASSUME NEW m \in Memory, NEW X, Queued(m, X), NEW s \in Semaphores, NEW i \in Priorities
  PROVE  IsListing(SemLists(m)[s][i], InSem(m, X, s, i),
                   m.sem[s].head[i], m.sem[s].tail[i], m.next)
<1>1. PICK rank \in [Slots -> Nat] :
        IsQueue(InSem(m, X, s, i), m.sem[s].head[i], m.sem[s].tail[i], m.next, rank)
  BY DEF Queued, Ranked
<1>2. InSem(m, X, s, i) \in SUBSET Slots
  BY DEF InSem
<1>3. m.sem[s].head[i] \in Pointers /\ m.next \in [Slots -> Pointers]
  BY QueueTypes
<1>4. IsListing(Chain(m.next, m.sem[s].head[i]), InSem(m, X, s, i),
                m.sem[s].head[i], m.sem[s].tail[i], m.next)
  BY <1>1, <1>2, <1>3, ChainLists
<1> QED BY <1>4, SemBegins

\* The tail of a queue that is not empty is a slot.
LEMMA TailsAreSlots ==
  ASSUME NEW m, NEW X, Queued(m, X)
  PROVE  /\ \A i \in Priorities : m.head[i] # NULL => m.tail[i] \in Slots
         /\ \A s \in Semaphores, i \in Priorities :
              m.sem[s].head[i] # NULL => m.sem[s].tail[i] \in Slots
<1>1. PICK rank \in [Slots -> Nat] : Ranked(m, X, rank)
  BY DEF Queued
<1>2. ASSUME NEW i \in Priorities, m.head[i] # NULL PROVE m.tail[i] \in Slots
  BY <1>1, <1>2 DEF Ranked, IsQueue, InReady
<1>3. ASSUME NEW s \in Semaphores, NEW i \in Priorities, m.sem[s].head[i] # NULL
      PROVE  m.sem[s].tail[i] \in Slots
  BY <1>1, <1>3 DEF Ranked, IsQueue, InSem
<1> QED BY <1>2, <1>3

\* In this workload no process is suspended.
LEMMA NobodySuspended ==
  ASSUME NEW m, NEW R, NEW X, X = {}, Core(m, R, X)
  PROVE  {p \in Slots : m.state[p] \in {"SLEEP", "WAITING"}} = {}
BY DEF Core, Placed

\* The running process is in no queue.
LEMMA RunnerFree ==
  ASSUME IInv
  PROVE  /\ Queued(k, {}) /\ Unqueued(k, {}, k.pcb)
         /\ k.pcb # Idle => k.pid[k.pcb] # 0
<1> DEFINE R == {k.pcb}
           X == {}
<1>1. Core(k, R, X)
  BY DEF IInv
<1>2. R \subseteq Slots /\ Placed(k, R, X) /\ Pids(k) /\ Queued(k, X)
  BY <1>1 DEF Core
<1>3. k.state[k.pcb] = "RUNNING" /\ k.stack[k.pcb] /\ k.pcb \in Slots
  BY <1>2 DEF Placed
<1> QED BY <1>2, <1>3 DEF Unqueued, Pids

\* A step that changes neither a list of a semaphore nor a value keeps Served,
\* and a step of next() keeps Conserved.
LEMMA SameServed ==
  ASSUME NEW m, NEW n, Served(m), SemLists(n) = SemLists(m), Values(n) = Values(m)
  PROVE  Served(n)
BY DEF Served

LEMMA DispatchedConserves ==
  ASSUME NEW m, NEW n, Dispatched(m, n)
  PROVE  Conserved(n)
<1>1. CASE NobodyLeaves(m, n)
  BY <1>1 DEF NobodyLeaves, Conserved
<1>2. CASE n.pcb # Idle
  BY <1>2 DEF Conserved
<1> QED BY <1>1, <1>2 DEF Dispatched, FirstLeaves
-----------------------------------------------------------------------------
(***************************************************************************)
(* Each step of the kernel is a step of the abstract scheduler.  What the  *)
(* running process does to its own queue first.                            *)
(***************************************************************************)
LEMMA RunnerReadied ==
  ASSUME IInv, k.pcb # Idle
  PROVE  LET r == ready(k, k.pcb)
         IN  r \in Memory /\ Queued(r, {}) /\ JoinsReady(k, r, k.pcb)
<1> DEFINE r == ready(k, k.pcb)
           R == {k.pcb}
           X == {}
<1>1. /\ Core(k, R, X) /\ k.pcb \in R \cup X /\ X \ {k.pcb} = {} /\ R \ {k.pcb} = {}
      /\ k \in Memory /\ k.pcb \in Slots /\ Queued(k, X) /\ Unqueued(k, X, k.pcb)
      /\ k.pid[k.pcb] # 0
  BY RunningProcess, RunnerFree DEF IInv
<1>2. k.priority[k.pcb] \in Priorities
  BY <1>1 DEF Memory
<1> HIDE DEF R
<1>3. Core(r, {}, {})
  <2> HIDE DEF X, r
  <2>1. Core(ready(k, k.pcb), R \ {k.pcb}, X \ {k.pcb})
    BY <1>1, ReadyCore
  <2> QED BY <1>1, <2>1 DEF r
<1>4. IsReadied(k, k.pcb, r)
  <2>1. k.head[k.priority[k.pcb]] # NULL => k.tail[k.priority[k.pcb]] \in Slots
    BY <1>1, <1>2, TailsAreSlots
  <2> QED BY <1>1, <2>1, ReadyEffect
<1> HIDE DEF r, X
<1>5. JoinsReady(k, r, k.pcb)
  BY <1>1, <1>4, ReadyJoins
<1> QED BY <1>3, <1>5 DEF Core, r

\* SYS_YIELD, and TIMER_INT of a process that is not the idle one, are Yield.
LEMMA YieldImplements ==
  ASSUME QIInv, IInv', k.pcb # Idle, k' = next(ready(k, k.pcb))
  PROVE  Abstract!Yield /\ Served(k') /\ Conserved(k')
<1> DEFINE r == ready(k, k.pcb)
           q == ReadyLists(r)
<1>1. r \in Memory /\ Queued(r, {}) /\ JoinsReady(k, r, k.pcb)
  BY RunnerReadied DEF QIInv
<1>2. k' = next(r)
  OBVIOUS
<1> HIDE DEF r
<1>3. Dispatched(r, k')
  BY <1>1, <1>2, NextDispatched
<1>4. Abstract!Dispatch(q)
  BY <1>1, <1>3, AbstractDispatch
<1>5. q = [ReadyLists(k) EXCEPT ![k.priority[k.pcb]] = Append(@, k.pcb)]
  BY <1>1 DEF JoinsReady
<1>6. /\ SemLists(k') = SemLists(k) /\ Values(k') = Values(k)
      /\ k'.priority = k.priority
  BY <1>1, <1>3 DEF JoinsReady, Dispatched
<1> HIDE DEF q
<1>7. q = Abstract!Requeued(QueueOf(k.head))
  BY <1>5, Views DEF Abstract!Requeued, Abstract!Enqueue
<1>8. /\ {p \in Slots : k.state[p] \in {"SLEEP", "WAITING"}} = {}
      /\ {p \in Slots : k.state[p] \in {"SLEEP", "WAITING"}}' = {}
  BY NobodySuspended DEF QIInv, IInv
<1>10. Abstract!Yield
  BY <1>4, <1>6, <1>7, <1>8, Views DEF Abstract!Yield, Abstract!Busy
<1> QED BY <1>3, <1>6, <1>10, SameServed, DispatchedConserves DEF QIInv

\* cleanup() of the running process touches no list.
LEMMA RunnerCleaned ==
  ASSUME IInv, k.pcb # Idle
  PROVE  LET c == cleanup(k, k.pcb)
         IN  /\ c \in Memory /\ Queued(c, {})
             /\ SameLists(k, c) /\ Values(c) = Values(k) /\ c.priority = k.priority
<1> DEFINE c == cleanup(k, k.pcb)
           R == {k.pcb}
           X == {}
<1>1. /\ Core(k, R, {}) /\ Queued(k, X) /\ k.pcb \in R \ {Idle} /\ R \ {k.pcb} = {}
      /\ k \in Memory /\ k.pcb \in Slots /\ Queued(k, {}) /\ Unqueued(k, {}, k.pcb)
  BY RunningProcess, RunnerFree DEF IInv
<1> HIDE DEF R
<1>2. Core(c, R \ {k.pcb}, {})
  BY <1>1, CleanupCore
<1>3. c \in Memory /\ Queued(c, {})
  BY <1>2 DEF Core
<1>4. c = [k EXCEPT !.state = [k.state EXCEPT ![k.pcb] = "STOPPED"],
                    !.next = [k.next EXCEPT ![k.pcb] = NULL],
                    !.prev = [k.prev EXCEPT ![k.pcb] = NULL],
                    !.stack = [k.stack EXCEPT ![k.pcb] = FALSE]]
  BY <1>1 DEF cleanup, Memory
<1>5. /\ c.head = k.head /\ c.sem = k.sem /\ c.priority = k.priority
      /\ c.next = [k.next EXCEPT ![k.pcb] = NULL]
  BY <1>1, <1>4 DEF Memory
<1> HIDE DEF c, X
<1>6. \A p \in Slots : k.state[p] \in {"READY", "BLOCKED"} => c.next[p] = k.next[p]
  <2>1. k.next \in [Slots -> Pointers]
    BY <1>1, QueueTypes
  <2>2. k.state[k.pcb] = "RUNNING"
    BY RunningProcess
  <2> QED BY <1>5, <2>1, <2>2
<1>7. SameLists(k, c)
  <2>1. SameLinks(k, X, c)
    BY <1>5, <1>6 DEF SameLinks
  <2> QED BY <1>1, <1>3, <2>1, ListsFrame
<1> QED BY <1>3, <1>5, <1>7 DEF Values, c

\* SYS_STOP is Stop.
LEMMA StopImplements ==
  ASSUME QIInv, IInv', Stop
  PROVE  Abstract!Stop /\ Served(k') /\ Conserved(k')
<1> DEFINE c == cleanup(k, k.pcb)
<1>1. k.pcb # Idle /\ k' = next(c)
  <2>1. k.pcb # Idle /\ k.wait_head[k.pcb] = NULL
    BY RunningProcess DEF QIInv, Stop, UserCall
  <2>2. restoreToReadyQueue(k, k.pcb) = k
    BY <2>1 DEF restoreToReadyQueue
  <2> QED BY <2>1, <2>2 DEF Stop
<1>2. /\ c \in Memory /\ Queued(c, {})
      /\ SameLists(k, c) /\ Values(c) = Values(k) /\ c.priority = k.priority
  BY <1>1, RunnerCleaned DEF QIInv
<1> HIDE DEF c
<1>3. Dispatched(c, k')
  BY <1>1, <1>2, NextDispatched
<1>4. Abstract!Dispatch(QueueOf(k.head))
  <2>1. QueueOf(k.head) = ReadyLists(c)
    BY <1>2, Views DEF SameLists
  <2> QED BY <1>2, <1>3, <2>1, AbstractDispatch
<1>5. /\ SemLists(k') = SemLists(k) /\ Values(k') = Values(k)
      /\ k'.priority = k.priority
  BY <1>2, <1>3 DEF SameLists, Dispatched
<1>6. /\ {p \in Slots : k.state[p] \in {"SLEEP", "WAITING"}} = {}
      /\ {p \in Slots : k.state[p] \in {"SLEEP", "WAITING"}}' = {}
  BY NobodySuspended DEF QIInv, IInv
<1>7. Abstract!Stop
  BY <1>1, <1>4, <1>5, <1>6, Views DEF Abstract!Stop, Abstract!Busy
<1> QED BY <1>3, <1>5, <1>7, SameServed, DispatchedConserves DEF QIInv

\* SYS_SET_PRIO is SetPriority.
LEMMA SetPrioImplements ==
  ASSUME QIInv, IInv', SetPrio
  PROVE  Abstract!SetPriority /\ Served(k') /\ Conserved(k')
<1>1. PICK i \in Priorities : k' = [k EXCEPT !.priority[k.pcb] = i]
  BY DEF SetPrio
<1>2. k \in Memory /\ k.pcb \in Slots /\ k.pcb # Idle
  BY RunningProcess DEF QIInv, SetPrio, UserCall
<1>3. k' = [k EXCEPT !.priority = [k.priority EXCEPT ![k.pcb] = i]]
  BY <1>1, <1>2 DEF Memory
<1>4. /\ k'.pcb = k.pcb /\ k'.head = k.head /\ k'.next = k.next /\ k'.sem = k.sem
      /\ k'.priority = [k.priority EXCEPT ![k.pcb] = i]
  BY <1>2, <1>3 DEF Memory
<1>5. /\ ReadyLists(k') = ReadyLists(k) /\ SemLists(k') = SemLists(k)
      /\ Values(k') = Values(k)
  BY <1>4 DEF ReadyLists, SemLists, Values
<1>6. /\ {p \in Slots : k.state[p] \in {"SLEEP", "WAITING"}} = {}
      /\ {p \in Slots : k.state[p] \in {"SLEEP", "WAITING"}}' = {}
  BY NobodySuspended DEF QIInv, IInv
<1>7. i \in Abstract!Levels
  BY DEF Abstract!Levels, Priorities, TopPriority
<1>8. Abstract!SetPriority
  BY <1>2, <1>4, <1>5, <1>6, <1>7, Views DEF Abstract!SetPriority, Abstract!Busy
<1> QED BY <1>4, <1>5, <1>8 DEF QIInv, Served, Conserved

(***************************************************************************)
(* A unit more or less of a semaphore moves nobody.                        *)
(***************************************************************************)
Counts(m, s, v, c) ==
  /\ c.pcb = m.pcb /\ c.priority = m.priority
  /\ ReadyLists(c) = ReadyLists(m) /\ SemLists(c) = SemLists(m)
  /\ Values(c) = [Values(m) EXCEPT ![s] = v]

LEMMA ValueCounts ==
  ASSUME NEW m \in Memory, NEW s \in Semaphores, NEW v \in Nat
  PROVE  Counts(m, s, v, [m EXCEPT !.sem[s].value = v])
<1> DEFINE c == [m EXCEPT !.sem[s].value = v]
<1>1. m.sem \in [Semaphores -> [value : Nat, head : Queues, tail : Queues]]
  BY DEF Memory
<1>2. c = [m EXCEPT !.sem = [m.sem EXCEPT ![s] = [m.sem[s] EXCEPT !.value = v]]]
  BY DEF Memory
<1>3. /\ c.pcb = m.pcb /\ c.priority = m.priority /\ c.head = m.head /\ c.next = m.next
      /\ c.sem = [m.sem EXCEPT ![s] = [m.sem[s] EXCEPT !.value = v]]
  BY <1>2 DEF Memory
<1> HIDE DEF c
<1>4. \A t \in Semaphores : c.sem[t].head = m.sem[t].head
  BY <1>1, <1>3
<1>5. Values(c) = [Values(m) EXCEPT ![s] = v]
  BY <1>1, <1>3 DEF Values
<1>6. ReadyLists(c) = ReadyLists(m) /\ SemLists(c) = SemLists(m)
  BY <1>3, <1>4 DEF ReadyLists, SemLists
<1> QED BY <1>3, <1>5, <1>6 DEF Counts, c

\* P_kern of a semaphore with units is Take.
LEMMA TakeImplements ==
  ASSUME QIInv, IInv', NEW s \in Semaphores, P(s), k.sem[s].value # 0
  PROVE  Abstract!Take(s) /\ Served(k') /\ Conserved(k')
<1> DEFINE v == k.sem[s].value - 1
           d == [k EXCEPT !.sem[s].value = v]
<1>1. /\ k \in Memory /\ k.pcb \in Slots /\ k.pcb # Idle /\ k.state[k.pcb] = "RUNNING"
  BY RunningProcess DEF QIInv, P, UserCall
<1>2. k.sem[s].value \in Nat /\ Values(k)[s] = k.sem[s].value
  BY <1>1, QueueTypes DEF Values
<1>3. v \in Nat /\ Values(k)[s] > 0 /\ v = Values(k)[s] - 1
  BY <1>2
<1>4. P_kern(k, s, k.pcb) = d
  BY DEF P_kern
<1>5. d.state = k.state
  BY <1>1 DEF Memory
<1> HIDE DEF v
<1>6. Counts(k, s, v, d)
  BY <1>1, <1>3, ValueCounts
<1> HIDE DEF d
<1>7. k' = d
  BY <1>1, <1>4, <1>5 DEF P
<1>8. /\ k'.pcb = k.pcb /\ k'.priority = k.priority
      /\ ReadyLists(k') = ReadyLists(k) /\ SemLists(k') = SemLists(k)
      /\ Values(k') = [Values(k) EXCEPT ![s] = v]
  BY <1>6, <1>7 DEF Counts
<1>9. /\ {p \in Slots : k.state[p] \in {"SLEEP", "WAITING"}} = {}
      /\ {p \in Slots : k.state[p] \in {"SLEEP", "WAITING"}}' = {}
  BY NobodySuspended DEF QIInv, IInv
<1>10. Values(k') = [Values(k) EXCEPT ![s] = @ - 1]
  BY <1>3, <1>8
<1>11. Abstract!Take(s)
  BY <1>1, <1>3, <1>8, <1>9, <1>10, Views DEF Abstract!Take, Abstract!Busy
<1>12. Served(k')
  <2>1. \A t \in Semaphores : Values(k')[t] > 0 => Values(k)[t] > 0
    BY <1>3, <1>8 DEF Values
  <2> QED BY <1>8, <2>1 DEF QIInv, Served
<1> QED BY <1>8, <1>11, <1>12 DEF QIInv, Conserved

\* P_kern of a semaphore without units is Block.
LEMMA BlockImplements ==
  ASSUME QIInv, IInv', NEW s \in Semaphores, P(s), k.sem[s].value = 0
  PROVE  Abstract!Block(s) /\ Served(k') /\ Conserved(k')
<1> DEFINE b == [blockProcess(k, s, k.pcb) EXCEPT !.semNo[k.pcb] = s]
           R == {k.pcb}
           i == k.priority[k.pcb]
<1>1. /\ Core(k, R, {}) /\ k.pcb \in R \ {Idle} /\ R \ {k.pcb} = {}
      /\ k \in Memory /\ k.pcb \in Slots /\ k.pcb # Idle
      /\ Queued(k, {}) /\ Unqueued(k, {}, k.pcb)
  <2>1. IInv /\ k.pid[k.pcb] # 0
    BY DEF QIInv, P, UserCall
  <2>2. Core(k, R, {})
    BY <2>1 DEF IInv
  <2>3. k \in Memory /\ k.pcb \in Slots /\ k.pcb # Idle
    BY <2>1, RunningProcess
  <2>4. Queued(k, {}) /\ Unqueued(k, {}, k.pcb)
    BY <2>1, RunnerFree
  <2>5. k.pcb \in R \ {Idle} /\ R \ {k.pcb} = {}
    BY <2>3
  <2> HIDE DEF R
  <2> QED BY <2>2, <2>3, <2>4, <2>5
<1>2. i \in Priorities
  BY <1>1 DEF Memory
<1> HIDE DEF R
<1>3. Core(b, R \ {k.pcb}, {}) /\ b.state[k.pcb] = "BLOCKED"
  BY <1>1, BlockCore
<1>4. k' = next(b)
  <2>1. P_kern(k, s, k.pcb) = b
    BY DEF P_kern
  <2> HIDE DEF b
  <2> QED BY <1>3, <2>1 DEF P
<1>5. IsBlocked(k, s, k.pcb, b)
  <2>1. k.sem[s].head[i] # NULL => k.sem[s].tail[i] \in Slots
    BY <1>1, <1>2, TailsAreSlots
  <2>2. k \in Memory /\ k.pcb \in Slots
    BY <1>1
  <2> QED BY <2>1, <2>2, BlockEffect
<1> HIDE DEF b
<1>6. JoinsSem(k, b, s, k.pcb)
  BY <1>1, <1>5, BlockJoins
<1>7. b \in Memory /\ Queued(b, {})
  BY <1>3 DEF Core
<1>8. Dispatched(b, k')
  BY <1>4, <1>7, NextDispatched
<1>9. Abstract!Dispatch(QueueOf(k.head))
  <2>1. QueueOf(k.head) = ReadyLists(b)
    BY <1>6, Views DEF JoinsSem
  <2> QED BY <1>7, <1>8, <2>1, AbstractDispatch
<1>10. /\ SemLists(k') = [SemLists(k) EXCEPT ![s] = [SemLists(k)[s] EXCEPT ![i] = Append(@, k.pcb)]]
       /\ Values(k') = Values(k)
       /\ k'.priority = k.priority
  BY <1>6, <1>8 DEF JoinsSem, Dispatched
<1>11. Values(k)[s] = 0
  BY DEF Values
<1>12. /\ {p \in Slots : k.state[p] \in {"SLEEP", "WAITING"}} = {}
       /\ {p \in Slots : k.state[p] \in {"SLEEP", "WAITING"}}' = {}
  BY NobodySuspended DEF QIInv, IInv
<1>13. Abstract!Block(s)
  <2>1. Abstract!Enqueue(SemLists(k)[s], k.pcb) = [SemLists(k)[s] EXCEPT ![i] = Append(@, k.pcb)]
    BY DEF Abstract!Enqueue
  <2>2. SemLists(k') = [SemLists(k) EXCEPT ![s] = Abstract!Enqueue(SemLists(k)[s], k.pcb)]
    BY <1>10, <2>1
  <2> QED BY <1>1, <1>9, <1>10, <1>11, <1>12, <2>2, Views DEF Abstract!Block, Abstract!Busy
<1>14. Served(k')
  <2>1. ASSUME NEW t \in Semaphores, Values(k')[t] > 0
        PROVE  SemLists(k')[t] = SemLists(k)[t] /\ Values(k)[t] > 0
    <3>1. t # s /\ Values(k)[t] > 0
      BY <1>10, <1>11, <2>1
    <3>2. SemLists(k) = [u \in Semaphores |-> SemLists(k)[u]]
      BY DEF SemLists
    <3> QED BY <1>10, <3>1, <3>2
  <2> QED BY <2>1 DEF QIInv, Served
<1> QED BY <1>8, <1>13, <1>14, DispatchedConserves

\* V_kern when nobody is blocked keeps the unit.
LEMMA KeepImplements ==
  ASSUME QIInv, IInv', NEW s \in Semaphores, V(s),
         {j \in Priorities : k.sem[s].head[j] # NULL} = {}
  PROVE  Abstract!Release(s) /\ Served(k') /\ Conserved(k')
<1> DEFINE v == k.sem[s].value + 1
           d == [k EXCEPT !.sem[s].value = v]
<1>1. k \in Memory /\ k.pcb \in Slots /\ k.pcb # Idle
  BY RunningProcess DEF QIInv, V, UserCall
<1>2. k.sem[s].value \in Nat /\ Values(k)[s] = k.sem[s].value
  BY <1>1, QueueTypes DEF Values
<1>3. v \in Nat /\ v = Values(k)[s] + 1
  BY <1>2
<1>4. k' = d
  BY DEF V, V_kern
<1> HIDE DEF v
<1>5. Counts(k, s, v, d)
  BY <1>1, <1>3, ValueCounts
<1> HIDE DEF d
<1>6. /\ k'.pcb = k.pcb /\ k'.priority = k.priority
      /\ ReadyLists(k') = ReadyLists(k) /\ SemLists(k') = SemLists(k)
      /\ Values(k') = [Values(k) EXCEPT ![s] = v]
  BY <1>4, <1>5 DEF Counts
<1>7. \A j \in Priorities : SemLists(k)[s][j] = << >>
  BY <1>1, SemBegins
<1>8. Abstract!Nonempty(SemLists(k)[s]) = {}
  BY <1>7 DEF Abstract!Nonempty, Abstract!Levels, Priorities, TopPriority
<1>9. /\ {p \in Slots : k.state[p] \in {"SLEEP", "WAITING"}} = {}
      /\ {p \in Slots : k.state[p] \in {"SLEEP", "WAITING"}}' = {}
  BY NobodySuspended DEF QIInv, IInv
<1>10. Values(k') = [Values(k) EXCEPT ![s] = @ + 1]
  BY <1>3, <1>6
<1>11. Abstract!Release(s)
  BY <1>1, <1>6, <1>8, <1>9, <1>10, Views DEF Abstract!Release, Abstract!Busy
<1>12. Served(k')
  <2>1. ASSUME NEW t \in Semaphores, Values(k')[t] > 0, t # s
        PROVE  Values(k)[t] > 0
    BY <1>6, <2>1 DEF Values
  <2> QED BY <1>6, <1>7, <2>1 DEF QIInv, Served
<1> QED BY <1>6, <1>11, <1>12 DEF QIInv, Conserved

\* V_kern when somebody is blocked passes the unit to the first of them.
LEMMA PassImplements ==
  ASSUME QIInv, IInv', NEW s \in Semaphores, V(s),
         {j \in Priorities : k.sem[s].head[j] # NULL} # {}
  PROVE  Abstract!Release(s) /\ Served(k') /\ Conserved(k')
<1> DEFINE waiting == {j \in Priorities : k.sem[s].head[j] # NULL}
           i == Greatest(waiting)
           p == k.sem[s].head[i]
           c == [k EXCEPT !.sem[s].head[i] = k.next[p]]
           R == {k.pcb}
           q == SemLists(k)[s]
<1>1. /\ Core(k, R, {}) /\ k \in Memory /\ k.pcb # Idle /\ Queued(k, {})
  BY RunningProcess, RunnerFree DEF QIInv, IInv, V, UserCall
<1>2. i \in waiting /\ \A j \in waiting : j <= i
  <2>1. waiting \in SUBSET (0 .. PQ_SIZE - 1) /\ PQ_SIZE - 1 \in Nat
    BY PcbAssumption DEF Priorities
  <2> HIDE DEF waiting
  <2> QED BY <2>1, GreatestElement DEF waiting
<1>3. k' = ready(c, p)
  BY DEF V, V_kern
<1>4. i \in Priorities /\ p # NULL /\ \A j \in Priorities : k.sem[s].head[j] # NULL => j <= i
  BY <1>2
<1> HIDE DEF i, R
<1>5. p \in Slots /\ Core(c, R, {p})
  BY <1>1, <1>4, UnblockCore
<1>6. IsUnblocked(k, s, i, p, c)
  BY <1>1, <1>4, <1>5, UnblockEffect
<1> HIDE DEF c
<1>7. LeavesSem(k, c, s, i)
  BY <1>1, <1>4, <1>5, <1>6, UnblockLeaves
<1>8. /\ c \in Memory /\ Queued(c, {p}) /\ Unqueued(c, {p}, p)
      /\ c.pcb = k.pcb /\ c.pid[p] # 0
  <2>1. c \in Memory /\ Queued(c, {p}) /\ Placed(c, R, {p}) /\ Pids(c) /\ p # Idle
    BY <1>5 DEF Core
  <2>2. c.stack[p]
    BY <2>1 DEF Placed
  <2>3. c.pid[p] # 0
    BY <1>5, <2>1, <2>2 DEF Pids
  <2> QED BY <1>6, <2>1, <2>3 DEF Unqueued, IsUnblocked
<1> HIDE DEF p
<1>9. JoinsReady(c, k', p) /\ k'.pcb = k.pcb
  <2>1. c.priority[p] \in Priorities
    BY <1>5, <1>8 DEF Memory
  <2>2. c.head[c.priority[p]] # NULL => c.tail[c.priority[p]] \in Slots
    BY <1>8, <2>1, TailsAreSlots
  <2>3. IsReadied(c, p, k')
    BY <1>3, <1>5, <1>8, <2>2, ReadyEffect
  <2> DEFINE X == {p}
  <2>4. Queued(c, X) /\ Unqueued(c, X, p)
    BY <1>8
  <2> HIDE DEF X
  <2>5. JoinsReady(c, k', p)
    BY <1>5, <1>8, <2>3, <2>4, ReadyJoins
  <2> QED BY <1>8, <2>3, <2>5 DEF IsReadied
<1>10. /\ ReadyLists(k') = [ReadyLists(k) EXCEPT ![k.priority[p]] = Append(@, p)]
       /\ SemLists(k') = [SemLists(k) EXCEPT ![s] = [SemLists(k)[s] EXCEPT ![i] = Tail(@)]]
       /\ Values(k') = Values(k)
       /\ k'.priority = k.priority
  BY <1>7, <1>9 DEF JoinsReady, LeavesSem
<1>11. /\ i \in Abstract!Nonempty(q) /\ \A j \in Abstract!Nonempty(q) : j <= i
       /\ Abstract!Nonempty(q) \in SUBSET Nat
       /\ Head(q[i]) = p
  <2>1. Abstract!Nonempty(q) = {j \in Priorities : q[j] # << >>}
    BY DEF Abstract!Nonempty, Abstract!Levels, Priorities, TopPriority
  <2>2. Abstract!Nonempty(q) = waiting /\ Head(q[i]) = p
    BY <1>1, <1>4, <2>1, SemBegins DEF p
  <2> QED BY <1>4, <2>2, Constants DEF p
<1> HIDE DEF q, waiting
<1>12. Abstract!Highest(q) = i /\ Abstract!Nonempty(q) # {}
  BY <1>11 DEF Abstract!Highest
<1>13. /\ {u \in Slots : k.state[u] \in {"SLEEP", "WAITING"}} = {}
       /\ {u \in Slots : k.state[u] \in {"SLEEP", "WAITING"}}' = {}
  BY NobodySuspended DEF QIInv, IInv
<1>14. Abstract!Release(s)
  <2>1. ReadyLists(k') = Abstract!Enqueue(ReadyLists(k), Head(q[i]))
    BY <1>10, <1>11 DEF Abstract!Enqueue
  <2>2. SemLists(k') = [SemLists(k) EXCEPT ![s][i] = Tail(@)]
    BY <1>10
  <2> QED BY <1>1, <1>9, <1>10, <1>12, <1>13, <2>1, <2>2, Views
      DEF Abstract!Release, Abstract!Busy, q
<1>15. Served(k')
  <2>1. ASSUME NEW t \in Semaphores, Values(k')[t] > 0
        PROVE  SemLists(k')[t] = SemLists(k)[t] /\ Values(k)[t] > 0
    <3>1. t # s
      <4>1. q[i] # << >>
        BY <1>11 DEF Abstract!Nonempty
      <4> QED BY <1>4, <1>10, <2>1, <4>1 DEF QIInv, Served, q
    <3>2. SemLists(k) = [u \in Semaphores |-> SemLists(k)[u]]
      BY DEF SemLists
    <3> QED BY <1>10, <2>1, <3>1, <3>2
  <2> QED BY <2>1 DEF QIInv, Served
<1> QED BY <1>1, <1>9, <1>14, <1>15 DEF Conserved

(***************************************************************************)
(* create(): a stopped slot, if there is one, goes to the end of the list  *)
(* of the top priority.                                                    *)
(***************************************************************************)
CreatedReady(m, p, n) ==
  /\ p \in Slots \ {Idle} /\ m.state[p] = "STOPPED"
  /\ n.pcb = m.pcb
  /\ n.priority = [m.priority EXCEPT ![p] = TopPriority]
  /\ ReadyLists(n) = [ReadyLists(m) EXCEPT ![TopPriority] = Append(@, p)]
  /\ SemLists(n) = SemLists(m)
  /\ Values(n) = Values(m)

LEMMA CreateJoins ==
  ASSUME NEW m, NEW R, Core(m, R, {}), {q \in Slots : m.state[q] = "STOPPED"} # {}
  PROVE  \E p : CreatedReady(m, p, create(m))
<1> DEFINE free == {q \in Slots : m.state[q] = "STOPPED"}
           p == Least(free)
           f == Filled(m, p)
           n == create(m)
           X == {}
<1>1. m \in Memory /\ Placed(m, R, {}) /\ Pids(m) /\ Queued(m, X)
  BY DEF Core
<1>2. n = ready(f, p) /\ p \in Slots /\ m.state[p] = "STOPPED"
  BY <1>1, CreateFills
<1> HIDE DEF p, n
<1>3. p # Idle
  BY <1>1, <1>2 DEF Placed
<1>4. IsFilled(m, p, f)
  BY <1>1, <1>2, FilledEffect
<1> HIDE DEF f
<1>5. /\ f \in Memory /\ f.pid = [m.pid EXCEPT ![p] = m.pcb_id]
      /\ f.priority = [m.priority EXCEPT ![p] = TopPriority]
      /\ f.semNo = [m.semNo EXCEPT ![p] = -1]
      /\ f.state = m.state /\ f.head = m.head /\ f.tail = m.tail
      /\ f.next = m.next /\ f.sem = m.sem /\ f.pcb = m.pcb
  BY <1>4 DEF IsFilled
<1>6. f.priority[p] = TopPriority /\ f.priority[p] \in Priorities
  <2>1. m.priority \in [Slots -> Priorities]
    BY <1>1 DEF Memory
  <2> QED BY <1>2, <1>5, <2>1, Constants
<1>7. f.pid[p] # 0
  <2>1. m.pid \in [Slots -> Nat] /\ m.pcb_id \in Nat
    BY <1>1 DEF Memory
  <2>2. m.pid[Idle] = 0 /\ m.pid[Idle] < m.pcb_id
    BY <1>1, Constants DEF Pids
  <2> QED BY <1>2, <1>5, <2>1, <2>2
<1>8. Queued(f, X)
  <2>1. \A q \in Slots \ {p} : f.priority[q] = m.priority[q] /\ f.semNo[q] = m.semNo[q]
    BY <1>1, <1>2, <1>5 DEF Memory
  <2>2. \A j \in Priorities : InReady(f, X, j) = InReady(m, X, j)
    BY <1>2, <1>5, <2>1 DEF InReady
  <2>3. \A s \in Semaphores, j \in Priorities : InSem(f, X, s, j) = InSem(m, X, s, j)
    BY <1>2, <1>5, <2>1 DEF InSem
  <2>4. SameQueues(m, X, f, X)
    BY <1>5, <2>2, <2>3 DEF SameQueues
  <2> HIDE DEF X
  <2> QED BY <1>1, <2>4, QueuedFrame
<1> HIDE DEF X
<1>9. IsReadied(f, p, n)
  <2>1. f.head[f.priority[p]] # NULL => f.tail[f.priority[p]] \in Slots
    BY <1>6, <1>8, TailsAreSlots
  <2> QED BY <1>2, <1>5, <1>7, <2>1, ReadyEffect
<1>10. JoinsReady(f, n, p)
  <2>1. Unqueued(f, X, p)
    BY <1>2, <1>5 DEF Unqueued
  <2> QED BY <1>2, <1>5, <1>8, <1>9, <2>1, ReadyJoins
<1>11. /\ ReadyLists(f) = ReadyLists(m) /\ SemLists(f) = SemLists(m)
       /\ Values(f) = Values(m)
  BY <1>5 DEF ReadyLists, SemLists, Values
<1>12. n.pcb = m.pcb
  BY <1>5, <1>9 DEF IsReadied
<1>13. CreatedReady(m, p, n)
  BY <1>2, <1>3, <1>5, <1>6, <1>10, <1>11, <1>12 DEF CreatedReady, JoinsReady
<1> QED BY <1>13 DEF n

\* The members of a listing.
LEMMA ListingMembers ==
  ASSUME NEW w, NEW S, NEW first, NEW last, NEW link, IsListing(w, S, first, last, link)
  PROVE  ToSet(w) = S
<1>1. w \in Seq(Slots) /\ \A p : p \in S <=> \E j \in 1 .. Len(w) : p = w[j]
  BY DEF IsListing
<1>2. DOMAIN w = 1 .. Len(w)
  BY <1>1
<1> QED BY <1>1, <1>2 DEF ToSet

\* A slot that is free is in no list.
LEMMA StoppedUnlisted ==
  ASSUME IInv, NEW p \in Slots \ {Idle}, k.state[p] = "STOPPED"
  PROVE  p \in Abstract!Free
<1> DEFINE X == {}
<1>1. k \in Memory /\ Queued(k, X) /\ k.state[k.pcb] = "RUNNING"
  BY RunningProcess, RunnerFree
<1>2. ASSUME NEW i \in Priorities PROVE p \notin ToSet(ReadyLists(k)[i])
  <2>1. p \notin InReady(k, X, i)
    BY DEF InReady
  <2> HIDE DEF X
  <2> QED BY <1>1, <2>1, ReadyListed, ListingMembers
<1>3. ASSUME NEW s \in Semaphores, NEW i \in Priorities
      PROVE  p \notin ToSet(SemLists(k)[s][i])
  <2>1. p \notin InSem(k, X, s, i)
    BY DEF InSem
  <2> HIDE DEF X
  <2> QED BY <1>1, <2>1, SemListed, ListingMembers
<1>4. Abstract!Levels = Priorities
  BY DEF Abstract!Levels, Priorities, TopPriority
<1>5. p \notin Abstract!Members(ReadyLists(k))
  BY <1>2, <1>4 DEF Abstract!Members, Abstract!ToSet, ToSet
<1>6. ASSUME NEW s \in Semaphores PROVE p \notin Abstract!Members(SemLists(k)[s])
  <2> DEFINE q == SemLists(k)[s]
  <2>1. \A i \in Priorities : p \notin ToSet(q[i])
    BY <1>3
  <2> HIDE DEF q
  <2>2. p \notin Abstract!Members(q)
    BY <1>4, <2>1 DEF Abstract!Members, Abstract!ToSet, ToSet
  <2> QED BY <2>2 DEF q
<1>7. \A s \in Semaphores : QueueOf(k.sem[s].head) = SemLists(k)[s]
  BY DEF QueueOf, SemLists, Lists
<1> QED BY <1>1, <1>5, <1>6, <1>7, Views DEF Abstract!Free

\* SYS_CREATE is Create, or changes nothing when no slot is free.
LEMMA CreateImplements ==
  ASSUME QIInv, IInv', Create
  PROVE  (Abstract!Create \/ k' = k) /\ Served(k') /\ Conserved(k')
<1> DEFINE free == {q \in Slots : k.state[q] = "STOPPED"}
           R == {k.pcb}
<1>1. /\ Core(k, R, {}) /\ k \in Memory /\ k.pcb # Idle /\ k' = create(k)
  BY RunningProcess DEF QIInv, IInv, Create, UserCall
<1>2. CASE free = {}
  <2>1. create(k) = k
    BY <1>2 DEF create
  <2>2. k' = k
    BY <1>1, <2>1
  <2> QED BY <2>2 DEF QIInv
<1>3. CASE free # {}
  <2> HIDE DEF R
  <2>1. PICK p : CreatedReady(k, p, k')
    BY <1>1, <1>3, CreateJoins
  <2>2. p \in Abstract!Free
    BY <2>1, StoppedUnlisted DEF CreatedReady, QIInv
  <2>3. /\ k'.pcb = k.pcb
        /\ k'.priority = [k.priority EXCEPT ![p] = TopPriority]
        /\ ReadyLists(k') = [ReadyLists(k) EXCEPT ![TopPriority] = Append(@, p)]
        /\ SemLists(k') = SemLists(k) /\ Values(k') = Values(k)
    BY <2>1 DEF CreatedReady
  <2>4. /\ {q \in Slots : k.state[q] \in {"SLEEP", "WAITING"}} = {}
        /\ {q \in Slots : k.state[q] \in {"SLEEP", "WAITING"}}' = {}
    BY NobodySuspended DEF QIInv, IInv
  <2>5. Abstract!Create
    BY <1>1, <2>2, <2>3, <2>4, Views DEF Abstract!Create, Abstract!Busy
  <2> QED BY <1>1, <2>3, <2>5, SameServed DEF QIInv, Conserved
<1> QED BY <1>2, <1>3
-----------------------------------------------------------------------------
(***************************************************************************)
(* Start-up: the first process is taken from the list of the top priority, *)
(* where create() put it, and every list is empty.                         *)
(***************************************************************************)
Vacant(m) ==
  /\ \A i \in Priorities : ReadyLists(m)[i] = << >>
  /\ \A s \in Semaphores : Values(m)[s] = 0 /\ \A i \in Priorities : SemLists(m)[s][i] = << >>

LEMMA BootVacant == Vacant(create(BootMemory))
<1> DEFINE c == create(BootMemory)
<1>1. Core(c, {}, {}) /\ Booted(c)
  BY BootCore
<1>2. c \in Memory
  BY <1>1 DEF Core
<1> HIDE DEF c
<1>3. \A i \in Priorities : ReadyLists(c)[i] = << >>
  BY <1>1, <1>2, ReadyBegins DEF Booted
<1>4. \A s \in Semaphores : Values(c)[s] = 0
  BY <1>1 DEF Booted, Values
<1>5. \A s \in Semaphores, i \in Priorities : SemLists(c)[s][i] = << >>
  BY <1>1, <1>2, SemBegins DEF Booted
<1> QED BY <1>3, <1>4, <1>5 DEF Vacant, c

\* next() takes the only process from an otherwise empty ready queue.
LEMMA OnlyDispatched ==
  ASSUME NEW c, Vacant(c), NEW p, NEW m, CreatedReady(c, p, m), NEW n, Dispatched(m, n)
  PROVE  n.pcb = p /\ p # Idle /\ p \in Slots /\ Vacant(n)
<1>1. /\ ReadyLists(m) = [ReadyLists(c) EXCEPT ![TopPriority] = Append(@, p)]
      /\ SemLists(m) = SemLists(c) /\ Values(m) = Values(c) /\ p \in Slots \ {Idle}
  BY DEF CreatedReady
<1>2. TopPriority \in Priorities /\ DOMAIN ReadyLists(c) = Priorities
  BY Constants DEF ReadyLists, Lists
<1>3. /\ ReadyLists(m)[TopPriority] = << p >>
      /\ \A i \in Priorities \ {TopPriority} : ReadyLists(m)[i] = << >>
  <2>1. ReadyLists(c)[TopPriority] = << >> /\ Append(<< >>, p) = << p >>
    BY <1>2 DEF Vacant
  <2> QED BY <1>1, <1>2, <2>1 DEF Vacant
<1>4. PICK i \in Priorities : FirstLeaves(m, i, n)
  <2>1. ~ NobodyLeaves(m, n)
    BY <1>2, <1>3 DEF NobodyLeaves
  <2> QED BY <2>1 DEF Dispatched
<1>5. i = TopPriority
  BY <1>3, <1>4 DEF FirstLeaves
<1>6. n.pcb = p
  BY <1>3, <1>4, <1>5 DEF FirstLeaves
<1>7. \A j \in Priorities : ReadyLists(n)[j] = << >>
  <2>1. Tail(<< p >>) = << >>
    OBVIOUS
  <2>2. ReadyLists(n) = [ReadyLists(m) EXCEPT ![TopPriority] = << >>]
    BY <1>3, <1>4, <1>5, <2>1 DEF FirstLeaves
  <2>3. DOMAIN ReadyLists(m) = Priorities
    BY DEF ReadyLists, Lists
  <2> QED BY <1>3, <2>2, <2>3
<1>8. SemLists(n) = SemLists(c) /\ Values(n) = Values(c)
  BY <1>1 DEF Dispatched
<1> QED BY <1>1, <1>6, <1>7, <1>8 DEF Vacant

\* The kernel starts where the abstract scheduler does.
LEMMA InitQueues ==
  ASSUME Init
  PROVE  QIInv /\ Abstract!Init
<1> DEFINE c == create(BootMemory)
           m == create(c)
           R == {}
<1>1. Core(c, R, {}) /\ Booted(c) /\ Vacant(c)
  BY BootCore, BootVacant
<1>2. k = next(m)
  BY DEF Init
<1>3. IInv
  BY InitInv
<1> HIDE DEF c
<1>4. {q \in Slots : c.state[q] = "STOPPED"} # {}
  <2>1. 1 \in Slots \ {Idle}
    BY PcbAssumption DEF Slots, Idle
  <2> QED BY <1>1, <2>1 DEF Booted
<1>5. Core(m, {}, {})
  BY <1>1, CreateCore
<1> HIDE DEF R
<1>6. PICK p : CreatedReady(c, p, m)
  BY <1>1, <1>4, CreateJoins
<1>7. m \in Memory /\ Queued(m, {})
  BY <1>5 DEF Core
<1> HIDE DEF m
<1>8. Dispatched(m, k)
  BY <1>2, <1>7, NextDispatched
<1>9. k.pcb = p /\ p \in Slots \ {Idle} /\ Vacant(k)
  BY <1>1, <1>6, <1>8, OnlyDispatched
<1>10. k.priority[p] = TopPriority /\ k.priority \in [Slots -> Priorities]
  <2>1. k \in Memory
    BY <1>3, RunningProcess
  <2>2. k.priority \in [Slots -> Priorities]
    BY <2>1 DEF Memory
  <2>3. k.priority = [c.priority EXCEPT ![p] = TopPriority]
    BY <1>6, <1>8 DEF CreatedReady, Dispatched
  <2> QED BY <1>9, <2>2, <2>3
<1>11. Served(k) /\ Conserved(k)
  BY <1>9 DEF Served, Conserved, Vacant
<1>12. Abstract!Levels = Priorities
  BY DEF Abstract!Levels, Priorities, TopPriority
<1>13. ReadyLists(k) = [i \in Abstract!Levels |-> << >>]
  BY <1>9, <1>12 DEF Vacant, ReadyLists, Lists
<1>14. SemLists(k) = [s \in Semaphores |-> [i \in Abstract!Levels |-> << >>]]
  <2>1. ASSUME NEW s \in Semaphores PROVE SemLists(k)[s] = [i \in Abstract!Levels |-> << >>]
    BY <1>9, <1>12 DEF Vacant, SemLists, Lists
  <2>2. SemLists(k) = [s \in Semaphores |-> SemLists(k)[s]]
    BY DEF SemLists
  <2> QED BY <2>1, <2>2
<1>15. Values(k) = [s \in Semaphores |-> 0]
  BY <1>9 DEF Vacant, Values
<1>16. {q \in Slots : k.state[q] \in {"SLEEP", "WAITING"}} = {}
  BY <1>3, NobodySuspended DEF IInv
<1>17. Abstract!Init
  BY <1>9, <1>10, <1>12, <1>13, <1>14, <1>15, <1>16, Views DEF Abstract!Init
<1> QED BY <1>3, <1>11, <1>17 DEF QIInv

(***************************************************************************)
(* The timer while the idle process runs: nobody is ready, so the idle     *)
(* process goes on, and nothing has changed.                               *)
(***************************************************************************)
LEMMA IdleStutters ==
  ASSUME QIInv, k.pcb = Idle
  PROVE  next(ready(k, k.pcb)) = k
<1> DEFINE sta == [k.state EXCEPT ![Idle] = "READY"]
           r == [k EXCEPT !.state = sta]
<1>1. k \in Memory /\ k.pcb \in Slots /\ k.state[k.pcb] = "RUNNING"
  BY RunningProcess DEF QIInv
<1>2. k.pid[Idle] = 0
  BY DEF QIInv, IInv, Core, Pids
<1>3. ready(k, k.pcb) = r
  BY <1>1, <1>2 DEF ready, Memory
<1>4. /\ r.head = k.head /\ r.state = sta
      /\ [r EXCEPT !.state = k.state, !.pcb = Idle] = k
  BY <1>1 DEF Memory
<1>5. [sta EXCEPT ![Idle] = "RUNNING"] = k.state
  BY <1>1, Constants DEF Memory
<1> HIDE DEF sta
<1>6. \A i \in Priorities : r.head[i] = NULL
  BY <1>1, <1>4, ReadyBegins DEF QIInv, Conserved
<1> HIDE DEF r
<1>7. next(r) = [r EXCEPT !.state = [r.state EXCEPT ![Idle] = "RUNNING"], !.pcb = Idle]
  BY <1>6 DEF next
<1> QED BY <1>3, <1>4, <1>5, <1>7

\* What leaves the kernel memory leaves the abstract queues.
LEMMA AbstractStutters ==
  ASSUME k' = k
  PROVE  UNCHANGED Abstract!vars
<1>1. /\ QueueOf(k.head)' = QueueOf(k.head)
      /\ [s \in Semaphores |-> QueueOf(k.sem[s].head)]'
           = [s \in Semaphores |-> QueueOf(k.sem[s].head)]
      /\ [s \in Semaphores |-> k.sem[s].value]' = [s \in Semaphores |-> k.sem[s].value]
  BY Views
<1>2. {p \in Slots : k.state[p] \in {"SLEEP", "WAITING"}}'
        = {p \in Slots : k.state[p] \in {"SLEEP", "WAITING"}}
  OBVIOUS
<1> QED BY <1>1, <1>2 DEF Abstract!vars

\* Each step of the kernel is one of the abstract scheduler, or a stutter.
LEMMA StepQueues ==
  ASSUME Calls \subseteq SchedulerCalls, QIInv, Next
  PROVE  [Abstract!Next]_(Abstract!vars) /\ QIInv'
<1>1. IInv /\ IInv'
  BY StepInv DEF QIInv
<1>2. CASE Create
  <2>1. (Abstract!Create \/ k' = k) /\ Served(k') /\ Conserved(k')
    BY <1>1, <1>2, CreateImplements
  <2> QED BY <1>1, <2>1, AbstractStutters DEF Abstract!Next, QIInv
<1>3. CASE Yield
  <2>1. k.pcb # Idle /\ k' = next(ready(k, k.pcb))
    BY <1>1, <1>3, RunningProcess DEF Yield, UserCall
  <2>2. Abstract!Yield /\ Served(k') /\ Conserved(k')
    BY <1>1, <2>1, YieldImplements
  <2> QED BY <1>1, <2>2 DEF Abstract!Next, QIInv
<1>4. CASE Stop
  <2>1. Abstract!Stop /\ Served(k') /\ Conserved(k')
    BY <1>1, <1>4, StopImplements
  <2> QED BY <1>1, <2>1 DEF Abstract!Next, QIInv
<1>5. CASE SetPrio
  <2>1. Abstract!SetPriority /\ Served(k') /\ Conserved(k')
    BY <1>1, <1>5, SetPrioImplements
  <2> QED BY <1>1, <2>1 DEF Abstract!Next, QIInv
<1>6. ASSUME NEW s \in Semaphores, P(s)
      PROVE  [Abstract!Next]_(Abstract!vars) /\ QIInv'
  <2>1. CASE k.sem[s].value = 0
    <3>1. Abstract!Block(s) /\ Served(k') /\ Conserved(k')
      BY <1>1, <1>6, <2>1, BlockImplements
    <3> QED BY <1>1, <3>1 DEF Abstract!Next, QIInv
  <2>2. CASE k.sem[s].value # 0
    <3>1. Abstract!Take(s) /\ Served(k') /\ Conserved(k')
      BY <1>1, <1>6, <2>2, TakeImplements
    <3> QED BY <1>1, <3>1 DEF Abstract!Next, QIInv
  <2> QED BY <2>1, <2>2
<1>7. ASSUME NEW s \in Semaphores, V(s)
      PROVE  [Abstract!Next]_(Abstract!vars) /\ QIInv'
  <2>1. Abstract!Release(s) /\ Served(k') /\ Conserved(k')
    BY <1>1, <1>7, KeepImplements, PassImplements
  <2> QED BY <1>1, <2>1 DEF Abstract!Next, QIInv
<1>8. CASE TimerInt
  <2>1. k' = next(ready(k, k.pcb))
    <3>1. tick(k) = k
      BY <1>1, RunningProcess DEF tick
    <3> QED BY <1>8, <3>1 DEF TimerInt
  <2>2. CASE k.pcb = Idle
    <3>1. k' = k
      BY <2>1, <2>2, IdleStutters
    <3> QED BY <1>1, <3>1, AbstractStutters DEF QIInv
  <2>3. CASE k.pcb # Idle
    <3>1. Abstract!Yield /\ Served(k') /\ Conserved(k')
      BY <1>1, <2>1, <2>3, YieldImplements
    <3> QED BY <1>1, <3>1 DEF Abstract!Next, QIInv
  <2> QED BY <2>2, <2>3
<1>9. /\ ~ \E ms \in Millis : SysSleep(ms)
      /\ ~ \E id \in 0 .. MaxPid : Wait(id)
      /\ ~ \E id \in 0 .. MaxPid, s \in Signals : Kill(id, s)
  BY DEF SysSleep, Wait, Kill, UserCall, SchedulerCalls
<1>10. ~ (\E s \in Signals, handler \in BOOLEAN : SetSignal(s, handler)) /\ ~ SigReturn
  BY DEF SetSignal, SigReturn, UserCall, SchedulerCalls
<1> QED BY <1>2, <1>3, <1>4, <1>5, <1>6, <1>7, <1>8, <1>9, <1>10 DEF Next, OtherCall, OwnCall
-----------------------------------------------------------------------------
(***************************************************************************)
(* Besides what SchedulerInvariant says, no process is blocked on a        *)
(* semaphore that has units left, and the idle process has the processor   *)
(* only while no process is ready.                                         *)
(***************************************************************************)
THEOREM SchedulerServes ==
  ASSUME Calls \subseteq SchedulerCalls
  PROVE  Spec => []QIInv
<1>1. QIInv /\ UNCHANGED k => QIInv'
  BY DEF QIInv, IInv
<1>2. QIInv /\ [Next]_k => QIInv'
  BY StepQueues, <1>1
<1> QED BY InitQueues, <1>2, PTL DEF Spec

(***************************************************************************)
(* The linked lists of c/pcb.c and c/sem.c implement the queues of         *)
(* PriorityScheduler: create, yield, stop, setprio, P, V and the timer     *)
(* each do to the lists what the abstract scheduler does, and pick the     *)
(* process that it picks.                                                  *)
(***************************************************************************)
THEOREM SchedulerImplements ==
  ASSUME Calls \subseteq SchedulerCalls
  PROVE  Spec => ImplementsQueues
<1>1. Init => Abstract!Init
  BY InitQueues
<1>2. QIInv /\ UNCHANGED k => UNCHANGED Abstract!vars
  BY AbstractStutters
<1>3. QIInv /\ [Next]_k => [Abstract!Next]_(Abstract!vars)
  BY StepQueues, <1>2
<1> QED BY SchedulerServes, <1>1, <1>3, PTL DEF Spec, ImplementsQueues, Abstract!Spec

\* A listing is what Holds says of a queue.
LEMMA ListingHolds ==
  ASSUME NEW first, NEW last, NEW S,
         IsListing(Chain(k.next, first), S, first, last, k.next)
  PROVE  Holds(first, last, S)
<1> DEFINE w == Chain(k.next, first)
<1>1. w \in Seq(Slots) /\ \A i, j \in 1 .. Len(w) : w[i] = w[j] => i = j
  BY DEF IsListing
<1>2. w # << >> => w[Len(w)] = last
  BY DEF IsListing
<1>3. ToSet(w) = S
  BY ListingMembers
<1> HIDE DEF w
<1>4. Len(w) <= PCB_TABLE_SIZE
  BY <1>1, DistinctSlots
<1>5. ~ IsCyclic(w)
  BY <1>1, <1>4, PcbAssumption DEF IsCyclic
<1> QED BY <1>2, <1>3, <1>5 DEF Holds, w

(***************************************************************************)
(* The ready queue of a priority holds each ready process of that priority *)
(* once, and nobody else: next() can lose no process and take none twice.  *)
(***************************************************************************)
THEOREM SchedulerReadyQueues ==
  ASSUME Calls \subseteq SchedulerCalls
  PROVE  Spec => []ReadyQueues
<1>1. ASSUME QIInv PROVE ReadyQueues
  <2> DEFINE X == {}
  <2>1. k \in Memory /\ Queued(k, X)
    BY <1>1, RunningProcess, RunnerFree DEF QIInv
  <2>2. \A i \in Priorities : InReady(k, X, i)
          = {p \in Slots \ {Idle} : k.state[p] = "READY" /\ k.priority[p] = i}
    BY DEF InReady
  <2> HIDE DEF X
  <2>3. ASSUME NEW i \in Priorities
        PROVE  Holds(k.head[i], k.tail[i], InReady(k, X, i))
    <3>1. IsListing(ReadyLists(k)[i], InReady(k, X, i), k.head[i], k.tail[i], k.next)
      BY <2>1, ReadyListed
    <3> DEFINE first == k.head[i]
               last == k.tail[i]
               S == InReady(k, X, i)
    <3>2. ReadyLists(k)[i] = Chain(k.next, first)
      BY <2>1, ReadyBegins
    <3>3. IsListing(Chain(k.next, first), S, first, last, k.next)
      BY <3>1, <3>2
    <3> HIDE DEF first, last, S
    <3>4. Holds(first, last, S)
      BY <3>3, ListingHolds
    <3> QED BY <3>4 DEF first, last, S
  <2> QED BY <2>2, <2>3 DEF ReadyQueues
<1> QED BY SchedulerServes, <1>1, PTL

(***************************************************************************)
(* The list of a semaphore for a priority holds each process blocked on it *)
(* at that priority once, and nobody else; all are empty while the         *)
(* semaphore has units.                                                    *)
(***************************************************************************)
THEOREM SchedulerSemaphoreQueues ==
  ASSUME Calls \subseteq SchedulerCalls
  PROVE  Spec => []SemaphoreQueues
<1>1. ASSUME QIInv PROVE SemaphoreQueues
  <2> DEFINE X == {}
  <2>1. k \in Memory /\ Queued(k, X)
    BY <1>1, RunningProcess, RunnerFree DEF QIInv
  <2>2. \A s \in Semaphores, i \in Priorities : InSem(k, X, s, i)
          = {p \in Slots : k.state[p] = "BLOCKED" /\ k.semNo[p] = s /\ k.priority[p] = i}
    <3>1. k.state[Idle] # "BLOCKED"
      BY <1>1 DEF QIInv, IInv, Core, Placed
    <3> QED BY <3>1 DEF InSem
  <2> HIDE DEF X
  <2>3. ASSUME NEW s \in Semaphores, NEW i \in Priorities
        PROVE  Holds(k.sem[s].head[i], k.sem[s].tail[i], InSem(k, X, s, i))
    <3>1. IsListing(SemLists(k)[s][i], InSem(k, X, s, i),
                    k.sem[s].head[i], k.sem[s].tail[i], k.next)
      BY <2>1, SemListed
    <3> DEFINE first == k.sem[s].head[i]
               last == k.sem[s].tail[i]
               S == InSem(k, X, s, i)
    <3>2. SemLists(k)[s][i] = Chain(k.next, first)
      BY <2>1, SemBegins
    <3>3. IsListing(Chain(k.next, first), S, first, last, k.next)
      BY <3>1, <3>2
    <3> HIDE DEF first, last, S
    <3>4. Holds(first, last, S)
      BY <3>3, ListingHolds
    <3> QED BY <3>4 DEF first, last, S
  <2>4. ASSUME NEW s \in Semaphores, k.sem[s].value > 0, NEW i \in Priorities
        PROVE  k.sem[s].head[i] = NULL
    <3>1. SemLists(k)[s][i] = << >>
      BY <1>1, <2>4 DEF QIInv, Served, Values
    <3>2. SemLists(k)[s][i] = << >> <=> k.sem[s].head[i] = NULL
      BY <2>1, SemBegins
    <3> QED BY <3>1, <3>2
  <2>5. ASSUME NEW s \in Semaphores, NEW i \in Priorities
        PROVE  Holds(k.sem[s].head[i], k.sem[s].tail[i],
                     {p \in Slots : k.state[p] = "BLOCKED" /\ k.semNo[p] = s /\ k.priority[p] = i})
    <3>1. InSem(k, X, s, i)
            = {p \in Slots : k.state[p] = "BLOCKED" /\ k.semNo[p] = s /\ k.priority[p] = i}
      BY <2>2
    <3> HIDE DEF InSem, Holds
    <3> QED BY <2>3, <3>1
  <2> QED BY <2>4, <2>5 DEF SemaphoreQueues
<1> QED BY SchedulerServes, <1>1, PTL
=============================================================================
