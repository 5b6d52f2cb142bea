--------------------------- MODULE KernelEffects ---------------------------
(***************************************************************************)
(* What the functions of the kernel do to a memory about whose queues      *)
(* nothing is known.  Module KernelProofs follows the queues, and so is    *)
(* about workloads that keep them well linked.  Here every list may be     *)
(* broken or cyclic: a lemma says which fields a function can change and   *)
(* how states change, and that is enough to prove, for every workload of   *)
(* module Kernel, what does not depend on the order of a queue: types,     *)
(* pids, and in module SignalProofs the signal masks.                      *)
(***************************************************************************)
EXTENDS KernelProofs

(***************************************************************************)
(* n is a memory whose pids and signals are those of m.                    *)
(***************************************************************************)
Keeps(m, n) ==
  /\ n \in Memory
  /\ n.pid = m.pid
  /\ n.pcb_id = m.pcb_id
  /\ n.frames = m.frames
  /\ n.sig_mask = m.sig_mask
  /\ n.sig_ignored = m.sig_ignored
  /\ n.sigTable = m.sigTable

\* The idle process, NULL and the top priority have the types they are used
\* at.
LEMMA ConstantTypes ==
  /\ Idle \in Slots /\ Idle \in Pointers
  /\ NULL \notin Slots /\ NULL \in Pointers
  /\ Slots \subseteq Pointers
  /\ TopPriority \in Priorities
  /\ Slots \in SUBSET Nat
BY PcbAssumption DEF Slots, Idle, Priorities, TopPriority, Pointers

Readies(m, p, n) ==
  /\ Keeps(m, n)
  /\ n.pcb = m.pcb
  /\ n.stack = m.stack
  /\ n.fault = m.fault
  /\ n.state = [m.state EXCEPT ![IF m.pid[p] = 0 THEN Idle ELSE p] = "READY"]

\* ready(p) changes one state and the links, and reads a pid of 0 as the idle
\* process.
LEMMA ReadyKeeps ==
  ASSUME NEW m \in Memory, NEW p \in Slots
  PROVE  Readies(m, p, ready(m, p))
<1> DEFINE i == m.priority[p]
           r == ready(m, p)
<1>0. i \in Priorities /\ m.head[i] \in Pointers /\ m.tail[i] \in Pointers
  BY DEF Memory, Queues
<1>1. CASE m.pid[p] = 0
  <2>1. r = [m EXCEPT !.state = [m.state EXCEPT ![Idle] = "READY"]]
    BY <1>1 DEF ready
  <2> HIDE DEF r
  <2> DEFINE sta == [m.state EXCEPT ![Idle] = "READY"]
  <2>2. sta \in [Slots -> States]
    BY ConstantTypes DEF Memory, States
  <2> HIDE DEF sta
  <2>3. /\ r = [m EXCEPT !.state = sta]
        /\ sta = [m.state EXCEPT ![IF m.pid[p] = 0 THEN Idle ELSE p] = "READY"]
    BY <1>1, <2>1 DEF sta
  <2>4. /\ r \in Memory /\ Keeps(m, r) /\ r.state = sta
        /\ r.pcb = m.pcb /\ r.stack = m.stack /\ r.fault = m.fault
    BY <2>2, <2>3 DEF Keeps, Memory
  <2>5. Readies(m, p, r)
    BY <2>3, <2>4 DEF Readies
  <2> QED BY <2>5 DEF r
<1>2. CASE m.pid[p] # 0
  <2> DEFINE last == IF m.head[i] = NULL THEN NULL ELSE m.tail[i]
             nxt == IF last = NULL THEN [m.next EXCEPT ![p] = NULL]
                    ELSE [m.next EXCEPT ![p] = NULL, ![last] = p]
             prv == [m.prev EXCEPT ![p] = last]
             sta == [m.state EXCEPT ![p] = "READY"]
             hea == [m.head EXCEPT ![i] = IF m.head[i] = NULL THEN p ELSE m.head[i]]
             tai == [m.tail EXCEPT ![i] = p]
  <2>1. r = [m EXCEPT !.next = nxt, !.prev = prv, !.state = sta, !.head = hea, !.tail = tai]
    <3> DEFINE l == linkLast(m, p, last)
    <3>1. l = [m EXCEPT !.next = nxt, !.prev = prv]
      BY DEF linkLast
    <3>2. r = [l EXCEPT !.state[p] = "READY",
                        !.head[i] = IF @ = NULL THEN p ELSE @,
                        !.tail[i] = p]
      BY <1>2 DEF ready
    <3> HIDE DEF l, nxt, prv, r
    <3> QED BY <3>1, <3>2
  <2>2. /\ nxt \in [Slots -> Pointers] /\ prv \in [Slots -> Pointers]
        /\ sta \in [Slots -> States] /\ hea \in Queues /\ tai \in Queues
    BY <1>0, ConstantTypes DEF Memory, Queues, Pointers, States
  <2> HIDE DEF nxt, prv, hea, tai, last, r
  <2>3. Readies(m, p, r)
    BY <1>2, <2>1, <2>2 DEF Readies, Keeps, Memory
  <2> QED BY <2>3 DEF r
<1> QED BY <1>1, <1>2
-----------------------------------------------------------------------------
(***************************************************************************)
(* The sum in TicksBefore, one sleeper at a time.                          *)
(***************************************************************************)
Sums(sum, ticks, chain) ==
  sum = [j \in 0 .. Len(chain) |-> IF j = 0 THEN 0 ELSE sum[j - 1] + ticks[chain[j]]]

\* TicksBefore adds the ticks of a list of sleepers, from its first on.
LEMMA TicksAdd ==
  ASSUME NEW m, m.tick \in [Slots -> Nat], NEW chain \in Seq(Slots)
  PROVE  /\ TicksBefore(m, chain, 0) = 0
         /\ \A j \in 0 .. Len(chain) : TicksBefore(m, chain, j) \in Nat
         /\ \A j \in 1 .. Len(chain) :
              TicksBefore(m, chain, j) =
                TicksBefore(m, chain, j - 1) + m.tick[chain[j]]
<1> DEFINE N == Len(chain)
           F == [x \in Nat \X Nat |->
                   IF x[1] \in 1 .. N THEN x[2] + m.tick[chain[x[1]]] ELSE x[2]]
           S == CHOOSE sum : Sums(sum, m.tick, chain)
<1>0. N \in Nat /\ \A j \in 1 .. N : m.tick[chain[j]] \in Nat
  OBVIOUS
<1>1. PICK g : IsLoop(g, N, Nat, 0, F)
  <2>1. F \in [Nat \X Nat -> Nat]
    BY <1>0
  <2>2. IsStep(F, Nat)
    BY <2>1 DEF IsStep
  <2> HIDE DEF F
  <2> QED BY <1>0, <2>2, LoopExists
<1>2. ASSUME NEW n \in 0 .. N
      PROVE  g[n] = IF n = 0 THEN 0 ELSE g[n - 1] + m.tick[chain[n]]
  <2>1. CASE n = 0
    BY <1>1, <2>1 DEF IsLoop
  <2>2. CASE n # 0
    <3>1. n - 1 \in 0 .. N /\ n \in Nat /\ n \in 1 .. N
      BY <1>0, <2>2
    <3>2. << n, g[n - 1] >> \in Nat \X Nat
      BY <1>1, <3>1 DEF IsLoop
    <3>3. F[<< n, g[n - 1] >>] = g[n - 1] + m.tick[chain[n]]
      BY <3>1, <3>2
    <3> HIDE DEF F
    <3> QED BY <1>1, <2>2, <3>3 DEF IsLoop
  <2> QED BY <2>1, <2>2
<1>3. Sums(g, m.tick, chain)
  BY <1>1, <1>2 DEF Sums, IsLoop
<1>4. Sums(S, m.tick, chain)
  BY <1>3
<1>5. \A n : TicksBefore(m, chain, n) = S[n]
  BY DEF TicksBefore, Sums
<1> HIDE DEF S
<1>6. S[0] = 0 /\ \A j \in 1 .. N : S[j] = S[j - 1] + m.tick[chain[j]]
  <2>1. \A j \in 0 .. N : S[j] = IF j = 0 THEN 0 ELSE S[j - 1] + m.tick[chain[j]]
    BY <1>4 DEF Sums
  <2>2. 0 \in 0 .. N /\ \A j \in 1 .. N : j \in 0 .. N /\ j # 0
    BY <1>0
  <2> QED BY <2>1, <2>2
<1> DEFINE T == {j \in Nat : j <= N => S[j] \in Nat}
<1>7. 0 \in T
  BY <1>6
<1>8. ASSUME NEW j \in T PROVE j + 1 \in T
  <2>1. j + 1 <= N => S[j + 1] = S[j] + m.tick[chain[j + 1]]
    <3>1. j + 1 <= N => j + 1 \in 1 .. N /\ j + 1 - 1 = j
      BY <1>0
    <3> QED BY <1>6, <3>1
  <2>2. j + 1 <= N => S[j] \in Nat /\ m.tick[chain[j + 1]] \in Nat
    BY <1>0
  <2> QED BY <2>1, <2>2
<1>9. T = Nat
  <2>1. T \in SUBSET Nat
    OBVIOUS
  <2> HIDE DEF T
  <2> QED BY <1>7, <1>8, <2>1, NaturalInduction
<1>10. \A j \in 0 .. N : S[j] \in Nat
  BY <1>0, <1>9
<1> HIDE DEF T
<1> QED BY <1>5, <1>6, <1>10

(***************************************************************************)
(* The turns of the loop in tick().                                        *)
(***************************************************************************)
TickLoop(turn, m) ==
  turn = [n \in 0 .. PCB_TABLE_SIZE |->
            IF n = 0 THEN [m EXCEPT !.tick[m.dl] = Wrapped(@ - 1)]
            ELSE wakeFirst(turn[n - 1])]

\* The recursive function in turns exists and turns returns its last value.
LEMMA TickTurns ==
  ASSUME NEW m \in Memory, m.dl # NULL,
         [m EXCEPT !.tick[m.dl] = Wrapped(@ - 1)] \in Memory,
         \A x \in Memory : wakeFirst(x) \in Memory
  PROVE  \E turn : TickLoop(turn, m) /\ turns(m) = turn[PCB_TABLE_SIZE]
<1> DEFINE N == PCB_TABLE_SIZE
           a == [m EXCEPT !.tick[m.dl] = Wrapped(@ - 1)]
           F == [x \in Nat \X Memory |-> wakeFirst(x[2])]
           G == CHOOSE turn : TickLoop(turn, m)
<1>0. N \in Nat
  BY PcbAssumption
<1> HIDE DEF a
<1>1. PICK g : IsLoop(g, N, Memory, a, F)
  <2>1. F \in [Nat \X Memory -> Memory]
    <3> DEFINE D == Memory
    <3> HIDE DEF D
    <3>1. \A x \in Nat \X D : x[2] \in D
      OBVIOUS
    <3> QED BY <3>1 DEF D
  <2>2. IsStep(F, Memory)
    BY <2>1 DEF IsStep
  <2>3. a \in Memory
    BY DEF a
  <2> HIDE DEF F
  <2> QED BY <1>0, <2>2, <2>3, LoopExists
<1>2. ASSUME NEW n \in 0 .. N
      PROVE  g[n] = IF n = 0 THEN a ELSE wakeFirst(g[n - 1])
  <2>1. CASE n = 0
    BY <1>1, <2>1 DEF IsLoop
  <2>2. CASE n # 0
    <3>1. n - 1 \in 0 .. N /\ n \in Nat
      BY <1>0, <2>2
    <3>2. << n, g[n - 1] >> \in Nat \X Memory
      BY <1>1, <3>1 DEF IsLoop
    <3>3. F[<< n, g[n - 1] >>] = wakeFirst(g[n - 1])
      BY <3>2
    <3> HIDE DEF F
    <3> QED BY <1>1, <2>2, <3>3 DEF IsLoop
  <2> QED BY <2>1, <2>2
<1>3. TickLoop(g, m)
  BY <1>1, <1>2 DEF TickLoop, IsLoop, a
<1>4. TickLoop(G, m)
  BY <1>3
<1>5. turns(m) = G[N]
  BY DEF turns, TickLoop
<1> HIDE DEF G
<1> QED BY <1>4, <1>5
-----------------------------------------------------------------------------
(***************************************************************************)
(* n comes from m by moving processes between queues: only states, links   *)
(* and counts of the queues differ.  A process whose state differs has     *)
(* become ready, or it is p and suspended.                                 *)
(***************************************************************************)
Moves(m, p, n) ==
  /\ Keeps(m, n)
  /\ n.pcb = m.pcb
  /\ n.stack = m.stack
  /\ \A q \in Slots : \/ n.state[q] \in {m.state[q], "READY"}
                      \/ q = p /\ n.state[q] \in {"BLOCKED", "SLEEP", "WAITING"}

\* Two moves one after the other are a move.
LEMMA MovesCompose ==
  ASSUME NEW m, NEW n, NEW o, NEW p, Moves(m, p, n), Moves(n, p, o)
  PROVE  Moves(m, p, o)
BY DEF Moves, Keeps

\* ready(p) is a move, whoever is suspended.
LEMMA ReadyMoves ==
  ASSUME NEW m \in Memory, NEW p \in Slots, NEW x
  PROVE  Moves(m, x, ready(m, p))
<1>1. Readies(m, p, ready(m, p))
  BY ReadyKeeps
<1> DEFINE r == ready(m, p)
<1> HIDE DEF r
<1>2. Readies(m, p, r)
  BY <1>1 DEF r
<1>3. Moves(m, x, r)
  BY <1>2, ConstantTypes DEF Readies, Moves, Keeps, Memory
<1> QED BY <1>3 DEF r

(***************************************************************************)
(* next(): a process of the table gets the processor, or next has followed *)
(* a null head.                                                            *)
(***************************************************************************)
Dispatches(m, n) ==
  /\ Keeps(m, n)
  /\ n.stack = m.stack
  /\ m.pcb \in Slots => n.pcb \in Slots
  /\ \/ n.fault = "null" /\ n.state = m.state
     \/ n.pcb \in Slots /\ n.state = [m.state EXCEPT ![n.pcb] = "RUNNING"]

\* next() picks a slot of the table or follows a null head.
LEMMA NextDispatches ==
  ASSUME NEW m \in Memory
  PROVE  Dispatches(m, next(m))
<1> DEFINE busy == {j \in Priorities : m.head[j] # NULL}
           p == m.head[Greatest(busy)]
           i == m.priority[p]
           n == next(m)
<1>1. CASE busy = {}
  <2>1. n = [m EXCEPT !.state = [m.state EXCEPT ![Idle] = "RUNNING"], !.pcb = Idle]
    BY <1>1 DEF next
  <2> HIDE DEF n
  <2> DEFINE sta == [m.state EXCEPT ![Idle] = "RUNNING"]
  <2>2. sta \in [Slots -> States] /\ Idle \in Pointers /\ Idle \in Slots
    BY ConstantTypes DEF Memory, States
  <2>3. n = [m EXCEPT !.state = sta, !.pcb = Idle]
    BY <2>1
  <2> HIDE DEF sta
  <2>4. Keeps(m, n) /\ n.state = sta /\ n.pcb = Idle /\ n.stack = m.stack
    BY <2>2, <2>3 DEF Keeps, Memory
  <2>5. Dispatches(m, n)
    BY <2>2, <2>4 DEF Dispatches, sta
  <2> QED BY <2>5 DEF n
<1>2. CASE busy # {}
  <2>1. p \in Slots
    <3>1. busy \in SUBSET (0 .. PQ_SIZE - 1) /\ PQ_SIZE - 1 \in Nat
      BY PcbAssumption DEF Priorities
    <3> HIDE DEF busy
    <3>2. Greatest(busy) \in busy
      BY <1>2, <3>1, GreatestElement
    <3> QED BY <3>2 DEF busy, Memory, Queues, Pointers
  <2>2. i \in Priorities
    BY <2>1 DEF Memory
  <2>3. CASE m.head[i] = NULL
    <3>1. n = [m EXCEPT !.fault = "null"]
      BY <1>2, <2>3 DEF next
    <3> HIDE DEF n
    <3>2. Dispatches(m, n)
      BY <3>1 DEF Dispatches, Keeps, Memory
    <3> QED BY <3>2 DEF n
  <2>4. CASE m.head[i] # NULL
    <3> DEFINE hea == [m.head EXCEPT ![i] = m.next[m.head[i]]]
               sta == [m.state EXCEPT ![p] = "RUNNING"]
               nxt == [m.next EXCEPT ![p] = NULL]
               prv == [m.prev EXCEPT ![p] = NULL]
    <3>1. n = [m EXCEPT !.head = hea, !.state = sta, !.next = nxt, !.prev = prv, !.pcb = p]
      BY <1>2, <2>4 DEF next
    <3>2. m.head[i] \in Slots
      BY <2>2, <2>4 DEF Memory, Queues, Pointers
    <3> HIDE DEF n, p, i
    <3>3. /\ hea \in Queues /\ sta \in [Slots -> States] /\ p \in Pointers
          /\ nxt \in [Slots -> Pointers] /\ prv \in [Slots -> Pointers]
      BY <2>1, <2>2, <3>2, ConstantTypes DEF Memory, Queues, States
    <3> HIDE DEF hea, nxt, prv, sta
    <3>4. Keeps(m, n) /\ n.state = sta /\ n.pcb = p /\ n.stack = m.stack
      BY ZenonT(60), <3>1, <3>3 DEF Keeps, Memory
    <3>5. Dispatches(m, n)
      BY <2>1, <3>4 DEF Dispatches, sta
    <3> QED BY <3>5 DEF n
  <2> QED BY <2>3, <2>4
<1> QED BY <1>1, <1>2

(***************************************************************************)
(* cleanup(): p has stopped and its stack is free.                         *)
(***************************************************************************)
Stops(m, p, n) ==
  /\ Keeps(m, n)
  /\ n.pcb = m.pcb
  /\ n.state = [m.state EXCEPT ![p] = "STOPPED"]
  /\ n.stack = [m.stack EXCEPT ![p] = FALSE]

\* cleanup(p) stops p, and nobody else.
LEMMA CleanupStops ==
  ASSUME NEW m \in Memory, NEW p
  PROVE  Stops(m, p, cleanup(m, p))
BY ConstantTypes DEF Stops, Keeps, cleanup, Memory, States

\* Giving up is a move too: only fault differs.
LEMMA FaultMoves ==
  ASSUME NEW m, NEW p, NEW n, Moves(m, p, n), NEW f \in {"none", "null", "loop"}
  PROVE  Moves(m, p, [n EXCEPT !.fault = f])
<1> DEFINE o == [n EXCEPT !.fault = f]
<1>1. n \in Memory
  BY DEF Moves, Keeps
<1>2. o \in Memory
  BY <1>1 DEF Memory
<1>3. /\ o.pid = n.pid /\ o.pcb_id = n.pcb_id /\ o.frames = n.frames
      /\ o.sig_mask = n.sig_mask /\ o.sig_ignored = n.sig_ignored
      /\ o.sigTable = n.sigTable /\ o.pcb = n.pcb /\ o.stack = n.stack
      /\ o.state = n.state
  BY <1>1 DEF Memory
<1> HIDE DEF o
<1>4. Moves(m, p, o)
  BY <1>2, <1>3 DEF Moves, Keeps
<1> QED BY <1>4 DEF o

\* restoreToReadyQueue(p) readies at most one waiter.
LEMMA RestoreMoves ==
  ASSUME NEW m \in Memory, NEW p \in Slots, NEW x
  PROVE  Moves(m, x, restoreToReadyQueue(m, p))
<1> DEFINE w == m.wait_head[p]
           r == ready(m, w)
           n == restoreToReadyQueue(m, p)
<1>1. CASE w = NULL
  BY <1>1 DEF restoreToReadyQueue, Moves, Keeps
<1>2. CASE w # NULL
  <2>1. w \in Slots
    BY <1>2 DEF Memory, Pointers
  <2>2. Moves(m, x, r)
    BY <2>1, ReadyMoves
  <2>3. n = r \/ n = [r EXCEPT !.fault = "loop"]
    BY <1>2 DEF restoreToReadyQueue
  <2> HIDE DEF r, n
  <2>4. Moves(m, x, n)
    <3>1. "loop" \in {"none", "null", "loop"}
      OBVIOUS
    <3>2. Moves(m, x, [r EXCEPT !.fault = "loop"])
      BY <2>2, <3>1, FaultMoves
    <3> QED BY <2>2, <2>3, <3>2
  <2> QED BY <2>4 DEF n
<1> QED BY <1>1, <1>2

-----------------------------------------------------------------------------
\* n differs from m in its links alone.
Relinks(m, n) ==
  \E nxt, prv \in [Slots -> Pointers] : n = [m EXCEPT !.next = nxt, !.prev = prv]

\* linkLast changes links alone.
LEMMA LinkLastRelinks ==
  ASSUME NEW m \in Memory, NEW p \in Slots, NEW last \in Pointers
  PROVE  Relinks(m, linkLast(m, p, last))
<1> DEFINE nxt == IF last = NULL THEN [m.next EXCEPT ![p] = NULL]
                  ELSE [m.next EXCEPT ![p] = NULL, ![last] = p]
           prv == [m.prev EXCEPT ![p] = last]
<1>1. linkLast(m, p, last) = [m EXCEPT !.next = nxt, !.prev = prv]
  <2>1. CASE last = NULL
    BY <2>1 DEF linkLast
  <2>2. CASE last # NULL
    BY <2>2 DEF linkLast
  <2> QED BY <2>1, <2>2
<1>2. nxt \in [Slots -> Pointers] /\ prv \in [Slots -> Pointers]
  BY ConstantTypes DEF Memory
<1> HIDE DEF nxt, prv
<1> QED BY <1>1, <1>2 DEF Relinks

\* P_kern takes a unit, or leaves the caller blocked.
LEMMA PMoves ==
  ASSUME NEW m \in Memory, NEW s \in Semaphores, NEW p \in Slots
  PROVE  LET n == P_kern(m, s, p) IN
         /\ Moves(m, p, n)
         /\ n.state[p] = "BLOCKED" \/ Moves(m, NULL, n)
<1> DEFINE i == m.priority[p]
           q == m.sem[s]
           n == P_kern(m, s, p)
<1>0. /\ i \in Priorities /\ q \in [value : Nat, head : Queues, tail : Queues]
      /\ q.head[i] \in Pointers /\ q.tail[i] \in Pointers
  BY DEF Memory, Queues
<1>1. CASE q.value = 0
  <2> DEFINE first == q.head[i] = NULL
             last == IF first THEN NULL ELSE q.tail[i]
             h == IF first THEN p ELSE q.head[i]
             l == linkLast(m, p, last)
             l1 == [l EXCEPT !.state = [l.state EXCEPT ![p] = "BLOCKED"]]
             u == [l1.sem EXCEPT ![s].head[i] = h]
             l2 == [l1 EXCEPT !.sem = u]
             v == [l2.sem EXCEPT ![s].tail[i] = p]
             l3 == [l2 EXCEPT !.sem = v]
  <2>1. Moves(m, p, l) /\ l.sem = m.sem
    <3>1. last \in Pointers
      BY <1>0, ConstantTypes
    <3> HIDE DEF last
    <3>2. Relinks(m, l)
      BY <3>1, LinkLastRelinks
    <3> HIDE DEF l
    <3>3. PICK nxt, prv \in [Slots -> Pointers] : l = [m EXCEPT !.next = nxt, !.prev = prv]
      BY <3>2 DEF Relinks
    <3> QED BY <3>3 DEF Moves, Keeps, Memory
  <2>2. n = [l3 EXCEPT !.semNo = [l3.semNo EXCEPT ![p] = s]]
    <3>1. l.sem[s].head[i] = q.head[i]
      BY <2>1
    <3>2. blockProcess(m, s, p) = l3
      <4>1. blockProcess(m, s, p) = [l EXCEPT !.state[p] = "BLOCKED",
                                              !.sem[s].head[i] = h,
                                              !.sem[s].tail[i] = p]
        BY <3>1 DEF blockProcess
      <4> HIDE DEF l, h
      <4> QED BY <4>1
    <3> HIDE DEF l3
    <3> QED BY <1>1, <3>2 DEF P_kern
  <2> HIDE DEF l, n
  <2> DEFINE sta == [l.state EXCEPT ![p] = "BLOCKED"]
  <2>3. Moves(m, p, l1) /\ l1.sem = m.sem
    <3>1. l \in Memory
      BY <2>1 DEF Moves, Keeps
    <3>2. /\ sta \in [Slots -> States] /\ sta[p] = "BLOCKED"
          /\ \A x \in Slots : x # p => sta[x] = l.state[x]
      BY <3>1 DEF Memory, States
    <3>3. l1 = [l EXCEPT !.state = sta]
      OBVIOUS
    <3> HIDE DEF sta, l1
    <3>4. Keeps(l, l1) /\ l1.state = sta /\ l1.pcb = l.pcb /\ l1.stack = l.stack /\ l1.sem = l.sem
      BY <3>1, <3>2, <3>3 DEF Keeps, Memory
    <3> QED BY <2>1, <3>2, <3>4 DEF Moves, Keeps
  <2> HIDE DEF l1
  <2>4. u \in [Semaphores -> [value : Nat, head : Queues, tail : Queues]]
    BY <1>0, <2>3, ConstantTypes DEF Queues, Memory
  <2> HIDE DEF u
  <2>5. Moves(m, p, l2) /\ l2.sem = u
    BY <2>3, <2>4 DEF Moves, Keeps, Memory
  <2> HIDE DEF l2
  <2>6. v \in [Semaphores -> [value : Nat, head : Queues, tail : Queues]]
    BY <1>0, <2>4, <2>5, ConstantTypes DEF Queues
  <2> HIDE DEF v
  <2>7. Moves(m, p, l3)
    BY ZenonT(60), <2>5, <2>6 DEF Moves, Keeps, Memory
  <2> HIDE DEF l3
  <2>8. Moves(m, p, n)
    BY <2>2, <2>7 DEF Moves, Keeps, Memory
  <2>9. n.state[p] = "BLOCKED"
    <3>1. l1.state = [l.state EXCEPT ![p] = "BLOCKED"] /\ l.state \in [Slots -> States]
      BY <2>1 DEF l1, Moves, Keeps, Memory
    <3>2. n.state = l1.state
      BY <2>2, <2>3, <2>5, <2>7 DEF l2, l3, Moves, Keeps, Memory
    <3> QED BY <3>1, <3>2
  <2> QED BY <2>8, <2>9 DEF n
<1>2. CASE q.value # 0
  <2> DEFINE que == [q EXCEPT !.value = @ - 1]
             sem == [m.sem EXCEPT ![s] = que]
  <2>1. n = [m EXCEPT !.sem = sem]
    BY <1>2 DEF P_kern
  <2>2. que \in [value : Nat, head : Queues, tail : Queues]
    BY <1>0, <1>2
  <2> HIDE DEF n, que
  <2>3. sem \in [Semaphores -> [value : Nat, head : Queues, tail : Queues]]
    BY <2>2 DEF Memory
  <2> HIDE DEF sem
  <2>4. Moves(m, p, n) /\ Moves(m, NULL, n)
    BY <2>1, <2>3 DEF Moves, Keeps, Memory
  <2> QED BY <2>4 DEF n
<1> QED BY <1>1, <1>2

\* V_kern adds a unit, or readies a process.
LEMMA VMoves ==
  ASSUME NEW m \in Memory, NEW s \in Semaphores, NEW x
  PROVE  Moves(m, x, V_kern(m, s))
<1> DEFINE waiting == {j \in Priorities : m.sem[s].head[j] # NULL}
           i == Greatest(waiting)
           p == m.sem[s].head[i]
           q == m.sem[s]
           n == V_kern(m, s)
<1>0. q \in [value : Nat, head : Queues, tail : Queues]
  BY DEF Memory
<1>1. CASE waiting = {}
  <2> DEFINE que == [q EXCEPT !.value = @ + 1]
             sem == [m.sem EXCEPT ![s] = que]
  <2>1. n = [m EXCEPT !.sem = sem]
    BY <1>1 DEF V_kern
  <2>2. que \in [value : Nat, head : Queues, tail : Queues]
    BY <1>0
  <2> HIDE DEF n, que
  <2>3. sem \in [Semaphores -> [value : Nat, head : Queues, tail : Queues]]
    BY <2>2 DEF Memory
  <2> HIDE DEF sem
  <2>4. Moves(m, x, n)
    BY <2>1, <2>3 DEF Moves, Keeps, Memory
  <2> QED BY <2>4 DEF n
<1>2. CASE waiting # {}
  <2>1. i \in Priorities /\ p \in Slots
    <3>1. waiting \in SUBSET (0 .. PQ_SIZE - 1) /\ PQ_SIZE - 1 \in Nat
      BY PcbAssumption DEF Priorities
    <3> HIDE DEF waiting
    <3>2. Greatest(waiting) \in waiting
      BY <1>2, <3>1, GreatestElement
    <3> QED BY <1>0, <3>2 DEF waiting, Queues, Pointers
  <2> HIDE DEF i
  <2> DEFINE que == [q EXCEPT !.head = [q.head EXCEPT ![i] = m.next[p]]]
             sem == [m.sem EXCEPT ![s] = que]
             u == [m EXCEPT !.sem = sem]
  <2>2. n = ready(u, p)
    BY <1>2 DEF V_kern, i
  <2>3. que \in [value : Nat, head : Queues, tail : Queues]
    BY <1>0, <2>1 DEF Queues, Memory
  <2> HIDE DEF n, que, p
  <2>4. sem \in [Semaphores -> [value : Nat, head : Queues, tail : Queues]]
    BY <2>3 DEF Memory
  <2> HIDE DEF sem
  <2>5. Moves(m, x, u)
    BY <2>4 DEF Moves, Keeps, Memory
  <2> HIDE DEF u
  <2>6. u \in Memory
    BY <2>5 DEF Moves, Keeps
  <2>7. Moves(u, x, n)
    BY <2>1, <2>2, <2>6, ReadyMoves
  <2>8. Moves(m, x, n)
    BY <2>5, <2>7, MovesCompose
  <2> QED BY <2>8 DEF n
<1> QED BY <1>1, <1>2

\* The tick field wraps around at UINT_MAX.
LEMMA WrappedType ==
  ASSUME NEW n \in Int PROVE Wrapped(n) \in 0 .. UINT_MAX
BY SleepAssumption DEF Wrapped

(***************************************************************************)
(* Giving one of the links or counts of the queues another value is a      *)
(* move.                                                                   *)
(***************************************************************************)
LEMMA FieldMoves ==
  ASSUME NEW m, NEW p, NEW n, Moves(m, p, n)
  PROVE  /\ \A f \in [Slots -> Pointers] :
              /\ Moves(m, p, [n EXCEPT !.next = f])
              /\ Moves(m, p, [n EXCEPT !.prev = f])
              /\ Moves(m, p, [n EXCEPT !.wait_head = f])
              /\ Moves(m, p, [n EXCEPT !.wait_tail = f])
              /\ Moves(m, p, [n EXCEPT !.waiting_on = f])
         /\ \A q \in Pointers : Moves(m, p, [n EXCEPT !.dl = q])
         /\ \A t \in [Slots -> 0 .. UINT_MAX] : Moves(m, p, [n EXCEPT !.tick = t])
         /\ \A s \in [Semaphores -> [value : Nat, head : Queues, tail : Queues]] :
              Moves(m, p, [n EXCEPT !.sem = s])
<1>1. ASSUME NEW f \in [Slots -> Pointers]
      PROVE  /\ Moves(m, p, [n EXCEPT !.next = f])
             /\ Moves(m, p, [n EXCEPT !.prev = f])
  <2>1. Moves(m, p, [n EXCEPT !.next = f])
    BY DEF Moves, Keeps, Memory
  <2>2. Moves(m, p, [n EXCEPT !.prev = f])
    BY DEF Moves, Keeps, Memory
  <2> QED BY <2>1, <2>2
<1>2. ASSUME NEW f \in [Slots -> Pointers]
      PROVE  /\ Moves(m, p, [n EXCEPT !.wait_head = f])
             /\ Moves(m, p, [n EXCEPT !.wait_tail = f])
             /\ Moves(m, p, [n EXCEPT !.waiting_on = f])
  <2>1. Moves(m, p, [n EXCEPT !.wait_head = f])
    BY DEF Moves, Keeps, Memory
  <2>2. Moves(m, p, [n EXCEPT !.wait_tail = f])
    BY DEF Moves, Keeps, Memory
  <2>3. Moves(m, p, [n EXCEPT !.waiting_on = f])
    BY DEF Moves, Keeps, Memory
  <2> QED BY <2>1, <2>2, <2>3
<1>3. ASSUME NEW q \in Pointers PROVE Moves(m, p, [n EXCEPT !.dl = q])
  BY DEF Moves, Keeps, Memory
<1>4. ASSUME NEW t \in [Slots -> 0 .. UINT_MAX] PROVE Moves(m, p, [n EXCEPT !.tick = t])
  BY DEF Moves, Keeps, Memory
<1>5. ASSUME NEW s \in [Semaphores -> [value : Nat, head : Queues, tail : Queues]]
      PROVE  Moves(m, p, [n EXCEPT !.sem = s])
  BY DEF Moves, Keeps, Memory
<1> QED BY <1>1, <1>2, <1>3, <1>4, <1>5

\* A memory that is left alone.
LEMMA StayMoves ==
  ASSUME NEW m \in Memory, NEW p PROVE Moves(m, p, m)
BY DEF Moves, Keeps

\* removeFromBlockQueue changes links and a list of a semaphore.
LEMMA RemoveBlockedMoves ==
  ASSUME NEW m \in Memory, NEW p \in Slots, NEW x
  PROVE  Moves(m, x, removeFromBlockQueue(m, p))
<1> DEFINE s == m.semNo[p]
           i == m.priority[p]
           before == m.prev[p]
           after == m.next[p]
           n == removeFromBlockQueue(m, p)
<1>0. i \in Priorities /\ before \in Pointers /\ after \in Pointers
  BY DEF Memory
<1>1. CASE s \notin Semaphores
  BY <1>1 DEF removeFromBlockQueue, Moves, Keeps
<1>2. CASE s \in Semaphores /\ before = NULL
  <2> DEFINE sem == [m.sem EXCEPT ![s].head[i] = after]
  <2>1. n = [m EXCEPT !.sem = sem]
    BY <1>2 DEF removeFromBlockQueue
  <2>2. sem \in [Semaphores -> [value : Nat, head : Queues, tail : Queues]]
    <3>1. m.sem \in [Semaphores -> [value : Nat, head : Queues, tail : Queues]]
      BY DEF Memory
    <3> QED BY <1>0, <1>2, <3>1 DEF Queues
  <2> HIDE DEF sem, n
  <2>3. Moves(m, x, n)
    BY <2>1, <2>2, StayMoves, FieldMoves
  <2> QED BY <2>3 DEF n
<1>3. CASE s \in Semaphores /\ before # NULL
  <2> DEFINE nxt == [m.next EXCEPT ![before] = after]
             sem == [m.sem EXCEPT ![s].tail[i] = before]
             o == [m EXCEPT !.next = nxt]
  <2>1. \/ n = o
        \/ n = [o EXCEPT !.sem = sem]
    <3>1. CASE after = NULL
      <4>1. n = [m EXCEPT !.next[before] = NULL, !.sem[s].tail[i] = before]
        BY <1>3, <3>1 DEF removeFromBlockQueue
      <4> HIDE DEF n
      <4>2. o.sem = m.sem
        BY DEF Memory
      <4>3. n = [o EXCEPT !.sem[s].tail[i] = before]
        BY <4>1, <3>1
      <4> HIDE DEF o
      <4> QED BY <4>2, <4>3
    <3>2. CASE after # NULL
      BY <1>3, <3>2 DEF removeFromBlockQueue
    <3> QED BY <3>1, <3>2
  <2>2. /\ nxt \in [Slots -> Pointers]
        /\ sem \in [Semaphores -> [value : Nat, head : Queues, tail : Queues]]
    <3>1. /\ m.sem \in [Semaphores -> [value : Nat, head : Queues, tail : Queues]]
          /\ m.next \in [Slots -> Pointers]
      BY DEF Memory
    <3>2. before \in Slots
      BY <1>0, <1>3 DEF Pointers
    <3> QED BY <1>0, <1>3, <3>1, <3>2 DEF Queues
  <2> HIDE DEF sem, nxt, n
  <2>3. Moves(m, x, o)
    BY <2>2, StayMoves, FieldMoves
  <2> HIDE DEF o
  <2>4. Moves(m, x, n)
    BY <2>1, <2>2, <2>3, FieldMoves
  <2> QED BY <2>4 DEF n
<1> QED BY <1>1, <1>2, <1>3

\* removeFromWaitQueue changes links and a list of waiters.
LEMMA RemoveWaiterMoves ==
  ASSUME NEW m \in Memory, NEW p \in Slots, NEW x
  PROVE  Moves(m, x, removeFromWaitQueue(m, p))
<1> DEFINE target == m.waiting_on[p]
           before == m.prev[p]
           after == m.next[p]
           wh == [m.wait_head EXCEPT ![target] = after]
           wt == [m.wait_tail EXCEPT ![target] = before]
           nxt == [m.next EXCEPT ![before] = after]
           n == removeFromWaitQueue(m, p)
<1>1. before \in Pointers /\ after \in Pointers
  BY DEF Memory
<1>2. /\ wh \in [Slots -> Pointers] /\ wt \in [Slots -> Pointers]
      /\ nxt \in [Slots -> Pointers]
  BY <1>1 DEF Memory
<1>3. \/ n = [m EXCEPT !.wait_head = wh]
      \/ n = [m EXCEPT !.next = nxt, !.wait_tail = wt]
      \/ n = [m EXCEPT !.next = nxt]
  BY DEF removeFromWaitQueue
<1> HIDE DEF wh, wt, nxt, n
<1>4. Moves(m, x, n)
  <2> DEFINE o == [m EXCEPT !.next = nxt]
  <2>1. Moves(m, x, o) /\ Moves(m, x, [m EXCEPT !.wait_head = wh])
    BY <1>2, StayMoves, FieldMoves
  <2>2. [m EXCEPT !.next = nxt, !.wait_tail = wt] = [o EXCEPT !.wait_tail = wt]
    OBVIOUS
  <2> HIDE DEF o
  <2>3. Moves(m, x, [o EXCEPT !.wait_tail = wt])
    BY <1>2, <2>1, FieldMoves
  <2> QED BY <1>3, <2>1, <2>2, <2>3 DEF o
<1> QED BY <1>4 DEF n

\* removeFromSleepQueue changes links, the list of sleepers and ticks, or
\* loops.
LEMMA RemoveSleeperMoves ==
  ASSUME NEW m \in Memory, NEW p \in Slots, NEW x
  PROVE  Moves(m, x, removeFromSleepQueue(m, p))
<1> DEFINE before == m.prev[p]
           after == m.next[p]
           back == Chain(m.prev, before)
           spent == TicksBefore(m, back, Len(back))
           tik == [m.tick EXCEPT ![p] = Wrapped(@ + spent)]
           left == [m EXCEPT !.tick = tik]
           tik2 == [tik EXCEPT ![after] = Wrapped(@ + m.tick[p])]
           nxt == [m.next EXCEPT ![before] = after]
           n == removeFromSleepQueue(m, p)
<1>1. before \in Pointers /\ after \in Pointers /\ m.prev \in [Slots -> Pointers]
  BY DEF Memory
<1>2. back \in Seq(Slots) /\ Len(back) \in Nat
  <2>1. Walked(back, PCB_TABLE_SIZE, m.prev, before)
    BY <1>1, ChainIsWalked
  <2> HIDE DEF back
  <2> QED BY <2>1 DEF Walked
<1> HIDE DEF back
<1>3. m.tick \in [Slots -> 0 .. UINT_MAX] /\ m.tick \in [Slots -> Nat]
  BY DEF Memory
<1>4. spent \in Nat
  <2>1. Len(back) \in 0 .. Len(back)
    BY <1>2
  <2> QED BY <1>2, <1>3, <2>1, TicksAdd
<1> HIDE DEF spent
<1>5. tik \in [Slots -> 0 .. UINT_MAX]
  <2>1. Wrapped(m.tick[p] + spent) \in 0 .. UINT_MAX
    BY <1>3, <1>4, WrappedType
  <2> QED BY <1>3, <2>1
<1>6. left.tick = tik /\ left.next = m.next
  BY DEF Memory
<1>7. after # NULL => tik2 \in [Slots -> 0 .. UINT_MAX]
  <2>1. after # NULL => Wrapped(tik[after] + m.tick[p]) \in 0 .. UINT_MAX
    <3>1. after # NULL => after \in Slots
      BY <1>1 DEF Pointers
    <3> HIDE DEF tik, after
    <3>2. after # NULL => tik[after] + m.tick[p] \in Int
      BY <1>3, <1>5, <3>1
    <3> QED BY <3>2, WrappedType
  <2> HIDE DEF tik, after
  <2> QED BY <1>5, <2>1
<1>8. nxt \in [Slots -> Pointers]
  BY <1>1 DEF Memory
<1>9. \/ n = [m EXCEPT !.fault = "loop"]
      \/ n = [left EXCEPT !.dl = NULL]
      \/ after # NULL /\ n = [left EXCEPT !.dl = after, !.tick = tik2]
      \/ n = [left EXCEPT !.next = nxt]
      \/ after # NULL /\ n = [left EXCEPT !.tick = tik2, !.next = nxt]
  <2>1. left = [m EXCEPT !.tick[p] = Wrapped(@ + TicksBefore(m, back, Len(back)))]
    BY DEF spent
  <2> DEFINE t == [left.tick EXCEPT ![after] = Wrapped(@ + m.tick[p])]
             x1 == [left.next EXCEPT ![before] = after]
  <2>2. t = tik2 /\ x1 = nxt
    BY <1>6
  <2>3. \/ n = [m EXCEPT !.fault = "loop"]
        \/ n = [left EXCEPT !.dl = NULL]
        \/ after # NULL /\ n = [left EXCEPT !.dl = after, !.tick = t]
        \/ after = NULL /\ n = [left EXCEPT !.next = x1]
        \/ after # NULL /\ n = [left EXCEPT !.tick = t, !.next = x1]
    <3> HIDE DEF left
    <3>1. CASE IsCyclic(back)
      BY <3>1 DEF removeFromSleepQueue, back
    <3>2. CASE ~ IsCyclic(back) /\ before = NULL /\ after = NULL
      BY <2>1, <3>2 DEF removeFromSleepQueue, back
    <3>3. CASE ~ IsCyclic(back) /\ before = NULL /\ after # NULL
      BY <2>1, <3>3 DEF removeFromSleepQueue, back
    <3>4. CASE ~ IsCyclic(back) /\ before # NULL /\ after = NULL
      BY <2>1, <3>4 DEF removeFromSleepQueue, back
    <3>5. CASE ~ IsCyclic(back) /\ before # NULL /\ after # NULL
      BY <2>1, <3>5 DEF removeFromSleepQueue, back
    <3> QED BY <3>1, <3>2, <3>3, <3>4, <3>5
  <2> HIDE DEF t, x1, n, left
  <2> QED BY <2>2, <2>3
<1> HIDE DEF tik, tik2, nxt, n
<1>10. Moves(m, x, left)
  BY <1>5, StayMoves, FieldMoves
<1> HIDE DEF left
<1>11. Moves(m, x, n)
  <2>1. Moves(m, x, [m EXCEPT !.fault = "loop"])
    <3>1. "loop" \in {"none", "null", "loop"}
      OBVIOUS
    <3> QED BY <3>1, StayMoves, FaultMoves
  <2>2. Moves(m, x, [left EXCEPT !.dl = NULL]) /\ Moves(m, x, [left EXCEPT !.next = nxt])
    BY <1>8, <1>10, FieldMoves, ConstantTypes
  <2> DEFINE o1 == [left EXCEPT !.dl = after]
             o2 == [left EXCEPT !.tick = tik2]
  <2>3. after # NULL => Moves(m, x, o1) /\ Moves(m, x, o2)
    BY <1>1, <1>7, <1>10, FieldMoves
  <2>4. /\ [left EXCEPT !.dl = after, !.tick = tik2] = [o1 EXCEPT !.tick = tik2]
        /\ [left EXCEPT !.tick = tik2, !.next = nxt] = [o2 EXCEPT !.next = nxt]
    OBVIOUS
  <2> HIDE DEF o1, o2
  <2>5. after # NULL => /\ Moves(m, x, [o1 EXCEPT !.tick = tik2])
                        /\ Moves(m, x, [o2 EXCEPT !.next = nxt])
    BY <1>7, <1>8, <2>3, FieldMoves
  <2> QED BY <1>9, <2>1, <2>2, <2>4, <2>5
<1> QED BY <1>11 DEF n

\* removeFromQueue is one of the three, or nothing.
LEMMA RemoveMoves ==
  ASSUME NEW m \in Memory, NEW p \in Slots, NEW x
  PROVE  Moves(m, x, removeFromQueue(m, p))
<1>1. CASE m.state[p] = "SLEEP"
  BY <1>1, RemoveSleeperMoves DEF removeFromQueue
<1>2. CASE m.state[p] = "BLOCKED"
  BY <1>2, RemoveBlockedMoves DEF removeFromQueue
<1>3. CASE m.state[p] = "WAITING"
  BY <1>3, RemoveWaiterMoves DEF removeFromQueue
<1>4. CASE m.state[p] \notin {"SLEEP", "BLOCKED", "WAITING"}
  BY <1>4 DEF removeFromQueue, Moves, Keeps
<1> QED BY <1>1, <1>2, <1>3, <1>4

\* addToWaitQueue() suspends the caller.
LEMMA WaitMoves ==
  ASSUME NEW m \in Memory, NEW p \in Slots, NEW id, getPCB(m, id) \in Slots
  PROVE  Moves(m, p, addToWaitQueue(m, p, id))
<1> DEFINE target == getPCB(m, id)
           first == m.wait_head[target] = NULL
           last == IF first THEN NULL ELSE m.wait_tail[target]
           l == linkLast(m, p, last)
           l1 == [l EXCEPT !.state = [l.state EXCEPT ![p] = "WAITING"]]
           on == [l1.waiting_on EXCEPT ![p] = target]
           l2 == [l1 EXCEPT !.waiting_on = on]
           wh == [l2.wait_head EXCEPT ![target] = p]
           l3 == [l2 EXCEPT !.wait_head = wh]
           wt == [l3.wait_tail EXCEPT ![target] = p]
           n == addToWaitQueue(m, p, id)
<1>1. Moves(m, p, l)
  <2>1. last \in Pointers
    BY ConstantTypes DEF Memory
  <2> HIDE DEF last
  <2>2. Relinks(m, l)
    BY <2>1, LinkLastRelinks
  <2> HIDE DEF l
  <2>3. PICK nxt, prv \in [Slots -> Pointers] : l = [m EXCEPT !.next = nxt, !.prev = prv]
    BY <2>2 DEF Relinks
  <2> QED BY <2>3 DEF Moves, Keeps, Memory
<1>2. n = l2 \/ n = [l3 EXCEPT !.wait_tail = wt]
  <2>1. CASE first
    BY <2>1 DEF addToWaitQueue
  <2>2. CASE ~ first
    BY <2>2 DEF addToWaitQueue
  <2> QED BY <2>1, <2>2
<1> HIDE DEF l, n, first, target
<1>3. Moves(m, p, l1)
  <2> DEFINE sta == [l.state EXCEPT ![p] = "WAITING"]
  <2>1. l \in Memory
    BY <1>1 DEF Moves, Keeps
  <2>2. /\ sta \in [Slots -> States] /\ sta[p] = "WAITING"
        /\ \A q \in Slots : q # p => sta[q] = l.state[q]
    BY <2>1 DEF Memory, States
  <2>3. l1 = [l EXCEPT !.state = sta]
    OBVIOUS
  <2> HIDE DEF sta, l1
  <2>4. Keeps(l, l1) /\ l1.state = sta /\ l1.pcb = l.pcb /\ l1.stack = l.stack
    BY <2>1, <2>2, <2>3 DEF Keeps, Memory
  <2> QED BY <1>1, <2>2, <2>4 DEF Moves, Keeps
<1> HIDE DEF l1
<1>4. Moves(m, p, l2)
  <2>1. on \in [Slots -> Pointers]
    BY <1>3, ConstantTypes DEF Moves, Keeps, Memory, target
  <2> HIDE DEF on
  <2> QED BY <1>3, <2>1, FieldMoves
<1> HIDE DEF l2
<1>5. Moves(m, p, l3)
  <2>1. wh \in [Slots -> Pointers]
    BY <1>4, ConstantTypes DEF Moves, Keeps, Memory
  <2> HIDE DEF wh
  <2> QED BY <1>4, <2>1, FieldMoves
<1> HIDE DEF l3
<1>6. Moves(m, p, [l3 EXCEPT !.wait_tail = wt])
  <2>1. wt \in [Slots -> Pointers]
    BY <1>5, ConstantTypes DEF Moves, Keeps, Memory
  <2> HIDE DEF wt
  <2> QED BY <1>5, <2>1, FieldMoves
<1>7. Moves(m, p, n)
  BY <1>2, <1>4, <1>6
<1> QED BY <1>7 DEF n

(***************************************************************************)
(* sleep(), for a time whose ticks the field can hold: what is taken from  *)
(* the next sleeper is less than its ticks.                                *)
(***************************************************************************)
LEMMA SleepMoves ==
  ASSUME NEW m \in Memory, NEW p \in Slots, NEW ms, TicksOf(ms) \in 0 .. UINT_MAX
  PROVE  Moves(m, p, sleep(m, p, ms))
<1> DEFINE t == TicksOf(ms)
           list == Chain(m.next, m.dl)
           B(j) == TicksBefore(m, list, j)
           later == {j \in 1 .. Len(list) : t < B(j)}
           j == Least(later)
           q == list[j]
           len == Len(list)
           a == [m EXCEPT !.state[p] = "SLEEP", !.tick[p] = t,
                          !.next[p] = NULL, !.prev[p] = NULL]
           delta == t - B(j - 1)
           n == sleep(m, p, ms)
<1>1. list \in Seq(Slots) /\ len \in Nat
  <2>1. m.next \in [Slots -> Pointers] /\ m.dl \in Pointers
    BY DEF Memory
  <2>2. Walked(list, PCB_TABLE_SIZE, m.next, m.dl)
    BY <2>1, ChainIsWalked
  <2> HIDE DEF list
  <2> QED BY <2>2 DEF Walked
<1> HIDE DEF list, n
<1>2. m.tick \in [Slots -> 0 .. UINT_MAX] /\ m.tick \in [Slots -> Nat]
  BY DEF Memory
<1>3. /\ B(0) = 0
      /\ \A i \in 0 .. len : B(i) \in Nat
      /\ \A i \in 1 .. len : B(i) = B(i - 1) + m.tick[list[i]]
  BY <1>1, <1>2, TicksAdd
<1> HIDE DEF B
<1>4. Moves(m, p, a)
  <2> DEFINE sta == [m.state EXCEPT ![p] = "SLEEP"]
             tik == [m.tick EXCEPT ![p] = t]
             nxt == [m.next EXCEPT ![p] = NULL]
             prv == [m.prev EXCEPT ![p] = NULL]
  <2>1. a = [m EXCEPT !.state = sta, !.tick = tik, !.next = nxt, !.prev = prv]
    OBVIOUS
  <2>2. /\ sta \in [Slots -> States] /\ tik \in [Slots -> 0 .. UINT_MAX]
        /\ nxt \in [Slots -> Pointers] /\ prv \in [Slots -> Pointers]
    BY ConstantTypes DEF Memory, States
  <2>3. sta[p] = "SLEEP" /\ \A x \in Slots : x # p => sta[x] = m.state[x]
    BY DEF Memory
  <2> HIDE DEF sta, tik, nxt, prv, a, t
  <2>4. Keeps(m, a) /\ a.state = sta /\ a.pcb = m.pcb /\ a.stack = m.stack
    BY <2>1, <2>2 DEF Keeps, Memory
  <2> QED BY <2>3, <2>4 DEF Moves
<1>5. /\ a.tick = [m.tick EXCEPT ![p] = t]
      /\ a.tick \in [Slots -> 0 .. UINT_MAX]
      /\ a.next \in [Slots -> Pointers] /\ a.prev \in [Slots -> Pointers]
  <2>1. a \in Memory
    BY <1>4 DEF Moves, Keeps
  <2>2. a.tick = [m.tick EXCEPT ![p] = t]
    BY DEF Memory
  <2> HIDE DEF a
  <2> QED BY <2>1, <2>2 DEF Memory
<1> HIDE DEF a
<1>5a. t \in 0 .. UINT_MAX /\ UINT_MAX \in Nat
  BY SleepAssumption
<1>6. CASE m.dl = NULL
  <2>1. n = [a EXCEPT !.dl = p]
    BY <1>6 DEF sleep, n, a
  <2> QED BY <1>4, <2>1, FieldMoves, ConstantTypes DEF n
<1>7. CASE m.dl # NULL /\ IsCyclic(list)
  <2>1. n = [a EXCEPT !.fault = "loop"]
    BY <1>7 DEF sleep, n, a, list
  <2>2. "loop" \in {"none", "null", "loop"}
    OBVIOUS
  <2>3. Moves(m, p, [a EXCEPT !.fault = "loop"])
    BY <1>4, <2>2, FaultMoves
  <2> QED BY <2>1, <2>3 DEF n
<1>8. CASE m.dl # NULL /\ ~ IsCyclic(list) /\ later = {}
  <2> DEFINE tik == [a.tick EXCEPT ![p] = t - B(len)]
             nxt == [a.next EXCEPT ![list[len]] = p]
             prv == [a.prev EXCEPT ![p] = list[len]]
             a1 == [a EXCEPT !.tick = tik]
             a2 == [a1 EXCEPT !.next = nxt]
  <2>1. n = [a EXCEPT !.tick = tik, !.next = nxt, !.prev = prv]
    BY <1>8 DEF sleep, n, a, list, B
  <2>2. len # 0
    <3>1. Walked(list, PCB_TABLE_SIZE, m.next, m.dl)
      <4>1. m.next \in [Slots -> Pointers] /\ m.dl \in Pointers
        BY DEF Memory
      <4> QED BY <4>1, ChainIsWalked DEF list
    <3> QED BY <1>1, <1>8, <3>1 DEF Walked
  <2>3. len \in 1 .. len /\ len \in 0 .. len /\ list[len] \in Slots
    BY <1>1, <2>2
  <2>4. t - B(len) \in 0 .. UINT_MAX
    <3>1. ~ (t < B(len))
      BY <1>8, <2>3
    <3>2. B(len) \in Nat
      BY <1>3, <2>3
    <3> HIDE DEF t
    <3> QED BY <1>5a, <3>1, <3>2
  <2>5. /\ tik \in [Slots -> 0 .. UINT_MAX]
        /\ nxt \in [Slots -> Pointers] /\ prv \in [Slots -> Pointers]
    BY <1>5, <2>3, <2>4, ConstantTypes
  <2>6. n = [a2 EXCEPT !.prev = prv]
    <3> HIDE DEF tik, nxt, prv
    <3> QED BY <2>1
  <2> HIDE DEF tik, nxt, prv
  <2>7. Moves(m, p, a1)
    BY <1>4, <2>5, FieldMoves
  <2> HIDE DEF a1
  <2>8. Moves(m, p, a2)
    BY <2>5, <2>7, FieldMoves
  <2> HIDE DEF a2
  <2>9. Moves(m, p, n)
    BY <2>5, <2>6, <2>8, FieldMoves
  <2> QED BY <2>9 DEF n
<1>9. CASE m.dl # NULL /\ ~ IsCyclic(list) /\ later # {}
  <2>1. j \in 1 .. len /\ t < B(j) /\ \A i \in 1 .. len : t < B(i) => j <= i
    <3>1. later \in SUBSET Nat
      BY <1>1
    <3>2. Least(later) \in later /\ \A i \in later : Least(later) <= i
      <4> HIDE DEF later
      <4> QED BY <1>9, <3>1, LeastElement
    <3> QED BY <3>2
  <2> HIDE DEF j
  <2>2. q \in Slots
    BY <1>1, <2>1
  <2>3. j - 1 \in 0 .. len /\ B(j - 1) \in Nat /\ B(j) \in Nat /\ j \in 0 .. len
    BY <1>1, <1>3, <2>1
  <2>4. B(j - 1) <= t
    <3>1. CASE j = 1
      BY <1>3, <3>1
    <3>2. CASE j # 1
      <4>1. j - 1 \in 1 .. len /\ ~ (j <= j - 1)
        BY <1>1, <2>1, <3>2
      <4>2. ~ (t < B(j - 1))
        BY <2>1, <4>1
      <4> QED BY <2>3, <4>2
    <3> QED BY <3>1, <3>2
  <2>5. delta \in 0 .. UINT_MAX
    <3> HIDE DEF t
    <3> QED BY <1>5a, <2>3, <2>4
  <2>6. m.tick[q] - delta \in 0 .. UINT_MAX
    <3>1. B(j) = B(j - 1) + m.tick[q]
      BY <1>3, <2>1
    <3>2. m.tick[q] \in 0 .. UINT_MAX
      BY <1>2, <2>2
    <3>3. t < B(j - 1) + m.tick[q] /\ B(j - 1) <= t /\ t \in Nat
      BY <1>5a, <2>1, <2>4, <3>1
    <3>4. ASSUME NEW u \in Nat, NEW b \in Nat, NEW x \in 0 .. UINT_MAX, b <= u, u < b + x
          PROVE  x - (u - b) \in 0 .. UINT_MAX
      BY <3>4, SleepAssumption
    <3> HIDE DEF q, t, B
    <3> QED BY <2>3, <3>2, <3>3, <3>4
  <2> DEFINE tip == [a.tick EXCEPT ![p] = delta]
             tik == [tip EXCEPT ![q] = tip[q] - delta]
             nxt == [a.next EXCEPT ![p] = q]
             prq == [a.prev EXCEPT ![q] = p]
             prp == [a.prev EXCEPT ![p] = m.prev[q]]
             a1 == [a EXCEPT !.tick = tik]
             a2 == [a1 EXCEPT !.next = nxt]
             a3 == [a2 EXCEPT !.dl = p]
  <2>7. \/ n = [a EXCEPT !.tick = tik, !.next = nxt, !.dl = p, !.prev = prq]
        \/ n = [a EXCEPT !.tick = tik, !.next = nxt, !.prev = prp]
    <3> DEFINE placed == [a EXCEPT !.tick = [tip EXCEPT ![q] = tip[q] - delta],
                                   !.next[p] = q]
    <3>1. placed = [a EXCEPT !.tick = tik, !.next = nxt]
      <4> DEFINE b == [a EXCEPT !.tick = tik]
      <4>1. placed = [b EXCEPT !.next[p] = q]
        OBVIOUS
      <4> HIDE DEF placed, tik
      <4>2. b.next = a.next
        BY <1>4 DEF Moves, Keeps, Memory
      <4>3. placed = [b EXCEPT !.next = nxt]
        BY <4>1, <4>2
      <4> HIDE DEF nxt
      <4> QED BY <4>3
    <3>2. n = IF m.prev[q] = NULL
              THEN [placed EXCEPT !.dl = p, !.prev[q] = p]
              ELSE [placed EXCEPT !.prev[p] = m.prev[q]]
      BY <1>9 DEF sleep, n, a, list, B, j
    <3> HIDE DEF placed, tik, nxt
    <3>3. placed.prev = a.prev
      BY <1>4, <3>1 DEF Moves, Keeps, Memory
    <3>4. CASE m.prev[q] = NULL
      <4>1. n = [placed EXCEPT !.dl = p, !.prev = prq]
        BY <3>2, <3>3, <3>4
      <4> HIDE DEF prq
      <4> QED BY <3>1, <4>1
    <3>5. CASE m.prev[q] # NULL
      <4>1. n = [placed EXCEPT !.prev = prp]
        BY <3>2, <3>3, <3>5
      <4> HIDE DEF prp
      <4> QED BY <3>1, <4>1
    <3> QED BY <3>4, <3>5
  <2>8. tik \in [Slots -> 0 .. UINT_MAX]
    <3>1. tip \in [Slots -> 0 .. UINT_MAX]
      BY <1>5, <2>5
    <3>2. tip[q] - delta \in 0 .. UINT_MAX
      <4> HIDE DEF t, q, delta
      <4>1. CASE q = p
        <5>1. tip[q] = delta
          BY <1>5, <2>2, <4>1
        <5> QED BY <1>5a, <2>5, <5>1
      <4>2. CASE q # p
        <5>1. tip[q] = m.tick[q]
          BY <1>2, <1>5, <2>2, <4>2
        <5> QED BY <2>6, <5>1
      <4> QED BY <4>1, <4>2
    <3> HIDE DEF tip
    <3> QED BY <2>2, <3>1, <3>2
  <2>9. /\ nxt \in [Slots -> Pointers] /\ prq \in [Slots -> Pointers]
        /\ prp \in [Slots -> Pointers]
    BY <1>5, <2>2, ConstantTypes DEF Memory
  <2>10. /\ [a EXCEPT !.tick = tik, !.next = nxt, !.dl = p, !.prev = prq]
              = [a3 EXCEPT !.prev = prq]
         /\ [a EXCEPT !.tick = tik, !.next = nxt, !.prev = prp] = [a2 EXCEPT !.prev = prp]
    <3> HIDE DEF tik, nxt, prq, prp
    <3> QED OBVIOUS
  <2> HIDE DEF tik, nxt, prq, prp
  <2>11. Moves(m, p, a1)
    BY <1>4, <2>8, FieldMoves
  <2> HIDE DEF a1
  <2>12. Moves(m, p, a2)
    BY <2>9, <2>11, FieldMoves
  <2> HIDE DEF a2
  <2>13. Moves(m, p, a3)
    BY <2>12, FieldMoves, ConstantTypes
  <2> HIDE DEF a3
  <2>14. Moves(m, p, [a3 EXCEPT !.prev = prq]) /\ Moves(m, p, [a2 EXCEPT !.prev = prp])
    BY <2>9, <2>12, <2>13, FieldMoves
  <2>15. Moves(m, p, n)
    BY <2>7, <2>10, <2>14
  <2> QED BY <2>15 DEF n
<1> QED BY <1>6, <1>7, <1>8, <1>9

\* One turn of the loop of tick().
LEMMA WakeFirstMoves ==
  ASSUME NEW m \in Memory, NEW x
  PROVE  Moves(m, x, wakeFirst(m))
<1> DEFINE p == m.dl
           q == m.next[p]
           r == ready(m, p)
           woken == [r EXCEPT !.dl = q]
           n == wakeFirst(m)
<1>1. CASE p = NULL \/ m.tick[p] # 0
  BY <1>1, StayMoves DEF wakeFirst
<1>2. CASE p # NULL /\ m.tick[p] = 0
  <2>1. p \in Slots /\ q \in Pointers
    <3>1. p \in Slots
      BY <1>2 DEF Memory, Pointers
    <3> QED BY <3>1 DEF Memory
  <2>2. Moves(m, x, r)
    BY <2>1, ReadyMoves
  <2> DEFINE prv == [woken.prev EXCEPT ![q] = NULL]
  <2>3. n = woken \/ n = [woken EXCEPT !.prev = prv]
    <3>1. n = IF q = NULL THEN woken ELSE [woken EXCEPT !.prev[q] = NULL]
      BY <1>2 DEF wakeFirst
    <3> HIDE DEF n, woken
    <3> QED BY <3>1
  <2> HIDE DEF r, n
  <2>4. Moves(m, x, woken)
    BY <2>1, <2>2, FieldMoves
  <2> HIDE DEF woken
  <2>5. prv \in [Slots -> Pointers]
    BY <2>4, ConstantTypes DEF Moves, Keeps, Memory
  <2> HIDE DEF prv
  <2>6. Moves(m, x, n)
    <3>1. Moves(m, x, [woken EXCEPT !.prev = prv])
      BY <2>4, <2>5, FieldMoves
    <3> QED BY <2>3, <2>4, <3>1
  <2> QED BY <2>6 DEF n
<1> QED BY <1>1, <1>2

\* tick() moves sleepers to the ready queue, however many turns it takes.
LEMMA TickMoves ==
  ASSUME NEW m \in Memory, NEW x
  PROVE  Moves(m, x, tick(m))
<1>1. CASE m.dl = NULL
  BY <1>1, StayMoves DEF tick
<1>2. CASE m.dl # NULL
  <2> DEFINE a == [m EXCEPT !.tick[m.dl] = Wrapped(@ - 1)]
             N == PCB_TABLE_SIZE
  <2>1. Moves(m, x, a)
    <3> DEFINE tik == [m.tick EXCEPT ![m.dl] = Wrapped(@ - 1)]
    <3>1. tik \in [Slots -> 0 .. UINT_MAX]
      <4>1. m.dl \in Slots /\ m.tick \in [Slots -> 0 .. UINT_MAX]
        BY <1>2 DEF Memory, Pointers
      <4>2. Wrapped(m.tick[m.dl] - 1) \in 0 .. UINT_MAX
        BY <4>1, WrappedType
      <4> QED BY <4>1, <4>2
    <3>2. a = [m EXCEPT !.tick = tik]
      OBVIOUS
    <3> HIDE DEF a, tik
    <3> QED BY <3>1, <3>2, StayMoves, FieldMoves
  <2>2. a \in Memory
    <3> HIDE DEF a
    <3> QED BY <2>1 DEF Moves, Keeps
  <2>3. \A y \in Memory : wakeFirst(y) \in Memory
    BY WakeFirstMoves DEF Moves, Keeps
  <2>4. PICK turn : TickLoop(turn, m) /\ turns(m) = turn[N]
    BY <1>2, <2>2, <2>3, TickTurns
  <2>5. turn[0] = a /\ \A n \in 0 .. N : n # 0 => turn[n] = wakeFirst(turn[n - 1])
    <3> HIDE DEF a
    <3>1. turn = [n \in 0 .. N |-> IF n = 0 THEN a ELSE wakeFirst(turn[n - 1])]
      BY <2>4 DEF TickLoop, a
    <3>2. 0 \in 0 .. N
      BY PcbAssumption
    <3> QED BY <3>1, <3>2
  <2> HIDE DEF a
  <2> DEFINE T == {n \in Nat : n <= N => Moves(m, x, turn[n])}
  <2>6. 0 \in T
    BY <2>1, <2>5
  <2>7. ASSUME NEW n \in T PROVE n + 1 \in T
    <3> SUFFICES ASSUME n + 1 <= N PROVE Moves(m, x, turn[n + 1])
      OBVIOUS
    <3>1. Moves(m, x, turn[n])
      BY PcbAssumption
    <3>2. turn[n + 1] = wakeFirst(turn[n])
      <4>1. n + 1 \in 0 .. N /\ n + 1 # 0 /\ n + 1 - 1 = n
        BY PcbAssumption
      <4>2. turn[n + 1] = wakeFirst(turn[n + 1 - 1])
        BY <2>5, <4>1
      <4> QED BY <4>1, <4>2
    <3>3. turn[n] \in Memory
      BY <3>1 DEF Moves, Keeps
    <3>4. Moves(turn[n], x, turn[n + 1])
      BY <3>2, <3>3, WakeFirstMoves
    <3> QED BY <3>1, <3>4, MovesCompose
  <2>8. T = Nat
    <3>1. T \in SUBSET Nat
      OBVIOUS
    <3> HIDE DEF T
    <3> QED BY <2>6, <2>7, <3>1, NaturalInduction
  <2>9. Moves(m, x, turns(m))
    <3>1. Moves(m, x, turn[N])
      BY <2>8, PcbAssumption
    <3> QED BY <2>4, <3>1
  <2>10. tick(m) = turns(m) \/ tick(m) = [turns(m) EXCEPT !.fault = "loop"]
    BY <1>2 DEF tick
  <2>11. Moves(m, x, [turns(m) EXCEPT !.fault = "loop"])
    <3>1. "loop" \in {"none", "null", "loop"}
      OBVIOUS
    <3> QED BY <2>9, <3>1, FaultMoves
  <2> QED BY <2>9, <2>10, <2>11
<1> QED BY <1>1, <1>2
-----------------------------------------------------------------------------
(***************************************************************************)
(* The dispatcher has resumed a process that is running, or ready while it *)
(* has the processor, unless it has left the behaviour that C defines.     *)
(***************************************************************************)
Active(m) ==
  /\ m \in Memory
  /\ m.pcb \in Slots
  /\ m.fault = "none" => m.state[m.pcb] \in {"RUNNING", "READY"}

Suspended == {"BLOCKED", "SLEEP", "WAITING"}

(***************************************************************************)
(* What a turn of dispatch's loop does when no process is made, killed or  *)
(* signalled: processes become ready or running, and the one that entered  *)
(* the kernel may be left in one of the states S, or stopped.              *)
(***************************************************************************)
Turn(m, S, n) ==
  /\ Active(n)
  /\ Keeps(m, n)
  /\ \A q \in Slots :
       \/ n.stack[q] = m.stack[q] /\ n.state[q] \in {m.state[q], "READY", "RUNNING"}
       \/ n.stack[q] = m.stack[q] /\ q = m.pcb /\ n.state[q] \in S
       \/ ~ n.stack[q] /\ q = m.pcb /\ n.state[q] \in {"STOPPED", "RUNNING"}

\* The process that called goes on.
LEMMA StayTurn ==
  ASSUME NEW m, Active(m), m.fault = "none", NEW n, Moves(m, NULL, n)
  PROVE  Turn(m, {}, n)
BY ConstantTypes DEF Active, Moves, Keeps, Turn

\* next() chooses after the caller was suspended.
LEMMA SuspendTurn ==
  ASSUME NEW m, Active(m), NEW o, Moves(m, m.pcb, o)
  PROVE  Turn(m, Suspended, next(o))
<1> DEFINE n == next(o)
<1>1. Dispatches(o, n)
  BY NextDispatches DEF Moves, Keeps
<1> HIDE DEF n
<1>2. Active(n)
  <2>1. o.state \in [Slots -> States] /\ o.pcb = m.pcb
    BY DEF Moves, Keeps, Memory
  <2> QED BY <1>1, <2>1 DEF Dispatches, Active, Keeps
<1>3. Keeps(m, n)
  BY <1>1 DEF Dispatches, Moves, Keeps
<1>4. ASSUME NEW q \in Slots
      PROVE  /\ n.stack[q] = m.stack[q]
             /\ n.state[q] \in {o.state[q], "RUNNING"}
  BY <1>1, <1>4 DEF Dispatches, Moves, Keeps, Memory
<1>5. Turn(m, Suspended, n)
  BY <1>2, <1>3, <1>4 DEF Turn, Moves, Suspended
<1> QED BY <1>5 DEF n

\* next() chooses, and the caller is not suspended.
LEMMA PreemptTurn ==
  ASSUME NEW m, Active(m), NEW o, Moves(m, NULL, o)
  PROVE  Turn(m, {}, next(o))
<1> DEFINE n == next(o)
<1>1. Dispatches(o, n)
  BY NextDispatches DEF Moves, Keeps
<1> HIDE DEF n
<1>2. Active(n)
  <2>1. o.state \in [Slots -> States] /\ o.pcb = m.pcb
    BY DEF Moves, Keeps, Memory
  <2> QED BY <1>1, <2>1 DEF Dispatches, Active, Keeps
<1>3. Keeps(m, n)
  BY <1>1 DEF Dispatches, Moves, Keeps
<1>4. ASSUME NEW q \in Slots
      PROVE  /\ n.stack[q] = m.stack[q]
             /\ n.state[q] \in {o.state[q], "RUNNING"}
  BY <1>1, <1>4 DEF Dispatches, Moves, Keeps, Memory
<1>6. Turn(m, {}, n)
  BY <1>2, <1>3, <1>4, ConstantTypes DEF Turn, Moves
<1> QED BY <1>6 DEF n

\* next() chooses after the caller was stopped.
LEMMA StopTurn ==
  ASSUME NEW m, Active(m)
  PROVE  Turn(m, {}, next(cleanup(restoreToReadyQueue(m, m.pcb), m.pcb)))
<1> DEFINE r == restoreToReadyQueue(m, m.pcb)
           c == cleanup(r, m.pcb)
           n == next(c)
<1>0. m \in Memory /\ m.pcb \in Slots
  BY DEF Active
<1>1. Moves(m, NULL, r)
  BY <1>0, RestoreMoves
<1> HIDE DEF r
<1>2. Stops(r, m.pcb, c)
  BY <1>1, CleanupStops DEF Moves, Keeps
<1> HIDE DEF c
<1>3. Dispatches(c, n)
  BY <1>2, NextDispatches DEF Stops, Keeps
<1> HIDE DEF n
<1>4. Keeps(m, n)
  BY <1>1, <1>2, <1>3 DEF Dispatches, Stops, Moves, Keeps
<1>5. Active(n)
  <2>1. c.state \in [Slots -> States] /\ c.pcb = m.pcb
    BY <1>1, <1>2 DEF Moves, Stops, Keeps, Memory
  <2> QED BY <1>0, <1>3, <2>1 DEF Dispatches, Active, Keeps
<1>6. ASSUME NEW q \in Slots
      PROVE  \/ n.stack[q] = m.stack[q] /\ n.state[q] \in {m.state[q], "READY", "RUNNING"}
             \/ ~ n.stack[q] /\ q = m.pcb /\ n.state[q] \in {"STOPPED", "RUNNING"}
  <2>1. n.stack[q] = c.stack[q] /\ n.state[q] \in {c.state[q], "RUNNING"}
    <3>1. c.state \in [Slots -> States]
      BY <1>2 DEF Stops, Keeps, Memory
    <3> QED BY <1>3, <3>1 DEF Dispatches
  <2>2. r.stack[q] = m.stack[q] /\ r.state[q] \in {m.state[q], "READY"}
    BY <1>1, ConstantTypes DEF Moves
  <2>3. /\ q # m.pcb => c.stack[q] = r.stack[q] /\ c.state[q] = r.state[q]
        /\ q = m.pcb => c.stack[q] = FALSE /\ c.state[q] = "STOPPED"
    <3>1. r.state \in [Slots -> States] /\ r.stack \in [Slots -> BOOLEAN]
      BY <1>1 DEF Moves, Keeps, Memory
    <3> QED BY <1>0, <1>2, <3>1 DEF Stops
  <2> QED BY <2>1, <2>2, <2>3
<1>7. Turn(m, {}, n)
  BY <1>4, <1>5, <1>6 DEF Turn
<1> QED BY <1>7 DEF n, c, r
-----------------------------------------------------------------------------
(***************************************************************************)
(* The turns of the calls that move processes between queues.              *)
(***************************************************************************)
Runs == Active(k) /\ k.fault = "none"

\* SYS_YIELD.
LEMMA YieldTurn == ASSUME Runs, Yield PROVE Turn(k, {}, k')
<1>1. Moves(k, NULL, ready(k, k.pcb))
  BY ReadyMoves DEF Runs, Active
<1> QED BY <1>1, PreemptTurn DEF Runs, Yield

\* SYS_STOP.
LEMMA StopStepTurn == ASSUME Runs, Stop PROVE Turn(k, {}, k')
BY StopTurn DEF Runs, Stop

\* TIMER_INT.
LEMMA TimerTurn == ASSUME Runs, TimerInt PROVE Turn(k, {}, k')
<1> DEFINE t == tick(k)
<1>0. k \in Memory /\ k.pcb \in Slots
  BY DEF Runs, Active
<1>1. Moves(k, NULL, t)
  BY <1>0, TickMoves
<1>2. k' = next(ready(t, k.pcb))
  BY DEF TimerInt
<1> HIDE DEF t
<1>3. Moves(t, NULL, ready(t, k.pcb))
  <2>1. t \in Memory
    BY <1>1 DEF Moves, Keeps
  <2> QED BY <1>0, <2>1, ReadyMoves
<1>4. Moves(k, NULL, ready(t, k.pcb))
  BY <1>1, <1>3, MovesCompose
<1> QED BY <1>2, <1>4, PreemptTurn DEF Runs

\* SYS_SETPRIO; the queue the process is in, if any, is not looked at.
LEMMA SetPrioTurn == ASSUME Runs, SetPrio PROVE Turn(k, {}, k')
<1>1. PICK i \in Priorities : k' = [k EXCEPT !.priority[k.pcb] = i]
  BY DEF SetPrio
<1>2. Moves(k, NULL, k')
  BY <1>1 DEF Runs, Active, Moves, Keeps, Memory
<1> QED BY <1>2, StayTurn DEF Runs

\* sysP: the caller goes on, or is suspended.
LEMMA PTurn ==
  ASSUME Runs, NEW s \in Semaphores, P(s) PROVE Turn(k, {}, k') \/ Turn(k, Suspended, k')
<1> DEFINE done == P_kern(k, s, k.pcb)
<1>0. k \in Memory /\ k.pcb \in Slots
  BY DEF Runs, Active
<1>1. Moves(k, k.pcb, done) /\ (done.state[k.pcb] = "BLOCKED" \/ Moves(k, NULL, done))
  BY <1>0, PMoves
<1>2. k' = IF done.state[k.pcb] = "BLOCKED" THEN next(done) ELSE done
  BY DEF P
<1> HIDE DEF done
<1>3. CASE done.state[k.pcb] = "BLOCKED"
  BY <1>1, <1>2, <1>3, SuspendTurn DEF Runs
<1>4. CASE done.state[k.pcb] # "BLOCKED"
  BY <1>1, <1>2, <1>4, StayTurn DEF Runs
<1> QED BY <1>3, <1>4

\* sysV.
LEMMA VTurn == ASSUME Runs, NEW s \in Semaphores, V(s) PROVE Turn(k, {}, k')
<1>1. Moves(k, NULL, V_kern(k, s))
  BY VMoves DEF Runs, Active
<1> QED BY <1>1, StayTurn DEF Runs, V

\* A sleep that the unsigned tick field can count.
LEMMA SleepTurn ==
  ASSUME Runs, NEW ms, TicksOf(ms) \in 0 .. UINT_MAX, SysSleep(ms)
  PROVE  Turn(k, Suspended, k')
<1>1. Moves(k, k.pcb, sleep(k, k.pcb, ms))
  BY SleepMoves DEF Runs, Active
<1> QED BY <1>1, SuspendTurn DEF Runs, SysSleep

\* getPCB finds a slot that carries the pid.
LEMMA PcbOfPid ==
  ASSUME NEW m, NEW id, getPCB(m, id) # NULL
  PROVE  getPCB(m, id) \in Slots /\ m.pid[getPCB(m, id)] = id
<1> DEFINE found == {p \in Slots : m.pid[p] = id}
<1>1. found # {} /\ getPCB(m, id) = Least(found)
  BY DEF getPCB
<1>2. found \in SUBSET Nat
  BY ConstantTypes
<1> HIDE DEF found
<1>3. Least(found) \in found
  BY <1>1, <1>2, LeastElement
<1> QED BY <1>1, <1>3 DEF found

\* SYS_WAIT, for a process that there is.
LEMMA WaitTurn == ASSUME Runs, NEW id, Wait(id) PROVE Turn(k, Suspended, k')
<1>1. getPCB(k, id) \in Slots
  BY PcbOfPid DEF Wait, CanWaitFor
<1>2. Moves(k, k.pcb, addToWaitQueue(k, k.pcb, id))
  BY <1>1, WaitMoves DEF Runs, Active
<1> QED BY <1>2, SuspendTurn DEF Runs, Wait
-----------------------------------------------------------------------------
(***************************************************************************)
(* create(): nothing happens, or slot p, which was free, has a new owner.  *)
(***************************************************************************)
Creates(m, p, n) ==
  /\ p \in Slots /\ m.state[p] = "STOPPED"
  /\ n \in Memory
  /\ n.pcb_id = m.pcb_id + 1
  /\ n.pid = [m.pid EXCEPT ![p] = m.pcb_id]
  /\ n.stack = [m.stack EXCEPT ![p] = TRUE]
  /\ n.frames = [m.frames EXCEPT ![p] = << >>]
  /\ n.sig_mask = [m.sig_mask EXCEPT ![p] = Signals]
  /\ n.sigTable = [m.sigTable EXCEPT ![p] = @ \cup {KillSignal}]
  /\ n.sig_ignored = m.sig_ignored
  /\ n.pcb = m.pcb
  /\ n.fault = m.fault
  /\ n.state = [m.state EXCEPT ![IF m.pcb_id = 0 THEN Idle ELSE p] = "READY"]

\* create() does what Creates says.
LEMMA CreateEffect ==
  ASSUME NEW m \in Memory
  PROVE  create(m) = m \/ \E p \in Slots : Creates(m, p, create(m))
<1> DEFINE free == {q \in Slots : m.state[q] = "STOPPED"}
           p == Least(free)
           f == Filled(m, p)
           n == create(m)
<1>1. CASE free = {}
  BY <1>1 DEF create
<1>2. CASE free # {}
  <2>1. n = ready(f, p) /\ p \in Slots /\ m.state[p] = "STOPPED"
    BY <1>2, CreateFills
  <2> HIDE DEF p, n
  <2>2. IsFilled(m, p, f)
    BY <2>1, FilledEffect
  <2>3. /\ f.sig_mask = [m.sig_mask EXCEPT ![p] = Signals]
        /\ f.sigTable = [m.sigTable EXCEPT ![p] = @ \cup {KillSignal}]
        /\ f.sig_ignored = m.sig_ignored
    BY DEF Filled, Memory
  <2>4. f.pid[p] = m.pcb_id
    BY <2>1, <2>2 DEF IsFilled, Memory
  <2> HIDE DEF f
  <2>5. Readies(f, p, n)
    BY <2>1, <2>2, ReadyKeeps DEF IsFilled
  <2>6. Creates(m, p, n)
    BY <2>1, <2>2, <2>3, <2>4, <2>5 DEF Creates, IsFilled, Readies, Keeps
  <2> QED BY <2>1, <2>6 DEF n
<1> QED BY <1>1, <1>2

\* SYS_CREATE.
LEMMA CreateActive ==
  ASSUME Runs, Create
  PROVE  Active(k') /\ (k' = k \/ \E p \in Slots : Creates(k, p, k'))
<1>1. k' = create(k) /\ k \in Memory
  BY DEF Create, Runs, Active
<1>2. k' = k \/ \E p \in Slots : Creates(k, p, k')
  BY <1>1, CreateEffect
<1>3. ASSUME NEW p \in Slots, Creates(k, p, k') PROVE Active(k')
  <2>1. k.state \in [Slots -> States]
    BY <1>1 DEF Memory
  <2> QED BY <1>3, <2>1, ConstantTypes DEF Creates, Active, Runs
<1> QED BY <1>2, <1>3 DEF Runs
-----------------------------------------------------------------------------
(***************************************************************************)
(* What signal() does to slot p when it has a handler for s: it remembers  *)
(* the signal, or interrupts the process.                                  *)
(***************************************************************************)
Remembers(m, p, s, n) ==
  /\ s \notin m.sig_mask[p]
  /\ n \in Memory
  /\ n.pid = m.pid /\ n.pcb_id = m.pcb_id /\ n.sigTable = m.sigTable
  /\ n.pcb = m.pcb /\ n.stack = m.stack /\ n.fault = m.fault
  /\ n.state = m.state /\ n.frames = m.frames /\ n.sig_mask = m.sig_mask
  /\ n.sig_ignored = [m.sig_ignored EXCEPT ![p] = @ \cup {s}]

Shift(m, p, s) == s - Least(m.sig_mask[p])

Interrupts(m, p, s, n) ==
  /\ s \in m.sig_mask[p]
  /\ Shift(m, p, s) \in Nat
  /\ n \in Memory
  /\ n.pid = m.pid /\ n.pcb_id = m.pcb_id /\ n.sigTable = m.sigTable
  /\ n.pcb = m.pcb /\ n.stack = m.stack
  /\ n.frames = [m.frames EXCEPT
                   ![p] = Append(@, [signum |-> s, prevSigShift |-> Shift(m, p, s)])]
  /\ n.sig_mask = [m.sig_mask EXCEPT ![p] = ShiftLeft(@, Shift(m, p, s))]
  /\ n.sig_ignored = [m.sig_ignored EXCEPT ![p] = @ \ {s}]
  /\ \A q \in Slots : n.state[q] \in {m.state[q], "READY"}
  /\ m.pid[p] # 0 => n.state[p] \in {"READY", "RUNNING"}

\* signal() of a masked signal.
LEMMA RememberEffect ==
  ASSUME NEW m \in Memory, NEW p \in Slots, NEW s \in Signals, s \notin m.sig_mask[p]
  PROVE  Remembers(m, p, s, [m EXCEPT !.sig_ignored[p] = @ \cup {s}])
<1> DEFINE ign == [m.sig_ignored EXCEPT ![p] = @ \cup {s}]
           n == [m EXCEPT !.sig_ignored[p] = @ \cup {s}]
<1>1. n = [m EXCEPT !.sig_ignored = ign]
  OBVIOUS
<1>2. ign \in [Slots -> SUBSET Signals]
  BY DEF Memory
<1>3. m.sig_ignored \in [Slots -> SUBSET Signals]
  BY DEF Memory
<1> HIDE DEF n
<1>4. n.sig_ignored = ign
  BY <1>1 DEF Memory
<1> HIDE DEF ign
<1>5. Remembers(m, p, s, n) \/ n.sig_ignored # [m.sig_ignored EXCEPT ![p] = @ \cup {s}]
  BY <1>1, <1>2 DEF Remembers, Memory
<1> QED BY <1>4, <1>5 DEF ign, n

\* The interruption of a process, whatever queue it was taken out of.
LEMMA PushEffect ==
  ASSUME NEW m \in Memory, NEW r, NEW p \in Slots, NEW s \in Signals,
         Moves(m, NULL, r), s \in m.sig_mask[p],
         m.pid[p] # 0 => r.state[p] \in {"READY", "RUNNING"}
  PROVE  Interrupts(m, p, s, pushFrame(r, p, s))
<1> DEFINE shift == Shift(m, p, s)
           frame == [signum |-> s, prevSigShift |-> shift]
           fra == [m.frames EXCEPT ![p] = Append(@, frame)]
           msk == [m.sig_mask EXCEPT ![p] = ShiftLeft(@, shift)]
           ign == [m.sig_ignored EXCEPT ![p] = @ \ {s}]
           n == pushFrame(r, p, s)
<1>0. /\ m.sig_mask \in [Slots -> SUBSET Signals]
      /\ m.sig_ignored \in [Slots -> SUBSET Signals]
      /\ m.frames \in [Slots -> Seq([signum : Signals, prevSigShift : Nat])]
  BY DEF Memory
<1>1. shift \in Nat
  <2>1. m.sig_mask[p] \in SUBSET Nat
    BY <1>0, PcbAssumption DEF Signals
  <2>2. Least(m.sig_mask[p]) \in m.sig_mask[p] /\ Least(m.sig_mask[p]) <= s
    BY <2>1, LeastElement
  <2> QED BY <2>1, <2>2 DEF Shift
<1>2. n = [r EXCEPT !.frames = fra, !.sig_mask = msk, !.sig_ignored = ign]
  <2>1. r.frames = m.frames /\ r.sig_mask = m.sig_mask /\ r.sig_ignored = m.sig_ignored
    BY DEF Moves, Keeps
  <2>2. n = [r EXCEPT
               !.frames = [r.frames EXCEPT ![p] =
                  Append(r.frames[p], [signum |-> s,
                                       prevSigShift |-> s - Least(r.sig_mask[p])])],
               !.sig_mask = [r.sig_mask EXCEPT ![p] =
                  ShiftLeft(r.sig_mask[p], s - Least(r.sig_mask[p]))],
               !.sig_ignored = [r.sig_ignored EXCEPT ![p] = r.sig_ignored[p] \ {s}]]
    BY DEF pushFrame
  <2> HIDE DEF n
  <2> QED BY <2>1, <2>2 DEF Shift
<1>3. frame \in [signum : Signals, prevSigShift : Nat]
  BY <1>1
<1>4. /\ fra \in [Slots -> Seq([signum : Signals, prevSigShift : Nat])]
      /\ msk \in [Slots -> SUBSET Signals]
      /\ ign \in [Slots -> SUBSET Signals]
  <2> HIDE DEF frame, shift
  <2>1. fra \in [Slots -> Seq([signum : Signals, prevSigShift : Nat])]
    <3> DEFINE F == [signum : Signals, prevSigShift : Nat]
    <3>1. frame \in F /\ m.frames \in [Slots -> Seq(F)]
      BY <1>0, <1>3
    <3> HIDE DEF F
    <3>2. Append(m.frames[p], frame) \in Seq(F)
      BY <3>1
    <3>3. fra \in [Slots -> Seq(F)]
      BY <3>1, <3>2
    <3> QED BY <3>3 DEF F
  <2>2. msk \in [Slots -> SUBSET Signals]
    <3>1. ShiftLeft(m.sig_mask[p], shift) \in SUBSET Signals
      BY DEF ShiftLeft
    <3> QED BY <1>0, <3>1
  <2>3. ign \in [Slots -> SUBSET Signals]
    BY <1>0
  <2> QED BY <2>1, <2>2, <2>3
<1> HIDE DEF fra, msk, ign, n, shift
<1>5. r \in Memory
  BY DEF Moves, Keeps
<1>6. /\ n \in Memory /\ n.frames = fra /\ n.sig_mask = msk /\ n.sig_ignored = ign
      /\ n.pid = r.pid /\ n.pcb_id = r.pcb_id /\ n.sigTable = r.sigTable
      /\ n.pcb = r.pcb /\ n.stack = r.stack /\ n.state = r.state
  BY <1>2, <1>4, <1>5 DEF Memory
<1>7. \A q \in Slots : n.state[q] \in {m.state[q], "READY"}
  BY <1>6, ConstantTypes DEF Moves
<1>8. /\ n.pid = m.pid /\ n.pcb_id = m.pcb_id /\ n.sigTable = m.sigTable
      /\ n.pcb = m.pcb /\ n.stack = m.stack
  BY <1>6 DEF Moves, Keeps
<1> QED BY <1>1, <1>6, <1>7, <1>8 DEF Interrupts, fra, msk, ign, shift, n

(***************************************************************************)
(* signal(pid, s) does nothing, or it is for a process that lives and has  *)
(* a handler for s.                                                        *)
(***************************************************************************)
Signalled(m, id, s, n) ==
  \E p \in Slots :
    /\ p = getPCB(m, id) /\ m.pid[p] = id
    /\ m.state[p] # "STOPPED" /\ s \in m.sigTable[p]
    /\ Remembers(m, p, s, n) \/ Interrupts(m, p, s, n)

\* A signal reaches a process that lives and has a handler for it.
LEMMA SignalReaches ==
  ASSUME NEW m \in Memory, NEW p \in Slots, NEW s \in Signals,
         getPCB(m, m.pid[p]) = p, m.state[p] # "STOPPED", s \in m.sigTable[p]
  PROVE  LET n == signal(m, m.pid[p], s)
         IN  Remembers(m, p, s, n) \/ Interrupts(m, p, s, n)
<1> DEFINE busy == m.state[p] \in {"READY", "RUNNING"}
           out == removeFromQueue(m, p)
           r == IF busy THEN m ELSE ready(out, p)
           n == signal(m, m.pid[p], s)
<1>1. n = IF s \notin m.sig_mask[p] THEN [m EXCEPT !.sig_ignored[p] = @ \cup {s}]
          ELSE pushFrame(r, p, s)
  BY ConstantTypes DEF signal
<1> HIDE DEF n
<1>2. CASE s \notin m.sig_mask[p]
  <2>1. Remembers(m, p, s, n)
    BY <1>1, <1>2, RememberEffect
  <2> QED BY <2>1 DEF n
<1>3. CASE s \in m.sig_mask[p]
  <2>1. Moves(m, NULL, r) /\ (m.pid[p] # 0 => r.state[p] \in {"READY", "RUNNING"})
    <3>1. CASE busy
      BY <3>1, StayMoves
    <3>2. CASE ~ busy
      <4>1. Moves(m, NULL, out)
        BY RemoveMoves
      <4> HIDE DEF out
      <4>2. out \in Memory /\ out.pid = m.pid
        BY <4>1 DEF Moves, Keeps
      <4>3. Readies(out, p, ready(out, p)) /\ Moves(out, NULL, ready(out, p))
        BY <4>2, ReadyKeeps, ReadyMoves
      <4>4. Moves(m, NULL, ready(out, p))
        BY <4>1, <4>3, MovesCompose
      <4>5. out.state \in [Slots -> States]
        BY <4>2 DEF Memory
      <4>6. m.pid[p] # 0 => ready(out, p).state[p] = "READY"
        BY <4>2, <4>3, <4>5 DEF Readies
      <4> QED BY <3>2, <4>4, <4>6
    <3> QED BY <3>1, <3>2
  <2> HIDE DEF r
  <2>2. Interrupts(m, p, s, pushFrame(r, p, s))
    BY <1>3, <2>1, PushEffect
  <2> QED BY <1>1, <1>3, <2>2 DEF n
<1> QED BY <1>2, <1>3

\* signal() does nothing or what Signalled says.
LEMMA SignalEffect ==
  ASSUME NEW m \in Memory, NEW id, NEW s \in Signals
  PROVE  signal(m, id, s) = m \/ Signalled(m, id, s, signal(m, id, s))
<1> DEFINE p == getPCB(m, id)
<1>1. CASE p = NULL \/ s \notin m.sigTable[p] \/ m.state[p] = "STOPPED"
  BY <1>1 DEF signal
<1>2. CASE p # NULL /\ s \in m.sigTable[p] /\ m.state[p] # "STOPPED"
  <2>1. p \in Slots /\ m.pid[p] = id /\ getPCB(m, m.pid[p]) = p
    BY <1>2, PcbOfPid
  <2> HIDE DEF p
  <2>2. LET n == signal(m, id, s) IN Remembers(m, p, s, n) \/ Interrupts(m, p, s, n)
    BY <1>2, <2>1, SignalReaches
  <2> QED BY <1>2, <2>1, <2>2 DEF Signalled, p
<1> QED BY <1>1, <1>2

\* getPCB finds the slot whose pid no other slot has.
LEMMA PidFinds ==
  ASSUME NEW m, NEW p \in Slots, \A q \in Slots : m.pid[q] = m.pid[p] => q = p
  PROVE  getPCB(m, m.pid[p]) = p
<1> DEFINE found == {q \in Slots : m.pid[q] = m.pid[p]}
<1>1. found = {p} /\ p \in Nat
  BY ConstantTypes
<1>2. found # {} /\ found \in SUBSET Nat
  BY <1>1
<1>3. Least(found) \in found
  <2> HIDE DEF found
  <2> QED BY <1>2, LeastElement
<1> QED BY <1>1, <1>2, <1>3 DEF getPCB

(***************************************************************************)
(* set_signal: T is the new set of signals that have a handler.            *)
(***************************************************************************)
Handles(m, p, T, n) ==
  /\ n \in Memory
  /\ n.pid = m.pid /\ n.pcb_id = m.pcb_id /\ n.frames = m.frames
  /\ n.sig_mask = m.sig_mask /\ n.sig_ignored = m.sig_ignored
  /\ n.pcb = m.pcb /\ n.stack = m.stack /\ n.state = m.state /\ n.fault = m.fault
  /\ n.sigTable = [m.sigTable EXCEPT ![p] = T]

\* set_signal() of any signal; the last one is refused.
LEMMA SetSignalEffect ==
  ASSUME NEW m \in Memory, NEW p \in Slots, NEW s \in Signals, NEW handler \in BOOLEAN
  PROVE  LET n == set_signal(m, p, s, handler) IN
         \/ n = m
         \/ s # KillSignal /\ handler /\ Handles(m, p, m.sigTable[p] \cup {s}, n)
         \/ s # KillSignal /\ ~ handler /\ Handles(m, p, m.sigTable[p] \ {s}, n)
<1> DEFINE T == IF handler THEN m.sigTable[p] \cup {s} ELSE m.sigTable[p] \ {s}
           n == [m EXCEPT !.sigTable = [m.sigTable EXCEPT ![p] = T]]
<1>1. T \in SUBSET Signals /\ m.sigTable \in [Slots -> SUBSET Signals]
  BY DEF Memory
<1>2. /\ set_signal(m, p, s, handler) \in {m, n}
      /\ s = KillSignal => set_signal(m, p, s, handler) = m
  BY DEF set_signal
<1> HIDE DEF T
<1>3. [m.sigTable EXCEPT ![p] = T] \in [Slots -> SUBSET Signals]
  BY <1>1
<1>4. Handles(m, p, T, n)
  BY <1>3 DEF Handles, Memory
<1> HIDE DEF n
<1>5. T = IF handler THEN m.sigTable[p] \cup {s} ELSE m.sigTable[p] \ {s}
  BY DEF T
<1> QED BY <1>2, <1>4, <1>5
-----------------------------------------------------------------------------
(***************************************************************************)
(* The first half of SYS_SIGRETURN: the frame on top goes, and the mask    *)
(* comes back.                                                             *)
(***************************************************************************)
Returns(m, p, n) ==
  LET f == m.frames[p] IN
  /\ n \in Memory
  /\ n.pid = m.pid /\ n.pcb_id = m.pcb_id /\ n.sigTable = m.sigTable
  /\ n.sig_ignored = m.sig_ignored
  /\ n.pcb = m.pcb /\ n.stack = m.stack /\ n.state = m.state /\ n.fault = m.fault
  /\ n.frames = [m.frames EXCEPT ![p] = SubSeq(f, 1, Len(f) - 1)]
  /\ n.sig_mask = [m.sig_mask EXCEPT ![p] = ShiftRight(@, f[Len(f)].prevSigShift)]

\* SYS_SIGRETURN is Returns, followed by the highest remembered signal, if
\* any.
LEMMA SigReturnEffect ==
  ASSUME NEW m \in Memory, NEW p \in Slots, m.frames[p] # << >>
  PROVE  LET S == m.sig_ignored[p] IN
         \E b : /\ Returns(m, p, b)
                /\ \/ S = {} /\ sigreturn(m, p) = b
                   \/ /\ Greatest(S) \in S /\ \A s \in S : s <= Greatest(S)
                      /\ sigreturn(m, p) = signal(b, m.pid[p], Greatest(S))
<1> DEFINE S == m.sig_ignored[p]
           f == m.frames[p]
           n == Len(f)
           b == [m EXCEPT !.frames[p] = SubSeq(@, 1, n - 1),
                          !.sig_mask[p] = ShiftRight(@, f[n].prevSigShift)]
           fra == [m.frames EXCEPT ![p] = SubSeq(f, 1, n - 1)]
           msk == [m.sig_mask EXCEPT ![p] = ShiftRight(@, f[n].prevSigShift)]
<1>1. fra \in [Slots -> Seq([signum : Signals, prevSigShift : Nat])]
  <2> DEFINE F == [signum : Signals, prevSigShift : Nat]
  <2>1. m.frames \in [Slots -> Seq(F)]
    BY DEF Memory
  <2> HIDE DEF F
  <2>2. SubSeq(f, 1, n - 1) \in Seq(F)
    <3>1. f \in Seq(F) /\ f # << >>
      BY <2>1
    <3> HIDE DEF f
    <3>2. n \in Nat /\ n # 0 /\ \A i \in 1 .. n - 1 : f[i] \in F
      BY <3>1
    <3>3. n - 1 \in Nat
      BY <3>2
    <3>4. SubSeq(f, 1, n - 1) = [i \in 1 .. n - 1 |-> f[i]]
      BY <3>1, <3>3
    <3> QED BY <3>2, <3>3, <3>4
  <2>3. fra \in [Slots -> Seq(F)]
    BY <2>1, <2>2
  <2> QED BY <2>3 DEF F
<1>2. msk \in [Slots -> SUBSET Signals]
  <2>1. ShiftRight(m.sig_mask[p], f[n].prevSigShift) \in SUBSET Signals
    BY DEF ShiftRight
  <2>2. m.sig_mask \in [Slots -> SUBSET Signals]
    BY DEF Memory
  <2> QED BY <2>1, <2>2
<1>3. b = [m EXCEPT !.frames = fra, !.sig_mask = msk]
  OBVIOUS
<1>4. Returns(m, p, b)
  <2> DEFINE c == [m EXCEPT !.frames = fra, !.sig_mask = msk]
  <2> HIDE DEF fra, msk
  <2>1. /\ c \in Memory /\ c.frames = fra /\ c.sig_mask = msk
        /\ c.pid = m.pid /\ c.pcb_id = m.pcb_id /\ c.sigTable = m.sigTable
        /\ c.sig_ignored = m.sig_ignored
        /\ c.pcb = m.pcb /\ c.stack = m.stack /\ c.state = m.state /\ c.fault = m.fault
    BY <1>1, <1>2 DEF Memory
  <2> HIDE DEF b, c
  <2>2. Returns(m, p, c)
    BY <2>1 DEF Returns, fra, msk
  <2> QED BY <1>3, <2>2 DEF c
<1>5. sigreturn(m, p) = IF S = {} THEN b ELSE signal(b, m.pid[p], Greatest(S))
  BY DEF sigreturn
<1>6. S # {} => Greatest(S) \in S /\ \A s \in S : s <= Greatest(S)
  <2>1. S \in SUBSET (0 .. SIG_TABLE_SIZE - 1) /\ SIG_TABLE_SIZE - 1 \in Nat
    BY PcbAssumption DEF Memory, Signals
  <2> HIDE DEF S
  <2> QED BY <2>1, GreatestElement
<1> HIDE DEF b, S
<1> QED BY <1>4, <1>5, <1>6 DEF S
-----------------------------------------------------------------------------
(***************************************************************************)
(* Every step leaves an active memory behind.                              *)
(***************************************************************************)
LEMMA SignalledActive ==
  ASSUME NEW m, Active(m), m.fault = "none", NEW id, NEW s, NEW n, Signalled(m, id, s, n)
  PROVE  Active(n)
<1>1. PICK p \in Slots : Remembers(m, p, s, n) \/ Interrupts(m, p, s, n)
  BY DEF Signalled
<1>2. n \in Memory /\ n.pcb = m.pcb /\ n.state[m.pcb] \in {m.state[m.pcb], "READY"}
  BY <1>1 DEF Remembers, Interrupts, Active
<1> QED BY <1>2 DEF Active

\* SYS_KILL.
LEMMA KillActive ==
  ASSUME Runs, NEW id, NEW s \in Signals, Kill(id, s)
  PROVE  Active(k') /\ (k' = k \/ Signalled(k, id, s, k'))
<1>1. k' = signal(k, id, s) /\ k \in Memory
  BY DEF Kill, Runs, Active
<1>2. k' = k \/ Signalled(k, id, s, k')
  BY <1>1, SignalEffect
<1> QED BY <1>2, SignalledActive DEF Runs

\* SYS_SIGNAL.
LEMMA SetSignalActive ==
  ASSUME Runs, NEW s \in Signals, NEW handler \in BOOLEAN, SetSignal(s, handler)
  PROVE  Active(k')
<1>1. k' = set_signal(k, k.pcb, s, handler) /\ k \in Memory /\ k.pcb \in Slots
  BY DEF SetSignal, Runs, Active
<1>2. k' = k \/ \E T : Handles(k, k.pcb, T, k')
  BY <1>1, SetSignalEffect
<1> QED BY <1>2 DEF Handles, Runs, Active

\* SYS_SIGRETURN.
LEMMA SigReturnActive ==
  ASSUME Runs, SigReturn
  PROVE  Active(k')
<1>1. /\ k' = sigreturn(k, k.pcb) /\ k.frames[k.pcb] # << >>
      /\ k \in Memory /\ k.pcb \in Slots
  BY DEF SigReturn, Runs, Active
<1> DEFINE S == k.sig_ignored[k.pcb]
<1>2. PICK b : /\ Returns(k, k.pcb, b)
               /\ \/ S = {} /\ k' = b
                  \/ Greatest(S) \in S /\ k' = signal(b, k.pid[k.pcb], Greatest(S))
  BY <1>1, SigReturnEffect
<1>3. Active(b) /\ b.fault = "none"
  BY <1>2 DEF Returns, Runs, Active
<1>4. CASE S = {} /\ k' = b
  BY <1>3, <1>4
<1>5. CASE Greatest(S) \in S /\ k' = signal(b, k.pid[k.pcb], Greatest(S))
  <2>1. Greatest(S) \in Signals
    BY <1>1, <1>5 DEF Memory
  <2> HIDE DEF S
  <2>2. k' = b \/ Signalled(b, k.pid[k.pcb], Greatest(S), k')
    BY <1>3, <1>5, <2>1, SignalEffect DEF Active
  <2> QED BY <1>3, <2>2, SignalledActive
<1> QED BY <1>2, <1>4, <1>5

(***************************************************************************)
(* The tick field can count every sleep of the workload, as it can in the  *)
(* code, where the argument of syssleep is unsigned.                       *)
(***************************************************************************)
SleepsFit == \A ms \in Millis : TicksOf(ms) \in 0 .. UINT_MAX

\* A kernel that takes a step has not left defined behaviour.
LEMMA TakesTurn == ASSUME Active(k), Next PROVE Runs
<1>1. k.fault = "none"
  BY DEF Next, OtherCall, OwnCall, Create, Yield, Stop, SetPrio, P, V, SetSignal,
         SigReturn, Wait, Kill, SysSleep, TimerInt, UserCall, Running
<1> QED BY <1>1 DEF Runs

\* Every action of Next keeps the kernel active.
LEMMA StepActive == ASSUME SleepsFit, Active(k), Next PROVE Active(k')
<1>0. Runs
  BY TakesTurn
<1>1. CASE Create
  BY <1>0, <1>1, CreateActive
<1>2. CASE Yield
  BY <1>0, <1>2, YieldTurn DEF Turn
<1>3. CASE Stop
  BY <1>0, <1>3, StopStepTurn DEF Turn
<1>4. CASE SetPrio
  BY <1>0, <1>4, SetPrioTurn DEF Turn
<1>5. CASE \E s \in Semaphores : P(s)
  BY <1>0, <1>5, PTurn DEF Turn
<1>6. CASE \E s \in Semaphores : V(s)
  BY <1>0, <1>6, VTurn DEF Turn
<1>7. CASE \E s \in Signals, handler \in BOOLEAN : SetSignal(s, handler)
  BY <1>0, <1>7, SetSignalActive
<1>8. CASE SigReturn
  BY <1>0, <1>8, SigReturnActive
<1>9. CASE \E id \in 0 .. MaxPid : Wait(id)
  BY <1>0, <1>9, WaitTurn DEF Turn
<1>10. CASE \E id \in 0 .. MaxPid, s \in Signals : Kill(id, s)
  BY <1>0, <1>10, KillActive
<1>11. CASE \E ms \in Millis : SysSleep(ms)
  BY <1>0, <1>11, SleepTurn DEF Turn, SleepsFit
<1>12. CASE TimerInt
  BY <1>0, <1>12, TimerTurn DEF Turn
<1> QED BY <1>1, <1>2, <1>3, <1>4, <1>5, <1>6, <1>7, <1>8, <1>9, <1>10, <1>11, <1>12
        DEF Next, OtherCall, OwnCall

\* The memory at boot has its type.
LEMMA BootTyped == BootMemory \in Memory
BY ConstantTypes, PcbAssumption, SleepAssumption
   DEF BootMemory, Memory, Queues, Priorities, Semaphores, States

\* The first process that runs.
LEMMA InitActive == Init => Active(k)
BY InitInv, RunningProcess DEF Active

(***************************************************************************)
(* KernelTypes: whatever user processes call, in any workload, and however *)
(* the queues have been linked by then, every variable of the kernel keeps *)
(* its type, dispatch() resumes a slot of the table, and unless a handler  *)
(* has followed a null pointer or looped, that slot is running or ready,   *)
(* and so neither stopped nor suspended.                                   *)
(***************************************************************************)
THEOREM KernelTypes ==
  ASSUME SleepsFit
  PROVE  Spec => []TypeOK /\ []Active(k)
<1>1. Init => Active(k)
  BY InitActive
<1>2. Active(k) /\ [Next]_k => Active(k)'
  BY StepActive
<1>3. Active(k) => TypeOK
  BY DEF Active, TypeOK
<1> QED BY <1>1, <1>2, <1>3, PTL DEF Spec
-----------------------------------------------------------------------------
(***************************************************************************)
(* Pids, in every workload.                                                *)
(***************************************************************************)
DistinctPids(m) ==
  /\ m.pcb_id # 0
  /\ \A p \in Slots :
       m.pid[p] # 0 => /\ m.pid[p] < m.pcb_id
                       /\ \A q \in Slots \ {p} : m.pid[q] # m.pid[p]

\* A pid that a slot has leads to the slot.
LEMMA DistinctPidFinds ==
  ASSUME NEW m, DistinctPids(m), NEW p \in Slots, m.pid[p] # 0
  PROVE  getPCB(m, m.pid[p]) = p
BY PidFinds DEF DistinctPids

\* A pid given out is new, and leads to the new process.
LEMMA CreatesPids ==
  ASSUME NEW m \in Memory, NEW p, NEW n, DistinctPids(m), Creates(m, p, n)
  PROVE  DistinctPids(n) /\ getPCB(n, m.pcb_id) = p
<1>1. /\ m.pid \in [Slots -> Nat] /\ m.pcb_id \in Nat /\ p \in Slots
      /\ n.pcb_id = m.pcb_id + 1 /\ n.pid = [m.pid EXCEPT ![p] = m.pcb_id]
  BY DEF Memory, Creates
<1>2. DistinctPids(n)
  <2>1. ASSUME NEW q \in Slots, n.pid[q] # 0
        PROVE  n.pid[q] < n.pcb_id /\ \A r \in Slots \ {q} : n.pid[r] # n.pid[q]
    <3>1. CASE q = p
      BY <1>1, <2>1, <3>1 DEF DistinctPids
    <3>2. CASE q # p
      BY <1>1, <2>1, <3>2 DEF DistinctPids
    <3> QED BY <3>1, <3>2
  <2> QED BY <1>1, <2>1 DEF DistinctPids
<1>3. n.pid[p] = m.pcb_id /\ n.pid[p] # 0
  BY <1>1 DEF DistinctPids
<1> QED BY <1>1, <1>2, <1>3, DistinctPidFinds

\* The two processes made at boot have pids of their own, 0 and 1.
LEMMA InitPids == Init => DistinctPids(k)
<1> DEFINE a == create(BootMemory)
           b == create(a)
           Fresh(m) == /\ m \in Memory
                       /\ \A p \in Slots : m.pid[p] # 0 =>
                            /\ m.pid[p] < m.pcb_id
                            /\ \A q \in Slots \ {p} : m.pid[q] # m.pid[p]
<1>1. Fresh(BootMemory)
  BY BootTyped DEF BootMemory
<1>2. ASSUME NEW m, NEW p, Fresh(m), Creates(m, p, create(m)) PROVE Fresh(create(m))
  <2> DEFINE n == create(m)
  <2> HIDE DEF n
  <2>1. /\ m.pid \in [Slots -> Nat] /\ m.pcb_id \in Nat /\ p \in Slots
        /\ n.pcb_id = m.pcb_id + 1 /\ n.pid = [m.pid EXCEPT ![p] = m.pcb_id]
        /\ n \in Memory
    BY <1>2 DEF Memory, Creates, n
  <2>2. ASSUME NEW q \in Slots, n.pid[q] # 0
        PROVE  n.pid[q] < n.pcb_id /\ \A r \in Slots \ {q} : n.pid[r] # n.pid[q]
    <3>1. CASE q = p
      BY <1>2, <2>1, <2>2, <3>1
    <3>2. CASE q # p
      BY <1>2, <2>1, <2>2, <3>2
    <3> QED BY <3>1, <3>2
  <2>3. Fresh(n)
    BY <2>1, <2>2
  <2> QED BY <2>3 DEF n
<1>3. ASSUME NEW m, Fresh(m) PROVE Fresh(create(m))
  <2> HIDE DEF Fresh
  <2>1. m \in Memory
    BY <1>3 DEF Fresh
  <2> QED BY <1>2, <1>3, <2>1, CreateEffect
<1>4. Fresh(b)
  <2> HIDE DEF Fresh
  <2> QED BY <1>1, <1>3
<1> HIDE DEF b
<1>5. Keeps(b, next(b))
  BY <1>4, NextDispatches DEF Dispatches
<1>6. Init => Keeps(b, k)
  BY <1>5 DEF Init, a, b
<1>7. Init => k.pcb_id # 0
  <2>1. Init => Pids(k) /\ k \in Memory
    BY InitInv DEF IInv, Core
  <2>2. Idle \in Slots /\ \A n \in Nat : 0 < n => n # 0
    BY ConstantTypes
  <2> QED BY <2>1, <2>2 DEF Pids, Memory
<1> QED BY <1>4, <1>6, <1>7 DEF DistinctPids, Keeps

\* Pids that nobody changes stay distinct.
LEMMA SamePids ==
  ASSUME NEW m, NEW n, DistinctPids(m), n.pid = m.pid, n.pcb_id = m.pcb_id
  PROVE  DistinctPids(n)
BY DEF DistinctPids

\* SYS_SIGRETURN changes no pid.
LEMMA SigReturnPids == ASSUME Runs, SigReturn PROVE k'.pid = k.pid /\ k'.pcb_id = k.pcb_id
<1>1. /\ k' = sigreturn(k, k.pcb) /\ k.frames[k.pcb] # << >>
      /\ k \in Memory /\ k.pcb \in Slots
  BY DEF SigReturn, Runs, Active
<1> DEFINE S == k.sig_ignored[k.pcb]
<1>2. PICK b : /\ Returns(k, k.pcb, b)
               /\ \/ k' = b
                  \/ Greatest(S) \in S /\ k' = signal(b, k.pid[k.pcb], Greatest(S))
  BY <1>1, SigReturnEffect
<1>3. CASE Greatest(S) \in S /\ k' = signal(b, k.pid[k.pcb], Greatest(S))
  <2>1. Greatest(S) \in Signals
    BY <1>1, <1>3 DEF Memory
  <2> HIDE DEF S
  <2>2. k' = b \/ Signalled(b, k.pid[k.pcb], Greatest(S), k')
    BY <1>2, <1>3, <2>1, SignalEffect DEF Returns
  <2> QED BY <1>2, <2>2 DEF Returns, Signalled, Remembers, Interrupts
<1> QED BY <1>2, <1>3 DEF Returns

\* Every action of Next keeps pids distinct.
LEMMA StepPids == ASSUME SleepsFit, Active(k), DistinctPids(k), Next PROVE DistinctPids(k')
<1>0. Runs /\ k \in Memory
  BY TakesTurn DEF Active
<1>1. CASE Create
  BY <1>0, <1>1, CreateActive, CreatesPids
<1>2. ASSUME NEW S, Turn(k, S, k') PROVE DistinctPids(k')
  BY <1>2, SamePids DEF Turn, Keeps
<1>3. CASE Yield
  BY <1>0, <1>2, <1>3, YieldTurn
<1>4. CASE Stop
  BY <1>0, <1>2, <1>4, StopStepTurn
<1>5. CASE SetPrio
  BY <1>0, <1>2, <1>5, SetPrioTurn
<1>6. CASE \E s \in Semaphores : P(s)
  BY <1>0, <1>2, <1>6, PTurn
<1>7. CASE \E s \in Semaphores : V(s)
  BY <1>0, <1>2, <1>7, VTurn
<1>8. CASE \E s \in Signals, handler \in BOOLEAN : SetSignal(s, handler)
  <2>1. k.pcb \in Slots
    BY <1>0 DEF Active, Runs
  <2>2. k' = k \/ \E T : Handles(k, k.pcb, T, k')
    BY ZenonT(60), <1>0, <1>8, <2>1, SetSignalEffect DEF SetSignal
  <2> QED BY <2>2, SamePids DEF Handles
<1>9. CASE SigReturn
  BY <1>0, <1>9, SigReturnPids, SamePids
<1>10. CASE \E id \in 0 .. MaxPid : Wait(id)
  BY <1>0, <1>2, <1>10, WaitTurn
<1>11. CASE \E id \in 0 .. MaxPid, s \in Signals : Kill(id, s)
  <2>1. k' = k \/ \E id, s : Signalled(k, id, s, k')
    BY <1>0, <1>11, KillActive
  <2> QED BY <2>1, SamePids DEF Signalled, Remembers, Interrupts
<1>12. CASE \E ms \in Millis : SysSleep(ms)
  BY <1>0, <1>2, <1>12, SleepTurn DEF SleepsFit
<1>13. CASE TimerInt
  BY <1>0, <1>2, <1>13, TimerTurn
<1> QED BY <1>1, <1>3, <1>4, <1>5, <1>6, <1>7, <1>8, <1>9, <1>10, <1>11, <1>12, <1>13
        DEF Next, OtherCall, OwnCall

(***************************************************************************)
(* KernelPids: a pid is given out once.  In every workload no two slots    *)
(* carry the same pid, a stopped slot's old one included, so that getPCB   *)
(* of a process's pid finds its slot and no other; only the pid 0 of the   *)
(* idle process is also that of slots nobody has owned.                    *)
(***************************************************************************)
THEOREM KernelPids ==
  ASSUME SleepsFit
  PROVE  Spec => [](\A p \in Slots : k.pid[p] # 0 => getPCB(k, k.pid[p]) = p)
<1> DEFINE Inv == Active(k) /\ DistinctPids(k)
           Found == \A p \in Slots : k.pid[p] # 0 => getPCB(k, k.pid[p]) = p
<1>1. Init => Inv
  BY InitActive, InitPids
<1>2. Inv /\ [Next]_k => Inv'
  <2>1. ASSUME Inv, Next PROVE Inv'
    BY <2>1, StepActive, StepPids
  <2>2. ASSUME Inv, UNCHANGED k PROVE Inv'
    BY <2>2
  <2> QED BY <2>1, <2>2
<1>3. Inv => Found
  BY DistinctPidFinds
<1> QED BY <1>1, <1>2, <1>3, PTL DEF Spec
=============================================================================
