---------------------------- MODULE QueueLemmas ----------------------------
(***************************************************************************)
(* What it takes for a linked list to be a queue of a given set of         *)
(* processes, without recursion, and how the list operations of the kernel *)
(* keep it so.  The order of the list is witnessed by a rank: the head has *)
(* the smallest, the tail the largest, and next leads from each member to  *)
(* the one of the next larger rank.                                        *)
(***************************************************************************)
EXTENDS Pcb, Recursion, FiniteSetTheorems

IsQueue(S, first, last, link, rank) ==
  /\ first = NULL => S = {}
  /\ first # NULL =>
       /\ first \in S
       /\ last \in S
       /\ link[last] = NULL
       /\ \A p \in S : rank[first] <= rank[p] /\ rank[p] <= rank[last]
  /\ \A p, q \in S : rank[p] = rank[q] => p = q
  /\ \A p \in S \ {last} :
       /\ link[p] \in S
       /\ rank[p] < rank[link[p]]
       /\ \A q \in S : rank[p] < rank[q] => rank[link[p]] <= rank[q]
-----------------------------------------------------------------------------
(***************************************************************************)
(* A nonempty set of naturals has a smallest element, which Least picks.   *)
(***************************************************************************)
LEMMA LeastElement ==
  ASSUME NEW S \in SUBSET Nat, S # {}
  PROVE  Least(S) \in S /\ \A y \in S : Least(S) <= y
BY SmallestExists DEF Least

(***************************************************************************)
(* A nonempty set of naturals below a bound has a largest element.         *)
(***************************************************************************)
LEMMA GreatestElement ==
  ASSUME NEW n \in Nat, NEW S \in SUBSET (0 .. n), S # {}
  PROVE  Greatest(S) \in S /\ \A y \in S : y <= Greatest(S)
BY LargestExists DEF Greatest

(***************************************************************************)
(* A queue is left alone by an operation that changes neither the links    *)
(* nor the ranks of its members.                                           *)
(***************************************************************************)
LEMMA QueueFrame ==
  ASSUME NEW S, NEW first, NEW last, NEW link, NEW rank, NEW link2, NEW rank2,
         IsQueue(S, first, last, link, rank),
         \A p \in S : link2[p] = link[p] /\ rank2[p] = rank[p]
  PROVE  IsQueue(S, first, last, link2, rank2)
BY DEF IsQueue

(***************************************************************************)
(* Taking the head off a queue leaves the queue T of the others, whatever  *)
(* becomes of the link of the old head (next, unblockProcess).             *)
(***************************************************************************)
Dequeues(S, T, first, last, link, link2, rank) ==
  /\ S \subseteq Slots
  /\ first # NULL
  /\ T = S \ {first}
  /\ link \in [Slots -> Pointers] /\ rank \in [Slots -> Nat]
  /\ \A p \in T : link2[p] = link[p]
  /\ IsQueue(S, first, last, link, rank)

\* Advancing the head, as next() in c/pcb.c does, leaves a queue of the others.
LEMMA DequeueKeepsQueue ==
  ASSUME NEW S, NEW T, NEW first, NEW last, NEW link, NEW link2, NEW rank,
         Dequeues(S, T, first, last, link, link2, rank)
  PROVE  IsQueue(T, link[first], last, link2, rank)
<1>0. /\ S \subseteq Slots /\ first \in S /\ first # NULL /\ T = S \ {first}
      /\ link \in [Slots -> Pointers] /\ rank \in [Slots -> Nat]
      /\ \A p \in S \ {first} : link2[p] = link[p]
      /\ IsQueue(S, first, last, link, rank)
  BY DEF Dequeues, IsQueue
<1>1. CASE first = last
  <2>1. S = {first}
    <3>1. \A p \in S : rank[p] = rank[first]
      <4> TAKE p \in S
      <4>1. rank[first] <= rank[p] /\ rank[p] <= rank[first]
        BY <1>0, <1>1 DEF IsQueue
      <4>2. rank[first] \in Nat /\ rank[p] \in Nat
        BY <1>0
      <4> QED BY <1>0, <4>1, <4>2
    <3> QED BY <1>0, <3>1 DEF IsQueue
  <2> QED BY <1>0, <1>1, <2>1 DEF IsQueue
<1>2. CASE first # last
  <2>1. /\ link[first] \in S \ {first}
        /\ last \in S \ {first}
        /\ link[first] # NULL
    <3>1. link[first] \in S /\ rank[first] < rank[link[first]] /\ last \in S
      BY <1>0, <1>2 DEF IsQueue
    <3>2. rank[first] \in Nat
      BY <1>0
    <3>3. link[first] # first
      BY <1>0, <3>1, <3>2
    <3>4. NULL \notin S
      BY <1>0, PcbAssumption DEF Slots
    <3> QED BY <1>0, <1>2, <3>1, <3>3, <3>4
  <2>2. \A p \in S \ {first} : rank[link[first]] <= rank[p] /\ rank[p] <= rank[last]
    BY <1>0, <1>2 DEF IsQueue, Slots
  <2>3. \A p \in (S \ {first}) \ {last} : link[p] \in S \ {first}
    BY <1>0, <1>2 DEF IsQueue, Slots
  <2> QED BY <1>0, <2>1, <2>2, <2>3, <1>2 DEF IsQueue
<1> QED BY <1>1, <1>2

(***************************************************************************)
(* Linking p behind the last member makes p the last of a queue T with one *)
(* member more (ready, blockProcess).                                      *)
(***************************************************************************)
Enqueues(S, T, p, first, first2, last, link, link2, rank, rank2) ==
  /\ S \subseteq Slots /\ p \in Slots \ S /\ T = S \cup {p}
  /\ link \in [Slots -> Pointers]
  /\ rank \in [Slots -> Nat] /\ rank2 \in [Slots -> Nat]
  /\ first2 = IF first = NULL THEN p ELSE first
  /\ link2[p] = NULL
  /\ first # NULL => link2[last] = p /\ rank2[p] = rank[last] + 1
  /\ \A q \in S \ {last} : link2[q] = link[q]
  /\ \A q \in S : rank2[q] = rank[q]
  /\ IsQueue(S, first, last, link, rank)

\* Linking p behind the tail, as ready() in c/pcb.c does, leaves a queue with p.
LEMMA EnqueueKeepsQueue ==
  ASSUME NEW S, NEW T, NEW p, NEW first, NEW first2, NEW last,
         NEW link, NEW link2, NEW rank, NEW rank2,
         Enqueues(S, T, p, first, first2, last, link, link2, rank, rank2)
  PROVE  IsQueue(T, first2, p, link2, rank2)
<1>0. /\ S \subseteq Slots /\ p \in Slots \ S /\ T = S \cup {p} /\ p # NULL
      /\ link \in [Slots -> Pointers]
      /\ rank \in [Slots -> Nat] /\ rank2 \in [Slots -> Nat]
      /\ first2 = IF first = NULL THEN p ELSE first
      /\ link2[p] = NULL
      /\ first # NULL => link2[last] = p /\ rank2[p] = rank[last] + 1
      /\ \A q \in S \ {last} : link2[q] = link[q]
      /\ \A q \in S : rank2[q] = rank[q]
      /\ IsQueue(S, first, last, link, rank)
  BY PcbAssumption DEF Slots, Enqueues
<1>1. CASE first = NULL
  <2>1. S = {} BY <1>0, <1>1 DEF IsQueue
  <2>2. rank2[p] \in Nat BY <1>0
  <2> QED BY <1>0, <1>1, <2>1, <2>2 DEF IsQueue
<1>2. CASE first # NULL
  <2>1. /\ first \in S /\ last \in S
        /\ \A q \in S : rank[first] <= rank[q] /\ rank[q] <= rank[last]
    BY <1>0, <1>2 DEF IsQueue
  <2>2. \A q \in S : rank[q] \in Nat /\ rank2[q] = rank[q]
    BY <1>0
  <2>3. rank2[p] = rank[last] + 1
    BY <1>0, <1>2
  <2>4. \A q \in T : rank2[first] <= rank2[q] /\ rank2[q] <= rank2[p]
    BY <1>0, <2>1, <2>2, <2>3
  <2>5. \A q, r \in T : rank2[q] = rank2[r] => q = r
    <3>1. \A q \in S : rank2[q] # rank2[p]
      BY <1>0, <2>1, <2>2, <2>3
    <3>2. \A q, r \in S : rank2[q] = rank2[r] => q = r
      BY <1>0, <2>2 DEF IsQueue
    <3> QED BY <1>0, <3>1, <3>2
  <2>6. ASSUME NEW q \in T \ {p}
        PROVE  /\ link2[q] \in T
               /\ rank2[q] < rank2[link2[q]]
               /\ \A r \in T : rank2[q] < rank2[r] => rank2[link2[q]] <= rank2[r]
    <3>1. CASE q = last
      <4>1. link2[q] = p BY <1>0, <3>1, <1>2
      <4>2. \A r \in S : rank2[r] <= rank2[q]
        BY <1>0, <3>1, <2>1, <2>2
      <4>3. rank2[q] < rank2[p]
        BY <1>0, <3>1, <2>1, <2>2, <2>3
      <4>4. \A r \in T : rank2[r] \in Nat
        BY <1>0, <2>1
      <4>5. \A r \in T : rank2[q] < rank2[r] => r = p
        BY <1>0, <4>2, <4>4
      <4> QED BY <1>0, <4>1, <4>3, <4>4, <4>5
    <3>2. CASE q # last
      <4>1. q \in S \ {last} /\ link2[q] = link[q] BY <1>0, <3>2
      <4>2. /\ link[q] \in S
            /\ rank[q] < rank[link[q]]
            /\ \A r \in S : rank[q] < rank[r] => rank[link[q]] <= rank[r]
        BY <1>0, <4>1 DEF IsQueue
      <4>3. rank2[link[q]] <= rank2[p]
        BY <1>0, <4>2, <2>4
      <4> QED BY <1>0, <4>1, <4>2, <4>3, <2>2
    <3> QED BY <1>0, <3>1, <3>2
  <2> QED BY <1>0, <1>2, <2>1, <2>4, <2>5, <2>6 DEF IsQueue
<1> QED BY <1>1, <1>2
-----------------------------------------------------------------------------
(***************************************************************************)
(* The walk of Chain, one link at a time.                                  *)
(***************************************************************************)
Walks(walk, link, h) ==
  walk = [n \in 0 .. PCB_TABLE_SIZE |->
            IF n = 0 THEN IF h = NULL THEN << >> ELSE << h >>
            ELSE LET s == walk[n - 1] IN
                 IF s = << >> \/ link[s[Len(s)]] = NULL THEN s
                 ELSE Append(s, link[s[Len(s)]])]

\* One turn of the walk.
WalksOn(s, link) == IF s = << >> \/ link[s[Len(s)]] = NULL THEN s
                    ELSE Append(s, link[s[Len(s)]])

\* The recursive function in Chain exists and Chain is its last value.
LEMMA ChainWalks ==
  ASSUME NEW link \in [Slots -> Pointers], NEW h \in Pointers
  PROVE  \E walk : Walks(walk, link, h) /\ Chain(link, h) = walk[PCB_TABLE_SIZE]
<1> DEFINE a == IF h = NULL THEN << >> ELSE << h >>
           F == [x \in Nat \X Seq(Slots) |-> WalksOn(x[2], link)]
           W == CHOOSE walk : Walks(walk, link, h)
<1>0. PCB_TABLE_SIZE \in Nat
  BY PcbAssumption
<1>1. a \in Seq(Slots)
  BY DEF Pointers
<1>2. ASSUME NEW s \in Seq(Slots) PROVE WalksOn(s, link) \in Seq(Slots)
  <2>1. CASE s = << >> \/ link[s[Len(s)]] = NULL
    BY <2>1 DEF WalksOn
  <2>2. CASE s # << >> /\ link[s[Len(s)]] # NULL
    <3>1. s[Len(s)] \in Slots
      BY <2>2
    <3>2. link[s[Len(s)]] \in Slots
      BY <2>2, <3>1 DEF Pointers
    <3> QED BY <2>2, <3>2 DEF WalksOn
  <2> QED BY <2>1, <2>2
<1>3. F \in [Nat \X Seq(Slots) -> Seq(Slots)]
  BY <1>2
<1> HIDE DEF a
<1> DEFINE D == Seq(Slots)
<1>4. PICK g : IsLoop(g, PCB_TABLE_SIZE, D, a, F)
  <2>1. a \in D /\ IsStep(F, D)
    BY <1>1, <1>3 DEF IsStep
  <2> HIDE DEF F, D
  <2> QED BY <1>0, <2>1, LoopExists
<1>5. ASSUME NEW n \in 0 .. PCB_TABLE_SIZE
      PROVE  g[n] = IF n = 0 THEN a ELSE WalksOn(g[n - 1], link)
  <2>1. CASE n = 0
    BY <1>4, <2>1 DEF IsLoop
  <2>2. CASE n # 0
    <3>1. n - 1 \in 0 .. PCB_TABLE_SIZE /\ n \in Nat
      BY <1>0, <2>2
    <3>2. << n, g[n - 1] >> \in Nat \X Seq(Slots)
      BY <1>4, <3>1 DEF IsLoop
    <3>3. F[<< n, g[n - 1] >>] = WalksOn(g[n - 1], link)
      BY <3>2
    <3> HIDE DEF F
    <3> QED BY <1>4, <2>2, <3>3 DEF IsLoop
  <2> QED BY <2>1, <2>2
<1>6. Walks(g, link, h)
  BY <1>4, <1>5 DEF Walks, WalksOn, a, IsLoop
<1>7. Walks(W, link, h)
  BY <1>6
<1>8. Chain(link, h) = W[PCB_TABLE_SIZE]
  BY DEF Chain, Walks
<1> HIDE DEF W
<1> QED BY <1>7, <1>8

(***************************************************************************)
(* What the walk has met after n turns: a list that starts at h, each      *)
(* member leads to the next, and it has grown every turn until it ended.   *)
(***************************************************************************)
Walked(s, n, link, h) ==
  /\ s \in Seq(Slots)
  /\ Len(s) <= n + 1
  /\ h = NULL => s = << >>
  /\ h # NULL => Len(s) >= 1 /\ s[1] = h
  /\ \A j \in 1 .. Len(s) - 1 : s[j + 1] = link[s[j]]
  /\ Len(s) = n + 1 \/ s = << >> \/ link[s[Len(s)]] = NULL

\* Chain returns a list of slots that follows link from h.
LEMMA ChainIsWalked ==
  ASSUME NEW link \in [Slots -> Pointers], NEW h \in Pointers
  PROVE  Walked(Chain(link, h), PCB_TABLE_SIZE, link, h)
<1> DEFINE N == PCB_TABLE_SIZE
<1>0. N \in Nat
  BY PcbAssumption
<1>1. PICK walk : Walks(walk, link, h) /\ Chain(link, h) = walk[N]
  BY ChainWalks
<1> DEFINE T == {n \in Nat : n <= N => Walked(walk[n], n, link, h)}
<1>2. 0 \in T
  <2>1. walk[0] = IF h = NULL THEN << >> ELSE << h >>
    BY <1>0, <1>1 DEF Walks
  <2>2. CASE h = NULL
    <3>1. walk[0] = << >> /\ << >> \in Seq(Slots) /\ Len(<< >>) = 0
      BY <2>1, <2>2
    <3>2. \A j \in 1 .. Len(<< >>) - 1 : FALSE
      BY <3>1
    <3>3. Len(<< >>) <= 0 + 1
      BY <3>1
    <3> QED BY <2>2, <3>1, <3>2, <3>3 DEF Walked
  <2>3. CASE h # NULL
    <3>1. h \in Slots
      BY <2>3 DEF Pointers
    <3>2. walk[0] = << h >>
      BY <2>1, <2>3
    <3>3. /\ << h >> \in Seq(Slots) /\ Len(<< h >>) = 1 /\ << h >>[1] = h
          /\ \A j \in 1 .. Len(<< h >>) - 1 : FALSE
          /\ Len(<< h >>) = 0 + 1 /\ Len(<< h >>) <= 0 + 1 /\ Len(<< h >>) >= 1
      BY <3>1
    <3> QED BY <2>3, <3>2, <3>3 DEF Walked
  <2> QED BY <2>2, <2>3
<1>3. ASSUME NEW n \in T PROVE n + 1 \in T
  <2> SUFFICES ASSUME n + 1 <= N PROVE Walked(walk[n + 1], n + 1, link, h)
    OBVIOUS
  <2> DEFINE s == walk[n]
  <2>1. Walked(s, n, link, h)
    BY <1>0
  <2>2. walk[n + 1] = WalksOn(s, link)
    <3>1. n + 1 \in 0 .. N /\ n + 1 # 0 /\ n + 1 - 1 = n
      BY <1>0
    <3>2. \A j \in 0 .. N : j # 0 => walk[j] = WalksOn(walk[j - 1], link)
      BY <1>1 DEF Walks, WalksOn
    <3>3. walk[n + 1] = WalksOn(walk[n + 1 - 1], link)
      BY <3>1, <3>2
    <3> QED BY <3>1, <3>3
  <2> HIDE DEF s
  <2>3. CASE s = << >> \/ link[s[Len(s)]] = NULL
    BY <2>1, <2>2, <2>3 DEF Walked, WalksOn
  <2>4. CASE s # << >> /\ link[s[Len(s)]] # NULL
    <3> DEFINE q == link[s[Len(s)]]
               t == Append(s, q)
    <3>1. s \in Seq(Slots) /\ Len(s) = n + 1 /\ s[Len(s)] \in Slots
      BY <2>1, <2>4 DEF Walked
    <3>2. q \in Slots
      BY <2>4, <3>1 DEF Pointers
    <3>3. walk[n + 1] = t
      BY <2>2, <2>4 DEF WalksOn
    <3>4. h # NULL /\ s[1] = h
      BY <2>1, <2>4 DEF Walked
    <3>5. \A j \in 1 .. Len(s) - 1 : s[j + 1] = link[s[j]]
      BY <2>1 DEF Walked
    <3> HIDE DEF q
    <3>6. /\ t \in Seq(Slots) /\ Len(t) = n + 2 /\ t[n + 2] = q
          /\ \A j \in 1 .. n + 1 : t[j] = s[j]
      BY <3>1, <3>2
    <3> HIDE DEF t
    <3>7. \A j \in 1 .. Len(t) - 1 : t[j + 1] = link[t[j]]
      <4> TAKE j \in 1 .. Len(t) - 1
      <4>1. CASE j = n + 1
        BY <3>1, <3>6, <4>1 DEF q
      <4>2. CASE j # n + 1
        <5>1. j \in 1 .. Len(s) - 1 /\ j \in 1 .. n + 1 /\ j + 1 \in 1 .. n + 1
          BY <3>1, <3>6, <4>2
        <5> QED BY <3>5, <3>6, <5>1
      <4> QED BY <4>1, <4>2
    <3> QED BY <3>1, <3>3, <3>4, <3>6, <3>7 DEF Walked
  <2> QED BY <2>3, <2>4
<1>4. T = Nat
  <2>1. T \in SUBSET Nat
    OBVIOUS
  <2> HIDE DEF T
  <2> QED BY <1>2, <1>3, <2>1, NaturalInduction
<1> QED BY <1>0, <1>1, <1>4
-----------------------------------------------------------------------------
(***************************************************************************)
(* w lists the members of S, each once, in the order in which link leads   *)
(* through them from first to last.                                        *)
(***************************************************************************)
IsListing(w, S, first, last, link) ==
  /\ w \in Seq(Slots)
  /\ first = NULL <=> w = << >>
  /\ w # << >> => w[1] = first /\ w[Len(w)] = last /\ link[last] = NULL
  /\ \A j \in 1 .. Len(w) - 1 : w[j + 1] = link[w[j]]
  /\ \A i, j \in 1 .. Len(w) : w[i] = w[j] => i = j
  /\ \A p : p \in S <=> \E j \in 1 .. Len(w) : p = w[j]

\* A sequence of different slots is no longer than the table.
LEMMA DistinctSlots ==
  ASSUME NEW w \in Seq(Slots), \A i, j \in 1 .. Len(w) : w[i] = w[j] => i = j
  PROVE  Len(w) <= PCB_TABLE_SIZE
<1>1. w \in Injection(1 .. Len(w), Slots)
  BY DEF Injection, IsInjective
<1>2. IsFiniteSet(Slots) /\ Cardinality(Slots) = PCB_TABLE_SIZE
  <2> DEFINE b == PCB_TABLE_SIZE - 1
  <2>1. b \in Int /\ 0 <= b /\ b - 0 + 1 = PCB_TABLE_SIZE /\ Slots = 0 .. b
    BY PcbAssumption DEF Slots
  <2> HIDE DEF b
  <2>2. IsFiniteSet(0 .. b) /\ Cardinality(0 .. b) = IF 0 > b THEN 0 ELSE b - 0 + 1
    BY <2>1, FS_Interval
  <2> QED BY <2>1, <2>2
<1>3. Cardinality(1 .. Len(w)) <= Cardinality(Slots)
  BY <1>1, <1>2, FS_Injection
<1>4. Len(w) \in Nat /\ Cardinality(1 .. Len(w)) = Len(w)
  <2> DEFINE b == Len(w)
  <2>1. b \in Int /\ b >= 0
    OBVIOUS
  <2> HIDE DEF b
  <2>2. Cardinality(1 .. b) = IF 1 > b THEN 0 ELSE b - 1 + 1
    BY <2>1, FS_Interval
  <2>3. b \in Nat /\ Cardinality(1 .. b) = b
    BY <2>1, <2>2
  <2> QED BY <2>3 DEF b
<1> QED BY <1>2, <1>3, <1>4

(***************************************************************************)
(* Along the walk of a queue ranks grow, and no member is passed over.     *)
(***************************************************************************)
Ascends(w, S, first, last, link, rank, j) ==
  /\ w[j] \in S
  /\ \A i \in 1 .. j - 1 : rank[w[i]] < rank[w[j]]
  /\ \A q \in S : rank[q] < rank[w[j]] => \E i \in 1 .. j - 1 : q = w[i]

\* A walk along the links from the first slot of a queue ascends in rank.
LEMMA WalkAscends ==
  ASSUME NEW S \in SUBSET Slots, NEW first, NEW last,
         NEW link \in [Slots -> Pointers], NEW rank \in [Slots -> Nat],
         IsQueue(S, first, last, link, rank), first # NULL,
         NEW w \in Seq(Slots), Len(w) >= 1, w[1] = first,
         \A j \in 1 .. Len(w) - 1 : w[j + 1] = link[w[j]],
         NEW n \in 1 .. Len(w)
  PROVE  Ascends(w, S, first, last, link, rank, n)
<1> DEFINE A(j) == Ascends(w, S, first, last, link, rank, j)
           T == {j \in Nat : j + 1 <= Len(w) => A(j + 1)}
<1>0. /\ first \in S /\ last \in S /\ link[last] = NULL /\ NULL \notin Slots
      /\ \A p \in S : rank[first] <= rank[p] /\ rank[p] <= rank[last]
      /\ \A p, q \in S : rank[p] = rank[q] => p = q
      /\ \A p \in S \ {last} :
           /\ link[p] \in S
           /\ rank[p] < rank[link[p]]
           /\ \A q \in S : rank[p] < rank[q] => rank[link[p]] <= rank[q]
      /\ \A p \in S : rank[p] \in Nat
      /\ Len(w) \in Nat
  <2>1. NULL \notin Slots
    BY PcbAssumption DEF Slots
  <2> QED BY <2>1 DEF IsQueue
<1>1. 0 \in T
  <2>1. \A q \in S : ~ (rank[q] < rank[w[1]])
    BY <1>0
  <2>2. A(1)
    BY <1>0, <2>1 DEF Ascends
  <2>3. 0 + 1 = 1
    OBVIOUS
  <2>4. A(0 + 1)
    BY <2>2, <2>3
  <2> QED BY <2>4
<1>2. ASSUME NEW j \in T PROVE j + 1 \in T
  <2> SUFFICES ASSUME j + 2 <= Len(w) PROVE A(j + 2)
    OBVIOUS
  <2> DEFINE p == w[j + 1]
             r == w[j + 2]
  <2>1. A(j + 1) /\ j \in Nat
    BY <1>0
  <2>2. r = link[p] /\ r \in Slots
    <3>1. j + 1 \in 1 .. Len(w) - 1 /\ j + 2 \in 1 .. Len(w)
      BY <1>0
    <3>2. (j + 1) + 1 = j + 2
      OBVIOUS
    <3> QED BY <3>1, <3>2
  <2>3. p \in S \ {last}
    BY <1>0, <2>1, <2>2 DEF Ascends
  <2>4. r \in S /\ rank[p] < rank[r] /\ \A q \in S : rank[p] < rank[q] => rank[r] <= rank[q]
    BY <1>0, <2>2, <2>3
  <2>5. \A i \in 1 .. (j + 2) - 1 : rank[w[i]] < rank[r]
    <3>1. ASSUME NEW i \in 1 .. j PROVE rank[w[i]] < rank[r]
      <4>1. w[i] \in Slots /\ rank[w[i]] < rank[p]
        BY SMTT(30), <1>0, <2>1 DEF Ascends
      <4> QED BY SMTT(30), <1>0, <2>3, <2>4, <4>1
    <3>2. \A i \in 1 .. (j + 2) - 1 : i \in 1 .. j \/ i = j + 1
      BY <1>0
    <3> QED BY <2>4, <3>1, <3>2
  <2>6. ASSUME NEW q \in S, rank[q] < rank[r] PROVE \E i \in 1 .. (j + 2) - 1 : q = w[i]
    <3>1. CASE rank[q] < rank[p]
      <4>1. PICK i \in 1 .. (j + 1) - 1 : q = w[i]
        BY <2>1, <3>1 DEF Ascends
      <4>2. i \in 1 .. (j + 2) - 1
        BY <1>0
      <4> QED BY <4>1, <4>2
    <3>2. CASE rank[q] = rank[p]
      <4>1. q = p /\ j + 1 \in 1 .. (j + 2) - 1
        BY <1>0, <2>3, <3>2
      <4> QED BY <4>1
    <3>3. CASE rank[p] < rank[q]
      BY <1>0, <2>4, <2>6, <3>3
    <3> QED BY SMTT(30), <1>0, <2>3, <3>1, <3>2, <3>3
  <2> QED BY <2>4, <2>5, <2>6 DEF Ascends
<1> HIDE DEF T
<1>3. T = Nat
  <2>1. T \in SUBSET Nat
    BY DEF T
  <2> QED BY <1>1, <1>2, <2>1, NaturalInduction
<1>4. n - 1 \in T /\ (n - 1) + 1 = n
  BY <1>0, <1>3
<1> QED BY <1>4 DEF T

(***************************************************************************)
(* Chain lists a queue: the members in the order of their ranks.           *)
(***************************************************************************)
LEMMA ChainLists ==
  ASSUME NEW S \in SUBSET Slots, NEW first \in Pointers, NEW last,
         NEW link \in [Slots -> Pointers], NEW rank \in [Slots -> Nat],
         IsQueue(S, first, last, link, rank)
  PROVE  IsListing(Chain(link, first), S, first, last, link)
<1> DEFINE w == Chain(link, first)
<1>1. Walked(w, PCB_TABLE_SIZE, link, first)
  BY ChainIsWalked
<1>2. /\ w \in Seq(Slots) /\ Len(w) \in Nat /\ PCB_TABLE_SIZE \in Nat /\ NULL \notin Slots
      /\ \A j \in 1 .. Len(w) - 1 : w[j + 1] = link[w[j]]
  BY <1>1, PcbAssumption DEF Walked, Slots
<1> HIDE DEF w
<1>3. CASE first = NULL
  <2>1. w = << >> /\ S = {}
    BY <1>1, <1>3 DEF Walked, IsQueue
  <2> QED BY <1>2, <1>3, <2>1 DEF IsListing, w
<1>4. CASE first # NULL
  <2> DEFINE L == Len(w)
  <2>1. L >= 1 /\ w[1] = first /\ (L = PCB_TABLE_SIZE + 1 \/ link[w[L]] = NULL)
    <3>1. w # << >> => Len(w) >= 1
      BY <1>2
    <3> QED BY <1>1, <1>4, <3>1 DEF Walked
  <2>2. ASSUME NEW n \in 1 .. L PROVE Ascends(w, S, first, last, link, rank, n)
    BY <1>2, <1>4, <2>1, WalkAscends
  <2>3. \A n \in 1 .. L : w[n] \in S /\ rank[w[n]] \in Nat
    BY <2>2 DEF Ascends
  <2>4. \A i, j \in 1 .. L : w[i] = w[j] => i = j
    <3>1. ASSUME NEW i \in 1 .. L, NEW j \in 1 .. L, i < j PROVE w[i] # w[j]
      <4>1. i \in 1 .. j - 1
        BY <3>1
      <4>2. rank[w[i]] < rank[w[j]]
        BY <2>2, <4>1 DEF Ascends
      <4> QED BY <2>3, <4>2
    <3>2. \A i, j \in 1 .. L : i < j \/ j < i \/ i = j
      BY <1>2
    <3> QED BY <3>1, <3>2
  <2>5. L <= PCB_TABLE_SIZE
    BY <1>2, <2>4, DistinctSlots
  <2>6. link[w[L]] = NULL /\ L \in 1 .. L
    BY <1>2, <2>1, <2>5
  <2>7. w[L] = last
    <3>1. \A p \in S \ {last} : link[p] \in S
      BY DEF IsQueue
    <3> QED BY <1>2, <2>3, <2>6, <3>1
  <2>8. ASSUME NEW q \in S PROVE \E j \in 1 .. L : q = w[j]
    <3>1. \A p \in S : rank[p] <= rank[last]
      BY <1>4 DEF IsQueue
    <3>2. \A p, r \in S : rank[p] = rank[r] => p = r
      BY DEF IsQueue
    <3>3. CASE rank[q] = rank[last]
      BY <2>3, <2>6, <2>7, <3>2, <3>3
    <3>4. CASE rank[q] < rank[last]
      <4>1. PICK j \in 1 .. L - 1 : q = w[j]
        BY <2>2, <2>6, <2>7, <3>4 DEF Ascends
      <4>2. j \in 1 .. L
        BY <1>2
      <4> QED BY <4>1, <4>2
    <3>5. last \in S /\ rank[last] \in Nat /\ rank[q] \in Nat
      BY <2>3, <2>6, <2>7
    <3> QED BY <3>1, <3>3, <3>4, <3>5
  <2>9. \A p : p \in S <=> \E j \in 1 .. L : p = w[j]
    BY <2>3, <2>8
  <2>10. w # << >>
    BY <2>1
  <2>11. IsListing(w, S, first, last, link)
    BY <1>2, <1>4, <2>1, <2>4, <2>6, <2>7, <2>9, <2>10 DEF IsListing
  <2> QED BY <2>11 DEF w
<1> QED BY <1>3, <1>4

(***************************************************************************)
(* A listing is what Chain returns: there is only one for each head.       *)
(***************************************************************************)
LEMMA ListingIsChain ==
  ASSUME NEW S, NEW first \in Pointers, NEW last, NEW link \in [Slots -> Pointers],
         NEW w, IsListing(w, S, first, last, link)
  PROVE  Chain(link, first) = w
<1> DEFINE c == Chain(link, first)
<1>1. Walked(c, PCB_TABLE_SIZE, link, first)
  BY ChainIsWalked
<1>2. /\ c \in Seq(Slots) /\ Len(c) \in Nat /\ PCB_TABLE_SIZE \in Nat /\ NULL \notin Slots
      /\ \A j \in 1 .. Len(c) - 1 : c[j + 1] = link[c[j]]
  BY <1>1, PcbAssumption DEF Walked, Slots
<1> HIDE DEF c
<1>3. /\ w \in Seq(Slots) /\ Len(w) \in Nat
      /\ \A j \in 1 .. Len(w) - 1 : w[j + 1] = link[w[j]]
  BY DEF IsListing
<1>4. Len(w) <= PCB_TABLE_SIZE
  BY <1>3, DistinctSlots DEF IsListing
<1>5. CASE first = NULL
  <2>1. c = << >> /\ w = << >>
    BY <1>1, <1>5 DEF Walked, IsListing
  <2> QED BY <2>1 DEF c
<1>6. CASE first # NULL
  <2>1. /\ Len(c) >= 1 /\ c[1] = first
        /\ Len(c) = PCB_TABLE_SIZE + 1 \/ link[c[Len(c)]] = NULL
    <3>1. c # << >> => Len(c) >= 1
      BY <1>2
    <3> QED BY <1>1, <1>6, <3>1 DEF Walked
  <2>2. Len(w) >= 1 /\ w[1] = first /\ link[w[Len(w)]] = NULL
    <3>1. w # << >> => Len(w) >= 1
      BY <1>3
    <3> QED BY <1>6, <3>1 DEF IsListing
  <2> DEFINE T == {j \in Nat : j + 1 <= Len(c) /\ j + 1 <= Len(w) => c[j + 1] = w[j + 1]}
  <2>3. 0 \in T
    BY <2>1, <2>2
  <2>4. ASSUME NEW j \in T PROVE j + 1 \in T
    <3> SUFFICES ASSUME j + 2 <= Len(c), j + 2 <= Len(w) PROVE c[j + 2] = w[j + 2]
      OBVIOUS
    <3>1. j \in Nat /\ c[j + 1] = w[j + 1]
      BY <1>2, <1>3
    <3>2. j + 1 \in 1 .. Len(c) - 1 /\ j + 1 \in 1 .. Len(w) - 1
      BY <1>2, <1>3, <3>1
    <3>3. (j + 1) + 1 = j + 2
      BY <3>1
    <3> QED BY <1>2, <1>3, <3>1, <3>2, <3>3
  <2>5. T = Nat
    <3>1. T \in SUBSET Nat
      OBVIOUS
    <3> HIDE DEF T
    <3> QED BY <2>3, <2>4, <3>1, NaturalInduction
  <2>6. ASSUME NEW n \in Nat, n >= 1, n <= Len(c), n <= Len(w) PROVE c[n] = w[n]
    <3>1. n - 1 \in Nat /\ (n - 1) + 1 = n
      BY <2>6
    <3>2. n - 1 \in T
      BY <2>5, <3>1
    <3>3. (n - 1) + 1 <= Len(c) /\ (n - 1) + 1 <= Len(w) => c[(n - 1) + 1] = w[(n - 1) + 1]
      BY <3>2
    <3> QED BY <2>6, <3>1, <3>3
  <2>7. ~ Len(c) < Len(w)
    <3> SUFFICES ASSUME Len(c) < Len(w) PROVE FALSE
      OBVIOUS
    <3>1. link[c[Len(c)]] = NULL /\ c[Len(c)] = w[Len(c)]
      <4>1. Len(c) # PCB_TABLE_SIZE + 1 /\ Len(c) <= Len(w)
        BY <1>2, <1>3, <1>4
      <4>2. c[Len(c)] = w[Len(c)]
        BY <1>2, <2>1, <2>6, <4>1
      <4> QED BY <2>1, <4>1, <4>2
    <3>2. Len(c) \in 1 .. Len(w) - 1 /\ Len(c) + 1 \in 1 .. Len(w)
      BY <1>2, <1>3, <2>1
    <3>3. w[Len(c) + 1] = link[w[Len(c)]] /\ w[Len(c) + 1] \in Slots
      BY <1>3, <3>2
    <3> QED BY <1>2, <3>1, <3>3
  <2>8. ~ Len(w) < Len(c)
    <3> SUFFICES ASSUME Len(w) < Len(c) PROVE FALSE
      OBVIOUS
    <3>1. c[Len(w)] = w[Len(w)]
      BY <1>2, <1>3, <2>2, <2>6
    <3>2. Len(w) \in 1 .. Len(c) - 1 /\ Len(w) + 1 \in 1 .. Len(c)
      BY <1>2, <1>3, <2>2
    <3>3. c[Len(w) + 1] = link[c[Len(w)]] /\ c[Len(w) + 1] \in Slots
      BY <1>2, <3>2
    <3> QED BY <1>2, <2>2, <3>1, <3>3
  <2>9. Len(c) = Len(w)
    BY <1>2, <1>3, <2>7, <2>8
  <2>10. \A n \in 1 .. Len(c) : c[n] = w[n]
    BY <1>2, <2>6, <2>9
  <2>11. c = w
    BY <1>2, <1>3, <2>9, <2>10
  <2> QED BY <2>11 DEF c
<1> QED BY <1>5, <1>6

(***************************************************************************)
(* What the list operations do to the list.                                *)
(***************************************************************************)
\* Links outside a queue do not change its list.
LEMMA ChainFrame ==
  ASSUME NEW S \in SUBSET Slots, NEW first \in Pointers, NEW last, NEW rank \in [Slots -> Nat],
         NEW link \in [Slots -> Pointers], NEW link2 \in [Slots -> Pointers],
         IsQueue(S, first, last, link, rank), \A p \in S : link2[p] = link[p]
  PROVE  Chain(link2, first) = Chain(link, first)
<1> DEFINE w == Chain(link, first)
<1>1. IsListing(w, S, first, last, link)
  BY ChainLists
<1> HIDE DEF w
<1>2. \A j \in 1 .. Len(w) : w[j] \in S
  BY <1>1 DEF IsListing
<1>3. IsListing(w, S, first, last, link2)
  <2>1. w \in Seq(Slots) /\ Len(w) \in Nat
    BY <1>1 DEF IsListing
  <2>2. w # << >> => link2[last] = NULL
    <3>1. w # << >> => Len(w) \in 1 .. Len(w)
      BY <2>1
    <3> QED BY <1>1, <1>2, <3>1 DEF IsListing
  <2>3. ASSUME NEW j \in 1 .. Len(w) - 1 PROVE w[j + 1] = link2[w[j]]
    <3>1. j \in 1 .. Len(w)
      BY <2>1
    <3> QED BY <1>1, <1>2, <3>1 DEF IsListing
  <2> QED BY <1>1, <2>2, <2>3 DEF IsListing
<1>4. Chain(link2, first) = w
  BY <1>3, ListingIsChain
<1> QED BY <1>4 DEF w

Appended(link, link2, first, first2, p) ==
  Chain(link2, first2) = Append(Chain(link, first), p)

Advanced(link, link2, first) ==
  /\ Chain(link2, link[first]) = Tail(Chain(link, first))
  /\ Chain(link, first) # << >> /\ Head(Chain(link, first)) = first

\* Linking p behind the tail puts it at the end of the list.
LEMMA ChainAppend ==
  ASSUME NEW S, NEW T, NEW p, NEW first \in Pointers, NEW first2 \in Pointers, NEW last,
         NEW link, NEW link2 \in [Slots -> Pointers], NEW rank, NEW rank2,
         Enqueues(S, T, p, first, first2, last, link, link2, rank, rank2)
  PROVE  Appended(link, link2, first, first2, p)
<1> DEFINE w == Chain(link, first)
           v == Append(w, p)
<1>1. /\ S \in SUBSET Slots /\ p \in Slots \ S /\ p # NULL
      /\ link \in [Slots -> Pointers] /\ rank \in [Slots -> Nat]
      /\ first2 = IF first = NULL THEN p ELSE first
      /\ link2[p] = NULL
      /\ first # NULL => link2[last] = p
      /\ \A q \in S \ {last} : link2[q] = link[q]
      /\ IsQueue(S, first, last, link, rank)
  <2>1. NULL \notin Slots
    BY PcbAssumption DEF Slots
  <2> QED BY <2>1 DEF Enqueues
<1>2. IsListing(w, S, first, last, link)
  BY <1>1, ChainLists
<1> HIDE DEF w
<1>3. /\ w \in Seq(Slots) /\ Len(w) \in Nat /\ v \in Seq(Slots) /\ Len(v) = Len(w) + 1
      /\ v[Len(w) + 1] = p /\ \A j \in 1 .. Len(w) : v[j] = w[j]
  BY <1>1, <1>2 DEF IsListing
<1>4. /\ \A j \in 1 .. Len(w) : w[j] \in S
      /\ \A i, j \in 1 .. Len(w) : w[i] = w[j] => i = j
      /\ \A q \in S : \E j \in 1 .. Len(w) : q = w[j]
      /\ \A j \in 1 .. Len(w) - 1 : w[j + 1] = link[w[j]]
  BY <1>2 DEF IsListing
<1> HIDE DEF v
<1>5. \A j \in 1 .. Len(v) : j \in 1 .. Len(w) \/ j = Len(w) + 1
  BY <1>3
<1>6. \A i, j \in 1 .. Len(v) : v[i] = v[j] => i = j
  <2>1. ASSUME NEW i \in 1 .. Len(v), NEW j \in 1 .. Len(v), v[i] = v[j] PROVE i = j
    <3>1. CASE i \in 1 .. Len(w) /\ j \in 1 .. Len(w)
      <4>1. w[i] = w[j]
        BY <1>3, <2>1, <3>1
      <4> QED BY <1>4, <3>1, <4>1
    <3>2. CASE i \in 1 .. Len(w) /\ j = Len(w) + 1
      <4>1. v[i] \in S /\ v[j] = p
        BY <1>3, <1>4, <3>2
      <4> QED BY <1>1, <2>1, <4>1
    <3>3. CASE i = Len(w) + 1 /\ j \in 1 .. Len(w)
      <4>1. v[j] \in S /\ v[i] = p
        BY <1>3, <1>4, <3>3
      <4> QED BY <1>1, <2>1, <4>1
    <3> QED BY <1>5, <3>1, <3>2, <3>3
  <2> QED BY <2>1
<1>7. ASSUME NEW q PROVE q \in S \cup {p} <=> \E j \in 1 .. Len(v) : q = v[j]
  <2>1. ASSUME q \in S PROVE \E j \in 1 .. Len(v) : q = v[j]
    <3>1. PICK j \in 1 .. Len(w) : q = w[j]
      BY <1>4, <2>1
    <3>2. j \in 1 .. Len(v)
      BY <1>3
    <3> QED BY <1>3, <3>1, <3>2
  <2>2. ASSUME q = p PROVE \E j \in 1 .. Len(v) : q = v[j]
    <3>1. Len(w) + 1 \in 1 .. Len(v)
      BY <1>3
    <3> QED BY <1>3, <2>2, <3>1
  <2>3. ASSUME NEW j \in 1 .. Len(v), q = v[j] PROVE q \in S \cup {p}
    BY <1>3, <1>4, <1>5, <2>3
  <2> QED BY <2>1, <2>2, <2>3
<1>8. ASSUME NEW j \in 1 .. Len(v) - 1 PROVE v[j + 1] = link2[v[j]]
  <2>1. j \in 1 .. Len(w)
    BY <1>3
  <2>2. CASE j = Len(w)
    <3>1. first # NULL /\ v[j] = last
      <4>1. w # << >>
        BY <2>1
      <4> QED BY <1>2, <1>3, <2>1, <2>2, <4>1 DEF IsListing
    <3> QED BY <1>1, <1>3, <2>2, <3>1
  <2>3. CASE j # Len(w)
    <3>1. j \in 1 .. Len(w) - 1 /\ j + 1 \in 1 .. Len(w)
      BY <1>3, <2>1, <2>3
    <3>2. w[j] # last
      <4>1. w # << >> /\ Len(w) \in 1 .. Len(w)
        BY <1>3, <2>1
      <4>2. w[Len(w)] = last
        BY <1>2, <4>1 DEF IsListing
      <4> QED BY <1>4, <2>1, <2>3, <4>1, <4>2
    <3> QED BY SMTT(30), <1>1, <1>3, <1>4, <2>1, <3>1, <3>2
  <2> QED BY <2>2, <2>3
<1>9. v # << >> /\ v[1] = first2 /\ v[Len(v)] = p /\ first2 # NULL
  <2>1. CASE first = NULL
    <3>1. w = << >>
      BY <1>2, <2>1 DEF IsListing
    <3>2. Len(w) = 0
      BY <3>1
    <3>3. Len(v) = 1 /\ v[1] = p
      BY <1>3, <3>2
    <3>4. v # << >>
      BY <3>3
    <3>5. first2 = p
      BY <1>1, <2>1
    <3> QED BY <1>1, <3>3, <3>4, <3>5
  <2>2. CASE first # NULL
    <3>1. w # << >> /\ w[1] = first
      BY <1>2, <2>2 DEF IsListing
    <3>2. 1 \in 1 .. Len(w)
      BY <1>3, <3>1
    <3> QED BY <1>1, <1>3, <2>2, <3>1, <3>2
  <2> QED BY <2>1, <2>2
<1>10. IsListing(v, S \cup {p}, first2, p, link2)
  BY <1>1, <1>3, <1>6, <1>7, <1>8, <1>9 DEF IsListing
<1>11. Chain(link2, first2) = v
  BY <1>10, ListingIsChain
<1> QED BY <1>11 DEF Appended, v, w

\* Advancing the head takes the first member off the list.
LEMMA ChainTail ==
  ASSUME NEW S, NEW T, NEW first \in Pointers, NEW last,
         NEW link, NEW link2 \in [Slots -> Pointers], NEW rank,
         Dequeues(S, T, first, last, link, link2, rank)
  PROVE  Advanced(link, link2, first)
<1> DEFINE w == Chain(link, first)
           v == Tail(w)
<1>1. /\ S \in SUBSET Slots /\ first # NULL /\ first \in S
      /\ link \in [Slots -> Pointers] /\ rank \in [Slots -> Nat]
      /\ \A q \in S \ {first} : link2[q] = link[q]
      /\ IsQueue(S, first, last, link, rank)
  BY DEF Dequeues, IsQueue
<1>2. IsListing(w, S, first, last, link)
  BY <1>1, ChainLists
<1> HIDE DEF w
<1>3. /\ w \in Seq(Slots) /\ Len(w) \in Nat \ {0} /\ w # << >> /\ w[1] = first
      /\ w[Len(w)] = last /\ link[last] = NULL
  <2>1. w \in Seq(Slots) /\ w # << >> /\ w[1] = first /\ w[Len(w)] = last /\ link[last] = NULL
    BY <1>1, <1>2 DEF IsListing
  <2> QED BY <2>1
<1>4. /\ v \in Seq(Slots) /\ Len(v) = Len(w) - 1
      /\ \A j \in 1 .. Len(v) : v[j] = w[j + 1] /\ j + 1 \in 1 .. Len(w)
      /\ Head(w) = first
  BY <1>3
<1> HIDE DEF v
<1>5. /\ \A j \in 1 .. Len(w) : w[j] \in S
      /\ \A i, j \in 1 .. Len(w) : w[i] = w[j] => i = j
      /\ \A q \in S : \E j \in 1 .. Len(w) : q = w[j]
      /\ \A j \in 1 .. Len(w) - 1 : w[j + 1] = link[w[j]]
  BY <1>2 DEF IsListing
<1>6. \A j \in 1 .. Len(v) : v[j] \in S \ {first}
  <2>1. 1 \in 1 .. Len(w)
    BY <1>3
  <2>2. ASSUME NEW j \in 1 .. Len(v) PROVE j + 1 # 1
    BY <1>3, <1>4
  <2> QED BY <1>3, <1>4, <1>5, <2>1, <2>2
<1>7. \A i, j \in 1 .. Len(v) : v[i] = v[j] => i = j
  <2>1. ASSUME NEW i \in 1 .. Len(v), NEW j \in 1 .. Len(v), v[i] = v[j] PROVE i = j
    <3>1. i + 1 = j + 1
      BY <1>4, <1>5, <2>1
    <3> QED BY <1>3, <1>4, <3>1
  <2> QED BY <2>1
<1>8. ASSUME NEW q \in S \ {first} PROVE \E j \in 1 .. Len(v) : q = v[j]
  <2>1. PICK i \in 1 .. Len(w) : q = w[i]
    BY <1>5
  <2>2. i # 1
    BY <1>3, <2>1
  <2>3. i - 1 \in 1 .. Len(v) /\ (i - 1) + 1 = i
    BY <1>3, <1>4, <2>2
  <2> QED BY <1>4, <2>1, <2>3
<1>9. ASSUME NEW j \in 1 .. Len(v) - 1 PROVE v[j + 1] = link2[v[j]]
  <2>1. /\ j \in 1 .. Len(v) /\ j + 1 \in 1 .. Len(v) /\ j + 1 \in 1 .. Len(w) - 1
    BY <1>3, <1>4
  <2>2. v[j] = w[j + 1] /\ v[j + 1] = w[(j + 1) + 1] /\ w[(j + 1) + 1] = link[w[j + 1]]
    BY <1>4, <1>5, <2>1
  <2> QED BY <1>1, <1>6, <2>1, <2>2
<1>10. v # << >> => v[1] = link[first] /\ v[Len(v)] = last /\ link2[last] = NULL
  <2> SUFFICES ASSUME v # << >> PROVE v[1] = link[first] /\ v[Len(v)] = last /\ link2[last] = NULL
    OBVIOUS
  <2>1. 1 \in 1 .. Len(v) /\ Len(v) \in 1 .. Len(v) /\ 1 \in 1 .. Len(w) - 1
        /\ Len(v) + 1 = Len(w)
    BY <1>3, <1>4
  <2>2. v[1] = w[1 + 1] /\ w[1 + 1] = link[w[1]] /\ v[Len(v)] = w[Len(w)]
    BY <1>4, <1>5, <2>1
  <2> QED BY <1>1, <1>3, <1>6, <2>1, <2>2
<1>11. link[first] = NULL <=> v = << >>
  <2>1. CASE v = << >>
    <3>1. Len(w) = 1
      BY <1>3, <1>4, <2>1
    <3> QED BY <1>3, <2>1, <3>1
  <2>2. CASE v # << >>
    <3>1. 1 \in 1 .. Len(v) /\ v[1] \in Slots
      BY <1>4, <2>2
    <3>2. NULL \notin Slots
      BY PcbAssumption DEF Slots
    <3> QED BY <1>10, <2>2, <3>1, <3>2
  <2> QED BY <2>1, <2>2
<1>12. IsListing(v, S \ {first}, link[first], last, link2)
  BY <1>4, <1>6, <1>7, <1>8, <1>9, <1>10, <1>11 DEF IsListing
<1>13. link[first] \in Pointers
  BY <1>1
<1>14. Chain(link2, link[first]) = v
  BY <1>12, <1>13, ListingIsChain
<1> QED BY <1>3, <1>4, <1>14 DEF Advanced, v, w

(***************************************************************************)
(* The same, for a queue whose new member has no rank yet.                 *)
(***************************************************************************)
Grows(S, p, first, first2, last, link, link2, rank) ==
  /\ S \subseteq Slots /\ p \in Slots \ S
  /\ first2 = IF first = NULL THEN p ELSE first
  /\ link \in [Slots -> Pointers] /\ rank \in [Slots -> Nat]
  /\ link2[p] = NULL
  /\ first # NULL => link2[last] = p
  /\ \A q \in S \ {last} : link2[q] = link[q]
  /\ IsQueue(S, first, last, link, rank)

\* A queue that grows by a slot has it enqueued.
LEMMA GrowsEnqueues ==
  ASSUME NEW S, NEW p, NEW first, NEW first2, NEW last, NEW link, NEW link2, NEW rank,
         Grows(S, p, first, first2, last, link, link2, rank)
  PROVE  \E T, rank2 : Enqueues(S, T, p, first, first2, last, link, link2, rank, rank2)
<1> DEFINE r == IF first = NULL THEN 0 ELSE rank[last] + 1
           rank2 == [rank EXCEPT ![p] = r]
           T == S \cup {p}
<1>1. r \in Nat
  <2>1. CASE first = NULL
    BY <2>1
  <2>2. CASE first # NULL
    <3>1. last \in Slots /\ rank \in [Slots -> Nat]
      BY <2>2 DEF IsQueue, Grows
    <3> QED BY <2>2, <3>1
  <2> QED BY <2>1, <2>2
<1>2. rank2 \in [Slots -> Nat] /\ rank2[p] = r /\ \A q \in S : rank2[q] = rank[q]
  <2> HIDE DEF r
  <2> QED BY <1>1 DEF Grows
<1>3. first # NULL => rank2[p] = rank[last] + 1
  BY <1>2
<1> HIDE DEF rank2
<1>4. Enqueues(S, T, p, first, first2, last, link, link2, rank, rank2)
  BY <1>2, <1>3 DEF Enqueues, Grows
<1> HIDE DEF T
<1> WITNESS T, rank2
<1> QED BY <1>4

\* What growing a queue changes of the links.
LEMMA ChainGrows ==
  ASSUME NEW S, NEW p, NEW first \in Pointers, NEW first2 \in Pointers, NEW last,
         NEW link, NEW link2 \in [Slots -> Pointers], NEW rank,
         Grows(S, p, first, first2, last, link, link2, rank)
  PROVE  Appended(link, link2, first, first2, p)
<1>1. PICK T, rank2 : Enqueues(S, T, p, first, first2, last, link, link2, rank, rank2)
  BY GrowsEnqueues
<1> QED BY <1>1, ChainAppend
=============================================================================
