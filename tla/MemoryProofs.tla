---------------------------- MODULE MemoryProofs ----------------------------
(***************************************************************************)
(* Proofs about the memory manager, for any regions, any workload and any  *)
(* order of the calls, up to the call that tears a slot; and that no call   *)
(* does when the lower region is a whole number of grains.                 *)
(***************************************************************************)
EXTENDS Allocating, Recursion

\* The lower region is a whole number of grains.
WholeLower == (HOLESTART - freemem) % GRAIN = 0

\* Where the sizes of slots are whole grains.
Graned(a) == HOLEEND <= a \/ WholeLower

Mult == {c * GRAIN : c \in Nat}

Ptr == Nat \cup {NULL}
Hdr == [size : Nat, prev : Ptr, next : Ptr, sanityCheck : BOOLEAN]

MemoryType == [memList : Ptr, hdr : UNION {[D -> Hdr] : D \in SUBSET Nat}]

\* Every link leads to a slot; next leads up, prev leads down.
Graded(m) ==
  \A a \in DOMAIN m.hdr :
    /\ a <= maxaddr
    /\ m.hdr[a].next # NULL => m.hdr[a].next \in DOMAIN m.hdr /\ a < m.hdr[a].next
    /\ m.hdr[a].prev # NULL => m.hdr[a].prev \in DOMAIN m.hdr /\ m.hdr[a].prev < a

\* The slots of L form one list, in the order of their addresses.
Chained(m, L) ==
  /\ L \subseteq DOMAIN m.hdr
  /\ \A a \in L :
       /\ m.hdr[a].next # NULL =>
            /\ m.hdr[a].next \in L
            /\ m.hdr[m.hdr[a].next].prev = a
            /\ \A b \in L : b <= a \/ m.hdr[a].next <= b
       /\ m.hdr[a].next = NULL => \A b \in L : b <= a
       /\ m.hdr[a].prev # NULL =>
            /\ m.hdr[a].prev \in L
            /\ m.hdr[m.hdr[a].prev].next = a
       /\ m.hdr[a].prev = NULL => \A b \in L : a <= b

\* memList is the head of the list.
AtHead(m, L) ==
  /\ m.memList = NULL => L = {}
  /\ m.memList # NULL => m.memList \in L /\ m.hdr[m.memList].prev = NULL
-----------------------------------------------------------------------------
\* What is assumed of the constants.
LEMMA Constants ==
  /\ freemem \in Nat /\ HOLESTART \in Nat /\ HOLEEND \in Nat /\ maxaddr \in Nat
  /\ MEM_HEADER_SIZE \in Nat /\ MEM_HEADER_SIZE > 0
  /\ MIN_STACK_SIZE \in Nat /\ MIN_STACK_SIZE > 0
  /\ GRAIN \in Nat /\ GRAIN > 0
  /\ ULONG_MAX \in Nat
  /\ MIN_STACK_SIZE % GRAIN = 0
  /\ freemem + MEM_HEADER_SIZE < HOLESTART
  /\ HOLESTART < HOLEEND
  /\ HOLEEND + MEM_HEADER_SIZE < maxaddr
  /\ NULL \notin Nat
  /\ Requests \subseteq Nat
BY MemoryAssumption, MachineAssumption

LEMMA Machine == maxaddr <= ULONG_MAX /\ MEM_HEADER_SIZE = GRAIN
BY MachineAssumption

\* The fields of a header.
LEMMA Fields ==
  ASSUME NEW m \in MemoryType
  PROVE  /\ DOMAIN m.hdr \subseteq Nat
         /\ m.memList \in Ptr
         /\ m.hdr \in [DOMAIN m.hdr -> Hdr]
         /\ \A a \in DOMAIN m.hdr :
              /\ m.hdr[a] \in Hdr
              /\ m.hdr[a].size \in Nat
              /\ m.hdr[a].prev \in Ptr
              /\ m.hdr[a].next \in Ptr
              /\ m.hdr[a].sanityCheck \in BOOLEAN
<1>1. PICK D \in SUBSET Nat : m.hdr \in [D -> Hdr]
  BY DEF MemoryType
<1>2. m.memList \in Ptr
  BY DEF MemoryType
<1> QED BY <1>1, <1>2 DEF Hdr

\* Multiples of the grain are numbers.
LEMMA MultNat == Mult \subseteq Nat
BY Constants DEF Mult

\* Sums of multiples, and differences that are positive.
LEMMA MultSum ==
  ASSUME NEW x \in Mult, NEW y \in Mult
  PROVE  x + y \in Mult
<1>1. PICK c \in Nat : x = c * GRAIN
  BY DEF Mult
<1>2. PICK d \in Nat : y = d * GRAIN
  BY DEF Mult
<1>3. x + y = (c + d) * GRAIN /\ c + d \in Nat
  BY <1>1, <1>2, Constants
<1> QED BY <1>3 DEF Mult

\* The rest of a cut multiple is a multiple, less its header.
LEMMA MultDifference ==
  ASSUME NEW x \in Mult, NEW y \in Mult, y < x
  PROVE  x - y - GRAIN \in Mult
<1>1. PICK c \in Nat : x = c * GRAIN
  BY DEF Mult
<1>2. PICK d \in Nat : y = d * GRAIN
  BY DEF Mult
<1>3. d < c
  <2> SUFFICES ASSUME c <= d PROVE FALSE
    OBVIOUS
  <2>1. c * GRAIN <= d * GRAIN
    BY Constants
  <2> QED BY <2>1, <1>1, <1>2, Constants
<1>4. x - y - GRAIN = (c - d - 1) * GRAIN /\ c - d - 1 \in Nat
  BY <1>1, <1>2, <1>3, Constants
<1> QED BY <1>4 DEF Mult

\* Rounding down to the grain.
LEMMA MultDiv ==
  ASSUME NEW x \in Nat
  PROVE  /\ x \div GRAIN \in Nat
         /\ (x \div GRAIN) * GRAIN \in Mult
         /\ (x \div GRAIN) * GRAIN <= x
         /\ x < (x \div GRAIN) * GRAIN + GRAIN
         /\ x % GRAIN = 0 <=> x = (x \div GRAIN) * GRAIN
<1>1. x \div GRAIN \in Nat
  BY Constants
<1>2. (x \div GRAIN) * GRAIN <= x
  BY Constants
<1>3. x < (x \div GRAIN) * GRAIN + GRAIN
  BY Constants
<1>4. x % GRAIN = x - (x \div GRAIN) * GRAIN
  BY Constants
<1>5. (x \div GRAIN) * GRAIN \in Mult
  BY <1>1 DEF Mult
<1>6. (x \div GRAIN) * GRAIN \in Nat
  BY <1>5, MultNat
<1>7. x % GRAIN = 0 <=> x = (x \div GRAIN) * GRAIN
  BY <1>4, <1>6
<1> QED BY <1>1, <1>2, <1>3, <1>5, <1>7

\* A number that the grain divides is a multiple.
LEMMA MultIs ==
  ASSUME NEW x \in Nat, x % GRAIN = 0
  PROVE  x \in Mult
BY MultDiv

\* What is below the largest address is not wrapped.
LEMMA NotWrapped ==
  ASSUME NEW x \in Nat, x <= ULONG_MAX
  PROVE  Wrapped(x) = x
BY Constants DEF Wrapped

\* The rounding of a size has room for it, unless it wraps.
Fits(r, n) == r + GRAIN <= ULONG_MAX + 1 => r <= n

\* The size looked for is a multiple of the grain that holds the request.
LEMMA RoundedIs ==
  ASSUME NEW r \in Requests
  PROVE  /\ Rounded(r) \in Mult
         /\ Rounded(r) \in Nat
         /\ Fits(r, Rounded(r))
<1>0. r \in Nat /\ r <= ULONG_MAX /\ ULONG_MAX \in Nat
  BY Constants, MachineAssumption
<1>1. CASE r < MIN_STACK_SIZE
  <2>1. Rounded(r) = MIN_STACK_SIZE
    BY <1>1 DEF Rounded
  <2>2. MIN_STACK_SIZE \in Mult
    BY Constants, MultIs
  <2> QED BY <1>0, <1>1, <2>1, <2>2, Constants DEF Fits
<1>2. CASE ~ (r < MIN_STACK_SIZE)
  <2> DEFINE c == r \div GRAIN
             d == IF r % GRAIN = 0 THEN 0 ELSE 1
             x == (c + d) * GRAIN
  <2>1. /\ c \in Nat /\ c * GRAIN \in Mult
        /\ c * GRAIN <= r /\ r < c * GRAIN + GRAIN
        /\ r % GRAIN = 0 <=> r = c * GRAIN
    BY <1>0, MultDiv
  <2>2. Rounded(r) = Wrapped(x)
    BY <1>2 DEF Rounded
  <2>a. r % GRAIN = 0 => d = 0
    OBVIOUS
  <2>b. r % GRAIN # 0 => d = 1
    OBVIOUS
  <2>e. x = (c + d) * GRAIN
    OBVIOUS
  <2> HIDE DEF c, d, x
  <2>3. c * GRAIN \in Nat
    BY <2>1, MultNat
  <2>4. r % GRAIN = 0 => x = c * GRAIN
    BY <2>1, <2>a, <2>e
  <2>5. r % GRAIN # 0 => x = c * GRAIN + GRAIN
    BY <2>1, <2>b, <2>e, Constants
  <2>6. c + d \in Nat
    BY <2>1, <2>a, <2>b
  <2>7. x \in Mult
    BY <2>6, <2>e DEF Mult
  <2>c. GRAIN \in Nat /\ 0 < GRAIN
    BY Constants
  <2>8. x \in Nat /\ r <= x /\ x < r + GRAIN
    <3>1. CASE r % GRAIN = 0
      <4>1. x = r
        BY <2>1, <2>4, <3>1
      <4> QED BY <1>0, <2>c, <4>1
    <3>2. CASE r % GRAIN # 0
      <4>1. x = c * GRAIN + GRAIN
        BY <2>5, <3>2
      <4>2. c * GRAIN # r
        BY <2>1, <3>2
      <4> QED BY <1>0, <2>1, <2>3, <2>c, <4>1, <4>2
    <3> QED BY <3>1, <3>2
  <2>9. CASE x <= ULONG_MAX
    <3>1. Rounded(r) = x
      BY <2>2, <2>8, <2>9, NotWrapped
    <3> QED BY <2>7, <2>8, <3>1 DEF Fits
  <2>10. CASE ~ (x <= ULONG_MAX)
    <3>1. PICK e \in Nat : ULONG_MAX + 1 = e * GRAIN
      <4>1. ULONG_MAX + 1 \in Nat /\ (ULONG_MAX + 1) % GRAIN = 0
        BY <1>0, MachineAssumption
      <4>2. ULONG_MAX + 1 \in Mult
        BY <4>1, MultIs
      <4> QED BY <4>2 DEF Mult
    <3>2. c < e
      <4> SUFFICES ASSUME e <= c PROVE FALSE
        BY <2>1
      <4>1. e * GRAIN <= c * GRAIN
        BY <2>1, Constants
      <4> QED BY <1>0, <2>1, <2>3, <3>1, <4>1
    <3>3. c * GRAIN + GRAIN <= e * GRAIN
      <4>1. (c + 1) * GRAIN <= e * GRAIN
        BY <2>1, <3>2, Constants
      <4>2. (c + 1) * GRAIN = c * GRAIN + GRAIN
        BY <2>1, Constants
      <4> QED BY <4>1, <4>2
    <3>4. x = ULONG_MAX + 1
      BY <1>0, <2>1, <2>3, <2>4, <2>5, <2>8, <2>10, <3>1, <3>3, Constants
    <3>5. Rounded(r) = 0
      BY <1>0, <2>2, <3>4 DEF Wrapped
    <3>6. 0 \in Mult
      <4>1. 0 = 0 * GRAIN
        BY Constants
      <4> QED BY <4>1 DEF Mult
    <3>7. ~ (r + GRAIN <= ULONG_MAX + 1)
      BY <1>0, <2>8, <3>4, Constants
    <3> QED BY <3>5, <3>6, <3>7 DEF Fits
  <2> QED BY <2>9, <2>10
<1> QED BY <1>1, <1>2
-----------------------------------------------------------------------------
\* The loop of reallocateMemPtr, from any slot.
LEMMA FirstExists ==
  ASSUME NEW m \in MemoryType, Graded(m)
  PROVE  \E f : f = [a \in DOMAIN m.hdr |->
                       IF m.hdr[a].prev = NULL THEN a ELSE f[m.hdr[a].prev]]
<1> DEFINE D == DOMAIN m.hdr
           body(g) == [a \in D |-> IF m.hdr[a].prev = NULL THEN a ELSE g[m.hdr[a].prev]]
           F == [g \in [D -> D] |-> body(g)]
           mu == [a \in D |-> a]
<1>1. CASE D = {}
  <2>1. body(<< >>) = << >>
    BY <1>1
  <2> QED BY <2>1
<1>2. CASE D # {}
  <2>1. /\ D \subseteq Nat
        /\ \A a \in D : /\ a <= maxaddr
                        /\ m.hdr[a].prev # NULL => m.hdr[a].prev \in D /\ m.hdr[a].prev < a
    BY Fields DEF Graded
  <2>2. mu \in [D -> 0 .. maxaddr]
    BY <2>1, Constants
  <2>3. \A g \in [D -> D] : body(g) \in [D -> D]
    BY <2>1
  <2>4. F \in [[D -> D] -> [D -> D]]
    <3> HIDE DEF body
    <3> QED BY <2>3
  <2>5. \A g \in [D -> D], a \in D :
          F[g][a] = IF m.hdr[a].prev = NULL THEN a ELSE g[m.hdr[a].prev]
    OBVIOUS
  <2>6. \A a \in D : mu[a] = a
    OBVIOUS
  <2> HIDE DEF F, mu
  <2>7. GoesDown(F, D, D, mu)
    <3> SUFFICES ASSUME NEW g \in [D -> D], NEW h \in [D -> D], NEW a \in D,
                        \A b \in D : mu[b] < mu[a] => g[b] = h[b]
                 PROVE  F[g][a] = F[h][a]
      BY <2>4 DEF GoesDown
    <3> HIDE DEF D
    <3>1. /\ F[g][a] = IF m.hdr[a].prev = NULL THEN a ELSE g[m.hdr[a].prev]
          /\ F[h][a] = IF m.hdr[a].prev = NULL THEN a ELSE h[m.hdr[a].prev]
      BY <2>5
    <3>2. CASE m.hdr[a].prev = NULL
      BY <3>1, <3>2
    <3>3. CASE m.hdr[a].prev # NULL
      <4>1. m.hdr[a].prev \in D /\ mu[m.hdr[a].prev] < mu[a]
        BY <3>3, <2>1, <2>6
      <4> QED BY <3>1, <3>3, <4>1
    <3> QED BY <3>2, <3>3
  <2>8. PICK f \in [D -> D] : F[f] = f
    <3> HIDE DEF D
    <3> QED BY <1>2, <2>2, <2>7, RecursionExists, Constants
  <2>9. f = body(f)
    BY <2>8 DEF F
  <2> QED BY <2>9
<1> QED BY <1>1, <1>2

\* memList goes back to the slot before which there is none.
LEMMA ReallocatedIs ==
  ASSUME NEW m \in MemoryType, Graded(m), NEW L, Chained(m, L),
         m.memList # NULL => m.memList \in L
  PROVE  \E x \in Ptr : /\ reallocateMemPtr(m) = [m EXCEPT !.memList = x]
                        /\ m.memList = NULL => x = NULL
                        /\ m.memList # NULL => x \in L /\ m.hdr[x].prev = NULL
<1> DEFINE D == DOMAIN m.hdr
           first == CHOOSE f : f = [a \in D |->
                      IF m.hdr[a].prev = NULL THEN a ELSE f[m.hdr[a].prev]]
<1>0. /\ D \subseteq Nat /\ L \subseteq D /\ m.memList \in Ptr
      /\ \A a \in D : m.hdr[a].prev # NULL => m.hdr[a].prev \in D /\ m.hdr[a].prev < a
      /\ \A a \in L : m.hdr[a].prev # NULL => m.hdr[a].prev \in L
  BY Fields DEF Graded, Chained
<1>1. first = [a \in D |-> IF m.hdr[a].prev = NULL THEN a ELSE first[m.hdr[a].prev]]
  BY FirstExists
<1>2. reallocateMemPtr(m)
        = IF m.memList = NULL THEN m ELSE [m EXCEPT !.memList = first[m.memList]]
  BY DEF reallocateMemPtr
<1> HIDE DEF first
<1>3. \A a \in D : first[a] = IF m.hdr[a].prev = NULL THEN a ELSE first[m.hdr[a].prev]
  BY <1>1
<1>4. \A a \in L : first[a] \in L /\ m.hdr[first[a]].prev = NULL
  <2> DEFINE W == {a \in L : ~ (first[a] \in L /\ m.hdr[first[a]].prev = NULL)}
  <2> SUFFICES ASSUME W # {} PROVE FALSE
    OBVIOUS
  <2>1. W \in SUBSET Nat
    BY <1>0
  <2>2. PICK a \in W : \A b \in W : a <= b
    <3> HIDE DEF W
    <3> QED BY <2>1, SmallestExists
  <2> HIDE DEF D
  <2>3. m.hdr[a].prev # NULL /\ first[a] = first[m.hdr[a].prev]
    BY <1>0, <1>3
  <2>4. m.hdr[a].prev \in L /\ m.hdr[a].prev < a
    BY <1>0, <2>3
  <2>5. m.hdr[a].prev \in W
    BY <2>3, <2>4
  <2> QED BY <2>1, <2>2, <2>4, <2>5
<1>5. CASE m.memList = NULL
  <2>1. m = [m EXCEPT !.memList = NULL]
    BY <1>5 DEF MemoryType
  <2> QED BY <1>2, <1>5, <2>1 DEF Ptr
<1>6. CASE m.memList # NULL
  <2>1. first[m.memList] \in L /\ m.hdr[first[m.memList]].prev = NULL
    BY <1>4, <1>6
  <2>2. first[m.memList] \in Ptr
    BY <2>1, <1>0 DEF Ptr
  <2> QED BY <1>2, <1>6, <2>1, <2>2
<1> QED BY <1>5, <1>6

(***************************************************************************)
(* s goes along next from a to the end of the list of the slots of L, and  *)
(* passes each one that is not before a.                                   *)
(***************************************************************************)
Lists(m, L, a, s) ==
  /\ s \in Seq(L)
  /\ Len(s) > 0
  /\ s[1] = a
  /\ \A i \in 1 .. Len(s) - 1 : m.hdr[s[i]].next # NULL /\ s[i + 1] = m.hdr[s[i]].next
  /\ m.hdr[s[Len(s)]].next = NULL
  /\ \A b \in L : a <= b => \E i \in 1 .. Len(s) : s[i] = b

\* The list of the last slot.
LEMMA ListsOne ==
  ASSUME NEW m \in MemoryType, NEW L, Chained(m, L), NEW a \in L, m.hdr[a].next = NULL
  PROVE  Lists(m, L, a, << a >>)
<1>1. L \subseteq Nat /\ \A b \in L : b <= a
  BY Fields DEF Chained
<1>2. \A b \in L : a <= b => b = a
  BY <1>1
<1> DEFINE s == << a >>
<1>3. s \in Seq(L) /\ Len(s) = 1 /\ s[1] = a
  OBVIOUS
<1> HIDE DEF s
<1>4. \A b \in L : a <= b => \E i \in 1 .. Len(s) : s[i] = b
  BY <1>2, <1>3
<1>5. Lists(m, L, a, s)
  BY <1>3, <1>4 DEF Lists
<1> QED BY <1>5 DEF s

\* A slot before a list.
LEMMA ListsMore ==
  ASSUME NEW m \in MemoryType, NEW L, Chained(m, L), NEW a \in L, m.hdr[a].next # NULL,
         NEW t, Lists(m, L, m.hdr[a].next, t)
  PROVE  Lists(m, L, a, << a >> \o t)
<1>1. L \subseteq Nat /\ \A b \in L : b <= a \/ m.hdr[a].next <= b
  BY Fields DEF Chained
<1>2. \A b \in L : a <= b => b = a \/ m.hdr[a].next <= b
  BY <1>1
<1> DEFINE s == << a >> \o t
<1>3. t \in Seq(L) /\ Len(t) \in Nat /\ Len(t) > 0
  BY DEF Lists
<1>4. /\ s \in Seq(L) /\ Len(s) = 1 + Len(t) /\ s[1] = a
      /\ \A i \in 1 .. Len(t) : s[i + 1] = t[i]
  BY <1>3
<1> HIDE DEF s
<1>5. \A b \in L : a <= b => \E i \in 1 .. Len(s) : s[i] = b
  <2> SUFFICES ASSUME NEW b \in L, a <= b PROVE \E i \in 1 .. Len(s) : s[i] = b
    OBVIOUS
  <2>1. CASE b = a
    BY <1>3, <1>4, <2>1
  <2>2. CASE b # a
    <3>1. PICK i \in 1 .. Len(t) : t[i] = b
      BY <1>2, <2>2 DEF Lists
    <3>2. i + 1 \in 1 .. Len(s) /\ s[i + 1] = b
      BY <1>3, <1>4, <3>1
    <3> QED BY <3>2
  <2> QED BY <2>1, <2>2
<1>6. \A i \in 1 .. Len(s) - 1 : m.hdr[s[i]].next # NULL /\ s[i + 1] = m.hdr[s[i]].next
  <2> SUFFICES ASSUME NEW i \in 1 .. Len(s) - 1
               PROVE  m.hdr[s[i]].next # NULL /\ s[i + 1] = m.hdr[s[i]].next
    OBVIOUS
  <2>1. CASE i = 1
    <3>1. 1 \in 1 .. Len(t) /\ s[1 + 1] = t[1] /\ t[1] = m.hdr[a].next
      BY <1>3, <1>4 DEF Lists
    <3> QED BY <1>4, <2>1, <3>1
  <2>2. CASE i # 1
    <3>1. i - 1 \in 1 .. Len(t) /\ i - 1 \in 1 .. Len(t) - 1 /\ i \in 1 .. Len(t)
          /\ i - 1 + 1 = i
      BY <1>3, <1>4, <2>2
    <3>2. s[i] = t[i - 1] /\ s[i + 1] = t[i]
      BY <1>4, <3>1
    <3>3. m.hdr[t[i - 1]].next # NULL /\ t[i] = m.hdr[t[i - 1]].next
      BY <3>1 DEF Lists
    <3> QED BY <3>2, <3>3
  <2> QED BY <2>1, <2>2
<1>7. m.hdr[s[Len(s)]].next = NULL
  <2>1. Len(t) \in 1 .. Len(t) /\ Len(s) = Len(t) + 1
    BY <1>3, <1>4
  <2>2. s[Len(s)] = t[Len(t)]
    BY <1>4, <2>1
  <2> QED BY <2>2 DEF Lists
<1>8. Lists(m, L, a, s)
  <2>1. Len(s) > 0
    BY <1>3, <1>4
  <2> QED BY <2>1, <1>4, <1>5, <1>6, <1>7 DEF Lists
<1> QED BY <1>8 DEF s

\* The loop along next, from any slot.
LEMMA FromExists ==
  ASSUME NEW m \in MemoryType, Graded(m)
  PROVE  \E f : f = [a \in DOMAIN m.hdr \cup {NULL} |->
                       IF a = NULL THEN << >> ELSE << a >> \o f[m.hdr[a].next]]
<1> DEFINE D == DOMAIN m.hdr
           E == D \cup {NULL}
           V == Seq(Nat)
           body(g) == [a \in E |-> IF a = NULL THEN << >> ELSE << a >> \o g[m.hdr[a].next]]
           F == [g \in [E -> V] |-> body(g)]
           mu == [a \in E |-> IF a = NULL THEN 0 ELSE maxaddr + 1 - a]
<1>1. /\ D \subseteq Nat
      /\ \A a \in D : /\ a <= maxaddr
                      /\ m.hdr[a].next # NULL => m.hdr[a].next \in D /\ a < m.hdr[a].next
  BY Fields DEF Graded
<1>2. mu \in [E -> 0 .. maxaddr + 1] /\ maxaddr + 1 \in Nat
  BY <1>1, Constants
<1>3. \A g \in [E -> V] : body(g) \in [E -> V]
  <2> TAKE g \in [E -> V]
  <2>1. ASSUME NEW a \in E
        PROVE  (IF a = NULL THEN << >> ELSE << a >> \o g[m.hdr[a].next]) \in V
    <3>1. CASE a = NULL
      BY <3>1
    <3>2. CASE a # NULL
      <4>1. m.hdr[a].next \in E /\ a \in Nat
        BY <1>1, <3>2
      <4>2. g[m.hdr[a].next] \in V
        BY <4>1
      <4>3. << a >> \o g[m.hdr[a].next] \in V
        BY <4>1, <4>2
      <4> QED BY <3>2, <4>3
    <3> QED BY <3>1, <3>2
  <2> QED BY <2>1
<1>4. F \in [[E -> V] -> [E -> V]]
  <2> HIDE DEF body
  <2> QED BY <1>3
<1>5. \A g \in [E -> V], a \in E :
        F[g][a] = IF a = NULL THEN << >> ELSE << a >> \o g[m.hdr[a].next]
  OBVIOUS
<1>6. \A a \in E : mu[a] = IF a = NULL THEN 0 ELSE maxaddr + 1 - a
  OBVIOUS
<1> HIDE DEF F, mu
<1>7. GoesDown(F, E, V, mu)
  <2> SUFFICES ASSUME NEW g \in [E -> V], NEW h \in [E -> V], NEW a \in E,
                      \A b \in E : mu[b] < mu[a] => g[b] = h[b]
               PROVE  F[g][a] = F[h][a]
    BY <1>4 DEF GoesDown
  <2>1. CASE a = NULL
    BY <1>5, <2>1
  <2>2. CASE a # NULL
    <3>1. /\ m.hdr[a].next \in E
          /\ m.hdr[a].next # NULL => /\ a < m.hdr[a].next /\ m.hdr[a].next \in Nat
                                     /\ m.hdr[a].next <= maxaddr
          /\ a \in Nat /\ a <= maxaddr
      BY <1>1, <2>2
    <3>2. mu[m.hdr[a].next] < mu[a]
      BY <1>6, <2>2, <3>1, Constants
    <3>3. g[m.hdr[a].next] = h[m.hdr[a].next]
      BY <3>1, <3>2
    <3> HIDE DEF E, V, D
    <3> QED BY ZenonT(60), <1>5, <2>2, <3>3
  <2> QED BY <2>1, <2>2
<1>8. PICK f \in [E -> V] : F[f] = f
  <2>1. V # {}
    <3>1. << >> \in V
      OBVIOUS
    <3> QED BY <3>1
  <2> HIDE DEF E, V
  <2> QED BY <1>2, <1>7, <2>1, RecursionExists
<1>9. f = body(f)
  BY <1>8 DEF F
<1> QED BY <1>9

\* The free list is the list of the slots of L.
LEMMA FreeListIs ==
  ASSUME NEW m \in MemoryType, Graded(m), NEW L, Chained(m, L), AtHead(m, L)
  PROVE  /\ m.memList = NULL => L = {} /\ FreeList(m) = << >>
         /\ m.memList # NULL => Lists(m, L, m.memList, FreeList(m))
<1> DEFINE D == DOMAIN m.hdr
           from == CHOOSE f : f = [a \in D \cup {NULL} |->
                     IF a = NULL THEN << >> ELSE << a >> \o f[m.hdr[a].next]]
<1>1. from = [a \in D \cup {NULL} |->
                IF a = NULL THEN << >> ELSE << a >> \o from[m.hdr[a].next]]
  BY FromExists
<1>2. FreeList(m) = from[m.memList]
  BY DEF FreeList
<1> HIDE DEF from
<1>3. /\ from[NULL] = << >>
      /\ \A a \in D : from[a] = << a >> \o from[m.hdr[a].next]
  <2>1. \A a \in D : a # NULL
    BY Fields, Constants
  <2> HIDE DEF D
  <2> QED BY <1>1, <2>1
<1>4. /\ L \subseteq Nat /\ L \subseteq D
      /\ \A a \in L : /\ a <= maxaddr
                      /\ m.hdr[a].next # NULL => m.hdr[a].next \in L /\ a < m.hdr[a].next
  BY Fields DEF Graded, Chained
<1>5. \A a \in L : Lists(m, L, a, from[a])
  <2> DEFINE W == {a \in L : ~ Lists(m, L, a, from[a])}
  <2> SUFFICES ASSUME W # {} PROVE FALSE
    OBVIOUS
  <2>1. W \in SUBSET (0 .. maxaddr)
    <3>1. maxaddr \in Nat
      BY Constants
    <3>2. \A a \in L : a \in 0 .. maxaddr
      BY <1>4, <3>1
    <3> QED BY <3>2
  <2>2. PICK a \in W : \A b \in W : b <= a
    <3> HIDE DEF W
    <3> QED BY <2>1, LargestExists, Constants
  <2>3. a \in L /\ a \in Nat /\ a \in D /\ ~ Lists(m, L, a, from[a])
    BY <1>4
  <2>4. CASE m.hdr[a].next = NULL
    <3>1. from[a] = << a >> \o << >>
      BY <1>3, <2>3, <2>4
    <3>2. << a >> \o << >> = << a >>
      OBVIOUS
    <3>3. Lists(m, L, a, << a >>)
      BY <2>3, <2>4, ListsOne
    <3> QED BY <2>3, <3>1, <3>2, <3>3
  <2>5. CASE m.hdr[a].next # NULL
    <3>1. m.hdr[a].next \in L /\ a < m.hdr[a].next /\ m.hdr[a].next \in Nat
      BY <1>4, <2>3, <2>5
    <3>2. m.hdr[a].next \notin W
      BY <2>2, <2>3, <3>1
    <3>3. Lists(m, L, m.hdr[a].next, from[m.hdr[a].next])
      BY <3>1, <3>2
    <3>4. Lists(m, L, a, << a >> \o from[m.hdr[a].next])
      BY <2>3, <2>5, <3>3, ListsMore
    <3> QED BY <1>3, <2>3, <3>4
  <2> QED BY <2>4, <2>5
<1> QED BY <1>2, <1>3, <1>5 DEF AtHead

\* findMemSlot finds a slot of the list, and a large enough one.
LEMMA FindIs ==
  ASSUME NEW m \in MemoryType, Graded(m), NEW L, Chained(m, L), AtHead(m, L), NEW n \in Nat,
         findMemSlot(m, n) # NULL
  PROVE  findMemSlot(m, n) \in L /\ m.hdr[findMemSlot(m, n)].size >= n
<1> DEFINE list == FreeList(m)
           fits == {j \in 1 .. Len(list) : m.hdr[list[j]].size >= n}
           j0 == CHOOSE j \in fits : \A i \in fits : j <= i
<1>1. fits # {} /\ findMemSlot(m, n) = list[j0]
  BY DEF findMemSlot
<1>2. list \in Seq(L)
  <2>1. << >> \in Seq(L)
    OBVIOUS
  <2> QED BY <2>1, FreeListIs DEF Lists
<1>3. fits \in SUBSET Nat
  BY <1>2
<1>4. \E j \in fits : \A i \in fits : j <= i
  <2> HIDE DEF fits
  <2> QED BY <1>1, <1>3, SmallestExists
<1>5. j0 \in fits
  <2> HIDE DEF fits
  <2> QED BY <1>4
<1>6. j0 \in 1 .. Len(list) /\ m.hdr[list[j0]].size >= n
  <2> HIDE DEF j0
  <2> QED BY <1>5
<1>7. list[j0] \in L
  <2> HIDE DEF j0, list
  <2> QED BY <1>2, <1>6
<1> QED BY <1>1, <1>6, <1>7

Stops(list, s) ==
  {j \in 1 .. Len(list) : j = Len(list) \/ (list[j] < s /\ list[j + 1] > s)}

Stop(list, s) == list[CHOOSE j \in Stops(list, s) : \A i \in Stops(list, s) : j <= i]

\* An entry of a sequence over S is in S.
LEMMA EntryOfSeq ==
  ASSUME NEW S, NEW q \in Seq(S), NEW i \in 1 .. Len(q)
  PROVE  q[i] \in S
OBVIOUS

\* The place insertToMemList finds for s: it is between at and the next slot.
LEMMA StopIs ==
  ASSUME NEW m \in MemoryType, Graded(m), NEW L, Chained(m, L), NEW s \in Nat, s \notin L,
         NEW list, NEW h \in L, Lists(m, L, h, list), h < s
  PROVE  /\ Stop(list, s) \in L /\ Stop(list, s) < s
         /\ m.hdr[Stop(list, s)].next # NULL => s < m.hdr[Stop(list, s)].next
<1> DEFINE stops == Stops(list, s)
           at == Stop(list, s)
<1>1. /\ list \in Seq(L) /\ Len(list) \in Nat /\ Len(list) > 0 /\ list[1] = h
      /\ L \subseteq Nat
  BY Fields DEF Lists, Chained
<1>2. stops \in SUBSET Nat /\ Len(list) \in stops
  BY <1>1 DEF Stops
<1>0. \A j \in 1 .. Len(list) :
        j \in stops <=> j = Len(list) \/ (list[j] < s /\ list[j + 1] > s)
  BY DEF Stops
<1>11. \A j \in stops : j \in 1 .. Len(list)
  BY DEF Stops
<1> DEFINE j0 == CHOOSE j \in stops : \A i \in stops : j <= i
<1>3. \E j \in stops : \A i \in stops : j <= i
  <2> HIDE DEF stops
  <2> QED BY <1>2, SmallestExists
<1>4. j0 \in stops /\ \A i \in stops : j0 <= i
  BY <1>3
<1>5. at = list[j0]
  BY DEF Stop
<1> HIDE DEF j0, stops, at
<1>6. j0 \in 1 .. Len(list)
  BY <1>4, <1>11
<1>7. \A i \in 1 .. j0 : list[i] < s
  <2> DEFINE W == {i \in 1 .. j0 : ~ (list[i] < s)}
  <2> SUFFICES ASSUME W # {} PROVE FALSE
    OBVIOUS
  <2>1. W \in SUBSET Nat
    BY <1>6
  <2>2. PICK i \in W : \A j \in W : i <= j
    <3> HIDE DEF W
    <3> QED BY <2>1, SmallestExists
  <2>3. i \in 1 .. j0 /\ ~ (list[i] < s) /\ i \in 1 .. Len(list)
    BY <1>6
  <2>4. i # 1
    BY <1>1, <2>3
  <2>5. i - 1 \in 1 .. j0 /\ i - 1 \notin W /\ i - 1 \in 1 .. Len(list) /\ i - 1 + 1 = i
    <3>1. i - 1 \in 1 .. j0 /\ i - 1 \in 1 .. Len(list) /\ i - 1 + 1 = i /\ ~ (i <= i - 1)
      BY <2>3, <2>4, <1>6
    <3> HIDE DEF W
    <3>2. i - 1 \notin W
      BY <2>2, <3>1
    <3> QED BY <3>1, <3>2
  <2>6. list[i - 1] < s
    BY <2>5
  <2>7. list[i] \in L /\ list[i] \in Nat
    <3> HIDE DEF W
    <3>1. i \in 1 .. Len(list)
      BY <2>3
    <3>2. list[i] \in L
      BY <1>1, <3>1, EntryOfSeq
    <3> QED BY <1>1, <3>2
  <2>8. list[i] > s
    BY <2>3, <2>7
  <2>9. i - 1 \in stops
    BY <1>0, <2>5, <2>6, <2>8
  <2>10. j0 <= i - 1
    BY <1>4, <2>9
  <2> QED BY <2>3, <2>10, <1>6
<1>8. at \in L /\ at < s
  <2>1. j0 \in 1 .. j0
    BY <1>6
  <2> QED BY <1>1, <1>5, <1>6, <1>7, <2>1
<1>9. CASE j0 = Len(list)
  <2>1. m.hdr[at].next = NULL
    BY <1>5, <1>9 DEF Lists
  <2> QED BY <1>8, <2>1 DEF at
<1>10. CASE j0 # Len(list)
  <2>1. list[j0 + 1] > s
    BY <1>0, <1>4, <1>6, <1>10
  <2>2. j0 \in 1 .. Len(list) - 1
    BY <1>1, <1>6, <1>10
  <2>3. list[j0 + 1] = m.hdr[at].next
    BY <1>5, <2>2 DEF Lists
  <2> QED BY <1>8, <2>1, <2>3 DEF at
<1> QED BY <1>9, <1>10
-----------------------------------------------------------------------------
\* Where the slot at a ends, and where its region ends for it.
End(m, a) == a + MEM_HEADER_SIZE + m.hdr[a].size

(***************************************************************************)
(* The slots lie apart, inside the regions, and leave no gap: where a slot *)
(* ends another one begins, or its region ends but for the part of a grain *)
(* that kmeminit cuts off.                                                 *)
(***************************************************************************)
Inside(m, a) ==
  \/ freemem <= a /\ End(m, a) <= HOLESTART
  \/ HOLEEND <= a /\ End(m, a) <= maxaddr

Followed(m, a) ==
  \/ End(m, a) \in DOMAIN m.hdr
  \/ End(m, a) = HOLESTART
  \/ HOLEEND <= a /\ maxaddr < End(m, a) + GRAIN

Laid(m) ==
  /\ freemem \in DOMAIN m.hdr
  /\ HOLEEND \in DOMAIN m.hdr
  /\ \A a \in DOMAIN m.hdr : Graned(a) => m.hdr[a].size \in Mult
  /\ \A a \in DOMAIN m.hdr : Inside(m, a)
  /\ \A a \in DOMAIN m.hdr : Followed(m, a)
  /\ \A a, b \in DOMAIN m.hdr : a < b => End(m, a) <= b

\* Slots outside the list are not linked to those in it; an owned slot has no links.
Outside(m, L) ==
  /\ \A a \in DOMAIN m.hdr \ L : m.hdr[a].next \notin L /\ m.hdr[a].prev \notin L
  /\ \A a \in DOMAIN m.hdr :
       m.hdr[a].sanityCheck =>
         a \notin L /\ m.hdr[a].next = NULL /\ m.hdr[a].prev = NULL

\* No slot is linked to one that is owned.
Unowned(m) ==
  \A a \in DOMAIN m.hdr :
    /\ m.hdr[a].next # NULL => ~ m.hdr[m.hdr[a].next].sanityCheck
    /\ m.hdr[a].prev # NULL => ~ m.hdr[m.hdr[a].prev].sanityCheck

\* All of it that holds in the midst of the operations too.
Sound(m, L) ==
  /\ m \in MemoryType
  /\ Graded(m)
  /\ Chained(m, L)
  /\ Outside(m, L)
  /\ Unowned(m)
  /\ Laid(m)

\* Ends are addresses, so that EndOf does not wrap.
LEMMA EndIs ==
  ASSUME NEW m \in MemoryType, Laid(m), NEW a \in DOMAIN m.hdr
  PROVE  /\ End(m, a) \in Nat /\ a < End(m, a) /\ End(m, a) <= maxaddr
         /\ EndOf(m, a) = End(m, a)
         /\ a < maxaddr
<1>1. a \in Nat /\ m.hdr[a].size \in Nat
  BY Fields
<1>2. End(m, a) \in Nat /\ a < End(m, a)
  BY <1>1, Constants DEF End
<1>3. End(m, a) <= maxaddr
  BY <1>2, Constants DEF Laid, Inside
<1>4. EndOf(m, a) = Wrapped(End(m, a))
  <2>1. a + m.hdr[a].size + MEM_HEADER_SIZE = a + MEM_HEADER_SIZE + m.hdr[a].size
    BY <1>1, Constants
  <2> QED BY <2>1 DEF EndOf, End
<1>5. End(m, a) <= ULONG_MAX
  BY <1>2, <1>3, Constants, Machine
<1> QED BY <1>1, <1>2, <1>3, <1>4, <1>5, NotWrapped, Constants
-----------------------------------------------------------------------------
\* r differs from m at most in the links and in the marks of the slots.
SameSizes(m, r) ==
  /\ r \in MemoryType
  /\ DOMAIN r.hdr = DOMAIN m.hdr
  /\ \A x \in DOMAIN m.hdr : r.hdr[x].size = m.hdr[x].size

NextSet(m, r, a, b) ==
  /\ SameSizes(m, r)
  /\ r.memList = m.memList
  /\ \A x \in DOMAIN m.hdr :
       /\ r.hdr[x].sanityCheck = m.hdr[x].sanityCheck
       /\ r.hdr[x].prev = m.hdr[x].prev
       /\ r.hdr[x].next = IF x = a THEN b ELSE m.hdr[x].next

\* What SetNext changes.
LEMMA SetNextIs ==
  ASSUME NEW m \in MemoryType, NEW a \in DOMAIN m.hdr \cup {NULL}, NEW b \in Ptr
  PROVE  NextSet(m, SetNext(m, a, b), a, b)
<1> DEFINE r == SetNext(m, a, b)
<1>0. DOMAIN m.hdr \subseteq Nat /\ \A x \in DOMAIN m.hdr : x # NULL
  BY Fields, Constants
<1>1. CASE a = NULL
  BY <1>0, <1>1 DEF SetNext, SameSizes, NextSet
<1>2. CASE a # NULL
  <2>1. r = [m EXCEPT !.hdr[a].next = b]
    BY <1>2 DEF SetNext
  <2> HIDE DEF r
  <2>2. PICK D \in SUBSET Nat : m.hdr \in [D -> Hdr]
    BY DEF MemoryType
  <2>3. D = DOMAIN m.hdr /\ a \in D
    BY <1>2, <2>2
  <2>4. [m.hdr[a] EXCEPT !.next = b] \in Hdr
    BY <2>2, <2>3 DEF Hdr
  <2>5. r.hdr = [m.hdr EXCEPT ![a] = [m.hdr[a] EXCEPT !.next = b]] /\ r.memList = m.memList
    BY <2>1 DEF MemoryType
  <2>6. r.hdr \in [D -> Hdr]
    BY <2>2, <2>3, <2>4, <2>5
  <2>7. r \in MemoryType
    BY <2>1, <2>6 DEF MemoryType
  <2>8. \A x \in D : r.hdr[x] = IF x = a THEN [m.hdr[a] EXCEPT !.next = b] ELSE m.hdr[x]
    BY <2>2, <2>3, <2>5
  <2>9. \A x \in D : /\ r.hdr[x].size = m.hdr[x].size
                     /\ r.hdr[x].sanityCheck = m.hdr[x].sanityCheck
                     /\ r.hdr[x].prev = m.hdr[x].prev
                     /\ r.hdr[x].next = IF x = a THEN b ELSE m.hdr[x].next
    BY <2>2, <2>3, <2>8 DEF Hdr
  <2>10. DOMAIN r.hdr = D
    BY <2>6
  <2>11. NextSet(m, r, a, b)
    BY <2>3, <2>5, <2>7, <2>9, <2>10 DEF SameSizes, NextSet
  <2> QED BY <2>11 DEF r
<1> QED BY <1>1, <1>2

PrevSet(m, r, a, b) ==
  /\ SameSizes(m, r)
  /\ r.memList = m.memList
  /\ \A x \in DOMAIN m.hdr :
       /\ r.hdr[x].sanityCheck = m.hdr[x].sanityCheck
       /\ r.hdr[x].next = m.hdr[x].next
       /\ r.hdr[x].prev = IF x = a THEN b ELSE m.hdr[x].prev

\* What SetPrev changes.
LEMMA SetPrevIs ==
  ASSUME NEW m \in MemoryType, NEW a \in DOMAIN m.hdr \cup {NULL}, NEW b \in Ptr
  PROVE  PrevSet(m, SetPrev(m, a, b), a, b)
<1> DEFINE r == SetPrev(m, a, b)
<1>0. DOMAIN m.hdr \subseteq Nat /\ \A x \in DOMAIN m.hdr : x # NULL
  BY Fields, Constants
<1>1. CASE a = NULL
  BY <1>0, <1>1 DEF SetPrev, SameSizes, PrevSet
<1>2. CASE a # NULL
  <2>1. r = [m EXCEPT !.hdr[a].prev = b]
    BY <1>2 DEF SetPrev
  <2> HIDE DEF r
  <2>2. PICK D \in SUBSET Nat : m.hdr \in [D -> Hdr]
    BY DEF MemoryType
  <2>3. D = DOMAIN m.hdr /\ a \in D
    BY <1>2, <2>2
  <2>4. [m.hdr[a] EXCEPT !.prev = b] \in Hdr
    BY <2>2, <2>3 DEF Hdr
  <2>5. r.hdr = [m.hdr EXCEPT ![a] = [m.hdr[a] EXCEPT !.prev = b]] /\ r.memList = m.memList
    BY <2>1 DEF MemoryType
  <2>6. r.hdr \in [D -> Hdr]
    BY <2>2, <2>3, <2>4, <2>5
  <2>7. r \in MemoryType
    BY <2>1, <2>6 DEF MemoryType
  <2>8. \A x \in D : r.hdr[x] = IF x = a THEN [m.hdr[a] EXCEPT !.prev = b] ELSE m.hdr[x]
    BY <2>2, <2>3, <2>5
  <2>9. \A x \in D : /\ r.hdr[x].size = m.hdr[x].size
                     /\ r.hdr[x].sanityCheck = m.hdr[x].sanityCheck
                     /\ r.hdr[x].next = m.hdr[x].next
                     /\ r.hdr[x].prev = IF x = a THEN b ELSE m.hdr[x].prev
    BY <2>2, <2>3, <2>8 DEF Hdr
  <2>10. DOMAIN r.hdr = D
    BY <2>6
  <2>11. PrevSet(m, r, a, b)
    BY <2>3, <2>5, <2>7, <2>9, <2>10 DEF SameSizes, PrevSet
  <2> QED BY <2>11 DEF r
<1> QED BY <1>1, <1>2

\* The list pointer alone changes.
LEMMA SetListIs ==
  ASSUME NEW m \in MemoryType, NEW x \in Ptr
  PROVE  /\ [m EXCEPT !.memList = x] \in MemoryType
         /\ [m EXCEPT !.memList = x].memList = x
         /\ [m EXCEPT !.memList = x].hdr = m.hdr
BY DEF MemoryType

\* The header of one slot changes.
HeaderSet(m, r, a, h) ==
  /\ r \in MemoryType
  /\ r.memList = m.memList
  /\ DOMAIN r.hdr = DOMAIN m.hdr
  /\ \A x \in DOMAIN m.hdr : r.hdr[x] = IF x = a THEN h ELSE m.hdr[x]

\* What replacing a header changes.
LEMMA SetHeaderIs ==
  ASSUME NEW m \in MemoryType, NEW a \in DOMAIN m.hdr, NEW h \in Hdr
  PROVE  HeaderSet(m, [m EXCEPT !.hdr[a] = h], a, h)
<1> DEFINE r == [m EXCEPT !.hdr[a] = h]
<1>1. PICK D \in SUBSET Nat : m.hdr \in [D -> Hdr]
  BY DEF MemoryType
<1>2. r.hdr = [m.hdr EXCEPT ![a] = h] /\ r.memList = m.memList
  BY DEF MemoryType
<1>3. r.hdr \in [D -> Hdr]
  BY <1>1, <1>2
<1>4. r \in MemoryType
  BY <1>3 DEF MemoryType
<1> HIDE DEF r
<1>5. HeaderSet(m, r, a, h)
  BY <1>1, <1>2, <1>3, <1>4 DEF HeaderSet
<1> QED BY <1>5 DEF r
-----------------------------------------------------------------------------
(***************************************************************************)
(* A slot of just the size leaves the list.  When it was the last one, the *)
(* list goes with it.                                                      *)
(***************************************************************************)
Exact(m, r, s) ==
  /\ SameSizes(m, r)
  /\ r.memList = m.hdr[s].next
  /\ \A x \in DOMAIN m.hdr :
       /\ r.hdr[x].sanityCheck = (x = s \/ m.hdr[x].sanityCheck)
       /\ r.hdr[x].next = IF x = s THEN NULL
                          ELSE IF x = m.hdr[s].prev THEN m.hdr[s].next
                          ELSE m.hdr[x].next
       /\ r.hdr[x].prev = IF x = s THEN NULL
                          ELSE IF x = m.hdr[s].next THEN m.hdr[s].prev
                          ELSE m.hdr[x].prev

\* What allocateMemSlot does to a slot of just the size, but for memList.
LEMMA ExactIs ==
  ASSUME NEW m \in MemoryType, Graded(m), NEW s \in DOMAIN m.hdr
  PROVE  Exact(m, [unlink(m, s) EXCEPT !.hdr[s] = Header(m.hdr[s].size, NULL, NULL, TRUE)], s)
<1> DEFINE p == m.hdr[s].prev
           q == m.hdr[s].next
           u == SetNext(m, p, q)
           v == SetPrev(u, q, p)
           w == [v EXCEPT !.memList = q]
           h == Header(m.hdr[s].size, NULL, NULL, TRUE)
           r == [w EXCEPT !.hdr[s] = h]
<1>1. /\ p \in Ptr /\ q \in Ptr
      /\ p \in DOMAIN m.hdr \cup {NULL} /\ q \in DOMAIN m.hdr \cup {NULL}
  BY Fields DEF Graded
<1>2. unlink(m, s) = w
  BY DEF unlink
<1>3. h \in Hdr /\ h.size = m.hdr[s].size /\ h.next = NULL /\ h.prev = NULL /\ h.sanityCheck = TRUE
  BY Fields DEF Hdr, Header, Ptr
<1> HIDE DEF p, q
<1>4. /\ u \in MemoryType /\ DOMAIN u.hdr = DOMAIN m.hdr
      /\ \A x \in DOMAIN m.hdr :
           /\ u.hdr[x].size = m.hdr[x].size
           /\ u.hdr[x].sanityCheck = m.hdr[x].sanityCheck
           /\ u.hdr[x].prev = m.hdr[x].prev
           /\ u.hdr[x].next = IF x = p THEN q ELSE m.hdr[x].next
  <2>1. NextSet(m, u, p, q)
    BY <1>1, SetNextIs
  <2> HIDE DEF u
  <2> QED BY <2>1 DEF NextSet, SameSizes
<1> HIDE DEF u
<1>5. /\ v \in MemoryType /\ DOMAIN v.hdr = DOMAIN m.hdr
      /\ \A x \in DOMAIN m.hdr :
           /\ v.hdr[x].size = m.hdr[x].size
           /\ v.hdr[x].sanityCheck = m.hdr[x].sanityCheck
           /\ v.hdr[x].next = IF x = p THEN q ELSE m.hdr[x].next
           /\ v.hdr[x].prev = IF x = q THEN p ELSE m.hdr[x].prev
  <2>1. q \in DOMAIN u.hdr \cup {NULL}
    BY <1>1, <1>4
  <2>2. PrevSet(u, v, q, p)
    BY <1>1, <1>4, <2>1, SetPrevIs
  <2> HIDE DEF v
  <2> QED BY <1>4, <2>2 DEF PrevSet, SameSizes
<1> HIDE DEF v
<1>6. w \in MemoryType /\ w.memList = q /\ w.hdr = v.hdr
  BY <1>1, <1>5, SetListIs
<1> HIDE DEF w, h
<1>7. /\ r \in MemoryType /\ r.memList = q /\ DOMAIN r.hdr = DOMAIN m.hdr
      /\ \A x \in DOMAIN m.hdr : r.hdr[x] = IF x = s THEN h ELSE v.hdr[x]
  <2>1. s \in DOMAIN w.hdr
    BY <1>5, <1>6
  <2>2. HeaderSet(w, r, s, h)
    BY <1>3, <1>6, <2>1, SetHeaderIs
  <2> HIDE DEF r
  <2> QED BY <1>5, <1>6, <2>2 DEF HeaderSet
<1> HIDE DEF r
<1>8. ASSUME NEW x \in DOMAIN m.hdr
      PROVE  /\ r.hdr[x].size = m.hdr[x].size
             /\ r.hdr[x].sanityCheck = (x = s \/ m.hdr[x].sanityCheck)
             /\ r.hdr[x].next = IF x = s THEN NULL ELSE IF x = p THEN q ELSE m.hdr[x].next
             /\ r.hdr[x].prev = IF x = s THEN NULL ELSE IF x = q THEN p ELSE m.hdr[x].prev
  <2>1. CASE x = s
    <3>1. r.hdr[x] = h
      BY <1>7, <2>1
    <3> QED BY <1>3, <2>1, <3>1
  <2>2. CASE x # s
    <3>1. r.hdr[x] = v.hdr[x]
      BY <1>7, <2>2
    <3>2. m.hdr[x].sanityCheck \in BOOLEAN
      BY Fields
    <3> QED BY <1>5, <2>2, <3>1, <3>2
  <2> QED BY <2>1, <2>2
<1>9. Exact(m, r, s)
  BY <1>7, <1>8 DEF Exact, SameSizes, p, q
<1> QED BY <1>2, <1>9 DEF r, h

\* Links and marks do not matter to how the slots lie.
LEMMA LaidSame ==
  ASSUME NEW m \in MemoryType, NEW r, SameSizes(m, r), Laid(m)
  PROVE  Laid(r) /\ \A a \in DOMAIN m.hdr : End(r, a) = End(m, a)
<1>1. \A a \in DOMAIN m.hdr : End(r, a) = End(m, a)
  BY DEF SameSizes, End
<1>2. DOMAIN r.hdr = DOMAIN m.hdr /\ \A x \in DOMAIN m.hdr : r.hdr[x].size = m.hdr[x].size
  BY DEF SameSizes
<1>3. /\ freemem \in DOMAIN r.hdr
      /\ HOLEEND \in DOMAIN r.hdr
      /\ \A a \in DOMAIN r.hdr : Graned(a) => r.hdr[a].size \in Mult
  BY <1>2 DEF Laid
<1>4. \A a \in DOMAIN r.hdr : Inside(r, a)
  BY <1>1, <1>2 DEF Laid, Inside
<1>5. \A a \in DOMAIN r.hdr : Followed(r, a)
  BY <1>1, <1>2 DEF Laid, Followed
<1>6. \A a, b \in DOMAIN r.hdr : a < b => End(r, a) <= b
  BY <1>1, <1>2 DEF Laid
<1> QED BY <1>1, <1>3, <1>4, <1>5, <1>6 DEF Laid

Rest(m, L, s) == IF m.hdr[s].next = NULL THEN {} ELSE L \ {s}

\* The list without the slot that was taken is sound.
LEMMA ExactSound ==
  ASSUME NEW m, NEW L, Sound(m, L), NEW s \in L, NEW r, Exact(m, r, s)
  PROVE  /\ Sound(r, Rest(m, L, s))
         /\ r.memList # NULL => r.memList \in Rest(m, L, s)
<1> DEFINE p == m.hdr[s].prev
           q == m.hdr[s].next
           K == Rest(m, L, s)
           D == DOMAIN m.hdr
           nx(x) == m.hdr[x].next
           pv(x) == m.hdr[x].prev
<1>1. /\ m \in MemoryType /\ D \subseteq Nat /\ L \subseteq D /\ s \in D
      /\ NULL \notin D
  BY Fields, Constants DEF Sound, Chained
<1>2. /\ r \in MemoryType /\ DOMAIN r.hdr = D
      /\ r.memList = q
      /\ \A x \in D :
           /\ r.hdr[x].sanityCheck = (x = s \/ m.hdr[x].sanityCheck)
           /\ r.hdr[x].next = IF x = s THEN NULL ELSE IF x = p THEN q ELSE nx(x)
           /\ r.hdr[x].prev = IF x = s THEN NULL ELSE IF x = q THEN p ELSE pv(x)
  BY DEF Exact, SameSizes
<1>3. \A x \in L :
        /\ nx(x) # NULL => nx(x) \in L /\ pv(nx(x)) = x /\ \A b \in L : b <= x \/ nx(x) <= b
        /\ nx(x) = NULL => \A b \in L : b <= x
        /\ pv(x) # NULL => pv(x) \in L /\ nx(pv(x)) = x
        /\ pv(x) = NULL => \A b \in L : x <= b
  BY DEF Sound, Chained
<1>4. \A x \in D :
        /\ x <= maxaddr
        /\ nx(x) # NULL => nx(x) \in D /\ x < nx(x)
        /\ pv(x) # NULL => pv(x) \in D /\ pv(x) < x
  BY DEF Sound, Graded
<1>5. /\ \A x \in D \ L : nx(x) \notin L /\ pv(x) \notin L
      /\ \A x \in D : m.hdr[x].sanityCheck => x \notin L /\ nx(x) = NULL /\ pv(x) = NULL
  BY DEF Sound, Outside
<1>6. Laid(r)
  BY LaidSame DEF Sound, Exact
<1>7. K = IF q = NULL THEN {} ELSE L \ {s}
  BY DEF Rest
<1> HIDE DEF K, D, nx, pv
<1>8. /\ p # NULL => p \in L /\ nx(p) = s /\ p < s /\ p \in D
      /\ q # NULL => q \in L /\ pv(q) = s /\ s < q /\ q \in D
      /\ p # s /\ q # s
      /\ nx(s) = q /\ pv(s) = p
      /\ s \in Nat
      /\ p # NULL => p \in Nat /\ p # q
      /\ q # NULL => q \in Nat /\ p # q
  <2>1. nx(s) = q /\ pv(s) = p
    BY DEF nx, pv
  <2>2. s # NULL
    BY <1>1
  <2> HIDE DEF p, q
  <2>3. /\ p # NULL => p \in L /\ nx(p) = s /\ p < s /\ p \in D
        /\ q # NULL => q \in L /\ pv(q) = s /\ s < q /\ q \in D
    BY <1>1, <1>3, <1>4, <2>1
  <2>4. s \in Nat
    BY <1>1
  <2>5. (p # NULL => p \in Nat) /\ (q # NULL => q \in Nat)
    BY <1>1, <2>3
  <2>6. (p # NULL \/ q # NULL) => p # q
    BY <2>3, <2>4, <2>5
  <2> QED BY <2>1, <2>2, <2>3, <2>4, <2>5, <2>6
<1> HIDE DEF p, q
<1>9. Graded(r)
  <2> SUFFICES ASSUME NEW x \in D
               PROVE  /\ x <= maxaddr
                      /\ r.hdr[x].next # NULL => r.hdr[x].next \in D /\ x < r.hdr[x].next
                      /\ r.hdr[x].prev # NULL => r.hdr[x].prev \in D /\ r.hdr[x].prev < x
    BY <1>2 DEF Graded
  <2>1. r.hdr[x].next # NULL => r.hdr[x].next \in D /\ x < r.hdr[x].next
    <3>1. CASE x = s
      BY <1>2, <3>1
    <3>2. CASE x # s /\ x = p
      <4>1. r.hdr[x].next = q
        BY <1>2, <3>2
      <4>2. x # NULL /\ x \in Nat
        BY <1>1
      <4> QED BY <1>8, <3>2, <4>1, <4>2
    <3>3. CASE x # s /\ x # p
      BY <1>2, <1>4, <3>3
    <3> QED BY <3>1, <3>2, <3>3
  <2>2. r.hdr[x].prev # NULL => r.hdr[x].prev \in D /\ r.hdr[x].prev < x
    <3>1. CASE x = s
      BY <1>2, <3>1
    <3>2. CASE x # s /\ x = q
      <4>1. r.hdr[x].prev = p
        BY <1>2, <3>2
      <4>2. x # NULL /\ x \in Nat
        BY <1>1
      <4> QED BY <1>8, <3>2, <4>1, <4>2
    <3>3. CASE x # s /\ x # q
      BY <1>2, <1>4, <3>3
    <3> QED BY <3>1, <3>2, <3>3
  <2> QED BY <1>4, <2>1, <2>2
<1>10. Chained(r, K)
  <2>1. K \subseteq D
    BY <1>1, <1>7
  <2>2. CASE q = NULL
    BY <1>7, <2>1, <2>2 DEF Chained
  <2>3. CASE q # NULL
    <3>1. K = L \ {s}
      BY <1>7, <2>3
    <3> SUFFICES ASSUME NEW x \in K
                 PROVE  /\ r.hdr[x].next # NULL =>
                             /\ r.hdr[x].next \in K
                             /\ r.hdr[r.hdr[x].next].prev = x
                             /\ \A b \in K : b <= x \/ r.hdr[x].next <= b
                        /\ r.hdr[x].next = NULL => \A b \in K : b <= x
                        /\ r.hdr[x].prev # NULL =>
                             /\ r.hdr[x].prev \in K
                             /\ r.hdr[r.hdr[x].prev].next = x
                        /\ r.hdr[x].prev = NULL => \A b \in K : x <= b
      BY <1>2, <2>1 DEF Chained
    <3>2. x \in L /\ x \in D /\ x # s /\ x \in Nat
      BY <1>1, <3>1
    <3>3. CASE x = p
      <4>1. r.hdr[x].next = q /\ r.hdr[q].prev = p /\ q \in K /\ p # NULL
        BY <1>1, <1>2, <1>8, <2>3, <3>1, <3>2, <3>3
      <4>2. \A b \in K : b <= x \/ q <= b
        <5> TAKE b \in K
        <5>1. b \in L /\ b # s /\ b \in Nat
          BY <1>1, <3>1
        <5>2. (b <= x \/ s <= b) /\ (b <= s \/ q <= b)
          BY <1>3, <1>8, <2>3, <3>2, <3>3, <4>1, <5>1
        <5> QED BY <5>1, <5>2, <1>1
      <4>3. x # q
        BY <1>8, <2>3, <3>3
      <4>4. r.hdr[x].prev = pv(x)
        BY <1>2, <3>2, <4>3
      <4>5. pv(x) # s
        BY <1>1, <1>8, <3>2, <3>3, <1>4, <4>1
      <4>6. pv(x) # NULL => pv(x) \in K /\ pv(x) # p /\ nx(pv(x)) = x /\ pv(x) \in D
        BY <1>1, <1>3, <1>4, <3>1, <3>2, <3>3, <4>5
      <4>7. pv(x) # NULL => r.hdr[pv(x)].next = x
        BY <1>2, <4>5, <4>6
      <4>8. pv(x) = NULL => \A b \in K : x <= b
        BY <1>3, <3>1, <3>2
      <4> QED BY <2>3, <3>3, <4>1, <4>2, <4>4, <4>6, <4>7, <4>8
    <3>4. CASE x = q
      <4>1. r.hdr[x].prev = p
        BY <1>2, <3>2, <3>4
      <4>2. p # NULL => p \in K /\ r.hdr[p].next = x
        BY <1>1, <1>2, <1>8, <3>1, <3>4
      <4>3. p = NULL => \A b \in K : x <= b
        <5> SUFFICES ASSUME p = NULL, NEW b \in K PROVE x <= b
          OBVIOUS
        <5>1. b \in L /\ b # s /\ b \in Nat /\ s \in Nat
          BY <1>1, <3>1
        <5>2. s <= b /\ (b <= s \/ q <= b)
          BY <1>3, <1>8, <2>3, <5>1
        <5> QED BY <5>1, <5>2, <3>4
      <4>4. x # p
        BY <1>8, <2>3, <3>4
      <4>5. r.hdr[x].next = nx(x)
        BY <1>2, <3>2, <4>4
      <4>6. nx(x) # NULL => nx(x) \in K /\ nx(x) # q /\ nx(x) \in D /\ nx(x) # s
        BY <1>1, <1>3, <1>4, <1>8, <3>1, <3>2, <3>4
      <4>7. nx(x) # NULL => r.hdr[nx(x)].prev = x
        <5> SUFFICES ASSUME nx(x) # NULL PROVE r.hdr[nx(x)].prev = x
          OBVIOUS
        <5>1. r.hdr[nx(x)].prev = pv(nx(x))
          BY <1>2, <4>6
        <5>2. pv(nx(x)) = x
          BY <1>3, <3>2
        <5> QED BY <5>1, <5>2
      <4>8. nx(x) # NULL => \A b \in K : b <= x \/ nx(x) <= b
        BY <1>3, <3>1, <3>2
      <4>9. nx(x) = NULL => \A b \in K : b <= x
        BY <1>3, <3>1, <3>2
      <4> QED BY <4>1, <4>2, <4>3, <4>5, <4>6, <4>7, <4>8, <4>9
    <3>5. CASE x # p /\ x # q
      <4>1. r.hdr[x].next = nx(x) /\ r.hdr[x].prev = pv(x)
        BY <1>2, <3>2, <3>5
      <4>2. nx(x) # NULL => nx(x) \in K /\ nx(x) # q /\ nx(x) \in D /\ nx(x) # s
        BY <1>1, <1>3, <1>8, <3>1, <3>2, <3>5
      <4>3. nx(x) # NULL => r.hdr[nx(x)].prev = x
        <5> SUFFICES ASSUME nx(x) # NULL PROVE r.hdr[nx(x)].prev = x
          OBVIOUS
        <5>1. r.hdr[nx(x)].prev = pv(nx(x))
          BY <1>2, <4>2
        <5>2. pv(nx(x)) = x
          BY <1>3, <3>2
        <5> QED BY <5>1, <5>2
      <4>4. pv(x) # NULL => pv(x) \in K /\ pv(x) # p /\ pv(x) \in D /\ pv(x) # s
        BY <1>1, <1>3, <1>8, <3>1, <3>2, <3>5
      <4>5. pv(x) # NULL => r.hdr[pv(x)].next = x
        <5> SUFFICES ASSUME pv(x) # NULL PROVE r.hdr[pv(x)].next = x
          OBVIOUS
        <5>1. r.hdr[pv(x)].next = nx(pv(x))
          BY <1>2, <4>4
        <5>2. nx(pv(x)) = x
          BY <1>3, <3>2
        <5> QED BY <5>1, <5>2
      <4>6. /\ nx(x) # NULL => \A b \in K : b <= x \/ nx(x) <= b
            /\ nx(x) = NULL => \A b \in K : b <= x
            /\ pv(x) = NULL => \A b \in K : x <= b
        BY <1>3, <3>1, <3>2
      <4> QED BY <4>1, <4>2, <4>3, <4>4, <4>5, <4>6
    <3> QED BY <3>3, <3>4, <3>5
  <2> QED BY <2>2, <2>3
<1>11. Outside(r, K)
  <2>1. K \subseteq L /\ NULL \notin K /\ s \notin K
    BY <1>1, <1>7
  <2>2. ASSUME NEW x \in D \ K
        PROVE  r.hdr[x].next \notin K /\ r.hdr[x].prev \notin K
    <3>1. CASE K = {}
      BY <3>1
    <3>2. CASE x = s
      BY <1>2, <2>1, <3>2
    <3>3. CASE K # {} /\ x # s
      <4>1. x \notin L
        BY <1>7, <3>3
      <4>2. x # p /\ x # q
        BY <1>1, <1>8, <4>1
      <4> QED BY <1>2, <1>5, <2>1, <3>3, <4>1, <4>2
    <3> QED BY <3>1, <3>2, <3>3
  <2>3. ASSUME NEW x \in D, r.hdr[x].sanityCheck
        PROVE  x \notin K /\ r.hdr[x].next = NULL /\ r.hdr[x].prev = NULL
    <3>1. CASE x = s
      BY <1>2, <2>1, <3>1
    <3>2. CASE x # s
      <4>1. x \notin L /\ nx(x) = NULL /\ pv(x) = NULL
        BY <1>2, <1>5, <2>3, <3>2
      <4>2. x # p /\ x # q
        BY <1>1, <1>8, <4>1
      <4> QED BY <1>2, <2>1, <3>2, <4>1, <4>2
    <3> QED BY <3>1, <3>2
  <2> QED BY <1>2, <2>2, <2>3 DEF Outside
<1>12. r.memList # NULL => r.memList \in K
  BY <1>2, <1>7, <1>8
<1>13. Unowned(r)
  <2>1. \A x \in D : /\ nx(x) # NULL => ~ m.hdr[nx(x)].sanityCheck
                     /\ pv(x) # NULL => ~ m.hdr[pv(x)].sanityCheck
    BY DEF Sound, Unowned, D, nx, pv
  <2>2. \A x \in D : /\ x # p => nx(x) # s
                     /\ x # q => pv(x) # s
    <3> TAKE x \in D
    <3>1. CASE x \in L
      BY <1>1, <1>3, <1>8, <3>1
    <3>2. CASE x \notin L
      BY <1>5, <3>2
    <3> QED BY <3>1, <3>2
  <2>3. \A y \in L : ~ m.hdr[y].sanityCheck
    BY <1>1, <1>5
  <2>4. ASSUME NEW x \in D
        PROVE  /\ r.hdr[x].next # NULL => ~ r.hdr[r.hdr[x].next].sanityCheck
               /\ r.hdr[x].prev # NULL => ~ r.hdr[r.hdr[x].prev].sanityCheck
    <3>1. ASSUME NEW y \in D, y # s, ~ m.hdr[y].sanityCheck PROVE ~ r.hdr[y].sanityCheck
      BY <1>2, <3>1
    <3>2. /\ q # NULL => ~ r.hdr[q].sanityCheck
          /\ p # NULL => ~ r.hdr[p].sanityCheck
      BY <1>8, <2>3, <3>1
    <3>3. /\ nx(x) # NULL /\ x # p => ~ r.hdr[nx(x)].sanityCheck
          /\ pv(x) # NULL /\ x # q => ~ r.hdr[pv(x)].sanityCheck
      BY <1>4, <2>1, <2>2, <3>1
    <3>4. CASE x = s
      BY <1>2, <3>4
    <3>5. CASE x # s
      BY <1>2, <3>2, <3>3, <3>5
    <3> QED BY <3>4, <3>5
  <2> QED BY <1>2, <2>4 DEF Unowned
<1> QED BY <1>2, <1>6, <1>9, <1>10, <1>11, <1>12, <1>13 DEF Sound, K
-----------------------------------------------------------------------------
(***************************************************************************)
(* A larger slot is cut: its rest takes its place in the list.             *)
(***************************************************************************)
RestOf(s, n) == s + n + MEM_HEADER_SIZE

Cut(m, r, s, n) ==
  /\ r \in MemoryType
  /\ r.memList = RestOf(s, n)
  /\ DOMAIN r.hdr = DOMAIN m.hdr \cup {RestOf(s, n)}
  /\ \A x \in DOMAIN r.hdr :
       /\ r.hdr[x].size = IF x = s THEN n
                          ELSE IF x = RestOf(s, n) THEN m.hdr[s].size - n - MEM_HEADER_SIZE
                          ELSE m.hdr[x].size
       /\ r.hdr[x].sanityCheck = IF x = s THEN TRUE
                                 ELSE IF x = RestOf(s, n) THEN FALSE
                                 ELSE m.hdr[x].sanityCheck
       /\ r.hdr[x].next = IF x = s THEN NULL
                          ELSE IF x = RestOf(s, n) THEN m.hdr[s].next
                          ELSE IF x = m.hdr[s].prev THEN RestOf(s, n)
                          ELSE m.hdr[x].next
       /\ r.hdr[x].prev = IF x = s THEN NULL
                          ELSE IF x = RestOf(s, n) THEN m.hdr[s].prev
                          ELSE IF x = m.hdr[s].next THEN RestOf(s, n)
                          ELSE m.hdr[x].prev

\* The rest begins inside the slot.
LEMMA RestIs ==
  ASSUME NEW m \in MemoryType, Laid(m), NEW s \in DOMAIN m.hdr, NEW n \in Mult,
         n + MEM_HEADER_SIZE <= m.hdr[s].size
  PROVE  /\ n \in Nat
         /\ RestOf(s, n) \in Nat
         /\ s < RestOf(s, n)
         /\ RestOf(s, n) < End(m, s)
         /\ RestOf(s, n) \notin DOMAIN m.hdr
         /\ \A b \in DOMAIN m.hdr : s < b => RestOf(s, n) < b /\ End(m, s) <= b
         /\ \A b \in DOMAIN m.hdr : b <= s => b < RestOf(s, n)
         /\ Graned(RestOf(s, n)) => m.hdr[s].size - n - MEM_HEADER_SIZE \in Mult
         /\ m.hdr[s].size - n - MEM_HEADER_SIZE \in Nat
         /\ Wrapped(m.hdr[s].size - n - MEM_HEADER_SIZE) = m.hdr[s].size - n - MEM_HEADER_SIZE
<1>1. /\ s \in Nat /\ m.hdr[s].size \in Nat /\ n \in Nat
      /\ DOMAIN m.hdr \subseteq Nat
  BY Fields, MultNat
<1>2. /\ MEM_HEADER_SIZE \in Nat /\ MEM_HEADER_SIZE > 0 /\ MEM_HEADER_SIZE = GRAIN
  BY Constants, Machine
<1>3. RestOf(s, n) \in Nat /\ s < RestOf(s, n) /\ RestOf(s, n) < End(m, s)
  BY <1>1, <1>2 DEF RestOf, End
<1>4. \A b \in DOMAIN m.hdr : s < b => End(m, s) <= b
  BY DEF Laid
<1>5. End(m, s) \in Nat /\ End(m, s) <= maxaddr
  BY EndIs
<1>6. \A b \in DOMAIN m.hdr : s < b => RestOf(s, n) < b /\ End(m, s) <= b
  BY <1>1, <1>3, <1>4, <1>5
<1>7. \A b \in DOMAIN m.hdr : b <= s => b < RestOf(s, n)
  BY <1>1, <1>3
<1>8. RestOf(s, n) \notin DOMAIN m.hdr
  BY <1>1, <1>3, <1>6
<1>9. Graned(RestOf(s, n)) => m.hdr[s].size - n - MEM_HEADER_SIZE \in Mult
  <2> SUFFICES ASSUME Graned(RestOf(s, n))
               PROVE  m.hdr[s].size - n - MEM_HEADER_SIZE \in Mult
    OBVIOUS
  <2>1. Graned(s)
    <3>1. \/ freemem <= s /\ End(m, s) <= HOLESTART
          \/ HOLEEND <= s /\ End(m, s) <= maxaddr
      BY DEF Laid, Inside
    <3>2. HOLEEND <= RestOf(s, n) => HOLEEND <= s
      BY <1>1, <1>3, <1>5, <3>1, Constants
    <3> QED BY <3>2 DEF Graned
  <2>2. m.hdr[s].size \in Mult
    BY <2>1 DEF Laid
  <2>3. n < m.hdr[s].size
    BY <1>1, <1>2
  <2> QED BY <1>1, <1>2, <2>2, <2>3, MultDifference
<1>10. m.hdr[s].size - n - MEM_HEADER_SIZE \in Nat
  BY <1>1, <1>2
<1>11. m.hdr[s].size - n - MEM_HEADER_SIZE <= ULONG_MAX
  <2>1. m.hdr[s].size <= maxaddr
    BY <1>1, <1>2, <1>5, Constants DEF End
  <2> QED BY <1>1, <1>2, <2>1, Constants, Machine
<1> QED BY <1>1, <1>3, <1>6, <1>7, <1>8, <1>9, <1>10, <1>11, NotWrapped

\* What allocateMemSlot does to a larger slot, but for memList.
LEMMA CutIs ==
  ASSUME NEW m \in MemoryType, Graded(m), Laid(m), NEW s \in DOMAIN m.hdr,
         NEW n \in Mult, n + MEM_HEADER_SIZE <= m.hdr[s].size
  PROVE  Cut(m, [split(m, s, n) EXCEPT !.hdr[s] = Header(n, NULL, NULL, TRUE)], s, n)
<1> DEFINE p == m.hdr[s].prev
           q == m.hdr[s].next
           D == DOMAIN m.hdr
           rest == RestOf(s, n)
           left == m.hdr[s].size - n - MEM_HEADER_SIZE
           first == Header(left, p, q, FALSE)
           cut == [memList |-> rest,
                   hdr |-> [a \in D \cup {rest} |-> IF a = rest THEN first ELSE m.hdr[a]]]
           u == SetPrev(cut, q, rest)
           v == SetNext(u, p, rest)
           h == Header(n, NULL, NULL, TRUE)
           r == [v EXCEPT !.hdr[s] = h]
<1>1. /\ p \in Ptr /\ q \in Ptr /\ p \in D \cup {NULL} /\ q \in D \cup {NULL}
      /\ D \subseteq Nat /\ \A a \in D : m.hdr[a] \in Hdr
  BY Fields DEF Graded
<1>2. /\ n \in Nat /\ rest \in Nat /\ rest \notin D /\ left \in Nat /\ s # rest
      /\ Wrapped(left) = left /\ rest \in Ptr
  <2>1. s \in Nat
    BY <1>1
  <2> QED BY <2>1, RestIs DEF Ptr
<1>3. split(m, s, n) = v
  BY <1>2 DEF split, splitLeaving, RestOf
<1>4. h \in Hdr /\ h.size = n /\ h.next = NULL /\ h.prev = NULL /\ h.sanityCheck = TRUE
  BY <1>2 DEF Hdr, Header, Ptr
<1>5. /\ first \in Hdr /\ first.size = left /\ first.next = q /\ first.prev = p
      /\ first.sanityCheck = FALSE
  BY <1>1, <1>2 DEF Hdr, Header
<1> HIDE DEF p, q, rest, left, first, h
<1>6. /\ cut \in MemoryType /\ DOMAIN cut.hdr = D \cup {rest} /\ cut.memList = rest
      /\ \A x \in D \cup {rest} : cut.hdr[x] = IF x = rest THEN first ELSE m.hdr[x]
  <2> DEFINE f == [a \in D \cup {rest} |-> IF a = rest THEN first ELSE m.hdr[a]]
  <2>1. D \cup {rest} \in SUBSET Nat
    BY <1>1, <1>2
  <2>2. f \in [D \cup {rest} -> Hdr]
    <3> HIDE DEF D
    <3> QED BY <1>1, <1>5
  <2>3. /\ DOMAIN f = D \cup {rest}
        /\ \A x \in D \cup {rest} : f[x] = IF x = rest THEN first ELSE m.hdr[x]
    <3> HIDE DEF D
    <3> QED OBVIOUS
  <2>4. cut.hdr = f /\ cut.memList = rest /\ cut = [memList |-> rest, hdr |-> f]
    OBVIOUS
  <2> HIDE DEF f, cut, D
  <2> QED BY <1>2, <2>1, <2>2, <2>3, <2>4 DEF MemoryType
<1> HIDE DEF cut, D
<1>7. /\ u \in MemoryType /\ DOMAIN u.hdr = D \cup {rest} /\ u.memList = rest
      /\ \A x \in D \cup {rest} :
           /\ u.hdr[x].size = cut.hdr[x].size
           /\ u.hdr[x].sanityCheck = cut.hdr[x].sanityCheck
           /\ u.hdr[x].next = cut.hdr[x].next
           /\ u.hdr[x].prev = IF x = q THEN rest ELSE cut.hdr[x].prev
  <2>1. q \in DOMAIN cut.hdr \cup {NULL}
    BY <1>1, <1>6
  <2>2. PrevSet(cut, u, q, rest)
    BY <1>2, <1>6, <2>1, SetPrevIs
  <2> HIDE DEF u
  <2> QED BY <1>6, <2>2 DEF PrevSet, SameSizes
<1> HIDE DEF u
<1>8. /\ v \in MemoryType /\ DOMAIN v.hdr = D \cup {rest} /\ v.memList = rest
      /\ \A x \in D \cup {rest} :
           /\ v.hdr[x].size = u.hdr[x].size
           /\ v.hdr[x].sanityCheck = u.hdr[x].sanityCheck
           /\ v.hdr[x].prev = u.hdr[x].prev
           /\ v.hdr[x].next = IF x = p THEN rest ELSE u.hdr[x].next
  <2>1. p \in DOMAIN u.hdr \cup {NULL}
    BY <1>1, <1>7
  <2>2. NextSet(u, v, p, rest)
    BY <1>2, <1>7, <2>1, SetNextIs
  <2> HIDE DEF v
  <2> QED BY <1>7, <2>2 DEF NextSet, SameSizes
<1> HIDE DEF v
<1>9. /\ r \in MemoryType /\ r.memList = rest /\ DOMAIN r.hdr = D \cup {rest}
      /\ \A x \in D \cup {rest} : r.hdr[x] = IF x = s THEN h ELSE v.hdr[x]
  <2>1. s \in DOMAIN v.hdr
    BY <1>8 DEF D
  <2>2. HeaderSet(v, r, s, h)
    BY <1>4, <1>8, <2>1, SetHeaderIs
  <2> HIDE DEF r
  <2> QED BY <1>8, <2>2 DEF HeaderSet
<1> HIDE DEF r
<1>10. p # rest /\ q # rest
  BY <1>1, <1>2, Constants
<1>11. ASSUME NEW x \in D \cup {rest}
       PROVE  /\ r.hdr[x].size = IF x = s THEN n ELSE IF x = rest THEN left ELSE m.hdr[x].size
              /\ r.hdr[x].sanityCheck = IF x = s THEN TRUE ELSE IF x = rest THEN FALSE
                                        ELSE m.hdr[x].sanityCheck
              /\ r.hdr[x].next = IF x = s THEN NULL ELSE IF x = rest THEN q
                                 ELSE IF x = p THEN rest ELSE m.hdr[x].next
              /\ r.hdr[x].prev = IF x = s THEN NULL ELSE IF x = rest THEN p
                                 ELSE IF x = q THEN rest ELSE m.hdr[x].prev
  <2>1. CASE x = s
    <3>1. r.hdr[x] = h
      BY <1>9, <2>1
    <3> QED BY <1>4, <2>1, <3>1
  <2>2. CASE x = rest
    <3>1. r.hdr[x] = v.hdr[x] /\ cut.hdr[x] = first
      BY <1>2, <1>6, <1>9, <2>2
    <3>2. /\ v.hdr[x].size = u.hdr[x].size /\ v.hdr[x].sanityCheck = u.hdr[x].sanityCheck
          /\ v.hdr[x].prev = u.hdr[x].prev /\ v.hdr[x].next = u.hdr[x].next
      BY <1>8, <1>10, <2>2
    <3>3. /\ u.hdr[x].size = first.size /\ u.hdr[x].sanityCheck = first.sanityCheck
          /\ u.hdr[x].prev = first.prev /\ u.hdr[x].next = first.next
      BY <1>7, <1>10, <2>2, <3>1
    <3> QED BY <1>2, <1>5, <2>2, <3>1, <3>2, <3>3
  <2>3. CASE x # s /\ x # rest
    <3>1. r.hdr[x] = v.hdr[x] /\ cut.hdr[x] = m.hdr[x]
      BY <1>6, <1>9, <2>3
    <3> QED BY <1>7, <1>8, <2>3, <3>1
  <2> QED BY <2>1, <2>2, <2>3
<1>12. Cut(m, r, s, n)
  BY <1>9, <1>11 DEF Cut, p, q, rest, left, D
<1> QED BY <1>3, <1>12 DEF r, h

\* The two parts of a cut slot lie where it lay.
LEMMA CutLaid ==
  ASSUME NEW m \in MemoryType, Laid(m), NEW s \in DOMAIN m.hdr, NEW n \in Mult,
         n + MEM_HEADER_SIZE <= m.hdr[s].size, NEW r, Cut(m, r, s, n)
  PROVE  /\ Laid(r)
         /\ End(r, RestOf(s, n)) = End(m, s)
         /\ \A x \in DOMAIN m.hdr \ {s} : End(r, x) = End(m, x)
<1> DEFINE rest == RestOf(s, n)
           D == DOMAIN m.hdr
           left == m.hdr[s].size - n - MEM_HEADER_SIZE
<1>1. /\ D \subseteq Nat /\ s \in Nat /\ m.hdr[s].size \in Nat
      /\ \A x \in D : Graned(x) => m.hdr[x].size \in Mult
  BY Fields DEF Laid
<1>2. /\ n \in Nat /\ rest \in Nat /\ s < rest /\ rest < End(m, s) /\ rest \notin D
      /\ \A b \in D : s < b => rest < b /\ End(m, s) <= b
      /\ \A b \in D : b <= s => b < rest
      /\ (Graned(rest) => left \in Mult) /\ left \in Nat
  BY RestIs
<1>3. /\ DOMAIN r.hdr = D \cup {rest}
      /\ \A x \in D \cup {rest} :
           r.hdr[x].size = IF x = s THEN n ELSE IF x = rest THEN left ELSE m.hdr[x].size
  BY DEF Cut
<1>4. End(r, s) = rest
  <2>1. r.hdr[s].size = n
    BY <1>3
  <2>2. s + MEM_HEADER_SIZE + n = s + n + MEM_HEADER_SIZE
    BY <1>1, <1>2, Constants
  <2> QED BY <2>1, <2>2 DEF End, RestOf
<1>5. End(r, rest) = End(m, s)
  <2>1. r.hdr[rest].size = left
    BY <1>2, <1>3
  <2>2. (s + n + MEM_HEADER_SIZE) + MEM_HEADER_SIZE + (m.hdr[s].size - n - MEM_HEADER_SIZE)
          = s + MEM_HEADER_SIZE + m.hdr[s].size
    BY <1>1, <1>2, Constants
  <2> QED BY <2>1, <2>2 DEF End, RestOf
<1>6. \A x \in D \ {s} : End(r, x) = End(m, x)
  BY <1>2, <1>3 DEF End
<1> HIDE DEF rest, left
<1>7. End(m, s) \in Nat /\ \A x \in D : End(m, x) \in Nat /\ x < End(m, x) /\ End(m, x) <= maxaddr
  BY EndIs
<1>8. freemem \in DOMAIN r.hdr /\ HOLEEND \in DOMAIN r.hdr
  BY <1>3 DEF Laid
<1>9. \A x \in DOMAIN r.hdr : Graned(x) => r.hdr[x].size \in Mult
  BY <1>1, <1>2, <1>3
<1>10. ASSUME NEW x \in DOMAIN r.hdr PROVE Inside(r, x)
  <2>0. \/ freemem <= s /\ End(m, s) <= HOLESTART
        \/ HOLEEND <= s /\ End(m, s) <= maxaddr
    BY DEF Laid, Inside
  <2>1. CASE x = s
    BY <1>1, <1>2, <1>4, <1>7, <2>0, <2>1, Constants DEF Inside
  <2>2. CASE x = rest
    BY <1>1, <1>2, <1>5, <1>7, <2>0, <2>2, Constants DEF Inside
  <2>3. CASE x # s /\ x # rest
    BY <1>3, <1>6, <2>3 DEF Laid, Inside
  <2> QED BY <2>1, <2>2, <2>3
<1>11. ASSUME NEW x \in DOMAIN r.hdr PROVE Followed(r, x)
  <2>1. CASE x = s
    BY <1>3, <1>4, <2>1 DEF Followed
  <2>2. CASE x = rest
    <3>1. \/ End(m, s) \in D
          \/ End(m, s) = HOLESTART
          \/ HOLEEND <= s /\ maxaddr < End(m, s) + GRAIN
      BY DEF Laid, Followed
    <3>2. HOLEEND <= s => HOLEEND <= rest
      BY <1>1, <1>2, Constants
    <3> QED BY <1>3, <1>5, <2>2, <3>1, <3>2 DEF Followed
  <2>3. CASE x # s /\ x # rest
    <3>1. x \in D /\ End(r, x) = End(m, x)
      BY <1>3, <1>6, <2>3
    <3>2. \/ End(m, x) \in D
          \/ End(m, x) = HOLESTART
          \/ HOLEEND <= x /\ maxaddr < End(m, x) + GRAIN
      BY <3>1 DEF Laid, Followed
    <3> QED BY <1>3, <3>1, <3>2 DEF Followed
  <2> QED BY <2>1, <2>2, <2>3
<1>12. ASSUME NEW x \in DOMAIN r.hdr, NEW y \in DOMAIN r.hdr, x < y
       PROVE  End(r, x) <= y
  <2>0. \A b \in D : \A c \in D : b < c => End(m, b) <= c
    BY DEF Laid
  <2>1. CASE x = s
    <3>1. CASE y = rest
      BY <1>2, <1>4, <2>1, <3>1
    <3>2. CASE y # rest
      BY <1>1, <1>2, <1>3, <1>4, <1>12, <2>1, <3>2
    <3> QED BY <3>1, <3>2
  <2>2. CASE x = rest
    <3>1. y \in D /\ y \in Nat
      BY <1>1, <1>2, <1>3, <1>12, <2>2
    <3>2. s < y
      BY <1>1, <1>2, <1>12, <2>2, <3>1
    <3> QED BY <1>2, <1>5, <2>2, <3>1, <3>2
  <2>3. CASE x # s /\ x # rest
    <3>1. x \in D /\ End(r, x) = End(m, x) /\ x \in Nat
      BY <1>1, <1>3, <1>6, <2>3
    <3>2. CASE y = rest
      <4>1. CASE x < s
        <5>1. End(m, x) <= s
          BY <2>0, <3>1, <4>1
        <5> QED BY <1>1, <1>2, <1>7, <3>1, <3>2, <5>1
      <4>2. CASE ~ (x < s)
        <5>1. s < x
          BY <1>1, <2>3, <3>1, <4>2
        <5>2. rest < x
          BY <1>2, <3>1, <5>1
        <5> QED BY <1>2, <1>12, <3>1, <3>2, <5>2
      <4> QED BY <4>1, <4>2
    <3>3. CASE y # rest
      <4>1. y \in D
        BY <1>3, <3>3
      <4> QED BY <1>12, <2>0, <3>1, <4>1
    <3> QED BY <3>2, <3>3
  <2> QED BY <2>1, <2>2, <2>3
<1>13. Laid(r)
  BY <1>8, <1>9, <1>10, <1>11, <1>12 DEF Laid
<1> QED BY <1>5, <1>6, <1>13 DEF rest

\* The list with the rest in place of the slot is sound.
LEMMA CutSound ==
  ASSUME NEW m, NEW L, Sound(m, L), NEW s \in L, NEW n \in Mult,
         n + MEM_HEADER_SIZE <= m.hdr[s].size, NEW r, Cut(m, r, s, n)
  PROVE  /\ Sound(r, (L \ {s}) \cup {RestOf(s, n)})
         /\ r.memList \in (L \ {s}) \cup {RestOf(s, n)}
<1> DEFINE p == m.hdr[s].prev
           q == m.hdr[s].next
           rest == RestOf(s, n)
           K == (L \ {s}) \cup {rest}
           D == DOMAIN m.hdr
           nx(x) == m.hdr[x].next
           pv(x) == m.hdr[x].prev
<1>1. /\ m \in MemoryType /\ Laid(m) /\ D \subseteq Nat /\ L \subseteq D /\ s \in D
      /\ NULL \notin D /\ s \in Nat
  BY Fields, Constants DEF Sound, Chained
<1>2. /\ rest \in Nat /\ s < rest /\ rest < End(m, s) /\ rest \notin D
      /\ End(m, s) \in Nat /\ End(m, s) <= maxaddr
      /\ \A b \in D : s < b => rest < b
      /\ \A b \in D : b <= s => b < rest
  BY <1>1, RestIs, EndIs
<1>3. /\ r \in MemoryType /\ DOMAIN r.hdr = D \cup {rest} /\ r.memList = rest
      /\ \A x \in D \cup {rest} :
           /\ r.hdr[x].sanityCheck = IF x = s THEN TRUE ELSE IF x = rest THEN FALSE
                                     ELSE m.hdr[x].sanityCheck
           /\ r.hdr[x].next = IF x = s THEN NULL ELSE IF x = rest THEN q
                              ELSE IF x = p THEN rest ELSE nx(x)
           /\ r.hdr[x].prev = IF x = s THEN NULL ELSE IF x = rest THEN p
                              ELSE IF x = q THEN rest ELSE pv(x)
  BY DEF Cut
<1>4. \A x \in L :
        /\ nx(x) # NULL => nx(x) \in L /\ pv(nx(x)) = x /\ \A b \in L : b <= x \/ nx(x) <= b
        /\ nx(x) = NULL => \A b \in L : b <= x
        /\ pv(x) # NULL => pv(x) \in L /\ nx(pv(x)) = x
        /\ pv(x) = NULL => \A b \in L : x <= b
  BY DEF Sound, Chained
<1>5. \A x \in D :
        /\ x <= maxaddr
        /\ nx(x) # NULL => nx(x) \in D /\ x < nx(x)
        /\ pv(x) # NULL => pv(x) \in D /\ pv(x) < x
  BY DEF Sound, Graded
<1>6. /\ \A x \in D \ L : nx(x) \notin L /\ pv(x) \notin L
      /\ \A x \in D : m.hdr[x].sanityCheck => x \notin L /\ nx(x) = NULL /\ pv(x) = NULL
  BY DEF Sound, Outside
<1>7. Laid(r)
  BY <1>1, CutLaid
<1> HIDE DEF rest, D, nx, pv
<1>8. /\ p # NULL => p \in L /\ nx(p) = s /\ p < s /\ p \in D /\ p \in Nat /\ p # q /\ p < rest
      /\ q # NULL => q \in L /\ pv(q) = s /\ s < q /\ q \in D /\ q \in Nat /\ p # q /\ rest < q
      /\ p # s /\ q # s /\ p # rest /\ q # rest
      /\ nx(s) = q /\ pv(s) = p
  <2>1. nx(s) = q /\ pv(s) = p
    BY DEF nx, pv
  <2>2. s # NULL /\ rest # NULL
    BY <1>1, <1>2, Constants
  <2> HIDE DEF p, q
  <2>3. /\ p # NULL => p \in L /\ nx(p) = s /\ p < s /\ p \in D
        /\ q # NULL => q \in L /\ pv(q) = s /\ s < q /\ q \in D
    BY <1>1, <1>4, <1>5, <2>1
  <2>4. (p # NULL => p \in Nat) /\ (q # NULL => q \in Nat)
    BY <1>1, <2>3
  <2>5. (p # NULL \/ q # NULL) => p # q
    BY <1>1, <2>3, <2>4
  <2>6. (p # NULL => p < rest) /\ (q # NULL => rest < q)
    BY <1>1, <1>2, <2>3, <2>4
  <2>7. p # rest /\ q # rest
    BY <1>2, <2>2, <2>3
  <2>8. p # s /\ q # s
    BY <1>1, <2>2, <2>3, <2>4
  <2> QED BY <2>1, <2>3, <2>4, <2>5, <2>6, <2>7, <2>8
<1> HIDE DEF p, q, K
<1>9. /\ \A x \in K : x = rest \/ (x \in L /\ x # s /\ x # rest /\ x \in D)
      /\ \A x \in L : x # s => x \in K
      /\ rest \in K /\ K \subseteq D \cup {rest} /\ NULL \notin K /\ s \notin K
      /\ K \subseteq Nat
  BY <1>1, <1>2, Constants DEF K
<1>10. Graded(r)
  <2> SUFFICES ASSUME NEW x \in D \cup {rest}
               PROVE  /\ x <= maxaddr
                      /\ r.hdr[x].next # NULL =>
                           r.hdr[x].next \in D \cup {rest} /\ x < r.hdr[x].next
                      /\ r.hdr[x].prev # NULL =>
                           r.hdr[x].prev \in D \cup {rest} /\ r.hdr[x].prev < x
    BY <1>3 DEF Graded
  <2>1. x <= maxaddr
    BY <1>2, <1>5, Constants
  <2>2. r.hdr[x].next # NULL => r.hdr[x].next \in D \cup {rest} /\ x < r.hdr[x].next
    <3>1. CASE x = s
      BY <1>3, <3>1
    <3>2. CASE x = rest
      BY <1>2, <1>3, <1>8, <3>2
    <3>3. CASE x # s /\ x # rest /\ x = p
      <4>1. r.hdr[x].next = rest /\ x # NULL
        BY <1>1, <1>3, <3>3
      <4> QED BY <1>8, <3>3, <4>1
    <3>4. CASE x # s /\ x # rest /\ x # p
      <4>1. r.hdr[x].next = nx(x) /\ x \in D
        BY <1>3, <3>4
      <4> QED BY <1>5, <4>1
    <3> QED BY <3>1, <3>2, <3>3, <3>4
  <2>3. r.hdr[x].prev # NULL => r.hdr[x].prev \in D \cup {rest} /\ r.hdr[x].prev < x
    <3>1. CASE x = s
      BY <1>3, <3>1
    <3>2. CASE x = rest
      BY <1>2, <1>3, <1>8, <3>2
    <3>3. CASE x # s /\ x # rest /\ x = q
      <4>1. r.hdr[x].prev = rest /\ x # NULL
        BY <1>1, <1>3, <3>3
      <4> QED BY <1>8, <3>3, <4>1
    <3>4. CASE x # s /\ x # rest /\ x # q
      <4>1. r.hdr[x].prev = pv(x) /\ x \in D
        BY <1>3, <3>4
      <4> QED BY <1>5, <4>1
    <3> QED BY <3>1, <3>2, <3>3, <3>4
  <2> QED BY <2>1, <2>2, <2>3
<1>11. Chained(r, K)
  <2> SUFFICES ASSUME NEW x \in K
               PROVE  /\ r.hdr[x].next # NULL =>
                           /\ r.hdr[x].next \in K
                           /\ r.hdr[r.hdr[x].next].prev = x
                           /\ \A b \in K : b <= x \/ r.hdr[x].next <= b
                      /\ r.hdr[x].next = NULL => \A b \in K : b <= x
                      /\ r.hdr[x].prev # NULL =>
                           /\ r.hdr[x].prev \in K
                           /\ r.hdr[r.hdr[x].prev].next = x
                      /\ r.hdr[x].prev = NULL => \A b \in K : x <= b
    BY <1>3, <1>9 DEF Chained
  <2>0. x \in Nat /\ \A b \in K : b \in Nat
    BY <1>9
  <2>1. CASE x = rest
    <3>0. x \in D \cup {rest} /\ x # s
      BY <1>1, <1>2, <2>1
    <3>1. r.hdr[x].next = q /\ r.hdr[x].prev = p
      BY <1>3, <2>1, <3>0
    <3>2. q # NULL => q \in K /\ r.hdr[q].prev = x
      BY <1>3, <1>8, <1>9, <2>1
    <3>3. p # NULL => p \in K /\ r.hdr[p].next = x
      BY <1>3, <1>8, <1>9, <2>1
    <3>4. ASSUME NEW b \in K
          PROVE  /\ q # NULL => b <= x \/ q <= b
                 /\ q = NULL => b <= x
                 /\ p = NULL => x <= b
      <4>1. CASE b = rest
        BY <2>0, <2>1, <4>1
      <4>2. CASE b # rest
        <5>1. b \in L /\ b # s /\ b \in D /\ b \in Nat
          BY <1>9, <2>0, <4>2
        <5>2. (b <= s => b < rest) /\ (s < b => rest < b)
          BY <1>2, <5>1
        <5>3. /\ q # NULL => b <= s \/ q <= b
              /\ q = NULL => b <= s
              /\ p = NULL => s <= b
          BY <1>4, <1>8, <5>1
        <5> QED BY <1>1, <1>2, <2>1, <5>1, <5>2, <5>3
      <4> QED BY <4>1, <4>2
    <3> QED BY <3>1, <3>2, <3>3, <3>4
  <2>2. CASE x # rest
    <3>0. x \in L /\ x # s /\ x \in D
      BY <1>9, <2>2
    <3>1. \A b \in K : b # rest => b \in L /\ b # s /\ b \in D
      BY <1>9
    <3>2. /\ r.hdr[x].next # NULL =>
               /\ r.hdr[x].next \in K
               /\ r.hdr[r.hdr[x].next].prev = x
               /\ \A b \in K : b <= x \/ r.hdr[x].next <= b
          /\ r.hdr[x].next = NULL => \A b \in K : b <= x
      <4>1. CASE x = p
        <5>1. r.hdr[x].next = rest /\ r.hdr[rest].prev = x /\ p # NULL
          BY <1>1, <1>2, <1>3, <2>2, <3>0, <4>1
        <5>2. ASSUME NEW b \in K PROVE b <= x \/ rest <= b
          <6>1. CASE b = rest
            BY <1>2, <6>1
          <6>2. CASE b # rest
            <7>1. b <= x \/ s <= b
              BY <1>1, <1>4, <1>8, <3>0, <3>1, <4>1, <6>2
            <7>2. s < b => rest < b
              BY <1>2, <3>1, <6>2
            <7>3. b \in Nat /\ b # s
              BY <2>0, <3>1, <6>2
            <7>4. s <= b => s < b
              BY <1>1, <7>3
            <7> QED BY <7>1, <7>2, <7>3, <7>4, <1>2
          <6> QED BY <6>1, <6>2
        <5>3. rest # NULL
          BY <1>2, Constants
        <5> QED BY <1>9, <5>1, <5>2, <5>3
      <4>2. CASE x # p
        <5>1. r.hdr[x].next = nx(x)
          BY <1>3, <2>2, <3>0, <4>2
        <5>2. nx(x) # s
          BY <1>1, <1>4, <1>8, <3>0, <4>2
        <5>3. CASE nx(x) = NULL
          <6>1. s <= x
            BY <1>4, <3>0, <5>3
          <6>2. rest < x
            BY <1>1, <1>2, <2>0, <3>0, <6>1
          <6>3. ASSUME NEW b \in K PROVE b <= x
            BY <1>2, <1>4, <2>0, <3>0, <3>1, <5>3, <6>2
          <6> QED BY <5>1, <5>3, <6>3
        <5>4. CASE nx(x) # NULL
          <6>1. nx(x) \in L /\ pv(nx(x)) = x /\ nx(x) \in K /\ nx(x) \in D /\ nx(x) # q
            BY <1>1, <1>4, <1>8, <1>9, <3>0, <5>2, <5>4
          <6>2. r.hdr[nx(x)].prev = x
            <7>1. nx(x) # rest
              BY <1>2, <6>1
            <7>2. r.hdr[nx(x)].prev = pv(nx(x))
              BY <1>3, <5>2, <6>1, <7>1
            <7> QED BY <6>1, <7>2
          <6>3. ASSUME NEW b \in K PROVE b <= x \/ nx(x) <= b
            <7>1. CASE b = rest
              <8>1. s <= x \/ nx(x) <= s
                BY <1>4, <3>0, <5>4
              <8>2. CASE s <= x
                <9>1. s < x
                  BY <1>1, <2>0, <3>0, <8>2
                <9> QED BY <1>2, <2>0, <3>0, <7>1, <9>1
              <8>3. CASE nx(x) <= s
                <9>1. nx(x) < rest /\ nx(x) \in Nat
                  BY <1>1, <1>2, <6>1, <8>3
                <9> QED BY <1>2, <7>1, <9>1
              <8> QED BY <8>1, <8>2, <8>3
            <7>2. CASE b # rest
              BY <1>4, <3>0, <3>1, <5>4, <7>2
            <7> QED BY <7>1, <7>2
          <6> QED BY <5>1, <6>1, <6>2, <6>3, <5>4
        <5> QED BY <5>3, <5>4
      <4> QED BY <4>1, <4>2
    <3>3. /\ r.hdr[x].prev # NULL =>
               /\ r.hdr[x].prev \in K
               /\ r.hdr[r.hdr[x].prev].next = x
          /\ r.hdr[x].prev = NULL => \A b \in K : x <= b
      <4>1. CASE x = q
        <5>1. r.hdr[x].prev = rest /\ r.hdr[rest].next = x
          BY <1>1, <1>2, <1>3, <2>2, <3>0, <4>1
        <5>2. rest # NULL
          BY <1>2, Constants
        <5> QED BY <1>9, <5>1, <5>2
      <4>2. CASE x # q
        <5>1. r.hdr[x].prev = pv(x)
          BY <1>3, <2>2, <3>0, <4>2
        <5>2. pv(x) # s
          BY <1>1, <1>4, <1>8, <3>0, <4>2
        <5>3. CASE pv(x) = NULL
          <6>1. x <= s
            BY <1>1, <1>4, <3>0, <5>3
          <6>2. x < rest
            BY <1>2, <3>0, <6>1
          <6>3. ASSUME NEW b \in K PROVE x <= b
            BY <1>2, <1>4, <2>0, <3>0, <3>1, <5>3, <6>2
          <6> QED BY <5>1, <5>3, <6>3
        <5>4. CASE pv(x) # NULL
          <6>1. pv(x) \in L /\ nx(pv(x)) = x /\ pv(x) \in K /\ pv(x) \in D /\ pv(x) # p
            BY <1>1, <1>4, <1>8, <1>9, <3>0, <5>2, <5>4
          <6>2. r.hdr[pv(x)].next = x
            <7>1. pv(x) # rest
              BY <1>2, <6>1
            <7>2. r.hdr[pv(x)].next = nx(pv(x))
              BY <1>3, <5>2, <6>1, <7>1
            <7> QED BY <6>1, <7>2
          <6> QED BY <5>1, <6>1, <6>2, <5>4
        <5> QED BY <5>3, <5>4
      <4> QED BY <4>1, <4>2
    <3> QED BY <3>2, <3>3
  <2> QED BY <2>1, <2>2
<1>12. Outside(r, K)
  <2>1. ASSUME NEW x \in (D \cup {rest}) \ K
        PROVE  r.hdr[x].next \notin K /\ r.hdr[x].prev \notin K
    <3>1. CASE x = s
      BY ZenonT(60), <1>3, <1>9, <3>1
    <3>2. CASE x # s
      <4>1. x \in D /\ x \notin L /\ x # rest
        BY <1>9, <3>2
      <4>2. x # p /\ x # q
        BY <1>1, <1>8, <4>1
      <4>3. r.hdr[x].next = nx(x) /\ r.hdr[x].prev = pv(x)
        BY <1>3, <3>2, <4>1, <4>2
      <4>4. nx(x) \notin L /\ pv(x) \notin L
        BY <1>6, <4>1
      <4>5. nx(x) # rest /\ pv(x) # rest
        BY <1>2, <1>5, <4>1, Constants
      <4> QED BY <1>9, <4>3, <4>4, <4>5
    <3> QED BY <3>1, <3>2
  <2>2. ASSUME NEW x \in D \cup {rest}, r.hdr[x].sanityCheck
        PROVE  x \notin K /\ r.hdr[x].next = NULL /\ r.hdr[x].prev = NULL
    <3>1. CASE x = s
      BY <1>3, <1>9, <3>1
    <3>2. CASE x # s
      <4>1. x # rest
        BY <1>3, <2>2, <3>2
      <4>2. m.hdr[x].sanityCheck /\ x \in D
        BY <1>3, <2>2, <3>2, <4>1
      <4>3. x \notin L /\ nx(x) = NULL /\ pv(x) = NULL
        BY <1>6, <4>2
      <4>4. x # p /\ x # q
        BY <1>1, <1>8, <4>2, <4>3
      <4> QED BY <1>3, <1>9, <3>2, <4>1, <4>2, <4>3, <4>4
    <3> QED BY <3>1, <3>2
  <2> QED BY <1>3, <2>1, <2>2 DEF Outside
<1>13. Unowned(r)
  <2>1. \A x \in D : /\ nx(x) # NULL => ~ m.hdr[nx(x)].sanityCheck
                     /\ pv(x) # NULL => ~ m.hdr[pv(x)].sanityCheck
    BY DEF Sound, Unowned, D, nx, pv
  <2>2. \A x \in D : /\ x # p => nx(x) # s
                     /\ x # q => pv(x) # s
    <3> TAKE x \in D
    <3>1. CASE x \in L
      BY <1>1, <1>4, <1>8, <3>1
    <3>2. CASE x \notin L
      BY <1>6, <3>2
    <3> QED BY <3>1, <3>2
  <2>3. \A y \in L : ~ m.hdr[y].sanityCheck
    BY <1>1, <1>6
  <2>4. ASSUME NEW x \in D \cup {rest}
        PROVE  /\ r.hdr[x].next # NULL => ~ r.hdr[r.hdr[x].next].sanityCheck
               /\ r.hdr[x].prev # NULL => ~ r.hdr[r.hdr[x].prev].sanityCheck
    <3>1. ASSUME NEW y \in D, y # s, ~ m.hdr[y].sanityCheck PROVE ~ r.hdr[y].sanityCheck
      BY <1>3, <3>1
    <3>2. /\ q # NULL => ~ r.hdr[q].sanityCheck
          /\ p # NULL => ~ r.hdr[p].sanityCheck
      BY <1>8, <2>3, <3>1
    <3>3. ~ r.hdr[rest].sanityCheck
      BY <1>1, <1>2, <1>3
    <3>4. CASE x = s
      BY <1>3, <3>4
    <3>5. CASE x = rest
      <4>1. x # s
        BY <1>1, <1>2, <3>5
      <4> QED BY ZenonT(60), <1>3, <3>2, <3>5, <4>1
    <3>6. CASE x # s /\ x # rest
      <4>1. /\ nx(x) # NULL /\ x # p => ~ r.hdr[nx(x)].sanityCheck
            /\ pv(x) # NULL /\ x # q => ~ r.hdr[pv(x)].sanityCheck
        BY <1>5, <2>1, <2>2, <3>1, <3>6
      <4> QED BY <1>3, <3>3, <3>6, <4>1
    <3> QED BY <3>4, <3>5, <3>6
  <2> QED BY <1>3, <2>4 DEF Unowned
<1> QED BY <1>3, <1>7, <1>9, <1>10, <1>11, <1>12, <1>13 DEF Sound, K, rest
-----------------------------------------------------------------------------
(***************************************************************************)
(* A slot is put into the list between two neighbours, either of which may *)
(* be missing.                                                             *)
(***************************************************************************)
LinkSet(m, r, s, a, b) ==
  /\ SameSizes(m, r)
  /\ r.memList = m.memList
  /\ \A x \in DOMAIN m.hdr :
       /\ r.hdr[x].sanityCheck = (x # s /\ m.hdr[x].sanityCheck)
       /\ r.hdr[x].prev = IF x = s THEN a ELSE m.hdr[x].prev
       /\ r.hdr[x].next = IF x = s THEN b ELSE m.hdr[x].next

\* Replacing all headers.
LEMMA SetHdrIs ==
  ASSUME NEW m \in MemoryType, NEW D \in SUBSET Nat, NEW f \in [D -> Hdr]
  PROVE  [m EXCEPT !.hdr = f] \in MemoryType
BY DEF MemoryType

\* What taking the mark away changes.
LEMMA UnmarkIs ==
  ASSUME NEW m \in MemoryType, NEW s \in DOMAIN m.hdr
  PROVE  LinkSet(m, [m EXCEPT !.hdr[s].sanityCheck = FALSE], s, m.hdr[s].prev, m.hdr[s].next)
<1> DEFINE r == [m EXCEPT !.hdr[s].sanityCheck = FALSE]
<1>1. PICK D \in SUBSET Nat : m.hdr \in [D -> Hdr]
  BY DEF MemoryType
<1>2. D = DOMAIN m.hdr /\ s \in D
  BY <1>1
<1> DEFINE h == [m.hdr[s] EXCEPT !.sanityCheck = FALSE]
<1>3. r.hdr = [m.hdr EXCEPT ![s] = h] /\ r.memList = m.memList
  BY DEF MemoryType
<1>4. /\ h \in Hdr /\ h.size = m.hdr[s].size /\ h.prev = m.hdr[s].prev
      /\ h.next = m.hdr[s].next /\ h.sanityCheck = FALSE
  BY <1>1, <1>2 DEF Hdr
<1> HIDE DEF h
<1>5. r.hdr \in [D -> Hdr]
  BY ZenonT(60), <1>1, <1>2, <1>3, <1>4
<1>6. r \in MemoryType
  BY <1>5 DEF MemoryType
<1> HIDE DEF r
<1>7. \A x \in D : r.hdr[x] = IF x = s THEN h ELSE m.hdr[x]
  BY <1>1, <1>2, <1>3
<1>8. \A x \in D : m.hdr[x].sanityCheck \in BOOLEAN
  BY <1>2, Fields
<1>9. LinkSet(m, r, s, m.hdr[s].prev, m.hdr[s].next)
  BY <1>2, <1>3, <1>4, <1>5, <1>6, <1>7, <1>8 DEF LinkSet, SameSizes
<1> QED BY <1>9 DEF r

\* What giving a free slot its links changes.
LEMMA LinkIs ==
  ASSUME NEW m \in MemoryType, NEW s \in DOMAIN m.hdr, ~ m.hdr[s].sanityCheck,
         NEW a \in Ptr, NEW b \in Ptr
  PROVE  LinkSet(m, [m EXCEPT !.hdr[s].prev = a, !.hdr[s].next = b], s, a, b)
<1> DEFINE r == [m EXCEPT !.hdr[s].prev = a, !.hdr[s].next = b]
<1>1. PICK D \in SUBSET Nat : m.hdr \in [D -> Hdr]
  BY DEF MemoryType
<1>2. D = DOMAIN m.hdr /\ s \in D
  BY <1>1
<1> DEFINE g == [m.hdr[s] EXCEPT !.prev = a]
           f == [m.hdr EXCEPT ![s] = g]
           h == [f[s] EXCEPT !.next = b]
<1>3. r.hdr = [f EXCEPT ![s] = h] /\ r.memList = m.memList
  BY DEF MemoryType
<1>0. r = [[m EXCEPT !.hdr = f] EXCEPT !.hdr = r.hdr]
  BY DEF MemoryType
<1>4. f \in [D -> Hdr] /\ f[s] = g /\ \A x \in D : x # s => f[x] = m.hdr[x]
  BY <1>1, <1>2 DEF Hdr
<1>5. /\ g \in Hdr /\ g.size = m.hdr[s].size /\ g.prev = a
      /\ g.next = m.hdr[s].next /\ g.sanityCheck = m.hdr[s].sanityCheck
  BY <1>1, <1>2 DEF Hdr
<1> HIDE DEF f, g
<1>6. h \in Hdr /\ h.size = m.hdr[s].size /\ h.prev = a /\ h.next = b /\ ~ h.sanityCheck
  BY <1>4, <1>5 DEF Hdr
<1> HIDE DEF h
<1>7. r.hdr \in [D -> Hdr] /\ \A x \in D : r.hdr[x] = IF x = s THEN h ELSE m.hdr[x]
  BY <1>2, <1>3, <1>4, <1>6
<1> HIDE DEF r
<1>8. r \in MemoryType
  <2>1. [m EXCEPT !.hdr = f] \in MemoryType
    BY <1>4, SetHdrIs
  <2>2. [[m EXCEPT !.hdr = f] EXCEPT !.hdr = r.hdr] \in MemoryType
    BY <1>7, <2>1, SetHdrIs
  <2> QED BY <1>0, <2>2
<1>9. \A x \in D : m.hdr[x].sanityCheck \in BOOLEAN /\ r.hdr[x].sanityCheck \in BOOLEAN
  BY <1>2, <1>7, <1>8, Fields
<1>10. LinkSet(m, r, s, a, b)
  BY <1>2, <1>3, <1>6, <1>7, <1>8, <1>9 DEF LinkSet, SameSizes
<1> QED BY <1>10 DEF r

\* The list pointer is not part of the shape of the list.
LEMMA Relist ==
  ASSUME NEW m, NEW L, Sound(m, L), m.memList # NULL => m.memList \in L,
         m.memList = NULL => L = {}
  PROVE  /\ Sound(reallocateMemPtr(m), L)
         /\ AtHead(reallocateMemPtr(m), L)
         /\ reallocateMemPtr(m).hdr = m.hdr
<1>1. PICK x \in Ptr : /\ reallocateMemPtr(m) = [m EXCEPT !.memList = x]
                       /\ m.memList = NULL => x = NULL
                       /\ m.memList # NULL => x \in L /\ m.hdr[x].prev = NULL
  BY ReallocatedIs DEF Sound
<1> DEFINE r == reallocateMemPtr(m)
<1>2. r \in MemoryType /\ r.memList = x /\ r.hdr = m.hdr
  BY <1>1, SetListIs DEF Sound
<1> HIDE DEF r
<1>3. Graded(r)
  BY <1>2 DEF Sound, Graded
<1>4. Chained(r, L)
  BY <1>2 DEF Sound, Chained
<1>5. Outside(r, L)
  BY <1>2 DEF Sound, Outside
<1>6. Laid(r)
  BY <1>2, LaidSame DEF Sound, SameSizes
<1>7. AtHead(r, L)
  <2>1. L \subseteq Nat /\ NULL \notin Nat
    BY Fields, Constants DEF Sound, Chained
  <2> QED BY <1>1, <1>2, <2>1 DEF AtHead
<1>8. Unowned(r)
  BY <1>2 DEF Sound, Unowned
<1> QED BY <1>2, <1>3, <1>4, <1>5, <1>6, <1>7, <1>8 DEF Sound, r

Inserted(m, r, s, p, q) ==
  /\ SameSizes(m, r)
  /\ \A x \in DOMAIN m.hdr :
       /\ r.hdr[x].sanityCheck = (x # s /\ m.hdr[x].sanityCheck)
       /\ r.hdr[x].next = IF x = s THEN q ELSE IF x = p THEN s ELSE m.hdr[x].next
       /\ r.hdr[x].prev = IF x = s THEN p ELSE IF x = q THEN s ELSE m.hdr[x].prev

Between(m, L, s, p, q) ==
  /\ p # NULL => p \in L /\ p < s /\ m.hdr[p].next = q
  /\ q # NULL => q \in L /\ s < q /\ m.hdr[q].prev = p
  /\ \A b \in L : /\ b < s => p # NULL /\ b <= p
                  /\ s < b => q # NULL /\ q <= b

\* The list with the slot between its neighbours is sound.
LEMMA InsertSound ==
  ASSUME NEW m, NEW L, Sound(m, L), NEW s \in DOMAIN m.hdr, s \notin L,
         NEW p \in Ptr, NEW q \in Ptr, Between(m, L, s, p, q),
         \A x \in DOMAIN m.hdr : m.hdr[x].next # s /\ m.hdr[x].prev # s,
         NEW r, Inserted(m, r, s, p, q)
  PROVE  Sound(r, L \cup {s})
<1> DEFINE K == L \cup {s}
           D == DOMAIN m.hdr
           nx(x) == m.hdr[x].next
           pv(x) == m.hdr[x].prev
<1>1. /\ m \in MemoryType /\ Laid(m) /\ D \subseteq Nat /\ L \subseteq D /\ s \in D
      /\ NULL \notin D /\ s \in Nat /\ s # NULL
  BY Fields, Constants DEF Sound, Chained
<1>2. /\ r \in MemoryType /\ DOMAIN r.hdr = D
      /\ \A x \in D :
           /\ r.hdr[x].sanityCheck = (x # s /\ m.hdr[x].sanityCheck)
           /\ r.hdr[x].next = IF x = s THEN q ELSE IF x = p THEN s ELSE nx(x)
           /\ r.hdr[x].prev = IF x = s THEN p ELSE IF x = q THEN s ELSE pv(x)
  BY DEF Inserted, SameSizes
<1>3. \A x \in L :
        /\ nx(x) # NULL => nx(x) \in L /\ pv(nx(x)) = x /\ \A b \in L : b <= x \/ nx(x) <= b
        /\ nx(x) = NULL => \A b \in L : b <= x
        /\ pv(x) # NULL => pv(x) \in L /\ nx(pv(x)) = x
        /\ pv(x) = NULL => \A b \in L : x <= b
  BY DEF Sound, Chained
<1>4. \A x \in D :
        /\ x <= maxaddr
        /\ nx(x) # NULL => nx(x) \in D /\ x < nx(x)
        /\ pv(x) # NULL => pv(x) \in D /\ pv(x) < x
  BY DEF Sound, Graded
<1>5. /\ \A x \in D \ L : nx(x) \notin L /\ pv(x) \notin L
      /\ \A x \in D : m.hdr[x].sanityCheck => x \notin L /\ nx(x) = NULL /\ pv(x) = NULL
  BY DEF Sound, Outside
<1>6. Laid(r)
  BY LaidSame DEF Sound, Inserted
<1>7. /\ p # NULL => p \in L /\ p < s /\ nx(p) = q
      /\ q # NULL => q \in L /\ s < q /\ pv(q) = p
      /\ \A b \in L : /\ b < s => p # NULL /\ b <= p
                      /\ s < b => q # NULL /\ q <= b
  BY DEF Between
<1>8. \A x \in D : nx(x) # s /\ pv(x) # s
  OBVIOUS
<1> HIDE DEF D, nx, pv
<1>9. /\ p # NULL => p \in D /\ p \in Nat /\ p # s /\ p # q
      /\ q # NULL => q \in D /\ q \in Nat /\ q # s /\ p # q
      /\ p # s /\ q # s
  <2>1. /\ p # NULL => p \in D /\ p \in Nat /\ p # s
        /\ q # NULL => q \in D /\ q \in Nat /\ q # s
    BY <1>1, <1>7
  <2>2. p # s /\ q # s
    BY <1>1, <2>1
  <2>3. p # NULL \/ q # NULL => p # q
    BY <1>1, <1>7, <2>1
  <2> QED BY <2>1, <2>2, <2>3
<1> HIDE DEF K
<1>10. /\ \A x \in K : x = s \/ (x \in L /\ x # s /\ x \in D)
       /\ L \subseteq K /\ s \in K /\ K \subseteq D /\ K \subseteq Nat /\ NULL \notin K
  BY <1>1, Constants DEF K
<1>11. Graded(r)
  <2> SUFFICES ASSUME NEW x \in D
               PROVE  /\ x <= maxaddr
                      /\ r.hdr[x].next # NULL => r.hdr[x].next \in D /\ x < r.hdr[x].next
                      /\ r.hdr[x].prev # NULL => r.hdr[x].prev \in D /\ r.hdr[x].prev < x
    BY <1>2 DEF Graded
  <2>1. r.hdr[x].next # NULL => r.hdr[x].next \in D /\ x < r.hdr[x].next
    <3>1. CASE x = s
      BY <1>2, <1>7, <1>9, <3>1
    <3>2. CASE x # s /\ x = p
      <4>1. r.hdr[x].next = s /\ x # NULL
        BY <1>1, <1>2, <3>2
      <4> QED BY <1>1, <1>7, <3>2, <4>1
    <3>3. CASE x # s /\ x # p
      BY <1>2, <1>4, <3>3
    <3> QED BY <3>1, <3>2, <3>3
  <2>2. r.hdr[x].prev # NULL => r.hdr[x].prev \in D /\ r.hdr[x].prev < x
    <3>1. CASE x = s
      BY <1>2, <1>7, <1>9, <3>1
    <3>2. CASE x # s /\ x = q
      <4>1. r.hdr[x].prev = s /\ x # NULL
        BY <1>1, <1>2, <3>2
      <4> QED BY <1>1, <1>7, <3>2, <4>1
    <3>3. CASE x # s /\ x # q
      BY <1>2, <1>4, <3>3
    <3> QED BY <3>1, <3>2, <3>3
  <2> QED BY <1>4, <2>1, <2>2
<1>12. Chained(r, K)
  <2> SUFFICES ASSUME NEW x \in K
               PROVE  /\ r.hdr[x].next # NULL =>
                           /\ r.hdr[x].next \in K
                           /\ r.hdr[r.hdr[x].next].prev = x
                           /\ \A b \in K : b <= x \/ r.hdr[x].next <= b
                      /\ r.hdr[x].next = NULL => \A b \in K : b <= x
                      /\ r.hdr[x].prev # NULL =>
                           /\ r.hdr[x].prev \in K
                           /\ r.hdr[r.hdr[x].prev].next = x
                      /\ r.hdr[x].prev = NULL => \A b \in K : x <= b
    BY <1>2, <1>10 DEF Chained
  <2>0. x \in Nat /\ x \in D /\ \A b \in K : b \in Nat
    BY <1>10
  <2>1. CASE x = s
    <3>1. r.hdr[x].next = q /\ r.hdr[x].prev = p
      BY <1>1, <1>2, <2>1
    <3>2. q # NULL => q \in K /\ r.hdr[q].prev = x
      BY <1>2, <1>7, <1>9, <1>10, <2>1
    <3>3. p # NULL => p \in K /\ r.hdr[p].next = x
      BY <1>2, <1>7, <1>9, <1>10, <2>1
    <3>4. ASSUME NEW b \in K
          PROVE  /\ q # NULL => b <= x \/ q <= b
                 /\ q = NULL => b <= x
                 /\ p = NULL => x <= b
      <4>1. CASE b = s
        BY <2>0, <2>1, <4>1
      <4>2. CASE b # s
        <5>1. b \in L /\ b \in Nat
          BY <1>10, <2>0, <4>2
        <5>2. (b < s => p # NULL) /\ (s < b => q # NULL /\ q <= b)
          BY <1>7, <5>1
        <5> QED BY <1>1, <2>1, <4>2, <5>1, <5>2
      <4> QED BY <4>1, <4>2
    <3> QED BY <3>1, <3>2, <3>3, <3>4
  <2>2. CASE x # s
    <3>0. x \in L /\ x # NULL
      BY <1>1, <1>10, <2>2
    <3>1. \A b \in K : b # s => b \in L
      BY <1>10
    <3>2. /\ r.hdr[x].next # NULL =>
               /\ r.hdr[x].next \in K
               /\ r.hdr[r.hdr[x].next].prev = x
               /\ \A b \in K : b <= x \/ r.hdr[x].next <= b
          /\ r.hdr[x].next = NULL => \A b \in K : b <= x
      <4>1. CASE x = p
        <5>1. r.hdr[x].next = s /\ r.hdr[s].prev = x
          BY <1>1, <1>2, <2>0, <2>2, <4>1
        <5>2. ASSUME NEW b \in K PROVE b <= x \/ s <= b
          <6>1. CASE b = s
            BY <1>1, <6>1
          <6>2. CASE b # s
            <7>1. b \in L /\ b \in Nat
              BY <2>0, <3>1, <6>2
            <7>2. b < s => b <= p
              BY <1>7, <7>1
            <7> QED BY <1>1, <4>1, <7>1, <7>2
          <6> QED BY <6>1, <6>2
        <5> QED BY <1>1, <1>10, <5>1, <5>2
      <4>2. CASE x # p
        <5>1. r.hdr[x].next = nx(x)
          BY <1>2, <2>0, <2>2, <4>2
        <5>2. CASE nx(x) = NULL
          <6>1. s < x
            <7>1. ~ (x < s)
              <8> SUFFICES ASSUME x < s PROVE FALSE
                OBVIOUS
              <8>1. p # NULL /\ x <= p
                BY <1>7, <3>0
              <8>2. p <= x
                BY <1>3, <1>7, <3>0, <5>2, <8>1
              <8> QED BY <1>9, <2>0, <4>2, <8>1, <8>2
            <7> QED BY <1>1, <2>0, <2>2, <7>1
          <6>2. ASSUME NEW b \in K PROVE b <= x
            <7>1. CASE b = s
              BY <1>1, <2>0, <6>1, <7>1
            <7>2. CASE b # s
              BY <1>3, <3>0, <3>1, <5>2, <7>2
            <7> QED BY <7>1, <7>2
          <6> QED BY <5>1, <5>2, <6>2
        <5>3. CASE nx(x) # NULL
          <6>1. nx(x) \in L /\ pv(nx(x)) = x /\ nx(x) \in D /\ nx(x) \in Nat /\ nx(x) # s
            BY <1>1, <1>3, <1>8, <2>0, <3>0, <5>3
          <6>2. nx(x) # q
            <7> SUFFICES ASSUME nx(x) = q PROVE FALSE
              OBVIOUS
            <7>1. pv(q) = p
              BY <1>7, <5>3
            <7> QED BY <4>2, <6>1, <7>1
          <6>3. r.hdr[nx(x)].prev = x
            BY <1>2, <6>1, <6>2
          <6>4. ASSUME NEW b \in K PROVE b <= x \/ nx(x) <= b
            <7>1. CASE b = s
              <8> SUFFICES ASSUME x < s, s < nx(x) PROVE FALSE
                BY <1>1, <2>0, <6>1, <7>1
              <8>1. p # NULL /\ x <= p /\ p < s /\ p \in L /\ p \in Nat
                BY <1>7, <1>9, <3>0
              <8>2. p <= x \/ nx(x) <= p
                BY <1>3, <3>0, <5>3, <8>1
              <8> QED BY <1>1, <2>0, <4>2, <6>1, <8>1, <8>2
            <7>2. CASE b # s
              BY <1>3, <3>0, <3>1, <5>3, <7>2
            <7> QED BY <7>1, <7>2
          <6> QED BY <1>10, <5>1, <5>3, <6>1, <6>3, <6>4
        <5> QED BY <5>2, <5>3
      <4> QED BY <4>1, <4>2
    <3>3. /\ r.hdr[x].prev # NULL =>
               /\ r.hdr[x].prev \in K
               /\ r.hdr[r.hdr[x].prev].next = x
          /\ r.hdr[x].prev = NULL => \A b \in K : x <= b
      <4>1. CASE x = q
        <5>1. r.hdr[x].prev = s /\ r.hdr[s].next = x
          BY <1>1, <1>2, <2>0, <2>2, <4>1
        <5> QED BY <1>1, <1>10, <5>1
      <4>2. CASE x # q
        <5>1. r.hdr[x].prev = pv(x)
          BY <1>2, <2>0, <2>2, <4>2
        <5>2. CASE pv(x) = NULL
          <6>1. x < s
            <7>1. ~ (s < x)
              <8> SUFFICES ASSUME s < x PROVE FALSE
                OBVIOUS
              <8>1. q # NULL /\ q <= x
                BY <1>7, <3>0
              <8>2. x <= q
                BY <1>3, <1>7, <3>0, <5>2, <8>1
              <8> QED BY <1>9, <2>0, <4>2, <8>1, <8>2
            <7> QED BY <1>1, <2>0, <2>2, <7>1
          <6>2. ASSUME NEW b \in K PROVE x <= b
            <7>1. CASE b = s
              BY <1>1, <2>0, <6>1, <7>1
            <7>2. CASE b # s
              BY <1>3, <3>0, <3>1, <5>2, <7>2
            <7> QED BY <7>1, <7>2
          <6> QED BY <5>1, <5>2, <6>2
        <5>3. CASE pv(x) # NULL
          <6>1. pv(x) \in L /\ nx(pv(x)) = x /\ pv(x) \in D /\ pv(x) # s
            BY <1>1, <1>3, <1>8, <2>0, <3>0, <5>3
          <6>2. pv(x) # p
            <7> SUFFICES ASSUME pv(x) = p PROVE FALSE
              OBVIOUS
            <7>1. nx(p) = q
              BY <1>7, <5>3
            <7> QED BY <4>2, <6>1, <7>1
          <6>3. r.hdr[pv(x)].next = x
            BY <1>2, <6>1, <6>2
          <6> QED BY <1>10, <5>1, <5>3, <6>1, <6>3
        <5> QED BY <5>2, <5>3
      <4> QED BY <4>1, <4>2
    <3> QED BY <3>2, <3>3
  <2> QED BY <2>1, <2>2
<1>13. Outside(r, K)
  <2>1. ASSUME NEW x \in D \ K
        PROVE  r.hdr[x].next \notin K /\ r.hdr[x].prev \notin K
    <3>1. x \notin L /\ x # s /\ x \in D
      BY <1>10
    <3>2. x # p /\ x # q
      BY <1>1, <1>7, <3>1
    <3>3. r.hdr[x].next = nx(x) /\ r.hdr[x].prev = pv(x)
      BY <1>2, <3>1, <3>2
    <3>4. nx(x) \notin L /\ pv(x) \notin L /\ nx(x) # s /\ pv(x) # s
      BY <1>5, <1>8, <3>1
    <3> QED BY <1>10, <3>3, <3>4
  <2>2. ASSUME NEW x \in D, r.hdr[x].sanityCheck
        PROVE  x \notin K /\ r.hdr[x].next = NULL /\ r.hdr[x].prev = NULL
    <3>1. x # s /\ m.hdr[x].sanityCheck
      BY <1>2, <2>2
    <3>2. x \notin L /\ nx(x) = NULL /\ pv(x) = NULL
      BY <1>5, <3>1
    <3>3. x # p /\ x # q
      BY <1>1, <1>7, <3>2
    <3> QED BY <1>2, <1>10, <3>1, <3>2, <3>3
  <2> QED BY <1>2, <2>1, <2>2 DEF Outside
<1>14. Unowned(r)
  <2>1. \A x \in D : /\ nx(x) # NULL => ~ m.hdr[nx(x)].sanityCheck
                     /\ pv(x) # NULL => ~ m.hdr[pv(x)].sanityCheck
    BY DEF Sound, Unowned, D, nx, pv
  <2>2. \A y \in L : ~ m.hdr[y].sanityCheck
    BY <1>1, <1>5
  <2>3. ASSUME NEW x \in D
        PROVE  /\ r.hdr[x].next # NULL => ~ r.hdr[r.hdr[x].next].sanityCheck
               /\ r.hdr[x].prev # NULL => ~ r.hdr[r.hdr[x].prev].sanityCheck
    <3>1. ASSUME NEW y \in D, ~ m.hdr[y].sanityCheck PROVE ~ r.hdr[y].sanityCheck
      BY <1>2, <3>1
    <3>2. /\ q # NULL => ~ r.hdr[q].sanityCheck
          /\ p # NULL => ~ r.hdr[p].sanityCheck
      BY <1>7, <1>9, <2>2, <3>1
    <3>3. ~ r.hdr[s].sanityCheck
      BY <1>1, <1>2
    <3>4. /\ nx(x) # NULL => ~ r.hdr[nx(x)].sanityCheck
          /\ pv(x) # NULL => ~ r.hdr[pv(x)].sanityCheck
      BY <1>4, <2>1, <3>1
    <3> QED BY <1>2, <3>2, <3>3, <3>4
  <2> QED BY <1>2, <2>3 DEF Unowned
<1> QED BY <1>2, <1>6, <1>11, <1>12, <1>13, <1>14 DEF Sound, K

\* The links of insertToMemList put the slot between its neighbours.
LEMMA LinkedIn ==
  ASSUME NEW m \in MemoryType, NEW s \in DOMAIN m.hdr,
         NEW p \in DOMAIN m.hdr \cup {NULL}, NEW q \in DOMAIN m.hdr \cup {NULL},
         p # s, q # s,
         NEW u, LinkSet(m, u, s, p, q)
  PROVE  /\ Inserted(m, SetNext(SetPrev(u, q, s), p, s), s, p, q)
         /\ SetNext(SetPrev(u, q, s), p, s).memList = m.memList
<1> DEFINE D == DOMAIN m.hdr
           v == SetPrev(u, q, s)
           w == SetNext(v, p, s)
<1>1. s \in Ptr
  BY Fields DEF Ptr
<1>2. /\ u \in MemoryType /\ DOMAIN u.hdr = D /\ u.memList = m.memList
      /\ \A x \in D :
           /\ u.hdr[x].size = m.hdr[x].size
           /\ u.hdr[x].sanityCheck = (x # s /\ m.hdr[x].sanityCheck)
           /\ u.hdr[x].prev = IF x = s THEN p ELSE m.hdr[x].prev
           /\ u.hdr[x].next = IF x = s THEN q ELSE m.hdr[x].next
  BY DEF LinkSet, SameSizes
<1>3. /\ v \in MemoryType /\ DOMAIN v.hdr = D /\ v.memList = m.memList
      /\ \A x \in D :
           /\ v.hdr[x].size = u.hdr[x].size
           /\ v.hdr[x].sanityCheck = u.hdr[x].sanityCheck
           /\ v.hdr[x].next = u.hdr[x].next
           /\ v.hdr[x].prev = IF x = q THEN s ELSE u.hdr[x].prev
  <2>1. PrevSet(u, v, q, s)
    BY <1>1, <1>2, SetPrevIs
  <2> HIDE DEF v
  <2> QED BY <1>2, <2>1 DEF PrevSet, SameSizes
<1> HIDE DEF v
<1>4. /\ w \in MemoryType /\ DOMAIN w.hdr = D /\ w.memList = m.memList
      /\ \A x \in D :
           /\ w.hdr[x].size = v.hdr[x].size
           /\ w.hdr[x].sanityCheck = v.hdr[x].sanityCheck
           /\ w.hdr[x].prev = v.hdr[x].prev
           /\ w.hdr[x].next = IF x = p THEN s ELSE v.hdr[x].next
  <2>1. NextSet(v, w, p, s)
    BY <1>1, <1>3, SetNextIs
  <2> HIDE DEF w
  <2> QED BY <1>3, <2>1 DEF NextSet, SameSizes
<1> HIDE DEF w, D
<1>5. ASSUME NEW x \in D
      PROVE  /\ w.hdr[x].size = m.hdr[x].size
             /\ w.hdr[x].sanityCheck = (x # s /\ m.hdr[x].sanityCheck)
             /\ w.hdr[x].next = IF x = s THEN q ELSE IF x = p THEN s ELSE m.hdr[x].next
             /\ w.hdr[x].prev = IF x = s THEN p ELSE IF x = q THEN s ELSE m.hdr[x].prev
  <2>1. /\ w.hdr[x].size = m.hdr[x].size
        /\ w.hdr[x].sanityCheck = (x # s /\ m.hdr[x].sanityCheck)
    BY <1>2, <1>3, <1>4
  <2>2. w.hdr[x].next = IF x = s THEN q ELSE IF x = p THEN s ELSE m.hdr[x].next
    BY <1>2, <1>3, <1>4
  <2>3. w.hdr[x].prev = IF x = s THEN p ELSE IF x = q THEN s ELSE m.hdr[x].prev
    BY <1>2, <1>3, <1>4
  <2> QED BY <2>1, <2>2, <2>3
<1>6. Inserted(m, w, s, p, q)
  BY <1>4, <1>5 DEF Inserted, SameSizes, D
<1> QED BY <1>4, <1>6 DEF w, v

\* Once it is linked in, the list pointer goes back to the head.
LEMMA LinkedSound ==
  ASSUME NEW m, NEW L, Sound(m, L), NEW s \in DOMAIN m.hdr, s \notin L,
         NEW p \in Ptr, NEW q \in Ptr, Between(m, L, s, p, q),
         \A x \in DOMAIN m.hdr : m.hdr[x].next # s /\ m.hdr[x].prev # s,
         NEW w, Inserted(m, w, s, p, q), w.memList \in L
  PROVE  /\ Inserted(m, reallocateMemPtr(w), s, p, q)
         /\ AtHead(reallocateMemPtr(w), L \cup {s})
<1>1. Sound(w, L \cup {s})
  BY InsertSound
<1> DEFINE r == reallocateMemPtr(w)
           K == L \cup {s}
<1>2. w.memList \in K /\ w.memList # NULL
  BY Fields, Constants DEF Sound, Chained
<1> HIDE DEF K
<1>3. Sound(r, K) /\ AtHead(r, K) /\ r.hdr = w.hdr
  BY <1>1, <1>2, Relist DEF K
<1> HIDE DEF r
<1>4. r \in MemoryType
  BY <1>3 DEF Sound
<1>5. Inserted(m, r, s, p, q)
  BY <1>3, <1>4 DEF Inserted, SameSizes
<1> QED BY <1>3, <1>5 DEF r, K

\* insertToMemList finds such neighbours, and memList is the head again.
LEMMA InsertIs ==
  ASSUME NEW m, NEW L, Sound(m, L), AtHead(m, L), NEW s \in DOMAIN m.hdr, s \notin L,
         m.hdr[s].next = NULL, m.hdr[s].prev = NULL,
         \A x \in DOMAIN m.hdr : m.hdr[x].next # s /\ m.hdr[x].prev # s
  PROVE  \E p, q \in Ptr : /\ Between(m, L, s, p, q)
                           /\ Inserted(m, insertToMemList(m, s), s, p, q)
                           /\ AtHead(insertToMemList(m, s), L \cup {s})
<1> DEFINE D == DOMAIN m.hdr
           after == [m EXCEPT !.hdr[s].sanityCheck = FALSE]
           link(a, b) == [after EXCEPT !.hdr[s].prev = a, !.hdr[s].next = b]
           list == FreeList(m)
           at == Stop(list, s)
           R == insertToMemList(m, s)
<1>1. /\ m \in MemoryType /\ Graded(m) /\ Chained(m, L)
      /\ D \subseteq Nat /\ L \subseteq D /\ s \in Nat /\ NULL \notin D
      /\ NULL \in Ptr /\ \A x \in D : x \in Ptr
  BY Fields, Constants DEF Sound, Chained, Ptr
<1>2. R = IF m.memList = NULL THEN [after EXCEPT !.memList = s]
          ELSE IF s < m.memList
          THEN reallocateMemPtr(SetPrev(link(NULL, m.memList), m.memList, s))
          ELSE reallocateMemPtr(
                 SetNext(SetPrev(link(at, m.hdr[at].next), m.hdr[at].next, s), at, s))
  BY DEF insertToMemList, Stop, Stops
<1>3. LinkSet(m, after, s, NULL, NULL)
  BY <1>1, UnmarkIs
<1>4. ASSUME NEW a \in Ptr, NEW b \in Ptr PROVE LinkSet(m, link(a, b), s, a, b)
  <2>1. /\ after \in MemoryType /\ s \in DOMAIN after.hdr /\ ~ after.hdr[s].sanityCheck
        /\ DOMAIN after.hdr = D
    <3> HIDE DEF after
    <3> QED BY <1>3 DEF LinkSet, SameSizes
  <2>2. LinkSet(after, link(a, b), s, a, b)
    <3> HIDE DEF after
    <3> QED BY <2>1, LinkIs
  <2> HIDE DEF after, link
  <2> QED BY ZenonT(60), <1>3, <2>1, <2>2 DEF LinkSet, SameSizes
<1> HIDE DEF after, link, at, R, list
<1>5. CASE m.memList = NULL
  <2>1. L = {}
    BY <1>5 DEF AtHead
  <2>2. Between(m, L, s, NULL, NULL)
    BY <2>1 DEF Between
  <2>3. after \in MemoryType /\ DOMAIN after.hdr = D
    BY <1>3 DEF LinkSet, SameSizes
  <2>4. R \in MemoryType /\ R.hdr = after.hdr /\ R.memList = s
    <3>1. R = [after EXCEPT !.memList = s]
      BY <1>2, <1>5
    <3> QED BY <1>1, <2>3, <3>1, SetListIs
  <2>5. Inserted(m, R, s, NULL, NULL)
    BY <1>1, <1>3, <2>4 DEF Inserted, LinkSet, SameSizes
  <2>6. AtHead(R, L \cup {s})
    <3>1. R.hdr[s].prev = NULL
      BY <2>5 DEF Inserted
    <3> QED BY <1>1, <2>4, <3>1 DEF AtHead
  <2> QED BY <1>1, <2>2, <2>5, <2>6 DEF R
<1>6. CASE m.memList # NULL
  <2>0. m.memList \in L /\ m.memList \in D /\ m.memList \in Nat /\ m.hdr[m.memList].prev = NULL
    BY <1>1, <1>6 DEF AtHead
  <2>1. CASE s < m.memList
    <3> DEFINE q == m.memList
               w == SetNext(SetPrev(link(NULL, q), q, s), NULL, s)
    <3>1. q \in D /\ q \in Ptr /\ q # s /\ NULL # s
      BY <1>1, <2>0
    <3>2. Between(m, L, s, NULL, q)
      <4>1. \A b \in L : q <= b
        BY <2>0 DEF Sound, Chained
      <4>2. \A b \in L : b \in Nat
        BY <1>1
      <4> HIDE DEF q
      <4>3. q \in Nat /\ q \in L /\ s < q /\ m.hdr[q].prev = NULL
        BY <2>0, <2>1 DEF q
      <4>4. \A b \in L : ~ (b < s)
        BY <1>1, <4>1, <4>2, <4>3
      <4> QED BY <1>1, <3>1, <4>1, <4>3, <4>4 DEF Between
    <3>3. LinkSet(m, link(NULL, q), s, NULL, q)
      BY <1>1, <1>4, <3>1
    <3>4. Inserted(m, w, s, NULL, q) /\ w.memList = m.memList
      <4> HIDE DEF q
      <4> QED BY <1>1, <3>1, <3>3, LinkedIn
    <3>5. R = reallocateMemPtr(w)
      BY <1>2, <1>6, <2>1 DEF SetNext
    <3> HIDE DEF w, q
    <3>6. Inserted(m, R, s, NULL, q) /\ AtHead(R, L \cup {s})
      BY <1>1, <2>0, <3>1, <3>2, <3>4, <3>5, LinkedSound
    <3> QED BY <1>1, <3>1, <3>2, <3>6 DEF R
  <2>2. CASE ~ (s < m.memList)
    <3> DEFINE q == m.hdr[at].next
               w == SetNext(SetPrev(link(at, q), q, s), at, s)
    <3>1. m.memList < s
      BY <1>1, <2>0, <2>2
    <3>2. Lists(m, L, m.memList, list)
      BY <1>1, <1>6, FreeListIs DEF list
    <3>3. at \in L /\ at < s /\ (m.hdr[at].next # NULL => s < m.hdr[at].next)
      BY <1>1, <2>0, <3>1, <3>2, StopIs DEF at
    <3>4. at \in D /\ at \in Nat /\ at \in Ptr /\ at # s /\ at # NULL
      BY <1>1, <3>3
    <3>5. q \in D \cup {NULL} /\ q \in Ptr /\ q # s
      BY <1>1, <3>4, Fields DEF Graded
    <3>6. Between(m, L, s, at, q)
      <4>1. /\ q # NULL => q \in L /\ m.hdr[q].prev = at /\ \A b \in L : b <= at \/ q <= b
            /\ q = NULL => \A b \in L : b <= at
        BY <3>3 DEF Sound, Chained
      <4>2. \A b \in L : b \in Nat
        BY <1>1
      <4>3. (q # NULL => s < q) /\ m.hdr[at].next = q
        BY <3>3
      <4> HIDE DEF q
      <4>4. q # NULL => q \in Nat
        BY <4>1, <4>2
      <4>5. ASSUME NEW b \in L
            PROVE  /\ b < s => at # NULL /\ b <= at
                   /\ s < b => q # NULL /\ q <= b
        <5>1. b \in Nat
          BY <4>2
        <5>2. b < s => b <= at
          BY <1>1, <4>1, <4>3, <4>4, <5>1
        <5>3. s < b => q # NULL /\ q <= b
          BY <1>1, <3>3, <3>4, <4>1, <5>1
        <5> QED BY <3>4, <5>2, <5>3
      <4> QED BY <3>3, <4>1, <4>3, <4>5 DEF Between
    <3>7. LinkSet(m, link(at, q), s, at, q)
      BY <1>4, <3>4, <3>5
    <3>8. Inserted(m, w, s, at, q) /\ w.memList = m.memList
      <4> HIDE DEF q
      <4> QED BY <1>1, <3>4, <3>5, <3>7, LinkedIn
    <3>9. R = reallocateMemPtr(w)
      BY <1>2, <1>6, <2>2
    <3> HIDE DEF w, q
    <3>10. Inserted(m, R, s, at, q) /\ AtHead(R, L \cup {s})
      BY <1>1, <2>0, <3>4, <3>5, <3>6, <3>8, <3>9, LinkedSound
    <3> QED BY <3>4, <3>5, <3>6, <3>10 DEF R
  <2> QED BY <2>1, <2>2
<1> QED BY <1>5, <1>6
-----------------------------------------------------------------------------
(***************************************************************************)
(* A slot of the list takes in the next one, which begins where it ends.   *)
(***************************************************************************)
Absorbed(m, r, a, b) ==
  /\ r \in MemoryType
  /\ r.memList = m.memList
  /\ DOMAIN r.hdr = DOMAIN m.hdr \ {b}
  /\ \A x \in DOMAIN m.hdr \ {b} :
       /\ r.hdr[x].size = IF x = a THEN m.hdr[a].size + MEM_HEADER_SIZE + m.hdr[b].size
                          ELSE m.hdr[x].size
       /\ r.hdr[x].sanityCheck = m.hdr[x].sanityCheck
       /\ r.hdr[x].next = IF x = a THEN m.hdr[b].next ELSE m.hdr[x].next
       /\ r.hdr[x].prev = IF x = m.hdr[b].next THEN a ELSE m.hdr[x].prev

\* What absorb changes.
LEMMA AbsorbIs ==
  ASSUME NEW m \in MemoryType, Graded(m), Laid(m), NEW a \in DOMAIN m.hdr,
         NEW b \in DOMAIN m.hdr, a # b, End(m, a) = b
  PROVE  Absorbed(m, absorb(m, a, b), a, b)
<1> DEFINE D == DOMAIN m.hdr
           next == m.hdr[b].next
           total == m.hdr[a].size + MEM_HEADER_SIZE + m.hdr[b].size
           big == [m.hdr[a] EXCEPT !.size = total, !.next = next]
           f == [x \in D \ {b} |-> IF x = a THEN big ELSE m.hdr[x]]
           grown == [m EXCEPT !.hdr = f]
           r == SetPrev(grown, next, a)
<1>1. /\ D \subseteq Nat /\ a \in Nat /\ b \in Nat /\ a \in Ptr
      /\ m.hdr[a].size \in Nat /\ m.hdr[b].size \in Nat
      /\ \A x \in D : m.hdr[x] \in Hdr
      /\ next \in Ptr /\ next \in D \cup {NULL} /\ next # b
  <2>1. /\ D \subseteq Nat /\ m.hdr[a].size \in Nat /\ m.hdr[b].size \in Nat
        /\ \A x \in D : m.hdr[x] \in Hdr
        /\ next \in Ptr
    BY Fields
  <2>2. next # NULL => next \in D /\ b < next
    BY DEF Graded
  <2>3. a \in Nat /\ b \in Nat /\ a \in Ptr /\ b # NULL
    BY <2>1, Constants DEF Ptr
  <2>4. next # b
    BY <2>1, <2>2, <2>3
  <2> QED BY <2>1, <2>2, <2>3, <2>4
<1>2. total \in Nat /\ Wrapped(total) = total
  <2>1. End(m, b) \in Nat /\ End(m, b) <= maxaddr /\ End(m, b) = b + MEM_HEADER_SIZE + m.hdr[b].size
    BY EndIs DEF End
  <2>2. b = a + MEM_HEADER_SIZE + m.hdr[a].size
    BY DEF End
  <2>3. total \in Nat /\ total <= maxaddr
    BY SMTT(30), <1>1, <2>1, <2>2, Constants
  <2>4. total <= ULONG_MAX
    BY <2>3, Constants, Machine
  <2> QED BY <2>3, <2>4, NotWrapped
<1>3. absorb(m, a, b) = r
  BY <1>2 DEF absorb
<1>4. /\ big \in Hdr /\ big.size = total /\ big.next = next
      /\ big.prev = m.hdr[a].prev /\ big.sanityCheck = m.hdr[a].sanityCheck
  BY <1>1, <1>2 DEF Hdr
<1> HIDE DEF next, total, big
<1>5. f \in [D \ {b} -> Hdr] /\ \A x \in D \ {b} : f[x] = IF x = a THEN big ELSE m.hdr[x]
  BY <1>1, <1>4
<1> HIDE DEF f, D
<1>6. /\ grown \in MemoryType /\ grown.hdr = f /\ grown.memList = m.memList
      /\ DOMAIN grown.hdr = D \ {b}
  <2>1. D \ {b} \in SUBSET Nat
    BY <1>1
  <2>2. grown \in MemoryType
    BY <1>5, <2>1, SetHdrIs
  <2>3. grown.hdr = f /\ grown.memList = m.memList
    BY DEF MemoryType
  <2> QED BY <1>5, <2>2, <2>3
<1> HIDE DEF grown
<1>7. PrevSet(grown, r, next, a)
  <2>1. next \in DOMAIN grown.hdr \cup {NULL}
    BY <1>1, <1>6
  <2> QED BY <1>1, <1>6, <2>1, SetPrevIs
<1> HIDE DEF r
<1>8. /\ r \in MemoryType /\ r.memList = m.memList /\ DOMAIN r.hdr = D \ {b}
      /\ \A x \in D \ {b} :
           /\ r.hdr[x].size = f[x].size
           /\ r.hdr[x].sanityCheck = f[x].sanityCheck
           /\ r.hdr[x].next = f[x].next
           /\ r.hdr[x].prev = IF x = next THEN a ELSE f[x].prev
  BY <1>6, <1>7 DEF PrevSet, SameSizes
<1>9. ASSUME NEW x \in D \ {b}
      PROVE  /\ r.hdr[x].size = IF x = a THEN total ELSE m.hdr[x].size
             /\ r.hdr[x].sanityCheck = m.hdr[x].sanityCheck
             /\ r.hdr[x].next = IF x = a THEN next ELSE m.hdr[x].next
             /\ r.hdr[x].prev = IF x = next THEN a ELSE m.hdr[x].prev
  <2>1. CASE x = a
    <3>1. f[x] = big
      BY <1>5, <2>1
    <3> QED BY <1>4, <1>8, <2>1, <3>1
  <2>2. CASE x # a
    <3>1. f[x] = m.hdr[x]
      BY <1>5, <2>2
    <3> QED BY <1>8, <2>2, <3>1
  <2> QED BY <2>1, <2>2
<1>10. Absorbed(m, r, a, b)
  BY <1>8, <1>9 DEF Absorbed, next, total, D
<1> QED BY <1>3, <1>10 DEF r

\* The merged slot lies where the two lay.
LEMMA AbsorbLaid ==
  ASSUME NEW m \in MemoryType, Laid(m), NEW a \in DOMAIN m.hdr,
         NEW b \in DOMAIN m.hdr, a # b, End(m, a) = b, NEW r, Absorbed(m, r, a, b)
  PROVE  /\ Laid(r)
         /\ End(r, a) = End(m, b)
         /\ \A x \in DOMAIN m.hdr \ {a, b} : End(r, x) = End(m, x)
<1> DEFINE D == DOMAIN m.hdr
<1>1. /\ D \subseteq Nat /\ a \in Nat /\ b \in Nat /\ a \in D /\ b \in D
      /\ m.hdr[a].size \in Nat /\ m.hdr[b].size \in Nat
      /\ \A x \in D : Graned(x) => m.hdr[x].size \in Mult
  BY Fields DEF Laid
<1>2. /\ DOMAIN r.hdr = D \ {b}
      /\ \A x \in D \ {b} :
           r.hdr[x].size = IF x = a THEN m.hdr[a].size + MEM_HEADER_SIZE + m.hdr[b].size
                           ELSE m.hdr[x].size
  BY DEF Absorbed
<1>3. a < b /\ b < End(m, b)
  BY EndIs
<1>4. End(r, a) = End(m, b)
  <2>1. r.hdr[a].size = m.hdr[a].size + MEM_HEADER_SIZE + m.hdr[b].size
    BY <1>2
  <2>2. b = a + MEM_HEADER_SIZE + m.hdr[a].size
    BY DEF End
  <2>3. a + MEM_HEADER_SIZE + (m.hdr[a].size + MEM_HEADER_SIZE + m.hdr[b].size)
          = b + MEM_HEADER_SIZE + m.hdr[b].size
    BY <1>1, <2>2, Constants
  <2> QED BY <2>1, <2>3 DEF End
<1>5. \A x \in D \ {a, b} : End(r, x) = End(m, x)
  BY <1>2 DEF End
<1>6. \A x \in D : End(m, x) \in Nat /\ x < End(m, x) /\ End(m, x) <= maxaddr
  BY EndIs
<1>7. \A x \in D : \A y \in D : x < y => End(m, x) <= y
  BY DEF Laid
<1>8. /\ \A x \in D : \/ freemem <= x /\ End(m, x) <= HOLESTART
                      \/ HOLEEND <= x /\ End(m, x) <= maxaddr
      /\ \A x \in D : \/ End(m, x) \in D
                      \/ End(m, x) = HOLESTART
                      \/ HOLEEND <= x /\ maxaddr < End(m, x) + GRAIN
      /\ freemem \in D /\ HOLEEND \in D
  BY DEF Laid, Inside, Followed
<1> HIDE DEF D
<1>9. HOLEEND <= b => HOLEEND <= a
  <2>1. (freemem <= a /\ b <= HOLESTART) \/ HOLEEND <= a
    BY <1>1, <1>8
  <2> QED BY <1>1, <2>1, Constants
<1>10. freemem \in DOMAIN r.hdr /\ HOLEEND \in DOMAIN r.hdr
  <2>1. freemem # b
    <3>1. freemem <= a
      BY <1>1, <1>8, Constants
    <3> QED BY <1>1, <1>3, <3>1, Constants
  <2>2. HOLEEND # b
    BY <1>1, <1>3, <1>9, Constants
  <2> QED BY <1>2, <1>8, <2>1, <2>2
<1>11. ASSUME NEW x \in DOMAIN r.hdr, Graned(x) PROVE r.hdr[x].size \in Mult
  <2>1. CASE x = a
    <3>1. MEM_HEADER_SIZE \in Mult
      <4>1. GRAIN = 1 * GRAIN
        BY Constants
      <4> QED BY <4>1, Machine DEF Mult
    <3>2. m.hdr[a].size \in Mult
      BY <1>1, <1>11, <2>1
    <3>3. Graned(b)
      BY <1>1, <1>3, <1>11, <2>1, Constants DEF Graned
    <3>4. m.hdr[b].size \in Mult
      BY <1>1, <3>3
    <3>5. m.hdr[a].size + MEM_HEADER_SIZE \in Mult
      BY <3>1, <3>2, MultSum
    <3>6. m.hdr[a].size + MEM_HEADER_SIZE + m.hdr[b].size \in Mult
      BY <3>4, <3>5, MultSum
    <3> QED BY <1>2, <2>1, <3>6
  <2>2. CASE x # a
    BY <1>1, <1>2, <1>11, <2>2
  <2> QED BY <2>1, <2>2
<1>12. ASSUME NEW x \in DOMAIN r.hdr PROVE Inside(r, x)
  <2>1. CASE x = a
    <3>1. \/ freemem <= b /\ End(m, b) <= HOLESTART
          \/ HOLEEND <= b /\ End(m, b) <= maxaddr
      BY <1>1, <1>8
    <3>2. freemem <= a
      BY <1>1, <1>8, Constants
    <3> QED BY <1>4, <1>9, <2>1, <3>1, <3>2 DEF Inside
  <2>2. CASE x # a
    BY <1>2, <1>5, <1>8, <2>2 DEF Inside
  <2> QED BY <2>1, <2>2
<1>13. ASSUME NEW x \in DOMAIN r.hdr PROVE Followed(r, x)
  <2>1. CASE x = a
    <3>1. \/ End(m, b) \in D
          \/ End(m, b) = HOLESTART
          \/ HOLEEND <= b /\ maxaddr < End(m, b) + GRAIN
      BY <1>1, <1>8
    <3>2. End(m, b) # b
      BY <1>1, <1>3, <1>6
    <3> QED BY <1>2, <1>4, <1>9, <2>1, <3>1, <3>2 DEF Followed
  <2>2. CASE x # a
    <3>1. x \in D /\ x # b /\ End(r, x) = End(m, x) /\ x \in Nat
      BY <1>1, <1>2, <1>5, <2>2
    <3>2. End(m, x) # b
      <4>1. CASE x < a
        <5>1. End(m, x) <= a
          BY <1>1, <1>7, <3>1, <4>1
        <5> QED BY <1>1, <1>3, <1>6, <3>1, <5>1
      <4>2. CASE ~ (x < a)
        <5>1. a < x
          BY <1>1, <2>2, <3>1, <4>2
        <5>2. b <= x
          BY <1>1, <1>7, <3>1, <5>1
        <5> QED BY <1>1, <1>6, <3>1, <5>2
      <4> QED BY <4>1, <4>2
    <3> QED BY <1>2, <1>8, <3>1, <3>2 DEF Followed
  <2> QED BY <2>1, <2>2
<1>14. ASSUME NEW x \in DOMAIN r.hdr, NEW y \in DOMAIN r.hdr, x < y
       PROVE  End(r, x) <= y
  <2>0. x \in D /\ y \in D /\ x # b /\ y # b /\ x \in Nat /\ y \in Nat
    BY <1>1, <1>2
  <2>1. CASE x = a
    <3>1. b <= y
      BY <1>7, <1>14, <2>0, <2>1
    <3>2. b < y
      BY <1>1, <2>0, <3>1
    <3> QED BY <1>1, <1>4, <1>7, <2>0, <2>1, <3>2
  <2>2. CASE x # a
    BY <1>5, <1>7, <1>14, <2>0, <2>2
  <2> QED BY <2>1, <2>2
<1>15. Laid(r)
  BY <1>10, <1>11, <1>12, <1>13, <1>14 DEF Laid
<1> QED BY <1>4, <1>5, <1>15 DEF D

\* The list without the slot that was taken in is sound.
LEMMA AbsorbSound ==
  ASSUME NEW m, NEW L, Sound(m, L), NEW a \in L, NEW b \in L,
         m.hdr[a].next = b, End(m, a) = b, NEW r, Absorbed(m, r, a, b)
  PROVE  Sound(r, L \ {b})
<1> DEFINE q == m.hdr[b].next
           K == L \ {b}
           D == DOMAIN m.hdr
           nx(x) == m.hdr[x].next
           pv(x) == m.hdr[x].prev
<1>1. /\ m \in MemoryType /\ Laid(m) /\ D \subseteq Nat /\ L \subseteq D /\ a \in D /\ b \in D
      /\ NULL \notin D /\ a \in Nat /\ b \in Nat /\ a # NULL /\ b # NULL
  BY Fields, Constants DEF Sound, Chained
<1>2. /\ r \in MemoryType /\ DOMAIN r.hdr = D \ {b}
      /\ \A x \in D \ {b} :
           /\ r.hdr[x].sanityCheck = m.hdr[x].sanityCheck
           /\ r.hdr[x].next = IF x = a THEN q ELSE nx(x)
           /\ r.hdr[x].prev = IF x = q THEN a ELSE pv(x)
  BY DEF Absorbed
<1>3. \A x \in L :
        /\ nx(x) # NULL => nx(x) \in L /\ pv(nx(x)) = x /\ \A c \in L : c <= x \/ nx(x) <= c
        /\ nx(x) = NULL => \A c \in L : c <= x
        /\ pv(x) # NULL => pv(x) \in L /\ nx(pv(x)) = x
        /\ pv(x) = NULL => \A c \in L : x <= c
  BY DEF Sound, Chained
<1>4. \A x \in D :
        /\ x <= maxaddr
        /\ nx(x) # NULL => nx(x) \in D /\ x < nx(x)
        /\ pv(x) # NULL => pv(x) \in D /\ pv(x) < x
  BY DEF Sound, Graded
<1>5. /\ \A x \in D \ L : nx(x) \notin L /\ pv(x) \notin L
      /\ \A x \in D : m.hdr[x].sanityCheck => x \notin L /\ nx(x) = NULL /\ pv(x) = NULL
      /\ \A x \in D : /\ nx(x) # NULL => ~ m.hdr[nx(x)].sanityCheck
                      /\ pv(x) # NULL => ~ m.hdr[pv(x)].sanityCheck
  BY DEF Sound, Outside, Unowned
<1>6. nx(a) = b /\ nx(b) = q
  OBVIOUS
<1> HIDE DEF D, nx, pv, q
<1>7. /\ a < b /\ a # b /\ pv(b) = a
      /\ q # NULL => q \in L /\ q \in D /\ q \in Nat /\ b < q /\ a < q /\ pv(q) = b
      /\ q # a /\ q # b
  <2>1. a < b /\ pv(b) = a
    BY <1>1, <1>3, <1>4, <1>6
  <2>2. a # b
    BY <1>1, <2>1
  <2>3. q # NULL => q \in L /\ q \in D /\ q \in Nat /\ b < q /\ pv(q) = b
    BY <1>1, <1>3, <1>4, <1>6
  <2>4. (q # NULL => a < q) /\ q # a /\ q # b
    BY <1>1, <2>1, <2>3
  <2> QED BY <2>1, <2>2, <2>3, <2>4
<1>8. Laid(r)
  BY <1>1, <1>7, AbsorbLaid DEF D
<1>9. \A x \in D : /\ nx(x) = b => x = a
                   /\ pv(x) = b => x = q
  <2> TAKE x \in D
  <2>1. CASE x \in L
    BY <1>1, <1>3, <1>6, <1>7, <2>1
  <2>2. CASE x \notin L
    BY <1>5, <2>2
  <2> QED BY <2>1, <2>2
<1> HIDE DEF K
<1>10. /\ \A x \in K : x \in L /\ x # b /\ x \in D /\ x \in Nat /\ x # NULL
       /\ \A x \in L : x # b => x \in K
       /\ K \subseteq D \ {b} /\ NULL \notin K
  BY <1>1 DEF K
<1>11. Graded(r)
  <2> SUFFICES ASSUME NEW x \in D \ {b}
               PROVE  /\ x <= maxaddr
                      /\ r.hdr[x].next # NULL => r.hdr[x].next \in D \ {b} /\ x < r.hdr[x].next
                      /\ r.hdr[x].prev # NULL => r.hdr[x].prev \in D \ {b} /\ r.hdr[x].prev < x
    BY <1>2 DEF Graded
  <2>1. r.hdr[x].next # NULL => r.hdr[x].next \in D \ {b} /\ x < r.hdr[x].next
    <3>1. CASE x = a
      BY <1>2, <1>7, <3>1
    <3>2. CASE x # a
      BY <1>2, <1>4, <1>9, <3>2
    <3> QED BY <3>1, <3>2
  <2>2. r.hdr[x].prev # NULL => r.hdr[x].prev \in D \ {b} /\ r.hdr[x].prev < x
    <3>1. CASE x = q
      <4>1. q # NULL /\ r.hdr[x].prev = a
        BY <1>1, <1>2, <3>1
      <4> QED BY <1>1, <1>7, <3>1, <4>1
    <3>2. CASE x # q
      BY <1>2, <1>4, <1>9, <3>2
    <3> QED BY <3>1, <3>2
  <2> QED BY <1>4, <2>1, <2>2
<1>12. Chained(r, K)
  <2> SUFFICES ASSUME NEW x \in K
               PROVE  /\ r.hdr[x].next # NULL =>
                           /\ r.hdr[x].next \in K
                           /\ r.hdr[r.hdr[x].next].prev = x
                           /\ \A c \in K : c <= x \/ r.hdr[x].next <= c
                      /\ r.hdr[x].next = NULL => \A c \in K : c <= x
                      /\ r.hdr[x].prev # NULL =>
                           /\ r.hdr[x].prev \in K
                           /\ r.hdr[r.hdr[x].prev].next = x
                      /\ r.hdr[x].prev = NULL => \A c \in K : x <= c
    BY <1>2, <1>10 DEF Chained
  <2>0. x \in L /\ x # b /\ x \in D /\ x \in Nat /\ x # NULL
    BY <1>10
  <2>1. /\ r.hdr[x].next # NULL =>
             /\ r.hdr[x].next \in K
             /\ r.hdr[r.hdr[x].next].prev = x
             /\ \A c \in K : c <= x \/ r.hdr[x].next <= c
        /\ r.hdr[x].next = NULL => \A c \in K : c <= x
    <3>1. CASE x = a
      <4>1. r.hdr[x].next = q
        BY <1>2, <2>0, <3>1
      <4>2. q # NULL => q \in K /\ r.hdr[q].prev = x
        BY <1>2, <1>7, <1>10, <3>1
      <4>3. ASSUME NEW c \in K
            PROVE  /\ q # NULL => c <= x \/ q <= c
                   /\ q = NULL => c <= x
        <5>1. c \in L /\ c # b /\ c \in Nat
          BY <1>10
        <5>2. c <= a \/ b <= c
          BY <1>1, <1>3, <1>6, <5>1
        <5>3. (q # NULL => c <= b \/ q <= c) /\ (q = NULL => c <= b)
          BY <1>3, <1>6, <5>1
        <5> QED BY <1>1, <3>1, <5>1, <5>2, <5>3
      <4> QED BY <4>1, <4>2, <4>3
    <3>2. CASE x # a
      <4>1. r.hdr[x].next = nx(x)
        BY <1>2, <2>0, <3>2
      <4>2. nx(x) # NULL => nx(x) \in K /\ nx(x) # b /\ pv(nx(x)) = x /\ nx(x) \in D
        BY <1>3, <1>9, <1>10, <2>0, <3>2
      <4>3. nx(x) # NULL => r.hdr[nx(x)].prev = x
        <5> SUFFICES ASSUME nx(x) # NULL PROVE r.hdr[nx(x)].prev = x
          OBVIOUS
        <5>1. nx(x) # q
          <6> SUFFICES ASSUME nx(x) = q PROVE FALSE
            OBVIOUS
          <6>1. pv(q) = b
            BY <1>7
          <6> QED BY <2>0, <4>2, <6>1
        <5>2. r.hdr[nx(x)].prev = pv(nx(x))
          BY <1>2, <4>2, <5>1
        <5> QED BY <4>2, <5>2
      <4>4. /\ nx(x) # NULL => \A c \in K : c <= x \/ nx(x) <= c
            /\ nx(x) = NULL => \A c \in K : c <= x
        BY <1>3, <1>10, <2>0
      <4> QED BY <4>1, <4>2, <4>3, <4>4
    <3> QED BY <3>1, <3>2
  <2>2. /\ r.hdr[x].prev # NULL =>
             /\ r.hdr[x].prev \in K
             /\ r.hdr[r.hdr[x].prev].next = x
        /\ r.hdr[x].prev = NULL => \A c \in K : x <= c
    <3>1. CASE x = q
      <4>1. r.hdr[x].prev = a /\ r.hdr[a].next = x /\ a \in K
        BY <1>1, <1>2, <1>7, <1>10, <2>0, <3>1
      <4> QED BY <1>1, <4>1
    <3>2. CASE x # q
      <4>1. r.hdr[x].prev = pv(x)
        BY <1>2, <2>0, <3>2
      <4>2. pv(x) # NULL => pv(x) \in K /\ pv(x) # b /\ nx(pv(x)) = x /\ pv(x) \in D
        BY <1>3, <1>9, <1>10, <2>0, <3>2
      <4>3. pv(x) # NULL => r.hdr[pv(x)].next = x
        <5> SUFFICES ASSUME pv(x) # NULL PROVE r.hdr[pv(x)].next = x
          OBVIOUS
        <5>1. pv(x) # a
          BY <1>6, <2>0, <4>2
        <5>2. r.hdr[pv(x)].next = nx(pv(x))
          BY <1>2, <4>2, <5>1
        <5> QED BY <4>2, <5>2
      <4>4. pv(x) = NULL => \A c \in K : x <= c
        BY <1>3, <1>10, <2>0
      <4> QED BY <4>1, <4>2, <4>3, <4>4
    <3> QED BY <3>1, <3>2
  <2> QED BY <2>1, <2>2
<1>13. Outside(r, K)
  <2>1. ASSUME NEW x \in D \ {b}, x \notin K
        PROVE  r.hdr[x].next \notin K /\ r.hdr[x].prev \notin K
    <3>1. x \notin L
      BY <1>10, <2>1
    <3>2. x # a /\ x # q
      BY <1>1, <1>7, <3>1
    <3> QED BY <1>2, <1>5, <1>10, <3>1, <3>2
  <2>2. ASSUME NEW x \in D \ {b}, r.hdr[x].sanityCheck
        PROVE  x \notin K /\ r.hdr[x].next = NULL /\ r.hdr[x].prev = NULL
    <3>1. m.hdr[x].sanityCheck
      BY <1>2, <2>2
    <3>2. x \notin L /\ nx(x) = NULL /\ pv(x) = NULL
      BY <1>5, <3>1
    <3>3. x # a /\ x # q
      BY <1>1, <1>7, <3>2
    <3> QED BY <1>2, <1>10, <3>2, <3>3
  <2> QED BY <1>2, <2>1, <2>2 DEF Outside
<1>14. Unowned(r)
  <2>1. \A y \in L : ~ m.hdr[y].sanityCheck
    BY <1>1, <1>5
  <2>2. ASSUME NEW x \in D \ {b}
        PROVE  /\ r.hdr[x].next # NULL => ~ r.hdr[r.hdr[x].next].sanityCheck
               /\ r.hdr[x].prev # NULL => ~ r.hdr[r.hdr[x].prev].sanityCheck
    <3>1. ASSUME NEW y \in D, y # b, ~ m.hdr[y].sanityCheck PROVE ~ r.hdr[y].sanityCheck
      BY <1>2, <3>1
    <3>2. /\ q # NULL => ~ r.hdr[q].sanityCheck
          /\ ~ r.hdr[a].sanityCheck
      BY <1>1, <1>7, <2>1, <3>1
    <3>3. /\ nx(x) # NULL /\ x # a => ~ r.hdr[nx(x)].sanityCheck
          /\ pv(x) # NULL /\ x # q => ~ r.hdr[pv(x)].sanityCheck
      BY <1>4, <1>5, <1>9, <3>1
    <3> QED BY <1>2, <3>2, <3>3
  <2> QED BY <1>2, <2>2 DEF Unowned
<1> QED BY <1>2, <1>8, <1>11, <1>12, <1>13, <1>14 DEF Sound, K

\* The slots outside the list stay as they are.
Kept(m, L, r, M) ==
  /\ DOMAIN r.hdr \ M = DOMAIN m.hdr \ L
  /\ \A x \in DOMAIN m.hdr \ L :
       /\ r.hdr[x].size = m.hdr[x].size
       /\ r.hdr[x].sanityCheck = m.hdr[x].sanityCheck

\* All slots but those in S end before the next one begins.
MergedBut(m, L, S) ==
  \A x \in L : x \in S \/ (m.hdr[x].next # NULL => End(m, x) < m.hdr[x].next)

\* What absorb leaves of the list, for the slots S that may touch the next one.
LEMMA AbsorbMerged ==
  ASSUME NEW m, NEW L, Sound(m, L), AtHead(m, L), NEW a \in L, NEW b \in L,
         m.hdr[a].next = b, End(m, a) = b, NEW S, MergedBut(m, L, S), a \in S
  PROVE  LET r == absorb(m, a, b) IN
         /\ Sound(r, L \ {b})
         /\ AtHead(r, L \ {b})
         /\ Kept(m, L, r, L \ {b})
         /\ MergedBut(r, L \ {b}, S)
         /\ a \in L \ {b}
         /\ r.hdr[a].next = m.hdr[b].next
         /\ End(r, a) = End(m, b)
<1> DEFINE r == absorb(m, a, b)
           D == DOMAIN m.hdr
<1>1. /\ m \in MemoryType /\ Graded(m) /\ Laid(m) /\ L \subseteq D /\ D \subseteq Nat
      /\ a \in D /\ b \in D /\ NULL \notin D
  BY Fields, Constants DEF Sound, Chained
<1>2. a # b /\ m.hdr[b].prev = a
  <2>1. b # NULL /\ a \in Nat
    BY <1>1
  <2>2. a < b
    BY <1>1, <2>1 DEF Graded
  <2>3. m.hdr[b].prev = a
    BY <2>1 DEF Sound, Chained
  <2> QED BY <1>1, <2>1, <2>2, <2>3
<1>3. Absorbed(m, r, a, b)
  BY <1>1, <1>2, AbsorbIs
<1> HIDE DEF r
<1>4. Sound(r, L \ {b})
  BY <1>3, AbsorbSound
<1>5. End(r, a) = End(m, b) /\ \A x \in D \ {a, b} : End(r, x) = End(m, x)
  BY <1>1, <1>2, <1>3, AbsorbLaid
<1>6. /\ r.memList = m.memList
      /\ DOMAIN r.hdr = D \ {b}
      /\ \A x \in D \ {b} :
           /\ x # a => r.hdr[x].size = m.hdr[x].size
           /\ r.hdr[x].sanityCheck = m.hdr[x].sanityCheck
           /\ r.hdr[x].next = IF x = a THEN m.hdr[b].next ELSE m.hdr[x].next
           /\ r.hdr[x].prev = IF x = m.hdr[b].next THEN a ELSE m.hdr[x].prev
  BY <1>3 DEF Absorbed
<1>7. AtHead(r, L \ {b})
  <2>1. m.memList # NULL => m.memList # b /\ m.memList \in L /\ m.memList \in D
    BY <1>1, <1>2 DEF AtHead
  <2>2. m.memList # NULL => m.memList # m.hdr[b].next
    <3>1. m.hdr[b].next # NULL => m.hdr[m.hdr[b].next].prev = b
      BY DEF Sound, Chained
    <3> QED BY <1>1, <3>1 DEF AtHead
  <2> QED BY <1>6, <2>1, <2>2 DEF AtHead
<1>8. Kept(m, L, r, L \ {b})
  BY <1>1, <1>6 DEF Kept
<1>9. MergedBut(r, L \ {b}, S)
  BY <1>1, <1>5, <1>6 DEF MergedBut
<1>10. a \in L \ {b} /\ r.hdr[a].next = m.hdr[b].next
  BY <1>1, <1>2, <1>6
<1> QED BY <1>4, <1>5, <1>7, <1>8, <1>9, <1>10 DEF r

\* The outcome r of a merge: a list M without neighbours that touch.
Merges(m, L, r) ==
  \E M \in SUBSET L : /\ Sound(r, M)
                      /\ AtHead(r, M)
                      /\ Kept(m, L, r, M)
                      /\ MergedBut(r, M, {})

\* The second half of mergeMemSlot: with the slot after.
WithNext(m, a) ==
  IF m.hdr[a].next # NULL /\ EndOf(m, a) = m.hdr[a].next
  THEN absorb(m, a, m.hdr[a].next) ELSE m

\* Merging with the slot after, when only that one may touch.
LEMMA WithNextIs ==
  ASSUME NEW m, NEW L, Sound(m, L), AtHead(m, L), NEW a \in L,
         MergedBut(m, L, {a})
  PROVE  Merges(m, L, WithNext(m, a))
<1> DEFINE q == m.hdr[a].next
           r == WithNext(m, a)
<1>1. /\ m \in MemoryType /\ Laid(m) /\ L \subseteq DOMAIN m.hdr /\ L \subseteq Nat
      /\ a \in DOMAIN m.hdr /\ a \in Nat /\ NULL \notin L
  BY Fields, Constants DEF Sound, Chained
<1>2. EndOf(m, a) = End(m, a) /\ End(m, a) \in Nat
  BY <1>1, EndIs
<1>3. q # NULL => /\ q \in L /\ q \in Nat /\ a < q /\ End(m, a) <= q
                  /\ m.hdr[q].prev = a
  <2>1. q # NULL => q \in L /\ a < q /\ m.hdr[q].prev = a
    BY <1>1 DEF Sound, Chained, Graded
  <2>2. q # NULL => End(m, a) <= q
    BY <1>1, <2>1 DEF Laid
  <2> QED BY <1>1, <2>1, <2>2
<1>4. CASE q # NULL /\ End(m, a) = q
  <2>1. r = absorb(m, a, q)
    BY <1>2, <1>4 DEF WithNext
  <2>2. /\ Sound(r, L \ {q}) /\ AtHead(r, L \ {q}) /\ Kept(m, L, r, L \ {q})
        /\ MergedBut(r, L \ {q}, {a})
        /\ r.hdr[a].next = m.hdr[q].next /\ End(r, a) = End(m, q)
    <3>1. q \in L /\ m.hdr[a].next = q /\ End(m, a) = q /\ a \in {a}
      BY <1>3, <1>4
    <3> HIDE DEF q, r
    <3>2. /\ Sound(absorb(m, a, q), L \ {q}) /\ AtHead(absorb(m, a, q), L \ {q})
          /\ Kept(m, L, absorb(m, a, q), L \ {q})
          /\ MergedBut(absorb(m, a, q), L \ {q}, {a})
          /\ absorb(m, a, q).hdr[a].next = m.hdr[q].next
          /\ End(absorb(m, a, q), a) = End(m, q)
      BY <3>1, AbsorbMerged
    <3> QED BY <2>1, <3>2
  <2>3. m.hdr[q].next # NULL => End(m, q) < m.hdr[q].next
    BY <1>3, <1>4 DEF MergedBut
  <2> HIDE DEF r, q
  <2>4. MergedBut(r, L \ {q}, {})
    BY <2>2, <2>3 DEF MergedBut
  <2> QED BY <2>2, <2>4 DEF Merges, r
<1>5. CASE ~ (q # NULL /\ End(m, a) = q)
  <2>1. r = m
    BY <1>2, <1>5 DEF WithNext
  <2>2. q # NULL => End(m, a) < q
    BY <1>2, <1>3, <1>5
  <2>3. MergedBut(m, L, {})
    BY <2>2 DEF MergedBut
  <2>4. Kept(m, L, m, L)
    BY DEF Kept
  <2> HIDE DEF r
  <2> QED BY <2>1, <2>3, <2>4 DEF Merges, r
<1> QED BY <1>4, <1>5

\* mergeMemSlot, when only the slot that was freed may touch its neighbours.
LEMMA MergeIs ==
  ASSUME NEW m, NEW L, Sound(m, L), AtHead(m, L), NEW s \in L,
         MergedBut(m, L, {s, m.hdr[s].prev})
  PROVE  Merges(m, L, mergeMemSlot(m, s))
<1> DEFINE p == m.hdr[s].prev
           r == mergeMemSlot(m, s)
<1>1. /\ m \in MemoryType /\ Laid(m) /\ L \subseteq DOMAIN m.hdr /\ L \subseteq Nat
      /\ s \in DOMAIN m.hdr /\ s \in Nat /\ NULL \notin L
  BY Fields, Constants DEF Sound, Chained
<1>2. p # NULL => /\ p \in L /\ p \in DOMAIN m.hdr /\ p < s /\ m.hdr[p].next = s /\ End(m, p) <= s
                  /\ EndOf(m, p) = End(m, p) /\ End(m, p) \in Nat
  <2>1. p # NULL => p \in L /\ p < s /\ m.hdr[p].next = s
    BY <1>1 DEF Sound, Chained, Graded
  <2>2. p # NULL => p \in DOMAIN m.hdr /\ End(m, p) <= s
    BY <1>1, <2>1 DEF Laid
  <2>3. p # NULL => EndOf(m, p) = End(m, p) /\ End(m, p) \in Nat
    BY <1>1, <2>2, EndIs
  <2> QED BY <2>1, <2>2, <2>3
<1>3. CASE p # NULL /\ End(m, p) = s
  <2> DEFINE once == absorb(m, p, s)
             K == L \ {s}
  <2>1. r = WithNext(once, p)
    BY <1>2, <1>3 DEF mergeMemSlot, WithNext
  <2>2. /\ Sound(once, K) /\ AtHead(once, K) /\ Kept(m, L, once, K)
        /\ MergedBut(once, K, {s, p}) /\ p \in K
    BY <1>2, <1>3, AbsorbMerged
  <2>3. s \notin K
    OBVIOUS
  <2>4. K \subseteq L
    OBVIOUS
  <2> HIDE DEF once, K, r, p
  <2>5. MergedBut(once, K, {p})
    BY <2>2, <2>3 DEF MergedBut
  <2>6. Merges(once, K, r)
    BY <2>1, <2>2, <2>5, WithNextIs
  <2>7. PICK M \in SUBSET K : /\ Sound(r, M) /\ AtHead(r, M)
                              /\ Kept(once, K, r, M) /\ MergedBut(r, M, {})
    BY <2>6 DEF Merges
  <2>8. Kept(m, L, r, M)
    BY <2>2, <2>7 DEF Kept
  <2> QED BY <2>4, <2>7, <2>8 DEF Merges, r
<1>4. CASE ~ (p # NULL /\ End(m, p) = s)
  <2>1. r = WithNext(m, s)
    BY <1>2, <1>4 DEF mergeMemSlot, WithNext
  <2>2. p # NULL => m.hdr[p].next = s /\ End(m, p) < s
    BY <1>1, <1>2, <1>4
  <2> HIDE DEF r
  <2>3. MergedBut(m, L, {s})
    <3> SUFFICES ASSUME NEW x \in L, x # s, m.hdr[x].next # NULL PROVE End(m, x) < m.hdr[x].next
      BY DEF MergedBut
    <3>1. CASE x = p
      BY <1>1, <2>2, <3>1
    <3>2. CASE x # p
      BY <3>2 DEF MergedBut
    <3> QED BY <3>1, <3>2
  <2>4. Merges(m, L, WithNext(m, s))
    BY <2>3, WithNextIs
  <2> QED BY <2>1, <2>4 DEF r
<1> QED BY <1>3, <1>4
-----------------------------------------------------------------------------
\* Until the list drops slots, it holds each one that is not owned.
Whole(m, L) == \A a \in DOMAIN m.hdr : m.hdr[a].sanityCheck \/ a \in L

\* A slot of just the size, of more than one, with which the list loses those before it.
LosesList(m, s, n) ==
  m.hdr[s].size = n /\ m.hdr[s].next = NULL /\ m.hdr[s].prev # NULL

\* A larger slot, but without room for the header of the rest.
TearsSlot(m, s, n) == m.hdr[s].size # n /\ m.hdr[s].size < n + MEM_HEADER_SIZE

\* The outcome r of an allocation: s is owned, and nothing else changes its owner.
Allocates(m, L, r, s, n) ==
  \E M \in SUBSET Nat :
    /\ Sound(r, M) /\ AtHead(r, M) /\ MergedBut(r, M, {})
    /\ s \in DOMAIN r.hdr /\ r.hdr[s].sanityCheck /\ r.hdr[s].size = n
    /\ \A x \in DOMAIN m.hdr \ {s} :
         m.hdr[x].sanityCheck =>
           /\ x \in DOMAIN r.hdr
           /\ r.hdr[x].sanityCheck
           /\ r.hdr[x].size = m.hdr[x].size
    /\ \A x \in DOMAIN r.hdr \ {s} :
         r.hdr[x].sanityCheck => x \in DOMAIN m.hdr /\ m.hdr[x].sanityCheck
    /\ Whole(m, L) /\ ~ LosesList(m, s, n) => Whole(r, M)

\* Taking a slot of just the size.
LEMMA ExactAllocates ==
  ASSUME NEW m, NEW L, Sound(m, L), MergedBut(m, L, {}), NEW s \in L,
         NEW r, Exact(m, r, s)
  PROVE  Allocates(m, L, reallocateMemPtr(r), s, m.hdr[s].size)
<1> DEFINE M == Rest(m, L, s)
           u == reallocateMemPtr(r)
           D == DOMAIN m.hdr
<1>1. /\ m \in MemoryType /\ Laid(m) /\ L \subseteq D /\ D \subseteq Nat
      /\ s \in D /\ s \in Nat /\ NULL \notin L
  BY Fields, Constants DEF Sound, Chained
<1>2. Sound(r, M) /\ (r.memList # NULL => r.memList \in M)
  BY ExactSound
<1>3. /\ M \subseteq L \ {s}
      /\ m.hdr[s].next # NULL => M = L \ {s}
      /\ m.hdr[s].next = NULL => M = {}
  BY DEF Rest
<1>4. /\ DOMAIN r.hdr = D
      /\ r.memList = m.hdr[s].next
      /\ \A x \in D : r.hdr[x].size = m.hdr[x].size
      /\ \A x \in D : r.hdr[x].sanityCheck = (x = s \/ m.hdr[x].sanityCheck)
      /\ \A x \in D : x # s => r.hdr[x].next = IF x = m.hdr[s].prev THEN m.hdr[s].next
                                               ELSE m.hdr[x].next
  BY DEF Exact, SameSizes
<1> HIDE DEF M
<1>5. r.memList = NULL => M = {}
  BY <1>3, <1>4
<1>6. Sound(u, M) /\ AtHead(u, M) /\ u.hdr = r.hdr
  BY <1>2, <1>5, Relist
<1> HIDE DEF u, D
<1>7. MergedBut(u, M, {})
  <2> SUFFICES ASSUME NEW x \in M, u.hdr[x].next # NULL
               PROVE  End(u, x) < u.hdr[x].next
    BY DEF MergedBut
  <2>1. x \in L /\ x # s /\ x \in D /\ x \in Nat
    BY <1>1, <1>3
  <2>2. End(u, x) = End(m, x) /\ End(m, x) \in Nat
    <3>1. u.hdr[x].size = m.hdr[x].size
      BY <1>4, <1>6, <2>1
    <3>2. End(m, x) \in Nat
      BY <1>1, <2>1, EndIs DEF D
    <3> QED BY <3>1, <3>2 DEF End
  <2>3. CASE x = m.hdr[s].prev
    <3>1. x # NULL
      BY <1>1, <2>1
    <3>2. m.hdr[x].next = s
      BY <2>3, <3>1 DEF Sound, Chained
    <3>3. u.hdr[x].next = m.hdr[s].next
      BY <1>4, <1>6, <2>1, <2>3
    <3>4. m.hdr[s].next \in L /\ s < m.hdr[s].next
      BY <3>3, <1>1 DEF Sound, Chained, Graded, D
    <3>5. End(m, x) < s
      BY <2>1, <3>2, <1>1 DEF MergedBut
    <3>6. m.hdr[s].next \in Nat /\ s \in Nat
      BY <1>1, <3>4
    <3> HIDE DEF End
    <3> QED BY <2>2, <3>3, <3>4, <3>5, <3>6
  <2>4. CASE x # m.hdr[s].prev
    <3>1. u.hdr[x].next = m.hdr[x].next
      BY <1>4, <1>6, <2>1, <2>4
    <3>2. End(m, x) < m.hdr[x].next
      BY <2>1, <3>1 DEF MergedBut
    <3> QED BY <2>2, <3>1, <3>2
  <2> QED BY <2>3, <2>4
<1>8. ASSUME Whole(m, L), ~ LosesList(m, s, m.hdr[s].size) PROVE Whole(u, M)
  <2>1. L \ {s} \subseteq M
    <3>1. CASE m.hdr[s].next # NULL
      BY <1>3, <3>1
    <3>2. CASE m.hdr[s].next = NULL
      <4>1. m.hdr[s].prev = NULL
        BY <1>8, <3>2 DEF LosesList
      <4>2. \A b \in L : b <= s /\ s <= b
        BY <3>2, <4>1 DEF Sound, Chained
      <4>3. \A b \in L : b = s
        BY <4>2, <1>1
      <4> QED BY <4>3
    <3> QED BY <3>1, <3>2
  <2>2. \A a \in D : m.hdr[a].sanityCheck \/ a \in L
    BY <1>8 DEF Whole, D
  <2> SUFFICES ASSUME NEW a \in D, ~ u.hdr[a].sanityCheck PROVE a \in M
    BY <1>4, <1>6 DEF Whole
  <2>3. a # s /\ ~ m.hdr[a].sanityCheck
    BY <1>4, <1>6
  <2> QED BY <2>1, <2>2, <2>3
<1>9. /\ DOMAIN u.hdr = D
      /\ \A x \in D : /\ u.hdr[x].size = m.hdr[x].size
                      /\ u.hdr[x].sanityCheck = (x = s \/ m.hdr[x].sanityCheck)
  BY <1>4, <1>6
<1>10. M \in SUBSET Nat
  BY <1>1, <1>3
<1> QED BY <1>1, <1>6, <1>7, <1>8, <1>9, <1>10 DEF Allocates, u, D

\* Taking part of a larger slot.
LEMMA CutAllocates ==
  ASSUME NEW m, NEW L, Sound(m, L), MergedBut(m, L, {}), NEW s \in L,
         NEW n \in Mult, n + MEM_HEADER_SIZE <= m.hdr[s].size, NEW r, Cut(m, r, s, n)
  PROVE  Allocates(m, L, reallocateMemPtr(r), s, n)
<1> DEFINE t == RestOf(s, n)
           M == (L \ {s}) \cup {t}
           u == reallocateMemPtr(r)
           D == DOMAIN m.hdr
<1>1. /\ m \in MemoryType /\ Laid(m) /\ L \subseteq D /\ D \subseteq Nat
      /\ s \in D /\ s \in Nat /\ NULL \notin L
  BY Fields, Constants DEF Sound, Chained
<1>2. /\ t \in Nat /\ s < t /\ t \notin D
      /\ \A b \in D : s < b => t < b /\ End(m, s) <= b
  BY <1>1, RestIs
<1>3. Sound(r, M) /\ r.memList \in M
  BY CutSound
<1>4. End(r, t) = End(m, s) /\ \A x \in D \ {s} : End(r, x) = End(m, x)
  BY <1>1, CutLaid
<1>5. DOMAIN r.hdr = D \cup {t}
  BY DEF Cut
<1>6. /\ r.hdr[t].sanityCheck = FALSE
      /\ r.hdr[t].next = m.hdr[s].next
      /\ r.hdr[s].sanityCheck = TRUE
      /\ r.hdr[s].size = n
  BY <1>1, <1>2 DEF Cut
<1>7. \A x \in D \ {s} : /\ r.hdr[x].size = m.hdr[x].size
                         /\ r.hdr[x].sanityCheck = m.hdr[x].sanityCheck
                         /\ r.hdr[x].next = IF x = m.hdr[s].prev THEN t ELSE m.hdr[x].next
  BY <1>2, <1>5 DEF Cut
<1>8. M \in SUBSET Nat /\ NULL \notin M
  BY <1>1, <1>2, Constants
<1>9. s \notin M /\ t \in M
  BY <1>1, <1>2
<1>10. \A x \in M : x = t \/ (x \in L /\ x \in D \ {s})
  BY <1>1
<1>11. L \ {s} \subseteq M
  OBVIOUS
<1> HIDE DEF M, t, D
<1>12. Sound(u, M) /\ AtHead(u, M) /\ u.hdr = r.hdr
  BY <1>3, <1>8, Relist
<1> HIDE DEF u
<1>13. \A x : End(u, x) = End(r, x)
  BY <1>12 DEF End
<1>14. MergedBut(u, M, {})
  <2> SUFFICES ASSUME NEW x \in M, u.hdr[x].next # NULL
               PROVE  End(u, x) < u.hdr[x].next
    BY DEF MergedBut
  <2>1. CASE x = t
    <3>1. u.hdr[x].next = m.hdr[s].next /\ End(u, x) = End(m, s)
      BY <2>1, <1>4, <1>6, <1>12, <1>13
    <3>2. End(m, s) < m.hdr[s].next
      BY <3>1 DEF MergedBut
    <3> QED BY <3>1, <3>2
  <2>2. CASE x # t
    <3>1. x \in L /\ x \in D /\ x # s /\ x \in Nat
      BY <1>1, <1>10, <2>2
    <3>2. End(u, x) = End(m, x) /\ End(m, x) \in Nat
      <4>1. End(m, x) \in Nat
        BY <1>1, <3>1, EndIs DEF D
      <4> QED BY <3>1, <4>1, <1>4, <1>13
    <3>3. CASE x = m.hdr[s].prev
      <4>1. u.hdr[x].next = t
        BY <3>1, <3>3, <1>7, <1>12
      <4>2. x # NULL
        BY <3>1, <1>1
      <4>3. m.hdr[x].next = s
        BY <3>3, <4>2 DEF Sound, Chained
      <4>4. End(m, x) < s
        BY <3>1, <4>3, <1>1 DEF MergedBut
      <4> QED BY <3>2, <4>1, <4>4, <1>1, <1>2
    <3>4. CASE x # m.hdr[s].prev
      <4>1. u.hdr[x].next = m.hdr[x].next
        BY <3>1, <3>4, <1>7, <1>12
      <4>2. End(m, x) < m.hdr[x].next
        BY <3>1, <4>1 DEF MergedBut
      <4> QED BY <3>2, <4>1, <4>2
    <3> QED BY <3>3, <3>4
  <2> QED BY <2>1, <2>2
<1>15. Whole(m, L) => Whole(u, M)
  <2> SUFFICES ASSUME \A a \in D : m.hdr[a].sanityCheck \/ a \in L,
                      NEW a \in D \cup {t}, ~ u.hdr[a].sanityCheck
               PROVE  a \in M
    BY <1>5, <1>12 DEF Whole, D
  <2>1. CASE a = t
    BY <1>9, <2>1
  <2>2. CASE a # t
    <3>1. a \in D /\ a # s
      BY <1>6, <1>12, <2>2
    <3>2. ~ m.hdr[a].sanityCheck
      BY <1>7, <1>12, <3>1
    <3> QED BY <1>11, <3>1, <3>2
  <2> QED BY <2>1, <2>2
<1>16. \A x \in D \ {s} : /\ x \in DOMAIN u.hdr
                          /\ u.hdr[x].size = m.hdr[x].size
                          /\ u.hdr[x].sanityCheck = m.hdr[x].sanityCheck
  BY <1>5, <1>7, <1>12
<1>17. \A x \in DOMAIN u.hdr \ {s} :
         u.hdr[x].sanityCheck => x \in D /\ m.hdr[x].sanityCheck
  BY <1>5, <1>6, <1>7, <1>12
<1>18. s \in DOMAIN u.hdr /\ u.hdr[s].sanityCheck /\ u.hdr[s].size = n
  BY <1>1, <1>5, <1>6, <1>12
<1> QED BY <1>8, <1>12, <1>14, <1>15, <1>16, <1>17, <1>18 DEF Allocates, u, D

\* allocateMemSlot on a slot of the list that is large enough.
LEMMA AllocateIs ==
  ASSUME NEW m, NEW L, Sound(m, L), MergedBut(m, L, {}), NEW s \in L,
         NEW n \in Mult, ~ TearsSlot(m, s, n), n <= m.hdr[s].size
  PROVE  Allocates(m, L, allocateMemSlot(m, s, n), s, n)
<1>1. /\ m \in MemoryType /\ Graded(m) /\ Laid(m) /\ s \in DOMAIN m.hdr /\ n \in Nat
      /\ m.hdr[s].size \in Nat
  BY Fields, MultNat DEF Sound, Chained
<1>2. CASE m.hdr[s].size = n
  <2> DEFINE r == [unlink(m, s) EXCEPT !.hdr[s] = Header(m.hdr[s].size, NULL, NULL, TRUE)]
  <2>1. Exact(m, r, s)
    BY <1>1, ExactIs
  <2>2. allocateMemSlot(m, s, n) = reallocateMemPtr(r)
    BY <1>2 DEF allocateMemSlot
  <2> HIDE DEF r
  <2>3. Allocates(m, L, reallocateMemPtr(r), s, m.hdr[s].size)
    BY <2>1, ExactAllocates
  <2> QED BY <1>2, <2>2, <2>3
<1>3. CASE m.hdr[s].size # n
  <2> DEFINE r == [split(m, s, n) EXCEPT !.hdr[s] = Header(n, NULL, NULL, TRUE)]
  <2>1. n + MEM_HEADER_SIZE <= m.hdr[s].size
    BY <1>1, <1>3, Constants DEF TearsSlot
  <2>2. Cut(m, r, s, n)
    BY <1>1, <2>1, CutIs
  <2>3. allocateMemSlot(m, s, n) = reallocateMemPtr(r)
    BY <1>3 DEF allocateMemSlot
  <2> HIDE DEF r
  <2>4. Allocates(m, L, reallocateMemPtr(r), s, n)
    BY <2>1, <2>2, CutAllocates
  <2> QED BY <2>3, <2>4
<1> QED BY <1>2, <1>3
-----------------------------------------------------------------------------
\* The owned slots are those with the mark of kmalloc, and have the room asked for.
Owners(m, lv) ==
  /\ \A p \in DOMAIN lv :
       /\ p \in Nat
       /\ p - MEM_HEADER_SIZE \in DOMAIN m.hdr
       /\ m.hdr[p - MEM_HEADER_SIZE].sanityCheck
       /\ Fits(lv[p], m.hdr[p - MEM_HEADER_SIZE].size)
  /\ \A a \in DOMAIN m.hdr :
       m.hdr[a].sanityCheck => a + MEM_HEADER_SIZE \in DOMAIN lv

Good(m, L, lv, d) ==
  /\ Sound(m, L)
  /\ AtHead(m, L)
  /\ MergedBut(m, L, {})
  /\ Owners(m, lv)
  /\ ~ d => Whole(m, L)

(***************************************************************************)
(* The inductive invariant: there is a list, of slots in order and merged, *)
(* that no owned slot is part of, and the slots cover the regions.         *)
(***************************************************************************)
MemInv(m, lv, d) == \E L \in SUBSET Nat : Good(m, L, lv, d)

\* What create and cleanup make of the owners.
With(lv, p, size) == [q \in DOMAIN lv \cup {p} |-> IF q = p THEN size ELSE lv[q]]
Without(lv, p) == [q \in DOMAIN lv \ {p} |-> lv[q]]

\* kmalloc keeps the invariant.
LEMMA TakeKeeps ==
  ASSUME NEW m, NEW lv, NEW d \in BOOLEAN, NEW e \in BOOLEAN, MemInv(m, lv, d),
         NEW size \in Requests, findMemSlot(m, Rounded(size)) # NULL,
         ~ TearsSlot(m, findMemSlot(m, Rounded(size)), Rounded(size)),
         ~ e => /\ ~ d
                /\ ~ LosesList(m, findMemSlot(m, Rounded(size)), Rounded(size))
  PROVE  MemInv(allocateMemSlot(m, findMemSlot(m, Rounded(size)), Rounded(size)),
                With(lv, findMemSlot(m, Rounded(size)) + MEM_HEADER_SIZE, size), e)
<1> DEFINE n == Rounded(size)
           s == findMemSlot(m, n)
           r == allocateMemSlot(m, s, n)
           new == With(lv, s + MEM_HEADER_SIZE, size)
           D == DOMAIN m.hdr
<1>1. PICK L \in SUBSET Nat : Good(m, L, lv, d)
  BY DEF MemInv
<1>2. n \in Mult /\ n \in Nat /\ Fits(size, n)
  BY RoundedIs
<1>3. /\ m \in MemoryType /\ Graded(m) /\ Chained(m, L) /\ AtHead(m, L) /\ Sound(m, L)
      /\ MergedBut(m, L, {}) /\ L \subseteq D /\ D \subseteq Nat
  BY <1>1, Fields DEF Good, Sound, Chained
<1> HIDE DEF n
<1>4. s \in L /\ n <= m.hdr[s].size
  <2>1. findMemSlot(m, n) # NULL
    BY DEF n
  <2>2. findMemSlot(m, n) \in L /\ m.hdr[findMemSlot(m, n)].size >= n
    BY <1>2, <1>3, <2>1, FindIs
  <2>3. s \in D
    BY <1>3, <2>2
  <2>4. m.hdr[s].size \in Nat
    BY <1>3, <2>3, Fields
  <2> QED BY <1>2, <2>2, <2>4
<1>5. (~ e => ~ d /\ ~ LosesList(m, s, n)) /\ ~ TearsSlot(m, s, n)
  BY DEF n
<1>6. s \in Nat /\ s \in D
  BY <1>3, <1>4
<1> HIDE DEF s
<1>7. Allocates(m, L, r, s, n)
  BY <1>2, <1>3, <1>4, <1>5, AllocateIs
<1> HIDE DEF r
<1>8. PICK M \in SUBSET Nat :
        /\ Sound(r, M) /\ AtHead(r, M) /\ MergedBut(r, M, {})
        /\ s \in DOMAIN r.hdr /\ r.hdr[s].sanityCheck /\ r.hdr[s].size = n
        /\ \A x \in DOMAIN m.hdr \ {s} :
             m.hdr[x].sanityCheck =>
               /\ x \in DOMAIN r.hdr
               /\ r.hdr[x].sanityCheck
               /\ r.hdr[x].size = m.hdr[x].size
        /\ \A x \in DOMAIN r.hdr \ {s} :
             r.hdr[x].sanityCheck => x \in DOMAIN m.hdr /\ m.hdr[x].sanityCheck
        /\ Whole(m, L) /\ ~ LosesList(m, s, n) => Whole(r, M)
  BY <1>7 DEF Allocates
<1>9. /\ DOMAIN new = DOMAIN lv \cup {s + MEM_HEADER_SIZE}
      /\ new[s + MEM_HEADER_SIZE] = size
      /\ \A p \in DOMAIN lv : p # s + MEM_HEADER_SIZE => new[p] = lv[p]
  BY DEF With
<1> HIDE DEF new
<1>10. /\ \A p \in DOMAIN lv :
            /\ p \in Nat
            /\ p - MEM_HEADER_SIZE \in DOMAIN m.hdr
            /\ m.hdr[p - MEM_HEADER_SIZE].sanityCheck
            /\ Fits(lv[p], m.hdr[p - MEM_HEADER_SIZE].size)
       /\ \A a \in DOMAIN m.hdr :
            m.hdr[a].sanityCheck => a + MEM_HEADER_SIZE \in DOMAIN lv
  BY <1>1 DEF Good, Owners
<1>11. ASSUME NEW p \in DOMAIN new
       PROVE  /\ p \in Nat
              /\ p - MEM_HEADER_SIZE \in DOMAIN r.hdr
              /\ r.hdr[p - MEM_HEADER_SIZE].sanityCheck
              /\ Fits(new[p], r.hdr[p - MEM_HEADER_SIZE].size)
  <2>1. CASE p = s + MEM_HEADER_SIZE
    <3>1. p \in Nat /\ p - MEM_HEADER_SIZE = s
      BY <1>6, <2>1, Constants
    <3> QED BY <1>2, <1>8, <1>9, <2>1, <3>1
  <2>2. CASE p # s + MEM_HEADER_SIZE
    <3>1. p \in DOMAIN lv /\ new[p] = lv[p]
      BY <1>9, <2>2
    <3>2. p \in Nat /\ p - MEM_HEADER_SIZE \in D
      BY <1>10, <3>1
    <3>3. p - MEM_HEADER_SIZE # s
      BY <1>6, <2>2, <3>2, Constants
    <3> DEFINE a == p - MEM_HEADER_SIZE
    <3>4. a \in DOMAIN m.hdr \ {s} /\ m.hdr[a].sanityCheck /\ Fits(lv[p], m.hdr[a].size)
      BY <1>10, <3>1, <3>2, <3>3
    <3> HIDE DEF a
    <3>5. a \in DOMAIN r.hdr /\ r.hdr[a].sanityCheck /\ r.hdr[a].size = m.hdr[a].size
      BY <1>8, <3>4
    <3> QED BY <3>1, <3>2, <3>4, <3>5 DEF a
  <2> QED BY <2>1, <2>2
<1>12. ASSUME NEW a \in DOMAIN r.hdr, r.hdr[a].sanityCheck
       PROVE  a + MEM_HEADER_SIZE \in DOMAIN new
  BY <1>8, <1>9, <1>10, <1>12
<1>13. Owners(r, new)
  BY <1>11, <1>12 DEF Owners
<1>14. ~ e => Whole(r, M)
  BY <1>1, <1>5, <1>8 DEF Good
<1>15. Good(r, M, new, e)
  BY <1>8, <1>13, <1>14 DEF Good
<1> QED BY <1>15 DEF MemInv, r, new, s, n

\* Where sizes are whole grains, no slot is torn.
LEMMA TakeWhole ==
  ASSUME WholeLower, NEW m, NEW lv, NEW d \in BOOLEAN, MemInv(m, lv, d),
         NEW size \in Requests, findMemSlot(m, Rounded(size)) # NULL
  PROVE  ~ TearsSlot(m, findMemSlot(m, Rounded(size)), Rounded(size))
<1> DEFINE n == Rounded(size)
           s == findMemSlot(m, n)
<1>1. PICK L \in SUBSET Nat : Good(m, L, lv, d)
  BY DEF MemInv
<1>2. n \in Mult /\ n \in Nat
  BY RoundedIs
<1>3. /\ m \in MemoryType /\ Graded(m) /\ Chained(m, L) /\ AtHead(m, L) /\ Laid(m)
      /\ L \subseteq DOMAIN m.hdr
  BY <1>1 DEF Good, Sound, Chained
<1> HIDE DEF n
<1>4. findMemSlot(m, n) # NULL
  BY DEF n
<1>5. s \in L /\ m.hdr[s].size >= n
  BY <1>2, <1>3, <1>4, FindIs
<1> HIDE DEF s
<1>6. s \in DOMAIN m.hdr /\ m.hdr[s].size \in Nat
  BY <1>3, <1>5, Fields
<1>7. m.hdr[s].size \in Mult
  BY <1>3, <1>6 DEF Laid, Graned
<1>8. m.hdr[s].size # n => ~ (m.hdr[s].size < n + MEM_HEADER_SIZE)
  <2> SUFFICES ASSUME m.hdr[s].size # n PROVE ~ (m.hdr[s].size < n + MEM_HEADER_SIZE)
    OBVIOUS
  <2>1. n < m.hdr[s].size
    BY <1>2, <1>5, <1>6
  <2>2. m.hdr[s].size - n - GRAIN \in Nat
    BY <1>2, <1>7, <2>1, MultDifference, MultNat
  <2> QED BY <1>2, <1>6, <2>2, Constants, Machine
<1> QED BY <1>8 DEF TearsSlot, s, n

\* An address that was given out is one kfree accepts.
LEMMA OwnerAccepted ==
  ASSUME NEW m, NEW lv, NEW d \in BOOLEAN, MemInv(m, lv, d), NEW p \in DOMAIN lv
  PROVE  Accepted(m, p)
<1> DEFINE s == p - MEM_HEADER_SIZE
<1>1. PICK L \in SUBSET Nat : Good(m, L, lv, d)
  BY DEF MemInv
<1>2. p \in Nat /\ s \in DOMAIN m.hdr /\ m.hdr[s].sanityCheck
  BY <1>1 DEF Good, Owners
<1>3. m \in MemoryType /\ Laid(m)
  BY <1>1 DEF Good, Sound
<1>4. p = s + MEM_HEADER_SIZE
  BY <1>2, Constants
<1> HIDE DEF s
<1>5. s \in Nat /\ m.hdr[s].size \in Nat
  BY <1>2, <1>3, Fields
<1>6. \/ freemem <= s /\ s + MEM_HEADER_SIZE + m.hdr[s].size <= HOLESTART
      \/ HOLEEND <= s /\ s + MEM_HEADER_SIZE + m.hdr[s].size <= maxaddr
  BY <1>2, <1>3 DEF Laid, Inside, End
<1>7. freemem <= p /\ p <= maxaddr /\ ~ (HOLESTART < p /\ p < HOLEEND)
  BY <1>4, <1>5, <1>6, Constants
<1> QED BY <1>2, <1>7 DEF Accepted, s

\* kfree keeps the invariant.
LEMMA GiveKeeps ==
  ASSUME NEW m, NEW lv, NEW d \in BOOLEAN, MemInv(m, lv, d), NEW p \in DOMAIN lv
  PROVE  MemInv(mergeMemSlot(insertToMemList(m, p - MEM_HEADER_SIZE), p - MEM_HEADER_SIZE),
                Without(lv, p), d)
<1> DEFINE s == p - MEM_HEADER_SIZE
           u == insertToMemList(m, s)
           r == mergeMemSlot(u, s)
           new == Without(lv, p)
           D == DOMAIN m.hdr
<1>1. PICK L \in SUBSET Nat : Good(m, L, lv, d)
  BY DEF MemInv
<1>2. /\ \A q \in DOMAIN lv :
           /\ q \in Nat
           /\ q - MEM_HEADER_SIZE \in D
           /\ m.hdr[q - MEM_HEADER_SIZE].sanityCheck
           /\ Fits(lv[q], m.hdr[q - MEM_HEADER_SIZE].size)
      /\ \A a \in D : m.hdr[a].sanityCheck => a + MEM_HEADER_SIZE \in DOMAIN lv
  BY <1>1 DEF Good, Owners
<1>3. p \in Nat /\ s \in D /\ m.hdr[s].sanityCheck
  BY <1>2
<1>4. /\ m \in MemoryType /\ Sound(m, L) /\ AtHead(m, L) /\ MergedBut(m, L, {})
      /\ Laid(m) /\ Unowned(m) /\ Outside(m, L) /\ L \subseteq D /\ D \subseteq Nat
  BY <1>1, Fields DEF Good, Sound, Chained
<1>5. p = s + MEM_HEADER_SIZE /\ s \in Nat
  BY <1>3, <1>4, Constants
<1> HIDE DEF s
<1>6. s \notin L /\ m.hdr[s].next = NULL /\ m.hdr[s].prev = NULL
  BY <1>3, <1>4 DEF Outside
<1>7. \A x \in D : m.hdr[x].next # s /\ m.hdr[x].prev # s
  <2>1. s # NULL
    BY <1>5, Constants
  <2> QED BY <1>3, <1>4, <2>1 DEF Unowned
<1>8. PICK a, b \in Ptr : /\ Between(m, L, s, a, b)
                          /\ Inserted(m, u, s, a, b)
                          /\ AtHead(u, L \cup {s})
  <2> HIDE DEF u
  <2> QED BY <1>3, <1>4, <1>6, <1>7, InsertIs DEF u
<1> HIDE DEF u
<1>9. Sound(u, L \cup {s})
  BY <1>3, <1>4, <1>6, <1>7, <1>8, InsertSound
<1>10. /\ DOMAIN u.hdr = D
       /\ \A x \in D : u.hdr[x].size = m.hdr[x].size
       /\ \A x \in D : u.hdr[x].sanityCheck = (x # s /\ m.hdr[x].sanityCheck)
       /\ \A x \in D : x # s => u.hdr[x].next = IF x = a THEN s ELSE m.hdr[x].next
       /\ u.hdr[s].prev = a
  BY <1>3, <1>8 DEF Inserted, SameSizes
<1>11. MergedBut(u, L \cup {s}, {s, u.hdr[s].prev})
  <2> SUFFICES ASSUME NEW x \in L, x # s, x # a, u.hdr[x].next # NULL
               PROVE  End(u, x) < u.hdr[x].next
    BY <1>10 DEF MergedBut
  <2>1. x \in D /\ u.hdr[x].next = m.hdr[x].next /\ u.hdr[x].size = m.hdr[x].size
    BY <1>4, <1>10
  <2>2. End(m, x) < m.hdr[x].next
    BY <1>4, <2>1 DEF MergedBut
  <2> QED BY <2>1, <2>2 DEF End
<1>12. Merges(u, L \cup {s}, r)
  <2>1. s \in L \cup {s}
    OBVIOUS
  <2> HIDE DEF r
  <2> QED BY <1>8, <1>9, <1>11, <2>1, MergeIs DEF r
<1> HIDE DEF r
<1>13. PICK M \in SUBSET (L \cup {s}) :
         Sound(r, M) /\ AtHead(r, M) /\ Kept(u, L \cup {s}, r, M) /\ MergedBut(r, M, {})
  BY <1>12 DEF Merges
<1>14. M \in SUBSET Nat
  BY <1>5, <1>13
<1>15. /\ DOMAIN r.hdr \ M = D \ (L \cup {s})
       /\ \A x \in D \ (L \cup {s}) :
            /\ r.hdr[x].size = m.hdr[x].size
            /\ r.hdr[x].sanityCheck = m.hdr[x].sanityCheck
  <2>1. /\ DOMAIN r.hdr \ M = D \ (L \cup {s})
        /\ \A x \in D \ (L \cup {s}) :
             r.hdr[x].size = u.hdr[x].size /\ r.hdr[x].sanityCheck = u.hdr[x].sanityCheck
    BY <1>10, <1>13 DEF Kept
  <2>2. ASSUME NEW x \in D \ (L \cup {s})
        PROVE  u.hdr[x].size = m.hdr[x].size /\ u.hdr[x].sanityCheck = m.hdr[x].sanityCheck
    <3>1. m.hdr[x].sanityCheck \in BOOLEAN
      BY <1>4, Fields
    <3> QED BY <1>10, <3>1
  <2> QED BY <2>1, <2>2
<1>16. DOMAIN new = DOMAIN lv \ {p} /\ \A q \in DOMAIN lv \ {p} : new[q] = lv[q]
  BY DEF Without
<1> HIDE DEF new
<1>17. ASSUME NEW q \in DOMAIN new
       PROVE  /\ q \in Nat
              /\ q - MEM_HEADER_SIZE \in DOMAIN r.hdr
              /\ r.hdr[q - MEM_HEADER_SIZE].sanityCheck
              /\ Fits(new[q], r.hdr[q - MEM_HEADER_SIZE].size)
  <2> DEFINE x == q - MEM_HEADER_SIZE
  <2>1. q \in DOMAIN lv /\ q # p /\ new[q] = lv[q]
    BY <1>16
  <2>2. q \in Nat /\ x \in D /\ m.hdr[x].sanityCheck /\ Fits(lv[q], m.hdr[x].size)
    BY <1>2, <2>1
  <2>3. x # s
    BY <1>3, <1>5, <2>1, <2>2, Constants
  <2> HIDE DEF x
  <2>4. x \notin L
    BY <1>4, <2>2 DEF Outside
  <2>5. x \in D \ (L \cup {s})
    BY <2>2, <2>3, <2>4
  <2>6. /\ x \in DOMAIN r.hdr /\ r.hdr[x].size = m.hdr[x].size
        /\ r.hdr[x].sanityCheck = m.hdr[x].sanityCheck
    BY <1>15, <2>5
  <2> QED BY <2>1, <2>2, <2>6 DEF x
<1>18. ASSUME NEW x \in DOMAIN r.hdr, r.hdr[x].sanityCheck
       PROVE  x + MEM_HEADER_SIZE \in DOMAIN new
  <2>1. x \notin M
    BY <1>13, <1>18 DEF Sound, Outside
  <2>2. x \in D /\ x # s /\ m.hdr[x].sanityCheck /\ x \in Nat
    BY <1>4, <1>15, <1>18, <2>1
  <2>3. x + MEM_HEADER_SIZE # p
    BY <1>5, <2>2, Constants
  <2> QED BY <1>2, <1>16, <2>2, <2>3
<1>19. Owners(r, new)
  BY <1>17, <1>18 DEF Owners
<1>20. ~ d => Whole(r, M)
  <2> SUFFICES ASSUME \A x \in D : m.hdr[x].sanityCheck \/ x \in L,
                      NEW x \in DOMAIN r.hdr, ~ r.hdr[x].sanityCheck, x \notin M
               PROVE  FALSE
    BY <1>1 DEF Good, Whole
  <2> QED BY <1>15
<1>21. Good(r, M, new, d)
  BY <1>13, <1>19, <1>20 DEF Good
<1> QED BY <1>14, <1>21 DEF MemInv, r, u, new, s
-----------------------------------------------------------------------------
\* kmeminit leaves the two regions as two slots.
LEMMA BootGood ==
  Good(kmeminit, {freemem, HOLEEND}, << >>, FALSE)
<1> DEFINE m == kmeminit
           L == {freemem, HOLEEND}
           size1 == HOLESTART - (freemem + MEM_HEADER_SIZE)
           above == maxaddr - (HOLEEND + MEM_HEADER_SIZE)
           size2 == (above \div GRAIN) * GRAIN
<1>0. MEM_HEADER_SIZE = GRAIN /\ maxaddr <= ULONG_MAX
  BY Machine
<1>1. (Graned(freemem) => size1 \in Mult) /\ size1 \in Nat /\ freemem + MEM_HEADER_SIZE + size1 = HOLESTART
  <2> DEFINE x == HOLESTART - freemem
  <2>1. x \in Nat /\ 0 < x
    BY Constants
  <2>2. ASSUME Graned(freemem) PROVE size1 \in Mult
    <3>1. x % GRAIN = 0
      BY <2>2, Constants DEF Graned, WholeLower
    <3>2. x \in Mult
      BY <2>1, <3>1, MultIs
    <3>3. 0 \in Mult
      <4>1. 0 = 0 * GRAIN
        BY Constants
      <4> QED BY <4>1 DEF Mult
    <3>4. x - 0 - GRAIN \in Mult
      <4> HIDE DEF x
      <4> QED BY <2>1, <3>2, <3>3, MultDifference
    <3>5. size1 = x - 0 - GRAIN
      BY <1>0, Constants
    <3> QED BY <3>4, <3>5
  <2>3. size1 \in Nat /\ freemem + MEM_HEADER_SIZE + size1 = HOLESTART
    BY Constants
  <2> QED BY <2>2, <2>3
<1>2. /\ size2 \in Mult /\ size2 \in Nat
      /\ HOLEEND + MEM_HEADER_SIZE + size2 <= maxaddr
      /\ maxaddr < HOLEEND + MEM_HEADER_SIZE + size2 + GRAIN
  <2>1. above \in Nat
    BY Constants
  <2> HIDE DEF above
  <2>2. size2 \in Mult /\ size2 <= above /\ above < size2 + GRAIN
    BY <2>1, MultDiv
  <2>3. size2 \in Nat
    BY <2>2, MultNat
  <2> HIDE DEF size2
  <2>4. above = maxaddr - (HOLEEND + MEM_HEADER_SIZE)
    BY DEF above
  <2> QED BY <2>2, <2>3, <2>4, Constants
<1>3. freemem < HOLEEND /\ freemem \in Nat /\ HOLEEND \in Nat /\ freemem <= maxaddr
      /\ HOLEEND <= maxaddr
  BY Constants
<1>4. /\ m.memList = freemem
      /\ DOMAIN m.hdr = L
      /\ m.hdr[freemem] = Header(size1, NULL, HOLEEND, FALSE)
      /\ m.hdr[HOLEEND] = Header(size2, freemem, NULL, FALSE)
      /\ m.hdr \in [L -> {Header(size1, NULL, HOLEEND, FALSE), Header(size2, freemem, NULL, FALSE)}]
      /\ m = [memList |-> m.memList, hdr |-> m.hdr]
  <2> DEFINE h1 == Header(size1, NULL, HOLEEND, FALSE)
             h2 == Header(size2, freemem, NULL, FALSE)
             f == [a \in L |-> IF a = freemem THEN h1 ELSE h2]
  <2>1. m = [memList |-> freemem, hdr |-> f]
    BY DEF kmeminit
  <2> HIDE DEF m, h1, h2
  <2>2. f \in [L -> {h1, h2}] /\ DOMAIN f = L /\ f[freemem] = h1 /\ f[HOLEEND] = h2
    BY <1>3
  <2> HIDE DEF f
  <2>3. m.memList = freemem /\ m.hdr = f
    BY <2>1
  <2> QED BY <2>1, <2>2, <2>3 DEF h1, h2
<1> HIDE DEF m, size1, size2
<1>5. /\ m.hdr[freemem].size = size1 /\ m.hdr[HOLEEND].size = size2
      /\ m.hdr[freemem].prev = NULL /\ m.hdr[HOLEEND].prev = freemem
      /\ m.hdr[freemem].next = HOLEEND /\ m.hdr[HOLEEND].next = NULL
      /\ m.hdr[freemem].sanityCheck = FALSE /\ m.hdr[HOLEEND].sanityCheck = FALSE
  BY <1>4 DEF Header
<1>6. m \in MemoryType
  <2>1. Header(size1, NULL, HOLEEND, FALSE) \in Hdr /\ Header(size2, freemem, NULL, FALSE) \in Hdr
    BY <1>1, <1>2, <1>3 DEF Header, Hdr, Ptr
  <2>2. L \in SUBSET Nat
    BY <1>3
  <2>3. m.hdr \in [L -> Hdr]
    BY <1>4, <2>1
  <2>4. m.memList \in Ptr
    BY <1>3, <1>4 DEF Ptr
  <2> QED BY <1>4, <2>2, <2>3, <2>4 DEF MemoryType
<1>7. NULL # freemem /\ NULL # HOLEEND
  BY Constants
<1>8. Graded(m)
  BY <1>3, <1>4, <1>5, <1>7 DEF Graded
<1>9. Chained(m, L)
  <2> SUFFICES ASSUME NEW a \in L
               PROVE  /\ m.hdr[a].next # NULL =>
                           /\ m.hdr[a].next \in L
                           /\ m.hdr[m.hdr[a].next].prev = a
                           /\ \A b \in L : b <= a \/ m.hdr[a].next <= b
                      /\ m.hdr[a].next = NULL => \A b \in L : b <= a
                      /\ m.hdr[a].prev # NULL =>
                           /\ m.hdr[a].prev \in L
                           /\ m.hdr[m.hdr[a].prev].next = a
                      /\ m.hdr[a].prev = NULL => \A b \in L : a <= b
    BY <1>4 DEF Chained
  <2>1. CASE a = freemem
    BY <1>3, <1>5, <1>7, <2>1
  <2>2. CASE a = HOLEEND
    BY <1>3, <1>5, <1>7, <2>2
  <2> QED BY <2>1, <2>2
<1>10. Outside(m, L) /\ Unowned(m)
  BY <1>3, <1>4, <1>5, <1>7 DEF Outside, Unowned
<1>11. End(m, freemem) = HOLESTART /\ End(m, HOLEEND) = HOLEEND + MEM_HEADER_SIZE + size2
  BY <1>1, <1>5 DEF End
<1>12. Laid(m)
  <2>1. Inside(m, freemem) /\ Inside(m, HOLEEND)
    BY <1>2, <1>3, <1>11, Constants DEF Inside
  <2>2. Followed(m, freemem) /\ Followed(m, HOLEEND)
    BY <1>2, <1>3, <1>11, Constants DEF Followed
  <2>3. \A a, b \in DOMAIN m.hdr : a < b => End(m, a) <= b
    BY <1>3, <1>4, <1>11, Constants
  <2> QED BY <1>1, <1>2, <1>4, <1>5, <2>1, <2>2, <2>3 DEF Laid
<1>13. Sound(m, L)
  BY <1>6, <1>8, <1>9, <1>10, <1>12 DEF Sound
<1>14. AtHead(m, L)
  BY <1>4, <1>5, <1>7 DEF AtHead
<1>15. MergedBut(m, L, {})
  BY <1>5, <1>11, Constants DEF MergedBut
<1>16. Owners(m, << >>)
  <2>1. DOMAIN << >> = {}
    OBVIOUS
  <2>2. \A a \in DOMAIN m.hdr : ~ m.hdr[a].sanityCheck
    BY <1>4, <1>5
  <2> QED BY <2>1, <2>2 DEF Owners
<1>17. Whole(m, L)
  BY <1>4 DEF Whole
<1> QED BY <1>13, <1>14, <1>15, <1>16, <1>17 DEF Good, m

MIInv ==
  /\ dropped \in BOOLEAN
  /\ torn \in BOOLEAN
  /\ ~ torn => MemInv(mem, live, dropped)
  /\ WholeLower => ~ torn

(***************************************************************************)
(* MemoryInvariant: whatever is asked for and given back, and in whatever  *)
(* order, the inductive invariant holds until kmalloc tears a slot; and it *)
(* never does when the lower region is a whole number of grains.           *)
(***************************************************************************)
THEOREM MemoryInvariant == ASpec => []MIInv
<1>1. AInit => MIInv
  <2> SUFFICES ASSUME AInit PROVE MIInv
    OBVIOUS
  <2>1. mem = kmeminit /\ live = << >> /\ dropped = FALSE /\ torn = FALSE
    BY DEF AInit, Init
  <2>2. {freemem, HOLEEND} \in SUBSET Nat
    BY Constants
  <2>3. MemInv(kmeminit, << >>, FALSE)
    BY <2>2, BootGood DEF MemInv
  <2> QED BY <2>1, <2>3 DEF MIInv
<1>2. MIInv /\ [ANext]_avars => MIInv'
  <2> SUFFICES ASSUME MIInv, [ANext]_avars PROVE MIInv'
    OBVIOUS
  <2>1. CASE UNCHANGED avars
    BY <2>1 DEF MIInv, avars
  <2>2. ASSUME NEW size \in Requests, Take(size) PROVE MIInv'
    <3> DEFINE n == Rounded(size)
               s == findMemSlot(mem, n)
               e == dropped \/ TakesLast(size)
    <3>1. /\ s # NULL
          /\ ~ torn
          /\ mem' = allocateMemSlot(mem, s, n)
          /\ live' = With(live, s + MEM_HEADER_SIZE, size)
          /\ dropped' = e
          /\ torn' = TearsSlot(mem, s, n)
      BY <2>2 DEF Take, Tears, kmalloc, With, TearsSlot
    <3>2. TakesLast(size) = LosesList(mem, s, n)
      BY DEF TakesLast, LosesList
    <3>3. dropped \in BOOLEAN /\ MemInv(mem, live, dropped)
      BY <3>1 DEF MIInv
    <3>4. e \in BOOLEAN /\ (~ e => ~ dropped /\ ~ LosesList(mem, s, n))
      BY <3>2, <3>3
    <3>5. torn' \in BOOLEAN
      BY <3>1 DEF TearsSlot
    <3> HIDE DEF e
    <3>6. ~ TearsSlot(mem, s, n) =>
            MemInv(allocateMemSlot(mem, s, n), With(live, s + MEM_HEADER_SIZE, size), e)
      BY <3>1, <3>3, <3>4, TakeKeeps
    <3>7. WholeLower => ~ TearsSlot(mem, s, n)
      BY <3>1, <3>3, TakeWhole
    <3> HIDE DEF s, n
    <3> QED BY <3>1, <3>4, <3>5, <3>6, <3>7 DEF MIInv
  <2>3. ASSUME NEW p \in DOMAIN live, Give(p) PROVE MIInv'
    <3>1. ~ torn /\ dropped \in BOOLEAN /\ MemInv(mem, live, dropped)
      BY <2>3 DEF Give, MIInv
    <3>2. Accepted(mem, p)
      BY <3>1, OwnerAccepted
    <3>3. /\ mem' = mergeMemSlot(insertToMemList(mem, p - MEM_HEADER_SIZE), p - MEM_HEADER_SIZE)
          /\ live' = Without(live, p)
          /\ dropped' = dropped
          /\ torn' = torn
      BY <2>3, <3>2 DEF Give, kfree, Without
    <3>4. MemInv(mergeMemSlot(insertToMemList(mem, p - MEM_HEADER_SIZE), p - MEM_HEADER_SIZE),
                 Without(live, p), dropped)
      BY <3>1, GiveKeeps
    <3> QED BY <3>1, <3>3, <3>4 DEF MIInv
  <2>4. CASE Broken
    BY <2>4 DEF Broken, MIInv, avars
  <2> QED BY <2>1, <2>2, <2>3, <2>4 DEF ANext
<1> QED BY <1>1, <1>2, PTL DEF ASpec
-----------------------------------------------------------------------------
\* The invariant implies that slots are apart.
LEMMA ApartShown ==
  ASSUME MIInv, ~ torn
  PROVE  SlotsApart
<1>1. PICK L \in SUBSET Nat : Good(mem, L, live, dropped)
  BY DEF MIInv, MemInv
<1>2. mem \in MemoryType /\ Laid(mem) /\ DOMAIN mem.hdr \subseteq Nat
  BY <1>1, Fields DEF Good, Sound
<1>3. \A a \in DOMAIN mem.hdr :
        /\ a \in Nat /\ End(mem, a) \in Nat /\ a < End(mem, a) /\ EndOf(mem, a) = End(mem, a)
  BY <1>2, EndIs
<1>4. ASSUME NEW a \in DOMAIN mem.hdr
      PROVE  Cells(a) \subseteq Below \/ Cells(a) \subseteq Above
  <2>1. Cells(a) = a .. End(mem, a) - 1
    BY <1>3 DEF Cells
  <2>2. Inside(mem, a)
    BY <1>2 DEF Laid
  <2>3. a \in Nat /\ End(mem, a) \in Nat
    BY <1>3
  <2> DEFINE e == End(mem, a)
  <2>4. (freemem <= a /\ e <= HOLESTART) \/ (HOLEEND <= a /\ e <= maxaddr)
    BY <2>2 DEF Inside
  <2>5. e \in Nat
    BY <2>3
  <2> HIDE DEF e
  <2>6. a .. e - 1 \subseteq Below \/ a .. e - 1 \subseteq Above
    BY <2>3, <2>4, <2>5, Constants DEF Below, Above
  <2> QED BY <2>1, <2>6 DEF e
<1>5. ASSUME NEW a \in DOMAIN mem.hdr, NEW b \in DOMAIN mem.hdr, a < b
      PROVE  Cells(a) \cap Cells(b) = {}
  <2>1. End(mem, a) <= b
    BY <1>2, <1>5 DEF Laid
  <2> DEFINE e == End(mem, a)
             f == End(mem, b)
  <2>2. Cells(a) = a .. e - 1 /\ Cells(b) = b .. f - 1
    BY <1>3 DEF Cells
  <2>3. a \in Nat /\ b \in Nat /\ e \in Nat /\ f \in Nat /\ e <= b
    BY <1>3, <2>1
  <2> HIDE DEF e, f
  <2>4. \A x \in a .. e - 1 : x \notin b .. f - 1
    BY <2>3
  <2> QED BY <2>2, <2>4
<1>6. ASSUME NEW a \in DOMAIN mem.hdr, NEW b \in DOMAIN mem.hdr \ {a}
      PROVE  Cells(a) \cap Cells(b) = {}
  <2>1. a < b \/ b < a
    BY <1>3, <1>6
  <2>2. CASE a < b
    BY <1>5, <2>2
  <2>3. CASE b < a
    <3>1. Cells(b) \cap Cells(a) = {}
      BY <1>5, <2>3
    <3> QED BY <3>1
  <2> QED BY <2>1, <2>2, <2>3
<1> QED BY <1>4, <1>6 DEF SlotsApart

\* The free list, entry by entry.
LEMMA EntriesOfFreeList ==
  ASSUME NEW L, Sound(mem, L), AtHead(mem, L)
  PROVE  /\ FreeList(mem) \in Seq(L)
         /\ \A b \in L : \E i \in 1 .. Len(FreeList(mem)) : FreeList(mem)[i] = b
         /\ \A i \in 1 .. Len(FreeList(mem)) :
              mem.hdr[FreeList(mem)[i]].prev = IF i = 1 THEN NULL ELSE FreeList(mem)[i - 1]
         /\ \A i \in 1 .. Len(FreeList(mem)) - 1 :
              /\ mem.hdr[FreeList(mem)[i]].next # NULL
              /\ FreeList(mem)[i + 1] = mem.hdr[FreeList(mem)[i]].next
<1> DEFINE list == FreeList(mem)
<1>1. mem \in MemoryType /\ Graded(mem) /\ Chained(mem, L)
  BY DEF Sound
<1>2. CASE mem.memList = NULL
  <2>1. L = {} /\ list = << >>
    BY <1>1, <1>2, FreeListIs
  <2>2. list \in Seq(L) /\ Len(list) = 0
    BY <2>1
  <2> HIDE DEF list
  <2> QED BY <2>1, <2>2 DEF list
<1>3. CASE mem.memList # NULL
  <2>1. Lists(mem, L, mem.memList, list)
    BY <1>1, <1>3, FreeListIs
  <2>2. mem.memList \in L /\ mem.hdr[mem.memList].prev = NULL
    BY <1>3 DEF AtHead
  <2>3. \A b \in L : mem.memList <= b
    BY <2>2 DEF Sound, Chained
  <2> HIDE DEF list
  <2>4. /\ list \in Seq(L)
        /\ Len(list) > 0 /\ list[1] = mem.memList
        /\ \A i \in 1 .. Len(list) - 1 :
             mem.hdr[list[i]].next # NULL /\ list[i + 1] = mem.hdr[list[i]].next
        /\ \A b \in L : \E i \in 1 .. Len(list) : list[i] = b
    BY <2>1, <2>3 DEF Lists
  <2>5. ASSUME NEW i \in 1 .. Len(list)
        PROVE  mem.hdr[list[i]].prev = IF i = 1 THEN NULL ELSE list[i - 1]
    <3>1. CASE i = 1
      BY <2>2, <2>4, <3>1
    <3>2. CASE i # 1
      <4> DEFINE j == i - 1
      <4>1. j \in 1 .. Len(list) - 1 /\ j \in 1 .. Len(list) /\ j + 1 = i
        <5>1. Len(list) \in Nat
          BY <2>4
        <5> QED BY <5>1, <3>2
      <4> HIDE DEF j
      <4>2. list[j] \in L
        BY <2>4, <4>1, EntryOfSeq
      <4>3. mem.hdr[list[j]].next # NULL /\ list[i] = mem.hdr[list[j]].next
        BY <2>4, <4>1
      <4>4. mem.hdr[list[i]].prev = list[j]
        BY <4>2, <4>3 DEF Sound, Chained
      <4> QED BY <3>2, <4>4 DEF j
    <3> QED BY <3>1, <3>2
  <2> QED BY <2>4, <2>5 DEF list
<1> QED BY <1>2, <1>3

\* A slot of the list is not owned.
LEMMA ListedNotOwned ==
  ASSUME NEW L, Good(mem, L, live, dropped), NEW a \in L
  PROVE  a + MEM_HEADER_SIZE \notin DOMAIN live
<1>1. a \in DOMAIN mem.hdr /\ ~ mem.hdr[a].sanityCheck /\ a \in Nat
  <2>1. mem \in MemoryType /\ a \in DOMAIN mem.hdr
    BY DEF Good, Sound, Chained
  <2>2. ~ mem.hdr[a].sanityCheck
    BY <2>1 DEF Good, Sound, Outside
  <2> QED BY <2>1, <2>2, Fields
<1> DEFINE p == a + MEM_HEADER_SIZE
<1> SUFFICES ASSUME p \in DOMAIN live PROVE FALSE
  OBVIOUS
<1>2. p - MEM_HEADER_SIZE = a
  BY <1>1, Constants
<1> HIDE DEF p
<1>3. mem.hdr[p - MEM_HEADER_SIZE].sanityCheck
  BY DEF Good, Owners
<1> QED BY <1>1, <1>2, <1>3

\* The invariant implies that the free list is in order.
LEMMA OrderShown ==
  ASSUME MIInv, ~ torn
  PROVE  FreeListOrdered
<1> DEFINE list == FreeList(mem)
<1>1. PICK L \in SUBSET Nat : Good(mem, L, live, dropped)
  BY DEF MIInv, MemInv
<1>2. /\ Sound(mem, L) /\ AtHead(mem, L) /\ MergedBut(mem, L, {})
      /\ mem \in MemoryType /\ Laid(mem) /\ L \subseteq DOMAIN mem.hdr
  BY <1>1 DEF Good, Sound, Chained
<1>3. /\ list \in Seq(L)
      /\ \A i \in 1 .. Len(list) :
           mem.hdr[list[i]].prev = IF i = 1 THEN NULL ELSE list[i - 1]
      /\ \A i \in 1 .. Len(list) - 1 :
           mem.hdr[list[i]].next # NULL /\ list[i + 1] = mem.hdr[list[i]].next
  BY <1>2, EntriesOfFreeList
<1> HIDE DEF list
<1>4. ASSUME NEW i \in 1 .. Len(list)
      PROVE  list[i] + MEM_HEADER_SIZE \notin DOMAIN live
  <2>1. list[i] \in L
    BY <1>3, EntryOfSeq
  <2> QED BY <1>1, <2>1, ListedNotOwned
<1>5. ASSUME NEW i \in 1 .. Len(list) - 1
      PROVE  EndOf(mem, list[i]) < list[i + 1]
  <2>1. i \in 1 .. Len(list)
    BY <1>3
  <2>2. list[i] \in L
    BY <1>3, <2>1, EntryOfSeq
  <2>3. mem.hdr[list[i]].next # NULL /\ list[i + 1] = mem.hdr[list[i]].next
    BY <1>3, <1>5
  <2>4. End(mem, list[i]) < mem.hdr[list[i]].next
    BY <1>2, <2>2, <2>3 DEF MergedBut
  <2>5. EndOf(mem, list[i]) = End(mem, list[i])
    BY <1>2, <2>2, EndIs
  <2> QED BY <2>3, <2>4, <2>5
<1> QED BY <1>3, <1>4, <1>5 DEF FreeListOrdered, list

\* The last slot that begins at x or before it.
LEMMA SlotBefore ==
  ASSUME NEW m \in MemoryType, Laid(m), NEW x \in Nat,
         freemem <= x
  PROVE  \E a \in DOMAIN m.hdr : a <= x /\ \A b \in DOMAIN m.hdr : b <= x => b <= a
<1> DEFINE W == {a \in DOMAIN m.hdr : a <= x}
<1>1. W \subseteq 0 .. x
  BY Fields
<1>2. freemem \in W
  BY DEF Laid
<1> HIDE DEF W
<1>3. \E a \in W : \A b \in W : b <= a
  BY <1>1, <1>2, LargestExists
<1> QED BY <1>3 DEF W

\* The invariant implies that the slots cover the regions.
LEMMA Covered ==
  ASSUME MIInv, ~ torn
  PROVE  /\ Below \subseteq UNION {Cells(a) : a \in DOMAIN mem.hdr}
         /\ \A x \in Above : \/ x \in UNION {Cells(a) : a \in DOMAIN mem.hdr}
                             \/ maxaddr - x < GRAIN
<1>1. PICK L \in SUBSET Nat : Good(mem, L, live, dropped)
  BY DEF MIInv, MemInv
<1>2. mem \in MemoryType /\ Laid(mem) /\ DOMAIN mem.hdr \subseteq Nat
  BY <1>1, Fields DEF Good, Sound
<1>3. \A a \in DOMAIN mem.hdr :
        /\ a \in Nat /\ End(mem, a) \in Nat /\ a < End(mem, a) /\ EndOf(mem, a) = End(mem, a)
  BY <1>2, EndIs
<1>4. ASSUME NEW x \in Below \cup Above
      PROVE  \/ \E a \in DOMAIN mem.hdr : x \in Cells(a)
             \/ x \in Above /\ maxaddr - x < GRAIN
  <2>1. x \in Nat /\ freemem <= x
    BY Constants DEF Below, Above
  <2>2. PICK a \in DOMAIN mem.hdr : a <= x /\ \A b \in DOMAIN mem.hdr : b <= x => b <= a
    BY <1>2, <2>1, SlotBefore
  <2> DEFINE e == End(mem, a)
  <2>3. a \in Nat /\ e \in Nat /\ a < e /\ Cells(a) = a .. e - 1
    BY <1>3 DEF Cells
  <2>4. (freemem <= a /\ e <= HOLESTART) \/ (HOLEEND <= a /\ e <= maxaddr)
    BY <1>2 DEF Laid, Inside
  <2>5. e \in DOMAIN mem.hdr \/ e = HOLESTART \/ (HOLEEND <= a /\ maxaddr < e + GRAIN)
    BY <1>2 DEF Laid, Followed
  <2>6. HOLEEND <= x => HOLEEND <= a
    BY <1>2, <2>2 DEF Laid
  <2> HIDE DEF e
  <2>7. CASE x < e
    BY <2>1, <2>2, <2>3, <2>7
  <2>8. CASE e <= x
    <3>1. e \notin DOMAIN mem.hdr
      BY <2>2, <2>3, <2>8
    <3>2. e # HOLESTART
      <4> SUFFICES ASSUME e = HOLESTART PROVE FALSE
        OBVIOUS
      <4>1. x \in Above
        BY <2>1, <2>8, Constants DEF Below
      <4>2. HOLEEND <= x
        BY <4>1, Constants DEF Above
      <4> QED BY <2>3, <2>6, <4>2, Constants
    <3>3. HOLEEND <= a /\ maxaddr < e + GRAIN
      BY <2>5, <3>1, <3>2
    <3>4. x \in Above
      BY <2>1, <2>2, <2>3, <3>3, Constants DEF Below
    <3>5. maxaddr - x < GRAIN
      BY <2>1, <2>3, <2>8, <3>3, Constants
    <3> QED BY <3>4, <3>5
  <2> QED BY <2>1, <2>3, <2>7, <2>8
<1>5. ASSUME NEW x \in Below PROVE ~ (x \in Above)
  BY Constants DEF Below, Above
<1> QED BY <1>4, <1>5

\* The invariant implies that nothing is lost.
LEMMA NothingLostShown ==
  ASSUME MIInv, ~ torn
  PROVE  NothingLost
<1> DEFINE list == FreeList(mem)
<1> SUFFICES ASSUME ~ dropped
             PROVE  {a \in DOMAIN mem.hdr : a + MEM_HEADER_SIZE \notin DOMAIN live} = ToSet(list)
  BY Covered DEF NothingLost
<1>1. PICK L \in SUBSET Nat : Good(mem, L, live, dropped)
  BY DEF MIInv, MemInv
<1>2. Sound(mem, L) /\ AtHead(mem, L) /\ L \subseteq DOMAIN mem.hdr /\ Whole(mem, L)
  BY <1>1 DEF Good, Sound, Chained
<1>3. /\ list \in Seq(L)
      /\ \A b \in L : \E i \in 1 .. Len(list) : list[i] = b
  BY <1>2, EntriesOfFreeList
<1> HIDE DEF list
<1>4. ToSet(list) = L
  <2>1. DOMAIN list = 1 .. Len(list)
    BY <1>3
  <2>2. \A i \in 1 .. Len(list) : list[i] \in L
    BY <1>3, EntryOfSeq
  <2> QED BY <1>3, <2>1, <2>2 DEF ToSet
<1>5. \A a \in L : a + MEM_HEADER_SIZE \notin DOMAIN live
  BY <1>1, ListedNotOwned
<1>6. \A a \in DOMAIN mem.hdr : a \in L \/ a + MEM_HEADER_SIZE \in DOMAIN live
  BY <1>1, <1>2 DEF Good, Owners, Whole
<1> QED BY <1>2, <1>4, <1>5, <1>6
-----------------------------------------------------------------------------
\* One multiple only is less than a grain below z.
LEMMA MultUnique ==
  ASSUME NEW x \in Mult, NEW y \in Mult, NEW z \in Nat,
         x <= z, z < x + GRAIN, y <= z, z < y + GRAIN
  PROVE  x = y
<1>1. PICK c \in Nat : x = c * GRAIN
  BY DEF Mult
<1>2. PICK e \in Nat : y = e * GRAIN
  BY DEF Mult
<1>3. ASSUME NEW i \in Nat, NEW j \in Nat, i < j, j * GRAIN <= z, z < i * GRAIN + GRAIN
      PROVE  FALSE
  <2>1. (i + 1) * GRAIN <= j * GRAIN
    BY <1>3, Constants
  <2>2. (i + 1) * GRAIN = i * GRAIN + GRAIN
    BY Constants
  <2>3. i * GRAIN \in Nat /\ j * GRAIN \in Nat
    BY Constants
  <2> QED BY <1>3, <2>1, <2>2, <2>3, Constants
<1>4. c = e
  <2>1. ~ (c < e)
    BY <1>1, <1>2, <1>3
  <2>2. ~ (e < c)
    BY <1>1, <1>2, <1>3
  <2> QED BY <2>1, <2>2
<1> QED BY <1>1, <1>2, <1>4

\* When every slot is in the list and the list is merged, each region is one slot.
LEMMA RegionsWhole ==
  ASSUME NEW m, NEW L, Sound(m, L), MergedBut(m, L, {}), L = DOMAIN m.hdr
  PROVE  DOMAIN m.hdr = {freemem, HOLEEND}
<1> DEFINE D == DOMAIN m.hdr
<1>1. m \in MemoryType /\ Laid(m) /\ D \subseteq Nat
  BY Fields DEF Sound
<1>2. freemem \in D /\ HOLEEND \in D
  BY <1>1 DEF Laid
<1> SUFFICES ASSUME NEW a \in D, a # freemem, a # HOLEEND PROVE FALSE
  BY <1>2
<1> DEFINE x == a - 1
<1>3. a \in Nat /\ freemem < a
  <2>1. a \in Nat
    BY <1>1
  <2>2. freemem <= a
    BY <1>1, <2>1, Constants DEF Laid, Inside
  <2> QED BY <2>1, <2>2, Constants
<1>4. x \in Nat /\ freemem <= x /\ x < a /\ \A i \in Nat : i <= x <=> i < a
  BY <1>3, Constants
<1> HIDE DEF x
<1>5. PICK b \in D : b <= x /\ \A c \in D : c <= x => c <= b
  BY <1>1, <1>4, SlotBefore
<1>6. b \in Nat /\ b < a
  BY <1>1, <1>4, <1>5
<1> DEFINE q == m.hdr[b].next
           e == End(m, b)
           f == End(m, a)
<1>7. q = a
  <2>1. q # NULL
    <3> SUFFICES ASSUME q = NULL PROVE FALSE
      OBVIOUS
    <3>1. a <= b
      BY DEF Sound, Chained
    <3> QED BY <1>3, <1>6, <3>1
  <2>2. q \in D /\ b < q /\ (a <= b \/ q <= a)
    BY <2>1 DEF Sound, Chained, Graded
  <2>3. q \in Nat /\ q <= a
    BY <1>1, <1>3, <1>6, <2>2
  <2> HIDE DEF q
  <2>4. ~ (q < a)
    BY <1>4, <1>5, <1>6, <2>2, <2>3
  <2> QED BY <1>3, <2>3, <2>4
<1>8. e < a
  <2>1. a # NULL
    BY <1>3, Constants
  <2> QED BY <1>7, <2>1 DEF MergedBut
<1>9. e \in Nat /\ b < e /\ f \in Nat /\ f = a + MEM_HEADER_SIZE + m.hdr[a].size
      /\ m.hdr[a].size \in Nat
  BY <1>1, EndIs, Fields DEF End
<1>10. e \notin D
  BY <1>4, <1>5, <1>6, <1>8, <1>9
<1>11. e = HOLESTART \/ (HOLEEND <= b /\ maxaddr < e + GRAIN)
  BY <1>1, <1>10 DEF Laid, Followed
<1>12. (freemem <= b /\ e <= HOLESTART) \/ (HOLEEND <= b /\ e <= maxaddr)
  BY <1>1 DEF Laid, Inside
<1>13. (freemem <= a /\ f <= HOLESTART) \/ (HOLEEND <= a /\ f <= maxaddr)
  BY <1>1 DEF Laid, Inside
<1>14. HOLEEND < a => HOLEEND <= b
  BY <1>2, <1>4, <1>5, Constants
<1> HIDE DEF e, f, q, D
<1>15. MEM_HEADER_SIZE = GRAIN
  BY Machine
<1>16. CASE e = HOLESTART
  <2>1. HOLESTART < a
    BY <1>8, <1>16
  <2>2. HOLEEND <= a
    BY <1>3, <1>9, <1>13, <2>1, Constants
  <2>3. HOLEEND <= b
    BY <1>3, <1>14, <2>2, Constants
  <2> QED BY <1>6, <1>9, <1>16, <2>3, Constants
<1>17. CASE HOLEEND <= b /\ maxaddr < e + GRAIN
  <2>1. f <= maxaddr
    BY <1>3, <1>6, <1>9, <1>13, <1>17, Constants
  <2>2. e + GRAIN < f
    BY <1>3, <1>8, <1>9, <1>15, Constants
  <2> QED BY <1>9, <1>17, <2>1, <2>2, Constants
<1> QED BY <1>11, <1>16, <1>17

\* The invariant implies that the empty memory is as at boot.
LEMMA FreshShown ==
  ASSUME MIInv, ~ torn
  PROVE  FreshWhenEmpty
<1> SUFFICES ASSUME ~ dropped, DOMAIN live = {} PROVE mem = kmeminit
  BY DEF FreshWhenEmpty
<1> DEFINE m == mem
           D == DOMAIN m.hdr
           size1 == HOLESTART - (freemem + MEM_HEADER_SIZE)
           above == maxaddr - (HOLEEND + MEM_HEADER_SIZE)
           size2 == (above \div GRAIN) * GRAIN
           h1 == Header(size1, NULL, HOLEEND, FALSE)
           h2 == Header(size2, freemem, NULL, FALSE)
<1>1. PICK L \in SUBSET Nat : Good(m, L, live, dropped)
  BY DEF MIInv, MemInv
<1>2. /\ Sound(m, L) /\ AtHead(m, L) /\ MergedBut(m, L, {}) /\ Whole(m, L) /\ L \subseteq D
      /\ m \in MemoryType /\ Graded(m) /\ Laid(m)
  BY <1>1 DEF Good, Sound, Chained
<1>3. \A a \in D : ~ m.hdr[a].sanityCheck
  BY <1>1 DEF Good, Owners
<1>4. L = D
  BY <1>2, <1>3 DEF Whole
<1>5. D = {freemem, HOLEEND}
  BY <1>2, <1>4, RegionsWhole
<1>6. /\ freemem \in Nat /\ HOLEEND \in Nat /\ NULL \notin Nat /\ HOLESTART \in Nat
      /\ freemem < HOLESTART /\ HOLESTART < HOLEEND /\ freemem < HOLEEND
      /\ freemem # NULL /\ HOLEEND # NULL
  BY Constants
<1> HIDE DEF D, m
<1>7. \A a \in D : /\ m.hdr[a] \in Hdr /\ m.hdr[a].size \in Nat
                   /\ m.hdr[a].sanityCheck \in BOOLEAN
                   /\ m.hdr[a].prev \in Ptr /\ m.hdr[a].next \in Ptr
  BY <1>2, Fields DEF D
<1>8. m.hdr[freemem].next = HOLEEND /\ m.hdr[freemem].prev = NULL
  <2>1. m.hdr[freemem].next # NULL
    <3> SUFFICES ASSUME m.hdr[freemem].next = NULL PROVE FALSE
      OBVIOUS
    <3>1. HOLEEND <= freemem
      BY <1>2, <1>4, <1>5 DEF Sound, Chained
    <3> QED BY <1>6, <3>1
  <2>2. m.hdr[freemem].next \in D /\ freemem < m.hdr[freemem].next
    BY <1>2, <1>5, <2>1 DEF Graded, D
  <2>3. m.hdr[freemem].next = HOLEEND
    BY <1>5, <1>6, <2>2
  <2>4. m.hdr[freemem].prev = NULL
    <3> SUFFICES ASSUME m.hdr[freemem].prev # NULL PROVE FALSE
      OBVIOUS
    <3>1. m.hdr[freemem].prev \in D /\ m.hdr[freemem].prev < freemem
      BY <1>2, <1>5 DEF Graded, D
    <3> QED BY <1>5, <1>6, <3>1
  <2> QED BY <2>3, <2>4
<1>9. m.hdr[HOLEEND].next = NULL /\ m.hdr[HOLEEND].prev = freemem
  <2>1. m.hdr[HOLEEND].prev = freemem
    BY <1>2, <1>4, <1>5, <1>6, <1>8 DEF Sound, Chained
  <2>2. m.hdr[HOLEEND].next = NULL
    <3> SUFFICES ASSUME m.hdr[HOLEEND].next # NULL PROVE FALSE
      OBVIOUS
    <3>1. m.hdr[HOLEEND].next \in D /\ HOLEEND < m.hdr[HOLEEND].next
      BY <1>2, <1>5 DEF Graded, D
    <3> QED BY <1>5, <1>6, <3>1
  <2> QED BY <2>1, <2>2
<1>10. m.memList = freemem
  <2>1. m.memList \in D /\ m.hdr[m.memList].prev = NULL
    BY <1>2, <1>4, <1>5 DEF AtHead
  <2> QED BY <1>5, <1>6, <1>9, <2>1
<1>11. /\ End(m, freemem) = freemem + MEM_HEADER_SIZE + m.hdr[freemem].size
       /\ End(m, HOLEEND) = HOLEEND + MEM_HEADER_SIZE + m.hdr[HOLEEND].size
       /\ m.hdr[freemem].size \in Nat /\ m.hdr[HOLEEND].size \in Nat
  BY <1>5, <1>7 DEF End
<1>12. m.hdr[freemem].size = size1
  <2> DEFINE e == End(m, freemem)
  <2>1. e \in Nat /\ freemem < e
    BY <1>11, Constants
  <2>2. (freemem <= freemem /\ e <= HOLESTART) \/ (HOLEEND <= freemem /\ e <= maxaddr)
    BY <1>2, <1>5 DEF Laid, Inside, D
  <2>3. e \in D \/ e = HOLESTART \/ (HOLEEND <= freemem /\ maxaddr < e + GRAIN)
    BY <1>2, <1>5 DEF Laid, Followed, D
  <2> HIDE DEF e
  <2>4. e = HOLESTART
    BY <1>5, <1>6, <2>1, <2>2, <2>3
  <2> QED BY <1>11, <2>4, Constants DEF e
<1>13. m.hdr[HOLEEND].size = size2
  <2> DEFINE z == m.hdr[HOLEEND].size
             e == End(m, HOLEEND)
  <2>0. Graned(HOLEEND)
    BY <1>6 DEF Graned
  <2>1. z \in Mult /\ z \in Nat
    BY <1>2, <1>5, <1>11, <2>0 DEF Laid, D
  <2>2. (freemem <= HOLEEND /\ e <= HOLESTART) \/ (HOLEEND <= HOLEEND /\ e <= maxaddr)
    BY <1>2, <1>5 DEF Laid, Inside, D
  <2>3. e \in D \/ e = HOLESTART \/ (HOLEEND <= HOLEEND /\ maxaddr < e + GRAIN)
    BY <1>2, <1>5 DEF Laid, Followed, D
  <2>4. e = HOLEEND + MEM_HEADER_SIZE + z
    BY <1>11
  <2>5. above \in Nat
    BY Constants
  <2> HIDE DEF e, z
  <2>6. HOLEEND < e /\ e \in Nat
    BY <2>1, <2>4, Constants
  <2>7. e <= maxaddr /\ maxaddr < e + GRAIN
    BY <1>5, <1>6, <2>2, <2>3, <2>6
  <2>8. z <= above /\ above < z + GRAIN
    BY <2>1, <2>4, <2>7, Constants
  <2> HIDE DEF above
  <2>9. size2 \in Mult /\ size2 <= above /\ above < size2 + GRAIN
    BY <2>5, MultDiv
  <2> HIDE DEF size2
  <2>10. z = size2
    BY <2>1, <2>5, <2>8, <2>9, MultUnique
  <2> QED BY <2>10 DEF z
<1> HIDE DEF size1, size2
<1>14. m.hdr[freemem] = h1
  <2>1. m.hdr[freemem].sanityCheck = FALSE
    BY <1>3, <1>5, <1>7
  <2>2. m.hdr[freemem] \in Hdr
    BY <1>5, <1>7
  <2> QED BY <1>8, <1>12, <2>1, <2>2 DEF Hdr, Header
<1>15. m.hdr[HOLEEND] = h2
  <2>1. m.hdr[HOLEEND].sanityCheck = FALSE
    BY <1>3, <1>5, <1>7
  <2>2. m.hdr[HOLEEND] \in Hdr
    BY <1>5, <1>7
  <2> QED BY <1>9, <1>13, <2>1, <2>2 DEF Hdr, Header
<1>16. kmeminit = [memList |-> freemem,
                   hdr |-> [a \in {freemem, HOLEEND} |-> IF a = freemem THEN h1 ELSE h2]]
  BY DEF kmeminit, size1, size2
<1> HIDE DEF h1, h2
<1>17. m.hdr = [a \in {freemem, HOLEEND} |-> IF a = freemem THEN h1 ELSE h2]
  <2> DEFINE g == [a \in {freemem, HOLEEND} |-> IF a = freemem THEN h1 ELSE h2]
  <2>1. m.hdr \in [D -> Hdr]
    BY <1>2, Fields DEF D
  <2>2. \A a \in D : m.hdr[a] = g[a]
    BY <1>5, <1>6, <1>14, <1>15
  <2>3. DOMAIN g = D /\ g = [a \in D |-> g[a]]
    BY <1>5
  <2> HIDE DEF g
  <2>4. m.hdr = g
    BY <2>1, <2>2, <2>3
  <2> QED BY <2>4 DEF g
<1>18. m = [memList |-> m.memList, hdr |-> m.hdr]
  BY <1>2 DEF MemoryType
<1> QED BY <1>10, <1>16, <1>17, <1>18 DEF m
-----------------------------------------------------------------------------
\* The invariant implies that stacks have room and can be freed.
LEMMA RoomShown ==
  ASSUME MIInv, ~ torn
  PROVE  RoomForStack /\ OwnersCanFree
<1>1. PICK L \in SUBSET Nat : Good(mem, L, live, dropped)
  BY DEF MIInv, MemInv
<1>2. RoomForStack
  BY <1>1 DEF Good, Owners, RoomForStack, Fits
<1>3. OwnersCanFree
  BY OwnerAccepted DEF OwnersCanFree, MIInv
<1> QED BY <1>2, <1>3

(***************************************************************************)
(* StacksApart: no two slots share an address and none leaves its region,  *)
(* whatever kmalloc has split and kfree has merged, wherever the kernel    *)
(* ends, until a slot is torn.                                             *)
(***************************************************************************)
THEOREM StacksApart == ASpec => []SlotsApart
<1>1. MIInv => SlotsApart
  BY ApartShown DEF SlotsApart
<1> QED BY <1>1, MemoryInvariant, PTL

(***************************************************************************)
(* FreeListInOrder: the list kfree inserts into is doubly linked in the    *)
(* order of the addresses, without owned slots and without two that touch, *)
(* until a slot is torn.                                                   *)
(***************************************************************************)
THEOREM FreeListInOrder == ASpec => []FreeListOrdered
<1>1. MIInv => FreeListOrdered
  BY OrderShown DEF FreeListOrdered
<1> QED BY <1>1, MemoryInvariant, PTL

(***************************************************************************)
(* MemoryNotLost: until then, and until kmalloc has taken the last slot of *)
(* the list just, every slot is owned or can be found, and the slots cover *)
(* the regions.                                                            *)
(***************************************************************************)
THEOREM MemoryNotLost == ASpec => []NothingLost
<1>1. MIInv => NothingLost
  BY NothingLostShown DEF NothingLost
<1> QED BY <1>1, MemoryInvariant, PTL

(***************************************************************************)
(* MemoryMerged: until then, whatever stacks were allocated, and in        *)
(* whatever order they were freed, freeing the last of them leaves the     *)
(* memory as kmeminit did.                                                 *)
(***************************************************************************)
THEOREM MemoryMerged == ASpec => []FreshWhenEmpty
<1>1. MIInv => FreshWhenEmpty
  BY FreshShown DEF FreshWhenEmpty
<1> QED BY <1>1, MemoryInvariant, PTL

(***************************************************************************)
(* StacksFit: a stack never gets, and never keeps, less room than create   *)
(* asked for, unless rounding the size up wraps.                           *)
(***************************************************************************)
THEOREM StacksFit == ASpec => []RoomForStack
<1>1. MIInv => RoomForStack
  BY RoomShown DEF RoomForStack
<1> QED BY <1>1, MemoryInvariant, PTL

(***************************************************************************)
(* OwnersAccepted: kfree accepts every address that was given out, so      *)
(* cleanup never loses a stack to a refusal it does not look at.           *)
(***************************************************************************)
THEOREM OwnersAccepted == ASpec => []OwnersCanFree
<1>1. MIInv => OwnersCanFree
  BY RoomShown DEF OwnersCanFree
<1> QED BY <1>1, MemoryInvariant, PTL

(***************************************************************************)
(* WholeGrainsNotTorn: when the kernel ends at a whole number of grains    *)
(* from the hole, kmalloc never tears a slot, so that the others hold      *)
(* without that condition.                                                 *)
(***************************************************************************)
THEOREM WholeGrainsNotTorn ==
  ASSUME (HOLESTART - freemem) % GRAIN = 0
  PROVE  ASpec => [](~ torn)
<1>1. MIInv => ~ torn
  BY DEF MIInv, WholeLower
<1> QED BY <1>1, MemoryInvariant, PTL
=============================================================================
